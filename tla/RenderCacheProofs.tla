------------------------- MODULE RenderCacheProofs -------------------------
(***************************************************************************)
(* Proofs about the pixel cache and the list of tiles, for any pages,      *)
(* windows, views, tile and raster sizes and any number of jobs: the       *)
(* account of the bytes, what an arrival may evict, and that the tiles     *)
(* asked for cover what can be seen.                                       *)
(***************************************************************************)
EXTENDS RenderCache, TLAPS, FiniteSetTheorems, FunctionTheorems

-----------------------------------------------------------------------------
(* Numbers *)

\* The larger and the smaller of two numbers.
LEMMA TwoIs ==
  ASSUME NEW a \in Int, NEW b \in Int
  PROVE  /\ Max({a, b}) \in Int /\ Max({a, b}) = IF a >= b THEN a ELSE b
         /\ Min({a, b}) \in Int /\ Min({a, b}) = IF a <= b THEN a ELSE b
<1>1. Max({a, b}) = IF a >= b THEN a ELSE b
  BY DEF Max
<1>2. Min({a, b}) = IF a <= b THEN a ELSE b
  BY DEF Min
<1>3. QED
  BY <1>1, <1>2

\* A quotient and its rest.
LEMMA DivIs ==
  ASSUME NEW a \in Int, NEW b \in Nat \ {0}
  PROVE  a \div b \in Int /\ (a \div b) * b <= a /\ a < (a \div b) * b + b
OBVIOUS

\* Products keep an order and give it back.
LEMMA TimesGrows ==
  ASSUME NEW a \in Int, NEW b \in Int, NEW c \in Nat
  PROVE  a * c \in Int /\ b * c \in Int /\ (a <= b => a * c <= b * c)
<1>1. a * c \in Int /\ b * c \in Int
  OBVIOUS
<1>2. a <= b => (b - a) * c >= 0
  OBVIOUS
<1>3. (b - a) * c = b * c - a * c
  OBVIOUS
<1>4. QED
  BY <1>1, <1>2, <1>3

LEMMA TimesCancels ==
  ASSUME NEW a \in Int, NEW b \in Int, NEW c \in Nat \ {0}, a * c < b * c
  PROVE  a < b
BY TimesGrows

\* A quotient of natural numbers.
LEMMA DivNatural ==
  ASSUME NEW a \in Nat, NEW b \in Nat \ {0}
  PROVE  a \div b \in Nat
<1>1. a \div b \in Int /\ a < (a \div b + 1) * b
  BY DivIs
<1>2. 0 * b < (a \div b + 1) * b
  BY <1>1
<1>3. 0 < a \div b + 1
  BY <1>1, <1>2, TimesCancels
<1>4. QED
  BY <1>1, <1>3

\* Division rounding up.
LEMMA CeilIs ==
  ASSUME NEW a \in Nat, NEW b \in Nat \ {0}
  PROVE  /\ CeilDiv(a, b) \in Nat /\ a <= CeilDiv(a, b) * b
         /\ \A q \in Int : q < CeilDiv(a, b) => q * b < a
<1> DEFINE c == CeilDiv(a, b)
<1>1. a + b - 1 \in Nat
  OBVIOUS
<1>2. c \in Nat /\ c * b <= a + b - 1 /\ a + b - 1 < c * b + b
  BY <1>1, DivIs, DivNatural DEF CeilDiv
<1> HIDE DEF c
<1>3. c * b \in Int
  BY <1>2
<1>4. a <= c * b
  BY <1>2, <1>3
<1>5. ASSUME NEW q \in Int, q < c PROVE q * b < a
  <2>1. (q + 1) * b <= c * b
    BY <1>2, <1>5, TimesGrows
  <2>2. (q + 1) * b = q * b + b /\ q * b \in Int
    OBVIOUS
  <2>3. QED
    BY <2>1, <2>2, <1>2, <1>3
<1>6. QED
  BY <1>2, <1>4, <1>5 DEF c

\* The first numbers are as many as the last of them says.
LEMMA FirstOnes ==
  ASSUME NEW n \in Nat
  PROVE  IsFiniteSet(1..n) /\ Cardinality(1..n) = n
BY FS_Interval

\* Powers of two: natural, at least one, growing.
LEMMA PowerIs ==
  ASSUME NEW l \in Nat
  PROVE  2^l \in Nat \ {0} /\ \A m \in Nat : l <= m => 2^l <= 2^m
<1>1. \A m \in Nat : /\ IsFiniteSet(1..m) /\ Cardinality(1..m) = m
                    /\ IsFiniteSet(SUBSET (1..m)) /\ Cardinality(SUBSET (1..m)) = 2^m
  <2>1. ASSUME NEW m \in Nat
        PROVE  /\ IsFiniteSet(1..m) /\ Cardinality(1..m) = m
               /\ IsFiniteSet(SUBSET (1..m)) /\ Cardinality(SUBSET (1..m)) = 2^m
    <3>1. IsFiniteSet(1..m) /\ Cardinality(1..m) = m
      BY FS_Interval
    <3>2. IsFiniteSet(SUBSET (1..m)) /\ Cardinality(SUBSET (1..m)) = 2^Cardinality(1..m)
      BY <3>1, FS_SUBSET
    <3>3. QED
      BY <3>1, <3>2
  <2>2. QED
    BY <2>1
<1>2. 2^l \in Nat
  BY <1>1, FS_CardinalityType
<1>3. 2^l # 0
  <2>1. SUBSET (1..l) # {}
    OBVIOUS
  <2>2. QED
    BY <2>1, <1>1, FS_EmptySet
<1>4. ASSUME NEW m \in Nat, l <= m PROVE 2^l <= 2^m
  <2>1. SUBSET (1..l) \in SUBSET SUBSET (1..m)
    <3>1. 1..l \subseteq 1..m
      BY <1>4
    <3>2. QED
      BY <3>1
  <2>2. Cardinality(SUBSET (1..l)) <= Cardinality(SUBSET (1..m))
    BY <2>1, <1>1, FS_Subset
  <2>3. QED
    BY <2>2, <1>1
<1>5. QED
  BY <1>2, <1>3, <1>4

-----------------------------------------------------------------------------
(* Ranking: in a finite set with a strict order each rank is taken once *)

Below(T, B, k) == {l \in T : <<l, k>> \in B}

StrictOrder(T, B) ==
  /\ \A k \in T : <<k, k>> \notin B
  /\ \A k, l, m \in T : <<k, l>> \in B /\ <<l, m>> \in B => <<k, m>> \in B
  /\ \A k, l \in T : k = l \/ <<k, l>> \in B \/ <<l, k>> \in B

Ranked(T, B) ==
  /\ \A k \in T : Cardinality(Below(T, B, k)) \in 0..(Cardinality(T) - 1)
  /\ \A k, l \in T : Cardinality(Below(T, B, k)) = Cardinality(Below(T, B, l)) => k = l
  /\ \A i \in 0..(Cardinality(T) - 1) : \E k \in T : Cardinality(Below(T, B, k)) = i

\* The rank of a member is the number of those below it.
LEMMA RankingIs ==
  ASSUME NEW T, IsFiniteSet(T), NEW B, StrictOrder(T, B)
  PROVE  Cardinality(T) \in Nat /\ Ranked(T, B)
<1> DEFINE n == Cardinality(T)
           r == [k \in T |-> Cardinality(Below(T, B, k))]
<1>1. n \in Nat
  BY FS_CardinalityType
<1>2. ASSUME NEW k \in T
      PROVE  /\ Below(T, B, k) \in SUBSET T /\ k \notin Below(T, B, k)
             /\ IsFiniteSet(Below(T, B, k)) /\ r[k] \in Nat
  <2>1. Below(T, B, k) \in SUBSET T /\ k \notin Below(T, B, k)
    BY DEF Below, StrictOrder
  <2>2. IsFiniteSet(Below(T, B, k))
    BY <2>1, FS_Subset
  <2>3. QED
    BY <2>1, <2>2, FS_CardinalityType
<1>3. ASSUME NEW k \in T PROVE r[k] \in 0..(n - 1)
  <2> DEFINE U == T \ {k}
  <2>1. IsFiniteSet(U) /\ Cardinality(U) = n - 1
    BY FS_RemoveElement
  <2>2. Below(T, B, k) \in SUBSET U
    BY <1>2
  <2>3. Cardinality(Below(T, B, k)) <= Cardinality(U)
    BY <2>1, <2>2, FS_Subset
  <2>4. QED
    BY <1>1, <1>2, <2>1, <2>3
<1>4. ASSUME NEW k \in T, NEW l \in T, <<k, l>> \in B PROVE r[k] < r[l]
  <2> DEFINE U == Below(T, B, l) \ {k}
  <2>1. k \in Below(T, B, l)
    BY <1>4 DEF Below
  <2>2. IsFiniteSet(U) /\ Cardinality(U) = Cardinality(Below(T, B, l)) - 1
    BY <2>1, <1>2, FS_RemoveElement
  <2>3. Below(T, B, k) \in SUBSET U
    <3>1. ASSUME NEW m \in T, <<m, k>> \in B PROVE <<m, l>> \in B /\ m # k
      BY <3>1, <1>4 DEF StrictOrder
    <3>2. QED
      BY <3>1 DEF Below
  <2>4. Cardinality(Below(T, B, k)) <= Cardinality(U)
    BY <2>2, <2>3, FS_Subset
  <2>5. r[k] \in Nat /\ r[l] \in Nat /\ r[k] <= r[l] - 1
    BY <1>2, <2>2, <2>4
  <2>6. QED
    BY <2>5
<1>5. ASSUME NEW k \in T, NEW l \in T, r[k] = r[l] PROVE k = l
  <2>1. r[k] \in Nat /\ r[l] \in Nat
    BY <1>2
  <2>2. k = l \/ <<k, l>> \in B \/ <<l, k>> \in B
    BY DEF StrictOrder
  <2>3. (<<k, l>> \in B => r[k] < r[l]) /\ (<<l, k>> \in B => r[l] < r[k])
    BY <1>4
  <2>4. QED
    BY <1>5, <2>1, <2>2, <2>3
<1>6. \A i \in 0..(n - 1) : \E k \in T : r[k] = i
  <2> DEFINE R == 0..(n - 1)
  <2>1. r \in [T -> R]
    BY <1>3
  <2>2. IsFiniteSet(R) /\ Cardinality(R) = n
    BY <1>1, FS_Interval
  <2> HIDE DEF r, R
  <2>3. r \in Injection(T, R)
    BY <2>1, <1>5, Fun_IsInj
  <2>4. r \in Surjection(T, R)
    BY <2>2, <2>3, FS_Injection
  <2>5. \A i \in R : \E k \in T : r[k] = i
    BY <2>4 DEF Surjection
  <2>6. QED
    BY <2>5 DEF R
<1>7. QED
  BY <1>1, <1>3, <1>5, <1>6 DEF Ranked

\* A finite set of integers has a greatest and a least member.
LEMMA GreatestIs ==
  ASSUME NEW S \in SUBSET Int, IsFiniteSet(S), S # {}
  PROVE  Max(S) \in S /\ \A i \in S : i <= Max(S)
<1> DEFINE B == {b \in S \X S : b[1] < b[2]}
           n == Cardinality(S)
<1>1. \A i, j \in S : <<i, j>> \in B <=> i < j
  OBVIOUS
<1> HIDE DEF B
<1>2. StrictOrder(S, B)
  BY <1>1 DEF StrictOrder
<1>3. n \in Nat /\ Ranked(S, B) /\ n # 0
  BY <1>2, RankingIs, FS_EmptySet
<1>4. PICK m \in S : Cardinality(Below(S, B, m)) = n - 1
  BY <1>3 DEF Ranked
<1>5. ASSUME NEW i \in S PROVE i <= m
  <2> DEFINE U == S \ {m}
  <2>1. IsFiniteSet(U) /\ Cardinality(U) = n - 1
    BY FS_RemoveElement
  <2>2. Below(S, B, m) \in SUBSET U
    BY <1>2 DEF Below, StrictOrder
  <2>3. Below(S, B, m) = U
    BY <2>1, <2>2, <1>4, FS_Subset
  <2>4. i = m \/ <<i, m>> \in B
    BY <2>3 DEF Below
  <2>5. QED
    BY <2>4, <1>1
<1>6. QED
  BY <1>5 DEF Max

LEMMA LeastIs ==
  ASSUME NEW S \in SUBSET Int, IsFiniteSet(S), S # {}
  PROVE  Min(S) \in S /\ \A i \in S : Min(S) <= i
<1> DEFINE B == {b \in S \X S : b[1] < b[2]}
           n == Cardinality(S)
<1>1. \A i, j \in S : <<i, j>> \in B <=> i < j
  OBVIOUS
<1> HIDE DEF B
<1>2. StrictOrder(S, B)
  BY <1>1 DEF StrictOrder
<1>3. n \in Nat /\ Ranked(S, B) /\ n # 0
  BY <1>2, RankingIs, FS_EmptySet
<1>4. PICK m \in S : Cardinality(Below(S, B, m)) = 0
  BY <1>3 DEF Ranked
<1>5. Below(S, B, m) = {}
  <2>1. Below(S, B, m) \in SUBSET S
    BY DEF Below
  <2>2. IsFiniteSet(Below(S, B, m))
    BY <2>1, FS_Subset
  <2>3. QED
    BY <2>2, <1>4, FS_EmptySet
<1>6. ASSUME NEW i \in S PROVE m <= i
  <2>1. <<i, m>> \notin B
    BY <1>5 DEF Below
  <2>2. ~(i < m)
    BY <2>1, <1>1
  <2>3. QED
    BY <2>2
<1>7. QED
  BY <1>6 DEF Min

-----------------------------------------------------------------------------
(* Rasters *)

\* The assumption in the form the proofs use it.
LEMMA Sizes ==
  /\ TILE \in Nat \ {0} /\ PREVIEW_EDGE \in 1..TILE /\ BASE_EDGE \in Nat \ {0}
  /\ MAX_LEVEL \in Nat /\ MAX_JOBS \in Nat \ {0} /\ Density \in Nat \ {0}
  /\ MaxReply \in Nat \ {0} /\ Budget \in Nat
BY TilesAssumption DEF MaxReply, Budget

\* The edges of the levels grow.
LEMMA EdgeIs ==
  ASSUME NEW l \in 0..MAX_LEVEL
  PROVE  Edge(l) \in Nat \ {0} /\ Edge(l) <= Edge(MAX_LEVEL) /\ Edge(MAX_LEVEL) \in Nat
<1>1. l \in Nat /\ MAX_LEVEL \in Nat /\ l <= MAX_LEVEL /\ BASE_EDGE \in Nat \ {0}
  BY Sizes
<1>2. 2^l \in Nat \ {0} /\ 2^MAX_LEVEL \in Nat \ {0} /\ 2^l <= 2^MAX_LEVEL
  BY <1>1, PowerIs
<1>3. Edge(l) = BASE_EDGE * 2^l /\ Edge(MAX_LEVEL) = BASE_EDGE * 2^MAX_LEVEL
  BY <1>1 DEF Edge
<1> DEFINE a == 2^l
           b == 2^MAX_LEVEL
<1> HIDE DEF a, b
<1>4. a \in Nat \ {0} /\ b \in Nat \ {0} /\ a <= b
      /\ Edge(l) = BASE_EDGE * a /\ Edge(MAX_LEVEL) = BASE_EDGE * b
  BY <1>2, <1>3 DEF a, b
<1>5. a * BASE_EDGE <= b * BASE_EDGE
  BY <1>1, <1>4, TimesGrows
<1>6. BASE_EDGE * a \in Nat \ {0} /\ BASE_EDGE * b \in Nat
  BY <1>1, <1>4
<1>7. QED
  BY <1>1, <1>4, <1>5, <1>6

LEMMA PreviewEdgeIs ==
  Edge(-1) = PREVIEW_EDGE
BY DEF Edge

\* A raster has a pixel at least each way, and its edge at most.
LEMMA RasterIs ==
  ASSUME NEW page \in Pages, NEW edge \in Nat \ {0}, NEW d \in Axes
  PROVE  RasterSize(page, edge)[d] \in 1..edge
<1> DEFINE e == Extent[page]
           long == Max({e[1], e[2]})
           a == e[d]
           q == (2 * a * edge + long) \div (2 * long)
<1>1. e[1] \in Nat \ {0} /\ e[2] \in Nat \ {0} /\ (d = 1 \/ d = 2)
  BY TilesAssumption DEF Axes
<1>2. long \in Nat \ {0} /\ a \in Nat \ {0} /\ a <= long
  BY <1>1, TwoIs
<1>3. RasterSize(page, edge)[d] = Max({q, 1})
  BY DEF RasterSize, Axes
<1> HIDE DEF long, a
<1>4. 2 * a * edge + long \in Nat /\ 2 * long \in Nat \ {0}
  BY <1>2
<1>5. q \in Nat /\ q * (2 * long) <= 2 * a * edge + long
  BY <1>4, DivIs, DivNatural
<1> HIDE DEF q
<1>6. q <= edge
  <2>1. a * edge <= long * edge /\ a * edge \in Int /\ long * edge \in Int
    BY <1>2, TimesGrows
  <2>2. q * (2 * long) < (edge + 1) * (2 * long)
    <3>1. (edge + 1) * (2 * long) = 2 * (long * edge) + 2 * long
      BY <1>2
    <3>2. 2 * a * edge = 2 * (a * edge)
      BY <1>2
    <3>3. q * (2 * long) \in Int
      BY <1>2, <1>5
    <3>4. QED
      BY <1>2, <1>5, <2>1, <3>1, <3>2, <3>3
  <2>3. q < edge + 1
    BY <1>4, <1>5, <2>2, TimesCancels
  <2>4. QED
    BY <1>5, <2>3
<1>7. Max({q, 1}) = IF q >= 1 THEN q ELSE 1
  BY <1>5, TwoIs
<1>8. QED
  BY <1>3, <1>5, <1>6, <1>7

\* A key of a page at one of its levels, or its preview.
KeyAt(k) ==
  /\ k.page \in Pages /\ k.level \in {-1} \cup (0..MAX_LEVEL)
  /\ k.col \in Nat /\ k.row \in Nat /\ TileInPage(k)
  /\ k.level = -1 => k.col = 0 /\ k.row = 0

\* The raster of a key.
LEMMA KeyRaster ==
  ASSUME NEW k, KeyAt(k), NEW d \in Axes
  PROVE  /\ Edge(k.level) \in Nat \ {0}
         /\ RasterSize(k.page, Edge(k.level))[d] \in 1..Edge(k.level)
<1>1. Edge(k.level) \in Nat \ {0}
  <2>1. CASE k.level = -1
    BY <2>1, PreviewEdgeIs, Sizes
  <2>2. CASE k.level \in 0..MAX_LEVEL
    BY <2>2, EdgeIs
  <2>3. QED
    BY <2>1, <2>2 DEF KeyAt
<1>2. QED
  BY <1>1, RasterIs DEF KeyAt

\* The worker's answer to a key: some of its pixels, a tile's at most, inside it.
LEMMA RenderIs ==
  ASSUME NEW k, KeyAt(k), NEW d \in Axes
  PROVE  /\ Render(k).full[d] = RasterSize(k.page, Edge(k.level))[d]
         /\ Render(k).origin[d] = (IF d = 1 THEN k.col ELSE k.row) * TILE
         /\ Render(k).origin[d] \in Nat
         /\ Render(k).origin[d] < Render(k).full[d]
         /\ Render(k).size[d] = IF Render(k).full[d] - Render(k).origin[d] <= TILE
                                THEN Render(k).full[d] - Render(k).origin[d] ELSE TILE
         /\ Render(k).size[d] \in 1..TILE
<1> DEFINE s == RasterSize(k.page, Edge(k.level))
           i == IF d = 1 THEN k.col ELSE k.row
           at == <<k.col * TILE, k.row * TILE>>
           h == Render(k)
<1>1. s[d] \in 1..Edge(k.level) /\ Edge(k.level) \in Nat
  BY KeyRaster
<1>2. h.full = s /\ h.origin = at /\ h.size[d] = Min({s[d] - at[d], TILE})
  BY DEF Render
<1>3. at[d] = i * TILE /\ i \in Nat
  BY DEF Axes, KeyAt
<1>4. i * TILE < s[d]
  BY DEF TileInPage, KeyAt, Axes
<1> HIDE DEF h, at, s, i
<1>5. i * TILE \in Nat
  BY <1>3, Sizes
<1>6. h.size[d] = IF s[d] - at[d] <= TILE THEN s[d] - at[d] ELSE TILE
  <2> DEFINE g == s[d] - at[d]
  <2>1. g \in Int /\ TILE \in Int /\ h.size[d] = Min({g, TILE})
    BY <1>1, <1>2, <1>3, <1>5, Sizes
  <2> HIDE DEF g
  <2>2. h.size[d] = IF g <= TILE THEN g ELSE TILE
    BY <2>1, TwoIs
  <2>3. QED
    BY <2>2 DEF g
<1>7. h.size[d] \in 1..TILE
  BY <1>1, <1>3, <1>4, <1>5, <1>6, Sizes
<1>8. QED
  BY <1>1, <1>2, <1>3, <1>4, <1>5, <1>6, <1>7 DEF h, s, i

\* The keys are those.
LEMMA KeysAre ==
  /\ \A k \in Keys : KeyAt(k)
  /\ \A p \in Pages : Preview(p) \in Keys
  /\ \A p \in Pages, l \in 0..MAX_LEVEL, c \in Nat, r \in Nat :
       TileInPage(Key(p, l, c, r)) => Key(p, l, c, r) \in Keys
<1>1. ASSUME NEW p \in Pages PROVE KeyAt(Preview(p)) /\ Preview(p) \in Keys
  <2> DEFINE k == Preview(p)
  <2>1. k.page = p /\ k.level = -1 /\ k.col = 0 /\ k.row = 0
    BY DEF Preview, Key
  <2>2. \A d \in Axes : RasterSize(p, Edge(-1))[d] \in 1..PREVIEW_EDGE
    BY RasterIs, PreviewEdgeIs, Sizes
  <2> HIDE DEF k
  <2>3. TileInPage(k)
    <3>1. 0 * TILE = 0
      BY Sizes
    <3>2. 1 \in Axes /\ 2 \in Axes
      BY DEF Axes
    <3>3. QED
      BY <2>1, <2>2, <3>1, <3>2, Sizes DEF TileInPage
  <2>4. KeyAt(k)
    BY <2>1, <2>3 DEF KeyAt
  <2>5. QED
    BY <2>4 DEF Keys, k
<1>2. ASSUME NEW p \in Pages, NEW l \in 0..MAX_LEVEL, NEW c \in Nat, NEW r \in Nat
      PROVE  /\ TileInPage(Key(p, l, c, r)) => KeyAt(Key(p, l, c, r))
             /\ TileInPage(Key(p, l, c, r)) =>
                  c \in 0..CeilDiv(Edge(l), TILE) /\ r \in 0..CeilDiv(Edge(l), TILE)
  <2> SUFFICES ASSUME TileInPage(Key(p, l, c, r))
               PROVE  /\ KeyAt(Key(p, l, c, r))
                      /\ c \in 0..CeilDiv(Edge(l), TILE) /\ r \in 0..CeilDiv(Edge(l), TILE)
    OBVIOUS
  <2> DEFINE k == Key(p, l, c, r)
             q == CeilDiv(Edge(l), TILE)
  <2>1. k.page = p /\ k.level = l /\ k.col = c /\ k.row = r /\ l # -1
    BY Sizes DEF Key
  <2> HIDE DEF k
  <2>2. KeyAt(k)
    BY <2>1 DEF KeyAt, k
  <2>3. Edge(l) \in Nat /\ \A d \in Axes : RasterSize(p, Edge(l))[d] \in 1..Edge(l)
    BY EdgeIs, RasterIs
  <2>4. c * TILE < Edge(l) /\ r * TILE < Edge(l)
    <3>1. c * TILE < RasterSize(p, Edge(l))[1] /\ r * TILE < RasterSize(p, Edge(l))[2]
      BY <2>1 DEF TileInPage, k
    <3>2. c * TILE \in Int /\ r * TILE \in Int /\ 1 \in Axes /\ 2 \in Axes
      BY Sizes DEF Axes
    <3>3. QED
      BY <2>3, <3>1, <3>2
  <2>5. q \in Nat /\ Edge(l) <= q * TILE
    BY <2>3, CeilIs, Sizes
  <2> HIDE DEF q
  <2>6. c * TILE < q * TILE /\ r * TILE < q * TILE
    BY <2>3, <2>4, <2>5, Sizes
  <2>7. c < q /\ r < q
    BY <2>5, <2>6, Sizes, TimesCancels
  <2>8. c \in 0..q /\ r \in 0..q
    BY <2>5, <2>7
  <2>9. QED
    BY <2>2, <2>8 DEF k, q
<1>3. ASSUME NEW p \in Pages, NEW l \in 0..MAX_LEVEL, NEW c \in Nat, NEW r \in Nat,
             TileInPage(Key(p, l, c, r))
      PROVE  Key(p, l, c, r) \in Keys
  <2> DEFINE C == 0..CeilDiv(Edge(l), TILE)
             S == {k \in {Key(p, l, i, j) : i \in C, j \in C} : TileInPage(k)}
  <2>1. c \in C /\ r \in C
    BY <1>2, <1>3
  <2>2. Key(p, l, c, r) \in S
    BY <2>1, <1>3
  <2>3. S \in {{k \in {Key(q, m, i, j) : i \in 0..CeilDiv(Edge(m), TILE),
                                      j \in 0..CeilDiv(Edge(m), TILE)} : TileInPage(k)} :
               q \in Pages, m \in 0..MAX_LEVEL}
    OBVIOUS
  <2> HIDE DEF S
  <2>4. QED
    BY <2>2, <2>3 DEF Keys
<1>4. ASSUME NEW k \in Keys PROVE KeyAt(k)
  <2>1. CASE \E p \in Pages : k = Preview(p)
    BY <2>1, <1>1
  <2>2. CASE \E p \in Pages, l \in 0..MAX_LEVEL, c \in Nat, r \in Nat :
               k = Key(p, l, c, r) /\ TileInPage(k)
    BY <2>2, <1>2
  <2>3. \A l \in 0..MAX_LEVEL : 0..CeilDiv(Edge(l), TILE) \subseteq Nat
    OBVIOUS
  <2>4. QED
    BY <2>1, <2>2, <2>3 DEF Keys
<1>5. QED
  BY <1>1, <1>3, <1>4

\* The bytes of a value: at least one, an answer's at most.
LEMMA SizeIs ==
  ASSUME NEW k \in Keys
  PROVE  Size[k] \in 1..MaxReply
<1> DEFINE a == Render(k).size[1]
           b == Render(k).size[2]
<1>1. KeyAt(k) /\ 1 \in Axes /\ 2 \in Axes
  BY KeysAre DEF Axes
<1>2. a \in 1..TILE /\ b \in 1..TILE
  BY <1>1, RenderIs
<1>3. Size[k] = a * b
  BY DEF Size
<1> HIDE DEF a, b
<1>4. a * b <= TILE * b /\ b * TILE <= TILE * TILE /\ TILE * b = b * TILE
  BY <1>2, Sizes, TimesGrows
<1>5. a * b \in Int /\ b * TILE \in Int /\ TILE * TILE \in Int /\ 1 * b <= a * b
  BY <1>2, Sizes, TimesGrows
<1>6. a * b <= TILE * TILE /\ a * b >= 1
  BY <1>2, <1>4, <1>5
<1>7. QED
  BY <1>3, <1>5, <1>6 DEF MaxReply

-----------------------------------------------------------------------------
(* Bytes *)

\* The bytes of some keys, each with the key it belongs to.
Held(K) == {b \in K \X (1..MaxReply) : b[2] <= Size[b[1]]}

\* Finitely many keys have finitely many bytes.
LEMMA BytesOf ==
  ASSUME NEW K, IsFiniteSet(K)
  PROVE  /\ IsFiniteSet(Held(K)) /\ Bytes(K) = Cardinality(Held(K)) /\ Bytes(K) \in Nat
         /\ Bytes(K) <= Cardinality(K) * MaxReply
<1> DEFINE R == 1..MaxReply
           P == K \X R
<1>1. MaxReply \in Nat \ {0}
  BY Sizes
<1>2. IsFiniteSet(R) /\ Cardinality(R) = MaxReply
  BY <1>1, FS_Interval
<1>3. IsFiniteSet(P) /\ Cardinality(P) = Cardinality(K) * MaxReply
  BY <1>2, FS_Product
<1>4. Held(K) \in SUBSET P
  BY DEF Held
<1> HIDE DEF P, R
<1>5. IsFiniteSet(Held(K)) /\ Cardinality(Held(K)) <= Cardinality(P)
  BY <1>3, <1>4, FS_Subset
<1>6. Bytes(K) = Cardinality(Held(K))
  BY DEF Bytes, Held
<1>7. QED
  BY <1>3, <1>5, <1>6, FS_CardinalityType

\* More keys have no fewer bytes, and without one of them those of the rest.
LEMMA BytesSplit ==
  ASSUME NEW K, IsFiniteSet(K), NEW L \in SUBSET K
  PROVE  /\ IsFiniteSet(L) /\ IsFiniteSet(K \ L)
         /\ Bytes(K) = Bytes(L) + Bytes(K \ L)
         /\ Bytes(L) \in Nat /\ Bytes(K \ L) \in Nat
<1>1. IsFiniteSet(L) /\ IsFiniteSet(K \ L)
  BY FS_Subset
<1>2. Held(K) = Held(L) \cup Held(K \ L)
  BY DEF Held
<1>3. Held(L) \cap Held(K \ L) = {}
  BY DEF Held
<1>4. /\ IsFiniteSet(Held(L)) /\ IsFiniteSet(Held(K \ L))
      /\ Bytes(L) = Cardinality(Held(L)) /\ Bytes(K \ L) = Cardinality(Held(K \ L))
      /\ Bytes(L) \in Nat /\ Bytes(K \ L) \in Nat /\ Bytes(K) = Cardinality(Held(K))
  BY <1>1, BytesOf
<1>5. Cardinality(Held(K)) = Cardinality(Held(L)) + Cardinality(Held(K \ L)) - Cardinality({})
  BY <1>2, <1>3, <1>4, FS_Union
<1>6. QED
  BY <1>1, <1>4, <1>5, FS_EmptySet

\* The bytes of one key are its size, those of none are none.
LEMMA BytesOne ==
  /\ Bytes({}) = 0
  /\ \A k \in Keys : IsFiniteSet({k}) /\ Bytes({k}) = Size[k]
<1>1. Bytes({}) = 0
  <2>1. Held({}) = {}
    BY DEF Held
  <2>2. QED
    BY <2>1, BytesOf, FS_EmptySet
<1>2. ASSUME NEW k \in Keys PROVE IsFiniteSet({k}) /\ Bytes({k}) = Size[k]
  <2> DEFINE n == Size[k]
             R == 1..n
             f == [i \in R |-> <<k, i>>]
             K == {k}
  <2>1. IsFiniteSet(K) /\ Bytes(K) = Cardinality(Held(K))
    BY FS_Singleton, BytesOf
  <2>2. n \in Nat /\ n <= MaxReply /\ MaxReply \in Nat
    <3>1. n \in 1..MaxReply
      BY SizeIs
    <3> HIDE DEF n
    <3>2. QED
      BY <3>1, Sizes
  <2>3. IsFiniteSet(R) /\ Cardinality(R) = n
    BY <2>2, FirstOnes
  <2>4. \A i \in R : <<k, i>> \in Held(K)
    BY <2>2 DEF Held
  <2>5. f \in [R -> Held(K)]
    BY <2>4
  <2>6. \A i, j \in R : f[i] = f[j] => i = j
    OBVIOUS
  <2>7. ASSUME NEW b \in Held(K) PROVE \E i \in R : f[i] = b
    <3>1. PICK i \in 1..MaxReply : b = <<k, i>> /\ i <= n
      BY DEF Held
    <3>2. i \in R
      BY <2>2, <3>1
    <3>3. QED
      BY <3>1, <3>2
  <2> HIDE DEF R, f
  <2>8. f \in Surjection(R, Held(K)) /\ f \in Injection(R, Held(K))
    BY <2>5, <2>6, <2>7, Fun_IsInj, Fun_IsSurj
  <2>9. Cardinality(Held(K)) = Cardinality(R)
    BY <2>3, <2>8, FS_Surjection
  <2>10. QED
    BY <2>1, <2>3, <2>9
<1>3. QED
  BY <1>1, <1>2

-----------------------------------------------------------------------------
(* The view *)

\* The visible part of a page, along an axis of the screen.
LEMMA ViewIs ==
  ASSUME NEW v \in Views, NEW d \in Axes
  PROVE  /\ v.page \in Pages /\ OnScreen(v, d) \in Nat \ {0}
         /\ From(v, d) \in 0..OnScreen(v, d) /\ To(v, d) \in 0..OnScreen(v, d)
         /\ ~Offscreen(v) => From(v, d) < To(v, d)
<1> DEFINE o == v.origin[d]
           w == OnScreen(v, d)
           a == Viewport[d]
           b == Viewport[d + 2]
           e == Extent[v.page][d]
           x == v.scale
<1>1. v.page \in Pages /\ o \in Int /\ x \in Nat \ {0}
  BY CacheAssumption DEF Axes
<1>2. e \in Nat \ {0}
  BY <1>1, TilesAssumption DEF Axes
<1>3. w = e * x
  BY DEF OnScreen
<1>4. a \in Int /\ b \in Int /\ a < b
  BY TilesAssumption DEF Axes
<1>5. From(v, d) = Min({Max({a - o, 0}), w}) /\ To(v, d) = Min({Max({b - o, 0}), w})
  BY DEF From, To, Clamped
<1>6. ~Offscreen(v) => o + w > a /\ o < b
  BY <1>1, <1>2, <1>3, <1>4 DEF Offscreen, OnScreen
<1> HIDE DEF o, w, a, b, e, x
<1>7. w \in Nat \ {0}
  BY <1>1, <1>2, <1>3
<1>8. ASSUME NEW c \in Int
      PROVE  Min({Max({c - o, 0}), w}) =
               IF c - o <= 0 THEN 0 ELSE IF c - o <= w THEN c - o ELSE w
  <2> DEFINE g == c - o
             m == Max({g, 0})
  <2>1. g \in Int
    BY <1>1
  <2> HIDE DEF g
  <2>2. m \in Int /\ m = IF g >= 0 THEN g ELSE 0
    BY <2>1, TwoIs
  <2> HIDE DEF m
  <2>3. Min({m, w}) = IF m <= w THEN m ELSE w
    <3>1. m \in Int /\ w \in Int
      BY <2>2, <1>7
    <3>2. QED
      BY <3>1, TwoIs
  <2>4. Min({m, w}) = IF g <= 0 THEN 0 ELSE IF g <= w THEN g ELSE w
    BY <2>1, <2>2, <2>3, <1>7
  <2>5. QED
    BY <2>4 DEF g, m
<1> DEFINE p == From(v, d)
           q == To(v, d)
<1>9. /\ p = IF a - o <= 0 THEN 0 ELSE IF a - o <= w THEN a - o ELSE w
      /\ q = IF b - o <= 0 THEN 0 ELSE IF b - o <= w THEN b - o ELSE w
  BY <1>4, <1>5, <1>8
<1> HIDE DEF p, q
<1>10. p \in 0..w /\ q \in 0..w
  BY <1>1, <1>4, <1>7, <1>9
<1>11. ASSUME ~Offscreen(v) PROVE p < q
  <2>1. o + w > a /\ o < b
    BY <1>6, <1>11
  <2>2. QED
    BY <2>1, <1>1, <1>4, <1>7, <1>9
<1>12. QED
  BY <1>1, <1>7, <1>10, <1>11 DEF w, p, q

\* The level asked for is one of the page's.
LEMMA DesiredIs ==
  ASSUME NEW v
  PROVE  Desired(v) \in 0..MAX_LEVEL
<1> DEFINE long == Max({OnScreen(v, d) : d \in Axes})
           S == {l \in 0..MAX_LEVEL : l = MAX_LEVEL \/ Edge(l) >= long * Density}
<1>1. MAX_LEVEL \in Nat
  BY Sizes
<1>2. IsFiniteSet(0..MAX_LEVEL)
  BY <1>1, FS_Interval
<1>3. S \in SUBSET (0..MAX_LEVEL) /\ S # {}
  BY <1>1
<1>4. Desired(v) = Min(S)
  BY DEF Desired
<1> HIDE DEF S
<1>5. S \in SUBSET Int /\ IsFiniteSet(S)
  <2>1. IsFiniteSet(S)
    BY <1>2, <1>3, FS_Subset
  <2>2. QED
    BY <2>1, <1>3
<1>6. Min(S) \in S
  BY <1>3, <1>5, LeastIs
<1>7. QED
  BY <1>3, <1>4, <1>6

\* What the level leaves: the coarsest, or fewer tiles than the cache can hold.
LEMMA LevelIs ==
  ASSUME NEW v
  PROVE  /\ Level(v) \in 0..MAX_LEVEL
         /\ \/ Level(v) = 0
            \/ (Beyond(v, 1, Level(v)) - First(v, 1, Level(v)))
                 * (Beyond(v, 2, Level(v)) - First(v, 2, Level(v))) < MAX_JOBS
<1> DEFINE S == {l \in 0..Desired(v) :
                   \/ l = 0
                   \/ (Beyond(v, 1, l) - First(v, 1, l))
                        * (Beyond(v, 2, l) - First(v, 2, l)) < MAX_JOBS}
<1>1. Desired(v) \in 0..MAX_LEVEL /\ MAX_LEVEL \in Nat
  BY DesiredIs, Sizes
<1>2. S \in SUBSET (0..MAX_LEVEL) /\ S # {}
  BY <1>1
<1>3. IsFiniteSet(0..MAX_LEVEL)
  BY <1>1, FS_Interval
<1>4. Level(v) = Max(S)
  BY DEF Level
<1>5. S \in SUBSET Int /\ IsFiniteSet(S)
  <2> HIDE DEF S
  <2>1. IsFiniteSet(S)
    BY <1>2, <1>3, FS_Subset
  <2>2. QED
    BY <2>1, <1>2
<1>6. Level(v) \in S
  <2> HIDE DEF S
  <2>1. QED
    BY <1>2, <1>4, <1>5, GreatestIs
<1>7. QED
  BY <1>2, <1>6

\* The tile that holds a point x half units into a page W units wide, S pixels
\* in the raster: it is one of those that meet the part from a to b.
Within(S, W, T, a, b, x, i) ==
  /\ i \in Nat /\ (a * S) \div (W * T) <= i
  /\ i < CeilDiv(b * S, W * T) /\ i < CeilDiv(S, T) /\ i * T < S
  /\ (i * T) * (2 * W) <= x * S /\ x * S <= S * (2 * W)
  /\ x * S <= (i * T + T) * (2 * W)

LEMMA TileOf ==
  ASSUME NEW S \in Nat \ {0}, NEW W \in Nat \ {0}, NEW T \in Nat \ {0},
         NEW a \in Nat, NEW b \in Nat, b <= W, NEW x \in Int, 2 * a <= x, x < 2 * b
  PROVE  Within(S, W, T, a, b, x, (x * S) \div (2 * (W * T)))
<1> DEFINE q == W * T
           i == (x * S) \div (2 * q)
           F == (a * S) \div q
           B == CeilDiv(b * S, q)
           C == CeilDiv(S, T)
<1>1. q \in Nat \ {0} /\ 2 * q \in Nat \ {0}
  OBVIOUS
<1>2. x \in Nat /\ x * S \in Nat /\ a * S \in Nat /\ b * S \in Nat /\ W * S \in Nat
  OBVIOUS
<1>3. i \in Nat /\ i * (2 * q) <= x * S /\ x * S < i * (2 * q) + 2 * q
  <2> DEFINE y == x * S
             z == 2 * q
  <2>1. y \in Nat /\ z \in Nat \ {0}
    BY <1>1, <1>2
  <2> HIDE DEF y, z
  <2>2. y \div z \in Nat /\ (y \div z) * z <= y /\ y < (y \div z) * z + z
    BY <2>1, DivIs, DivNatural
  <2>3. QED
    BY <2>2 DEF y, z
<1>4. F \in Int /\ F * q <= a * S
  <2> HIDE DEF q
  <2>1. QED
    BY <1>1, <1>2, DivIs
<1>5. B \in Nat /\ b * S <= B * q
  <2> HIDE DEF q
  <2>1. QED
    BY <1>1, <1>2, CeilIs
<1>6. C \in Nat /\ S <= C * T
  BY CeilIs
<1>7. (2 * a) * S <= x * S /\ (2 * a) * S = 2 * (a * S)
  BY TimesGrows
<1>8. x * S < (2 * b) * S /\ (2 * b) * S = 2 * (b * S)
  <2>1. (x + 1) * S <= (2 * b) * S /\ (x + 1) * S = x * S + S
    BY TimesGrows
  <2>2. QED
    BY <2>1, <1>2
<1>9. b * S <= W * S
  BY TimesGrows
<1>10. F <= i
  <2>1. (F * 2) * q = 2 * (F * q) /\ ((i + 1) * 2) * q = i * (2 * q) + 2 * q
        /\ F * q \in Int /\ i * (2 * q) \in Int
    BY <1>1, <1>3, <1>4
  <2>2. (F * 2) * q < ((i + 1) * 2) * q
    <3> HIDE DEF F, i, q
    <3>1. QED
      BY <2>1, <1>1, <1>2, <1>3, <1>4, <1>7
  <2> HIDE DEF F, i, q
  <2>3. F * 2 < (i + 1) * 2
    BY <2>2, <1>1, <1>3, <1>4, TimesCancels
  <2>4. QED
    BY <2>3, <1>3, <1>4
<1>11. i < B
  <2>1. (i * 2) * q = i * (2 * q) /\ (B * 2) * q = 2 * (B * q) /\ B * q \in Int
        /\ i * (2 * q) \in Int
    BY <1>1, <1>3, <1>5
  <2> HIDE DEF B, i, q
  <2>2. (i * 2) * q < (B * 2) * q
    BY <2>1, <1>1, <1>2, <1>3, <1>5, <1>8
  <2>3. i * 2 < B * 2
    BY <2>2, <1>1, <1>3, <1>5, TimesCancels
  <2>4. QED
    BY <2>3, <1>3, <1>5
<1>12. i * (2 * q) = (i * T) * (2 * W) /\ i * T \in Nat /\ (i * T) * (2 * W) \in Int
  <2> HIDE DEF i
  <2>1. QED
    BY <1>3
<1>13. (i * T + T) * (2 * W) = i * (2 * q) + 2 * q /\ i * (2 * q) \in Int
  <2> HIDE DEF i
  <2>1. QED
    BY <1>3
<1>14. S * (2 * W) = 2 * (W * S)
  OBVIOUS
<1> HIDE DEF i, q, F, B, C
<1>15. x * S < S * (2 * W)
  BY <1>2, <1>8, <1>9, <1>14
<1>16. i * T < S
  <2>1. (i * T) * (2 * W) < S * (2 * W) /\ 2 * W \in Nat \ {0}
    BY <1>2, <1>3, <1>12, <1>14, <1>15
  <2>2. QED
    BY <2>1, <1>12, TimesCancels
<1>17. i < C
  <2>1. i * T < C * T
    BY <1>6, <1>12, <1>16
  <2>2. QED
    BY <2>1, <1>3, <1>6, TimesCancels
<1>18. /\ (i * T) * (2 * W) <= x * S /\ x * S <= S * (2 * W)
       /\ x * S <= (i * T + T) * (2 * W)
  BY <1>1, <1>2, <1>3, <1>12, <1>13, <1>14, <1>15
<1>19. QED
  BY <1>3, <1>10, <1>11, <1>16, <1>17, <1>18 DEF Within, i, q, F, B, C

-----------------------------------------------------------------------------
(* The tiles of a view *)

\* The columns, or the rows, of the tiles that meet the window.
Span(v, d, l) ==
  First(v, d, l)..(Min({Beyond(v, d, l), CeilDiv(RasterSize(v.page, Edge(l))[d], TILE)}) - 1)

\* The column, or the row, of the tile at x half units of the screen.
TileUnder(v, d, l, x) ==
  (x * RasterSize(v.page, Edge(l))[d]) \div (2 * (OnScreen(v, d) * TILE))

Holds(v, d, l, x) ==
  /\ TileUnder(v, d, l, x) \in Span(v, d, l)
  /\ Within(RasterSize(v.page, Edge(l))[d], OnScreen(v, d), TILE, From(v, d), To(v, d), x,
            TileUnder(v, d, l, x))

LEMMA SpanIs ==
  ASSUME NEW v \in Views, ~Offscreen(v), NEW l \in 0..MAX_LEVEL, NEW d \in Axes
  PROVE  /\ IsFiniteSet(Span(v, d, l)) /\ Cardinality(Span(v, d, l)) \in Nat
         /\ First(v, d, l) \in Nat /\ Beyond(v, d, l) \in Nat
         /\ Cardinality(Span(v, d, l)) <= Beyond(v, d, l) - First(v, d, l)
         /\ Cardinality(Span(v, d, l)) <= CeilDiv(RasterSize(v.page, Edge(l))[d], TILE)
         /\ CeilDiv(RasterSize(v.page, Edge(l))[d], TILE) \in Nat
         /\ \A i \in Span(v, d, l) : i \in Nat /\ i * TILE < RasterSize(v.page, Edge(l))[d]
         /\ \A x \in Int : 2 * From(v, d) <= x /\ x < 2 * To(v, d) => Holds(v, d, l, x)
<1> DEFINE S == RasterSize(v.page, Edge(l))[d]
           W == OnScreen(v, d)
           a == From(v, d)
           b == To(v, d)
           F == First(v, d, l)
           B == Beyond(v, d, l)
           C == CeilDiv(S, TILE)
           E == Min({B, C})
           q == W * TILE
<1>1. v.page \in Pages /\ W \in Nat \ {0} /\ a \in 0..W /\ b \in 0..W /\ a < b
  BY ViewIs
<1>2. S \in 1..Edge(l) /\ Edge(l) \in Nat
  BY <1>1, EdgeIs, RasterIs
<1>3. F = (a * S) \div (W * TILE) /\ B = CeilDiv(b * S, W * TILE)
  BY DEF First, Beyond
<1>4. Span(v, d, l) = F..(E - 1)
  BY DEF Span
<1>5. TILE \in Nat \ {0}
  BY Sizes
<1>6. \A x : TileUnder(v, d, l, x) = (x * S) \div (2 * (W * TILE))
  BY DEF TileUnder
<1>7. \A x : Holds(v, d, l, x) <=> /\ TileUnder(v, d, l, x) \in Span(v, d, l)
                                  /\ Within(S, W, TILE, a, b, x, TileUnder(v, d, l, x))
  BY DEF Holds
<1> HIDE DEF S, W, a, b, F, B, q
<1>8. S \in Nat \ {0} /\ a \in Nat /\ b \in Nat /\ b <= W
  BY <1>1, <1>2
<1>9. F \in Nat /\ B \in Nat /\ C \in Nat /\ S <= C * TILE
  <2>1. q \in Nat \ {0} /\ a * S \in Nat /\ b * S \in Nat
    BY <1>1, <1>5, <1>8 DEF q
  <2>2. F = (a * S) \div q /\ B = CeilDiv(b * S, q)
    BY <1>3 DEF q
  <2>3. C \in Nat /\ S <= C * TILE
    BY <1>5, <1>8, CeilIs
  <2> DEFINE y == a * S
             z == b * S
  <2> HIDE DEF y, z
  <2>4. y \in Nat /\ z \in Nat /\ F = y \div q /\ B = CeilDiv(z, q)
    BY <2>1, <2>2 DEF y, z
  <2>5. QED
    BY <2>1, <2>3, <2>4, DivNatural, CeilIs
<1>10. \A i \in Int : i < C => i * TILE < S
  BY <1>5, <1>8, CeilIs
<1> HIDE DEF C
<1>11. E \in Nat /\ E <= B /\ E <= C /\ (E = B \/ E = C)
  <2>1. B \in Int /\ C \in Int
    BY <1>9
  <2>2. Min({B, C}) = IF B <= C THEN B ELSE C
    BY <2>1, TwoIs
  <2>3. QED
    BY <2>2, <1>9
<1> HIDE DEF E
<1>12. IsFiniteSet(F..(E - 1)) /\ Cardinality(F..(E - 1)) = IF F > E - 1 THEN 0 ELSE E - 1 - F + 1
  BY <1>9, <1>11, FS_Interval
<1>13. ASSUME NEW x \in Int, 2 * a <= x, x < 2 * b PROVE Holds(v, d, l, x)
  <2> DEFINE i == TileUnder(v, d, l, x)
  <2>1. i = (x * S) \div (2 * (W * TILE))
    BY <1>6
  <2>2. Within(S, W, TILE, a, b, x, i)
    BY <2>1, <1>1, <1>5, <1>8, <1>13, TileOf
  <2>3. i \in Nat /\ F <= i /\ i < B /\ i < C
    BY <2>2, <1>3 DEF Within, C
  <2> HIDE DEF i
  <2>4. i \in F..(E - 1)
    BY <2>3, <1>9, <1>11
  <2>5. QED
    BY <2>2, <2>4, <1>4, <1>7 DEF i
<1>14. F < E
  <2> DEFINE x == 2 * a
             i == TileUnder(v, d, l, x)
  <2>1. x \in Int /\ 2 * a <= x /\ x < 2 * b
    BY <1>1, <1>8
  <2> HIDE DEF x
  <2>2. Holds(v, d, l, x)
    BY <2>1, <1>13
  <2>3. i \in F..(E - 1)
    BY <2>2, <1>4, <1>7
  <2>4. QED
    BY <2>3, <1>9, <1>11
<1>15. /\ Cardinality(F..(E - 1)) \in Nat
       /\ Cardinality(F..(E - 1)) <= B - F /\ Cardinality(F..(E - 1)) <= C
  BY <1>9, <1>11, <1>12, <1>14
<1>16. \A i \in F..(E - 1) : i \in Nat /\ i * TILE < S
  BY <1>9, <1>10, <1>11
<1>17. QED
  BY <1>4, <1>9, <1>12, <1>13, <1>15, <1>16 DEF S, a, b, F, B, C

\* A tile of a view.
Tile(v, l, k) ==
  /\ k = Key(v.page, l, k.col, k.row) /\ k.page = v.page /\ k.level = l
  /\ k.col \in Span(v, 1, l) /\ k.row \in Span(v, 2, l)

\* The tiles of a level: those of the columns and rows that meet the window.
LEMMA TilesAre ==
  ASSUME NEW v \in Views, ~Offscreen(v), NEW l \in 0..MAX_LEVEL
  PROVE  /\ IsFiniteSet(TilesAt(v, l)) /\ Cardinality(TilesAt(v, l)) \in Nat
         /\ Cardinality(TilesAt(v, l)) <= Cardinality(Span(v, 1, l)) * Cardinality(Span(v, 2, l))
         /\ \A k \in TilesAt(v, l) : Tile(v, l, k) /\ k \in Keys
         /\ \A c \in Span(v, 1, l), r \in Span(v, 2, l) : Key(v.page, l, c, r) \in TilesAt(v, l)
<1> DEFINE C == Span(v, 1, l)
           R == Span(v, 2, l)
           T == TilesAt(v, l)
           P == C \X R
           f == [x \in P |-> Key(v.page, l, x[1], x[2])]
<1>1. 1 \in Axes /\ 2 \in Axes /\ v.page \in Pages
  BY CacheAssumption DEF Axes
<1>2. T = {Key(v.page, l, c, r) : c \in C, r \in R}
  BY DEF TilesAt, Span
<1>3. /\ IsFiniteSet(C) /\ IsFiniteSet(R)
      /\ \A i \in C : i \in Nat /\ i * TILE < RasterSize(v.page, Edge(l))[1]
      /\ \A i \in R : i \in Nat /\ i * TILE < RasterSize(v.page, Edge(l))[2]
  BY <1>1, SpanIs
<1> HIDE DEF C, R, T
<1>4. IsFiniteSet(P) /\ Cardinality(P) = Cardinality(C) * Cardinality(R)
  BY <1>3, FS_Product
<1>5. f \in [P -> T] /\ \A k \in T : \E x \in P : f[x] = k
  <2>1. \A x \in P : x[1] \in C /\ x[2] \in R
    OBVIOUS
  <2>2. f \in [P -> T]
    BY <2>1, <1>2
  <2>3. ASSUME NEW k \in T PROVE \E x \in P : f[x] = k
    <3>1. PICK c \in C, r \in R : k = Key(v.page, l, c, r)
      BY <1>2
    <3>2. <<c, r>> \in P
      OBVIOUS
    <3>3. QED
      BY <3>1, <3>2
  <2>4. QED
    BY <2>2, <2>3
<1> HIDE DEF P, f
<1>6. IsFiniteSet(T) /\ Cardinality(T) <= Cardinality(P)
  <2>1. f \in Surjection(P, T)
    BY <1>5, Fun_IsSurj
  <2>2. QED
    BY <2>1, <1>4, FS_Surjection
<1>7. ASSUME NEW c \in C, NEW r \in R
      PROVE  LET k == Key(v.page, l, c, r) IN Tile(v, l, k) /\ k \in Keys
  <2> DEFINE k == Key(v.page, l, c, r)
  <2>1. k.page = v.page /\ k.level = l /\ k.col = c /\ k.row = r
    BY DEF Key
  <2> HIDE DEF k
  <2>2. TileInPage(k)
    BY <2>1, <1>3 DEF TileInPage
  <2>3. k \in Keys
    BY <2>2, <1>1, <1>3, KeysAre DEF k
  <2>4. Tile(v, l, k)
    BY <2>1 DEF Tile, k, C, R
  <2>5. QED
    BY <2>3, <2>4 DEF k
<1>8. QED
  BY <1>2, <1>4, <1>6, <1>7, FS_CardinalityType DEF C, R, T

\* A level's tiles are fewer than the cache can hold, and one at least.
LEMMA TilesFit ==
  ASSUME NEW v \in Views, ~Offscreen(v)
  PROVE  Cardinality(TilesAt(v, Level(v))) \in 1..(MAX_JOBS - 1)
<1> DEFINE l == Level(v)
           T == TilesAt(v, l)
           n == Cardinality(T)
           c == Cardinality(Span(v, 1, l))
           r == Cardinality(Span(v, 2, l))
           F(d) == First(v, d, l)
           B(d) == Beyond(v, d, l)
           C(d) == CeilDiv(RasterSize(v.page, Edge(l))[d], TILE)
<1>1. l \in 0..MAX_LEVEL /\ (l = 0 \/ (B(1) - F(1)) * (B(2) - F(2)) < MAX_JOBS)
  BY LevelIs
<1>2. 1 \in Axes /\ 2 \in Axes /\ v.page \in Pages
  BY CacheAssumption DEF Axes
<1> HIDE DEF l
<1>3. /\ c \in Nat /\ r \in Nat
      /\ F(1) \in Nat /\ B(1) \in Nat /\ F(2) \in Nat /\ B(2) \in Nat
      /\ c <= B(1) - F(1) /\ r <= B(2) - F(2) /\ c <= C(1) /\ r <= C(2)
      /\ C(1) \in Nat /\ C(2) \in Nat
  BY <1>1, <1>2, SpanIs
<1>4. n \in Nat /\ n <= c * r /\ IsFiniteSet(T)
  BY <1>1, TilesAre
<1>5. l = 0 => C(1) * C(2) < MAX_JOBS
  BY <1>2, CoarsestFits
<1>6. n # 0
  <2>1. \A d \in Axes : 2 * From(v, d) \in Int /\ 2 * From(v, d) < 2 * To(v, d)
    BY ViewIs
  <2>2. \A d \in Axes : Holds(v, d, l, 2 * From(v, d))
    BY <2>1, <1>1, SpanIs
  <2>3. \E i \in Span(v, 1, l), j \in Span(v, 2, l) : Key(v.page, l, i, j) \in T
    BY <2>2, <1>1, <1>2, TilesAre DEF Holds
  <2>4. QED
    BY <2>3, <1>4, FS_EmptySet
<1> DEFINE g == B(1) - F(1)
           h == B(2) - F(2)
<1> HIDE DEF F, B, C, c, r, n, T
<1>7. g \in Nat /\ h \in Nat /\ c <= g /\ r <= h
  BY <1>3
<1>8. ASSUME NEW x \in Nat, NEW y \in Nat, c <= x, r <= y PROVE c * r <= x * y
  <2>1. c * r <= x * r /\ r * x <= y * x /\ x * r = r * x /\ y * x = x * y
    BY <1>3, <1>8, TimesGrows
  <2>2. c * r \in Int /\ x * r \in Int /\ x * y \in Int
    BY <1>3
  <2>3. QED
    BY <2>1, <2>2
<1>9. \A x, y \in Nat : x * y \in Nat
  OBVIOUS
<1>10. n < MAX_JOBS
  <2>1. CASE l = 0
    <3>1. c * r <= C(1) * C(2) /\ C(1) * C(2) < MAX_JOBS
      BY <2>1, <1>3, <1>5, <1>8
    <3>2. QED
      BY <3>1, <1>3, <1>4, <1>9, Sizes
  <2>2. CASE g * h < MAX_JOBS
    <3>1. c * r <= g * h
      BY <1>7, <1>8
    <3>2. QED
      BY <3>1, <2>2, <1>3, <1>4, <1>7, <1>9, Sizes
  <2>3. QED
    BY <2>1, <2>2, <1>1
<1>11. n \in 1..(MAX_JOBS - 1)
  BY <1>4, <1>6, <1>10, Sizes
<1>12. QED
  BY <1>11 DEF n, T, l

\* The pairs of tiles of which one is asked for before the other.
Pairs(v, T) == {b \in T \X T : Before(v, b[1], b[2])}

\* The order of the tiles of a level is strict: no two of them are alike in it.
LEMMA OrderIs ==
  ASSUME NEW v \in Views, ~Offscreen(v), NEW l \in 0..MAX_LEVEL
  PROVE  /\ \A k \in TilesAt(v, l) : Distance(v, k) \in Nat
         /\ StrictOrder(TilesAt(v, l), Pairs(v, TilesAt(v, l)))
<1> DEFINE T == TilesAt(v, l)
           P == Pairs(v, T)
<1>1. \A k \in T : /\ k = Key(v.page, l, k.col, k.row) /\ k.page = v.page /\ k.level = l
                   /\ k.col \in Nat /\ k.row \in Nat /\ k \in Keys
  <2>1. 1 \in Axes /\ 2 \in Axes
    BY DEF Axes
  <2>2. QED
    BY <2>1, TilesAre, SpanIs DEF Tile
<1> HIDE DEF T
<1>2. ASSUME NEW k \in T PROVE Distance(v, k) \in Nat
  <2> DEFINE s == RasterSize(k.page, Edge(k.level))
             w(d) == OnScreen(v, d)
             c(d) == From(v, d) + To(v, d)
             off(d, i) == (2 * i + 1) * TILE * w(d) - c(d) * s[d]
             e == Extent[v.page]
             x == off(1, k.col) * e[2]
             y == off(2, k.row) * e[1]
  <2>1. 1 \in Axes /\ 2 \in Axes /\ KeyAt(k)
    BY <1>1, KeysAre DEF Axes
  <2>2. /\ s[1] \in Int /\ s[2] \in Int /\ w(1) \in Int /\ w(2) \in Int
        /\ c(1) \in Int /\ c(2) \in Int /\ TILE \in Int
        /\ k.col \in Int /\ k.row \in Int
    BY <2>1, <1>1, KeyRaster, ViewIs, Sizes
  <2>3. e[1] \in Int /\ e[2] \in Int
    <3>1. v.page \in Pages
      BY CacheAssumption
    <3>2. QED
      BY <3>1, TilesAssumption
  <2>4. Distance(v, k) = Square(x) + Square(y)
    BY DEF Distance
  <2> HIDE DEF s, w, c, e
  <2>5. x \in Int /\ y \in Int
    BY <2>2, <2>3
  <2> HIDE DEF x, y
  <2>6. Square(x) \in Nat /\ Square(y) \in Nat
    BY <2>5 DEF Square
  <2>7. QED
    BY <2>4, <2>6
<1>3. \A j, k \in T : <<j, k>> \in P <=> Before(v, j, k)
  BY DEF Pairs
<1> HIDE DEF P
<1>4. \A k \in T : <<k, k>> \notin P
  BY <1>1, <1>2, <1>3 DEF Before
<1>5. ASSUME NEW i \in T, NEW j \in T, NEW k \in T, <<i, j>> \in P, <<j, k>> \in P
      PROVE  <<i, k>> \in P
  <2>1. Before(v, i, j) /\ Before(v, j, k)
    BY <1>3, <1>5
  <2>2. /\ Distance(v, i) \in Nat /\ Distance(v, j) \in Nat /\ Distance(v, k) \in Nat
        /\ i.col \in Nat /\ j.col \in Nat /\ k.col \in Nat
        /\ i.row \in Nat /\ j.row \in Nat /\ k.row \in Nat
    BY <1>1, <1>2
  <2>3. Before(v, i, k)
    BY <2>1, <2>2 DEF Before
  <2>4. QED
    BY <2>3, <1>3
<1>6. ASSUME NEW j \in T, NEW k \in T PROVE j = k \/ <<j, k>> \in P \/ <<k, j>> \in P
  <2>1. /\ Distance(v, j) \in Nat /\ Distance(v, k) \in Nat
        /\ j.col \in Nat /\ k.col \in Nat /\ j.row \in Nat /\ k.row \in Nat
    BY <1>1, <1>2
  <2>2. (j.col = k.col /\ j.row = k.row) \/ Before(v, j, k) \/ Before(v, k, j)
    BY <2>1 DEF Before
  <2>3. j.col = k.col /\ j.row = k.row => j = k
    BY <1>1
  <2>4. QED
    BY <2>2, <2>3, <1>3
<1>7. StrictOrder(T, P)
  BY <1>4, <1>5, <1>6 DEF StrictOrder
<1>8. QED
  BY <1>2, <1>7 DEF T, P

\* A list of the members of a set, each once.
Lists(s, T) ==
  /\ s \in Seq(T) /\ Len(s) = Cardinality(T) /\ DOMAIN s = 1..Cardinality(T)
  /\ \A k \in T : \E i \in DOMAIN s : s[i] = k
  /\ \A i, j \in DOMAIN s : s[i] = s[j] => i = j

\* The nearest tile comes first, and each of the level's has its place.
LEMMA NearestIs ==
  ASSUME NEW v \in Views, ~Offscreen(v), NEW l \in 0..MAX_LEVEL
  PROVE  /\ Lists(Nearest(v, l), TilesAt(v, l))
         /\ TilesAt(v, l) # {} =>
              \A k \in TilesAt(v, l) : Distance(v, Nearest(v, l)[1]) <= Distance(v, k)
<1> DEFINE T == TilesAt(v, l)
           P == Pairs(v, T)
           n == Cardinality(T)
           s == Nearest(v, l)
           rank(k) == Cardinality(Below(T, P, k))
<1>1. IsFiniteSet(T) /\ n \in Nat
  BY TilesAre
<1>2. StrictOrder(T, P) /\ \A k \in T : Distance(v, k) \in Nat
  BY OrderIs
<1>3. Ranked(T, P)
  BY <1>1, <1>2, RankingIs
<1>4. \A k \in T : {j \in T : Before(v, j, k)} = Below(T, P, k)
  BY DEF Below, Pairs
<1>5. s = [i \in 1..n |-> CHOOSE k \in T : Cardinality({j \in T : Before(v, j, k)}) = i - 1]
  BY DEF Nearest
<1> HIDE DEF T, P, s, n
<1>6. DOMAIN s = 1..n
  BY <1>5
<1>7. ASSUME NEW i \in 1..n PROVE s[i] \in T /\ rank(s[i]) = i - 1
  <2>1. i - 1 \in 0..(n - 1)
    BY <1>1
  <2>2. \E k \in T : Cardinality({j \in T : Before(v, j, k)}) = i - 1
    BY <2>1, <1>3, <1>4 DEF Ranked, n
  <2>3. s[i] = CHOOSE k \in T : Cardinality({j \in T : Before(v, j, k)}) = i - 1
    BY <1>5
  <2>4. s[i] \in T /\ Cardinality({j \in T : Before(v, j, s[i])}) = i - 1
    BY <2>2, <2>3
  <2>5. QED
    BY <2>4, <1>4
<1>8. s \in [1..n -> T]
  BY <1>5, <1>7
<1>9. s \in Seq(T) /\ Len(s) = n
  BY <1>1, <1>8
<1>10. \A i, j \in 1..n : s[i] = s[j] => i = j
  BY <1>1, <1>7
<1>11. ASSUME NEW k \in T PROVE \E i \in 1..n : s[i] = k
  <2>1. rank(k) \in 0..(n - 1)
    BY <1>3 DEF Ranked, n
  <2> DEFINE i == rank(k) + 1
  <2>2. i \in 1..n /\ i - 1 = rank(k)
    BY <2>1, <1>1
  <2> HIDE DEF i
  <2>3. s[i] \in T /\ rank(s[i]) = rank(k)
    BY <2>2, <1>7
  <2>4. s[i] = k
    BY <2>3, <1>3 DEF Ranked
  <2>5. QED
    BY <2>2, <2>4
<1>12. ASSUME NEW k \in T PROVE Distance(v, s[1]) <= Distance(v, k)
  <2>1. n # 0
    BY <1>1, <1>12, FS_EmptySet DEF n
  <2>2. 1 \in 1..n
    BY <2>1, <1>1
  <2>3. s[1] \in T /\ rank(s[1]) = 0
    BY <2>2, <1>7
  <2>4. IsFiniteSet(Below(T, P, s[1]))
    <3>1. Below(T, P, s[1]) \in SUBSET T
      BY DEF Below
    <3>2. QED
      BY <3>1, <1>1, FS_Subset
  <2>5. Below(T, P, s[1]) = {}
    BY <2>3, <2>4, FS_EmptySet
  <2>6. ~Before(v, k, s[1])
    BY <2>3, <2>5, <1>4
  <2>7. Distance(v, k) \in Nat /\ Distance(v, s[1]) \in Nat
    BY <2>3, <1>2 DEF T
  <2>8. QED
    BY <2>6, <2>7 DEF Before
<1>13. Lists(s, T)
  BY <1>6, <1>9, <1>10, <1>11 DEF Lists, n
<1>14. QED
  BY <1>12, <1>13 DEF T, s

\* The list asked for: every tile of the level, nearest first, or none.
LEMMA VisibleIs ==
  ASSUME NEW v \in Views
  PROVE  /\ Offscreen(v) => VisibleTiles(v) = <<>>
         /\ ~Offscreen(v) => /\ VisibleTiles(v) = Nearest(v, Level(v))
                             /\ Lists(VisibleTiles(v), TilesAt(v, Level(v)))
         /\ VisibleTiles(v) \in Seq(Keys) /\ Len(VisibleTiles(v)) \in 0..(MAX_JOBS - 1)
<1>1. CASE Offscreen(v)
  <2>1. VisibleTiles(v) = <<>>
    BY <1>1 DEF VisibleTiles
  <2>2. <<>> \in Seq(Keys) /\ Len(<<>>) = 0 /\ 0 \in 0..(MAX_JOBS - 1)
    BY Sizes
  <2>3. QED
    BY <2>1, <2>2, <1>1
<1>2. CASE ~Offscreen(v)
  <2> DEFINE l == Level(v)
             T == TilesAt(v, l)
             s == Nearest(v, l)
             n == Len(s)
  <2>1. l \in 0..MAX_LEVEL
    BY LevelIs
  <2>2. Cardinality(T) \in 1..(MAX_JOBS - 1)
    BY <1>2, TilesFit
  <2>3. VisibleTiles(v) = SubSeq(s, 1, Min({n, MAX_JOBS - 1}))
    BY <1>2 DEF VisibleTiles
  <2> HIDE DEF l
  <2>4. Lists(s, T)
    BY <1>2, <2>1, NearestIs
  <2>5. s \in Seq(T) /\ n = Cardinality(T)
    BY <2>4 DEF Lists
  <2>6. \A k \in T : k \in Keys
    BY <1>2, <2>1, TilesAre
  <2> HIDE DEF T, s
  <2>7. n \in Nat /\ n <= MAX_JOBS - 1 /\ MAX_JOBS - 1 \in Int
    BY <2>2, <2>5, Sizes
  <2>8. Min({n, MAX_JOBS - 1}) = n
    <3> DEFINE m == MAX_JOBS - 1
    <3>1. n \in Int /\ m \in Int /\ n <= m
      BY <2>7
    <3> HIDE DEF m, n
    <3>2. Min({n, m}) = n
      BY <3>1, TwoIs
    <3>3. QED
      BY <3>2 DEF m
  <2>9. SubSeq(s, 1, n) = s
    BY <2>5
  <2>10. VisibleTiles(v) = s
    BY <2>3, <2>8, <2>9
  <2>11. s \in Seq(Keys)
    BY <2>5, <2>6
  <2>12. QED
    BY <1>2, <2>4, <2>7, <2>10, <2>11 DEF l, T, s
<1>3. QED
  BY <1>1, <1>2

\* What a frame asks for: keys, no more than the cache can hold.
LEMMA FrameIs ==
  ASSUME NEW v \in Views
  PROVE  /\ Frame[v] \in Seq(Keys) /\ Len(Frame[v]) \in 1..MAX_JOBS
         /\ Tail(Frame[v]) = VisibleTiles(v)
         /\ ToSet(Frame[v]) \in SUBSET Keys
         /\ IsFiniteSet(ToSet(Frame[v])) /\ Cardinality(ToSet(Frame[v])) <= MAX_JOBS
<1> DEFINE a == VisibleTiles(v)
           x == Preview(v.page)
           s == Frame[v]
           n == Len(s)
           K == ToSet(s)
<1>1. x \in Keys
  <2>1. v.page \in Pages
    BY CacheAssumption
  <2>2. QED
    BY <2>1, KeysAre
<1>2. a \in Seq(Keys) /\ Len(a) \in 0..(MAX_JOBS - 1)
  BY VisibleIs
<1>3. s = <<x>> \o a
  BY DEF Frame
<1> HIDE DEF a, x, s
<1>4. s \in Seq(Keys) /\ n = Len(a) + 1
  BY <1>1, <1>2, <1>3
<1>5. Tail(s) = a
  BY <1>1, <1>2, <1>3
<1>6. n \in 1..MAX_JOBS /\ n \in Nat
  BY <1>2, <1>4, Sizes
<1>7. K \in SUBSET Keys /\ s \in [1..n -> K] /\ \A k \in K : \E i \in 1..n : s[i] = k
  BY <1>4 DEF ToSet
<1> HIDE DEF K
<1>8. s \in Surjection(1..n, K)
  BY <1>7, Fun_IsSurj
<1>9. IsFiniteSet(1..n) /\ Cardinality(1..n) = n
  BY <1>6, FirstOnes
<1>10. IsFiniteSet(K) /\ Cardinality(K) <= n
  BY <1>8, <1>9, FS_Surjection
<1>11. Cardinality(K) <= MAX_JOBS
  BY <1>6, <1>10, FS_CardinalityType, Sizes
<1>12. QED
  BY <1>4, <1>5, <1>6, <1>7, <1>10, <1>11 DEF a, s, K

\* A tile whose column and row hold a point is painted there.
Shows(v, k, d, x) ==
  LET h == Render(k)
  IN  /\ h.origin[d] * 2 * OnScreen(v, d) <= x * h.full[d]
      /\ x * h.full[d] <= (h.origin[d] + h.size[d]) * 2 * OnScreen(v, d)

LEMMA ShowsIs ==
  ASSUME NEW v \in Views, NEW l \in 0..MAX_LEVEL, NEW d \in Axes, NEW x \in Int,
         NEW k, KeyAt(k), k.page = v.page, k.level = l,
         LET i == IF d = 1 THEN k.col ELSE k.row
             s == RasterSize(v.page, Edge(l))[d]
             w == OnScreen(v, d)
         IN  /\ (i * TILE) * (2 * w) <= x * s /\ x * s <= s * (2 * w)
             /\ x * s <= (i * TILE + TILE) * (2 * w)
  PROVE  Shows(v, k, d, x)
<1> DEFINE i == IF d = 1 THEN k.col ELSE k.row
           s == RasterSize(v.page, Edge(l))[d]
           w == OnScreen(v, d)
           h == Render(k)
           o == h.origin[d]
           z == h.size[d]
<1>1. /\ h.full[d] = s /\ o = i * TILE /\ o \in Nat /\ o < s
      /\ z = (IF s - o <= TILE THEN s - o ELSE TILE)
  BY RenderIs
<1>2. s \in Nat /\ w \in Nat /\ TILE \in Nat
  BY KeyRaster, ViewIs, Sizes
<1>3. o * (2 * w) <= x * s /\ x * s <= s * (2 * w) /\ x * s <= (o + TILE) * (2 * w)
  BY <1>1
<1>4. Shows(v, k, d, x) <=> o * 2 * w <= x * s /\ x * s <= (o + z) * 2 * w
  BY <1>1 DEF Shows
<1> HIDE DEF h, i, s, w, o, z
<1>5. o * 2 * w = o * (2 * w)
  BY <1>1, <1>2
<1>6. CASE s - o <= TILE
  <2>1. o + z = s /\ s * 2 * w = s * (2 * w)
    BY <1>1, <1>2, <1>6
  <2>2. QED
    BY <2>1, <1>3, <1>4, <1>5
<1>7. CASE ~(s - o <= TILE)
  <2>1. o + z = o + TILE /\ (o + TILE) * 2 * w = (o + TILE) * (2 * w)
    BY <1>1, <1>2, <1>7
  <2>2. QED
    BY <2>1, <1>3, <1>4, <1>5
<1>8. QED
  BY <1>6, <1>7

\* A key that is a tile of the view, under a point of the screen along an axis.
LEMMA HeldShows ==
  ASSUME NEW v \in Views, NEW l \in 0..MAX_LEVEL, NEW d \in Axes, NEW x \in Int,
         NEW k \in Keys, Tile(v, l, k), Holds(v, d, l, x),
         (IF d = 1 THEN k.col ELSE k.row) = TileUnder(v, d, l, x)
  PROVE  Shows(v, k, d, x)
<1>1. KeyAt(k) /\ k.page = v.page /\ k.level = l
  BY KeysAre DEF Tile
<1>2. Within(RasterSize(v.page, Edge(l))[d], OnScreen(v, d), TILE, From(v, d), To(v, d), x,
             TileUnder(v, d, l, x))
  BY DEF Holds
<1>3. QED
  BY <1>1, <1>2, ShowsIs DEF Within

\* The tiles of a frame cover what can be seen, and the worker renders each.
LEMMA FrameCovers ==
  ASSUME NEW v \in Views
  PROVE  Covers(v, VisibleTiles(v))
<1> DEFINE a == VisibleTiles(v)
           l == Level(v)
           T == TilesAt(v, l)
<1>1. a \in Seq(Keys)
  BY VisibleIs
<1>2. ASSUME NEW k \in ToSet(a) PROVE TileInPage(k) /\ Accepted(Render(k))
  <2>1. k \in Keys /\ \E i \in DOMAIN a : k = a[i]
    BY <1>1 DEF ToSet
  <2>2. KeyAt(k)
    BY <2>1, KeysAre
  <2>3. k.level # -1
    <3>1. CASE Offscreen(v)
      BY <3>1, <2>1, VisibleIs
    <3>2. CASE ~Offscreen(v)
      <4>1. l \in 0..MAX_LEVEL /\ Lists(a, T)
        BY <3>2, LevelIs, VisibleIs
      <4>2. k \in T
        BY <4>1, <2>1 DEF Lists
      <4>3. Tile(v, l, k)
        BY <4>1, <4>2, <3>2, TilesAre
      <4>4. QED
        BY <4>1, <4>3, Sizes DEF Tile
    <3>3. QED
      BY <3>1, <3>2
  <2>4. k.level \in 0..MAX_LEVEL
    BY <2>2, <2>3 DEF KeyAt
  <2>5. ASSUME NEW d \in Axes
        PROVE  LET h == Render(k)
               IN  /\ h.size[d] \in 1..TILE
                   /\ h.full[d] \in 1..Edge(MAX_LEVEL)
                   /\ h.origin[d] + h.size[d] <= h.full[d]
    <3> DEFINE h == Render(k)
               f == h.full[d]
               o == h.origin[d]
               z == h.size[d]
    <3>1. f \in 1..Edge(k.level) /\ o \in Nat /\ o < f /\ z \in 1..TILE
          /\ z = IF f - o <= TILE THEN f - o ELSE TILE
      BY <2>2, RenderIs, KeyRaster
    <3>2. Edge(k.level) \in Nat /\ Edge(MAX_LEVEL) \in Nat /\ Edge(k.level) <= Edge(MAX_LEVEL)
      BY <2>4, EdgeIs
    <3> HIDE DEF f, o, z
    <3>3. o + z <= f /\ f \in 1..Edge(MAX_LEVEL)
      BY <3>1, <3>2, Sizes
    <3>4. QED
      BY <3>1, <3>3 DEF f, o, z
  <2>6. Accepted(Render(k))
    BY <2>5 DEF Accepted
  <2>7. QED
    BY <2>2, <2>6 DEF KeyAt
<1>3. ASSUME ~Offscreen(v), NEW at \in VisiblePoints(v)
      PROVE  \E k \in ToSet(a) : PaintedAt(v, k, at)
  <2> DEFINE x(d) == 2 * at[d] + 1
             c == TileUnder(v, 1, l, x(1))
             r == TileUnder(v, 2, l, x(2))
             k == Key(v.page, l, c, r)
  <2>1. l \in 0..MAX_LEVEL /\ Lists(a, T)
    BY <1>3, LevelIs, VisibleIs
  <2>2. 1 \in Axes /\ 2 \in Axes
    BY DEF Axes
  <2>3. \A d \in Axes : at[d] \in From(v, d)..(To(v, d) - 1)
    BY DEF VisiblePoints, Axes
  <2>4. ASSUME NEW d \in Axes
        PROVE  x(d) \in Int /\ 2 * From(v, d) <= x(d) /\ x(d) < 2 * To(v, d)
    <3>1. /\ at[d] \in From(v, d)..(To(v, d) - 1)
          /\ From(v, d) \in 0..OnScreen(v, d) /\ To(v, d) \in 0..OnScreen(v, d)
          /\ OnScreen(v, d) \in Nat
      BY <2>3, ViewIs
    <3>2. QED
      BY <3>1
  <2> HIDE DEF x, l
  <2>5. \A d \in Axes : Holds(v, d, l, x(d))
    BY <1>3, <2>1, <2>4, SpanIs
  <2>6. c \in Span(v, 1, l) /\ r \in Span(v, 2, l)
    BY <2>2, <2>5 DEF Holds
  <2>7. k \in T /\ k.col = c /\ k.row = r
    BY <1>3, <2>1, <2>6, TilesAre DEF Key
  <2> HIDE DEF c, r, k
  <2>8. Tile(v, l, k) /\ k \in Keys
    BY <1>3, <2>1, <2>7, TilesAre
  <2>9. k \in ToSet(a)
    BY <2>1, <2>7 DEF Lists, ToSet
  <2>10. Shows(v, k, 1, x(1)) /\ Shows(v, k, 2, x(2))
    BY <2>1, <2>2, <2>4, <2>5, <2>7, <2>8, HeldShows DEF c, r
  <2>11. PaintedAt(v, k, at)
    BY <2>10 DEF PaintedAt, Shows, Axes, x
  <2>12. QED
    BY <2>9, <2>11
<1>4. QED
  BY <1>2, <1>3 DEF Covers

\* What is no further off when squared is no further off.
LEMMA SquareCancels ==
  ASSUME NEW p \in Int, NEW r \in Int, NEW e \in Nat \ {0}, NEW u \in Nat,
         -u <= r, r <= u, Square(p * e) <= Square(r * e)
  PROVE  -u <= p /\ p <= u
<1> DEFINE m == IF r >= 0 THEN r ELSE -r
           n == IF p >= 0 THEN p ELSE -p
<1>1. m \in Nat /\ n \in Nat /\ m <= u /\ (m = r \/ m = -r) /\ (n = p \/ n = -p)
  OBVIOUS
<1> HIDE DEF m, n
<1>2. Square(r * e) = (m * e) * (m * e) /\ Square(p * e) = (n * e) * (n * e)
  <2>1. (-r) * e = -(r * e) /\ (-p) * e = -(p * e) /\ r * e \in Int /\ p * e \in Int
    OBVIOUS
  <2>2. \A z \in Int : (-z) * (-z) = z * z
    OBVIOUS
  <2>3. QED
    BY <1>1, <2>1, <2>2 DEF Square
<1>3. ASSUME m < n PROVE FALSE
  <2> DEFINE y == m * e
             z == n * e
  <2>1. y \in Nat /\ z \in Nat /\ (m + 1) * e = y + e /\ (m + 1) * e <= z
    BY <1>1, <1>3, TimesGrows
  <2> HIDE DEF y, z
  <2>3. y < z
    BY <2>1
  <2>4. y * y <= z * y /\ z * y = y * z /\ (y + 1) * z <= z * z /\ (y + 1) * z = y * z + z
    BY <2>1, <2>3, TimesGrows
  <2>5. y * y \in Int /\ y * z \in Int /\ z * z \in Int
    BY <2>1
  <2>6. y * y < z * z
    BY <2>1, <2>3, <2>4, <2>5
  <2>7. z * z <= y * y
    BY <1>2 DEF y, z
  <2>8. QED
    BY <2>5, <2>6, <2>7
<1>4. QED
  BY <1>1, <1>3

\* Half a tile off its middle is within the tile.
LEMMA HalfTile ==
  ASSUME NEW i \in Nat, NEW T \in Nat, NEW w \in Nat, NEW y \in Int
  PROVE  /\ T * w \in Nat /\ (2 * i + 1) * T * w - y \in Int
         /\ (-(T * w) <= (2 * i + 1) * T * w - y) <=> (y <= (i * T + T) * (2 * w))
         /\ ((2 * i + 1) * T * w - y <= T * w) <=> ((i * T) * (2 * w) <= y)
<1> DEFINE q == T * w
           z == i * q
<1>1. q \in Nat /\ z \in Nat
  OBVIOUS
<1>2. (2 * i + 1) * T * w = 2 * z + q
  OBVIOUS
<1>3. (i * T) * (2 * w) = 2 * z /\ (i * T + T) * (2 * w) = 2 * z + 2 * q
  OBVIOUS
<1> HIDE DEF q, z
<1>4. (-q <= 2 * z + q - y) <=> (y <= 2 * z + 2 * q)
  BY <1>1
<1>5. (2 * z + q - y <= q) <=> (2 * z <= y)
  BY <1>1
<1>6. QED
  BY <1>1, <1>2, <1>3, <1>4, <1>5 DEF q

\* The first tile of a frame holds the middle of what is visible.
LEMMA FrameCentred ==
  ASSUME NEW v \in Views
  PROVE  CentreFirst(v, VisibleTiles(v))
<1> SUFFICES ASSUME ~Offscreen(v)
             PROVE  \A d \in Axes : Shows(v, VisibleTiles(v)[1], d, From(v, d) + To(v, d))
  BY DEF CentreFirst, Shows
<1> DEFINE a == VisibleTiles(v)
           l == Level(v)
           T == TilesAt(v, l)
           k == a[1]
           x(d) == From(v, d) + To(v, d)
           s(d) == RasterSize(v.page, Edge(l))[d]
           w(d) == OnScreen(v, d)
           y(d) == x(d) * s(d)
           off(d, i) == (2 * i + 1) * TILE * w(d) - y(d)
           u(d) == TILE * w(d)
           under(d) == TileUnder(v, d, l, x(d))
           e == Extent[v.page]
           at(m, d) == IF d = 1 THEN m.col ELSE m.row
<1>1. l \in 0..MAX_LEVEL /\ a = Nearest(v, l) /\ Lists(a, T) /\ T # {}
  <2>1. l \in 0..MAX_LEVEL /\ a = Nearest(v, l) /\ Lists(a, T)
    BY LevelIs, VisibleIs
  <2>2. T # {}
    BY TilesFit, FS_EmptySet
  <2>3. QED
    BY <2>1, <2>2
<1>2. 1 \in Axes /\ 2 \in Axes /\ \A d \in Axes : d = 1 \/ d = 2
  BY DEF Axes
<1>3. ASSUME NEW d \in Axes
      PROVE  x(d) \in Int /\ 2 * From(v, d) <= x(d) /\ x(d) < 2 * To(v, d)
  <2>1. /\ From(v, d) \in 0..OnScreen(v, d) /\ To(v, d) \in 0..OnScreen(v, d)
        /\ OnScreen(v, d) \in Nat /\ From(v, d) < To(v, d)
    BY ViewIs
  <2>2. QED
    BY <2>1
<1> HIDE DEF x
<1>4. \A d \in Axes : Holds(v, d, l, x(d))
  BY <1>1, <1>3, SpanIs
<1>5. /\ e[1] \in Nat \ {0} /\ e[2] \in Nat \ {0} /\ v.page \in Pages
      /\ TILE \in Nat
  <2>1. v.page \in Pages
    BY CacheAssumption
  <2>2. QED
    BY <2>1, TilesAssumption
<1>6. \A d \in Axes : s(d) \in Nat /\ w(d) \in Nat /\ y(d) \in Int
  <2>1. ASSUME NEW d \in Axes PROVE s(d) \in Nat /\ w(d) \in Nat
    <3>1. s(d) \in 1..Edge(l)
      BY <1>1, <1>5, EdgeIs, RasterIs
    <3>2. w(d) \in Nat \ {0}
      BY ViewIs
    <3> HIDE DEF s, w
    <3>3. QED
      BY <3>1, <3>2
  <2> HIDE DEF s, w
  <2>2. QED
    BY <2>1, <1>3
<1>7. ASSUME NEW d \in Axes
      PROVE  /\ under(d) \in Nat /\ under(d) \in Span(v, d, l)
             /\ (under(d) * TILE) * (2 * w(d)) <= y(d) /\ y(d) <= s(d) * (2 * w(d))
             /\ y(d) <= (under(d) * TILE + TILE) * (2 * w(d))
  BY <1>4 DEF Holds, Within
<1>8. /\ k \in T /\ Tile(v, l, k) /\ k \in Keys
      /\ \A m \in T : Tile(v, l, m) /\ Distance(v, k) <= Distance(v, m)
  <2>1. 1 \in DOMAIN a
    <3>1. DOMAIN a = 1..Cardinality(T)
      BY <1>1 DEF Lists
    <3>2. Cardinality(T) \in 1..(MAX_JOBS - 1)
      BY TilesFit
    <3>3. QED
      BY <3>1, <3>2
  <2>2. k \in T
    BY <1>1, <2>1 DEF Lists
  <2>3. QED
    BY <1>1, <2>2, TilesAre, NearestIs
<1> HIDE DEF T, k, a, e, under
<1>9. ASSUME NEW d \in Axes, NEW i \in Nat
      PROVE  off(d, i) \in Int /\ u(d) \in Nat
  <2>1. TILE \in Nat /\ w(d) \in Nat /\ y(d) \in Int
    BY <1>5, <1>6
  <2> HIDE DEF w, y
  <2>2. QED
    BY <2>1, HalfTile
<1>10. ASSUME NEW d \in Axes
       PROVE  -u(d) <= off(d, under(d)) /\ off(d, under(d)) <= u(d)
  <2>1. TILE \in Nat /\ w(d) \in Nat /\ y(d) \in Int
    BY <1>5, <1>6
  <2>2. /\ under(d) \in Nat /\ (under(d) * TILE) * (2 * w(d)) <= y(d)
        /\ y(d) <= (under(d) * TILE + TILE) * (2 * w(d))
    BY <1>7
  <2> HIDE DEF w, y
  <2>3. QED
    BY <2>1, <2>2, HalfTile
<1>11. ASSUME NEW m \in T
       PROVE  /\ m.col \in Nat /\ m.row \in Nat
              /\ Distance(v, m) = Square(off(1, m.col) * e[2]) + Square(off(2, m.row) * e[1])
  <2>1. Tile(v, l, m)
    BY <1>8
  <2>2. m.col \in Nat /\ m.row \in Nat /\ m.page = v.page /\ m.level = l
    BY <2>1, <1>1, <1>2, SpanIs DEF Tile
  <2>3. QED
    BY <2>2 DEF Distance, e, x
<1> HIDE DEF s, w, y, u, off
<1>12. \A m \in T : /\ off(1, m.col) * e[2] \in Int /\ off(2, m.row) * e[1] \in Int
                   /\ off(1, m.col) \in Int /\ off(2, m.row) \in Int
  BY <1>2, <1>5, <1>9, <1>11
<1>13. \A z \in Int : Square(z) \in Nat
  BY DEF Square
<1>14. ASSUME NEW d \in Axes PROVE -u(d) <= off(d, at(k, d)) /\ off(d, at(k, d)) <= u(d)
  <2> DEFINE c == IF d = 1 THEN under(1) ELSE k.col
             r == IF d = 1 THEN k.row ELSE under(2)
             m == Key(v.page, l, c, r)
  <2>1. c \in Span(v, 1, l) /\ r \in Span(v, 2, l) /\ m.col = c /\ m.row = r
    BY <1>2, <1>7, <1>8 DEF Tile, Key
  <2> HIDE DEF c, r, m
  <2>2. m \in T
    BY <1>1, <2>1, TilesAre DEF T, m
  <2>3. Distance(v, k) <= Distance(v, m)
    BY <1>8, <2>2
  <2> DEFINE A(j) == Square(off(1, j.col) * e[2])
             B(j) == Square(off(2, j.row) * e[1])
  <2>4. A(k) \in Nat /\ B(k) \in Nat /\ A(m) \in Nat /\ B(m) \in Nat
    BY <1>8, <1>12, <1>13, <2>2
  <2>5. A(k) + B(k) <= A(m) + B(m)
    BY <1>8, <1>11, <2>2, <2>3
  <2>6. CASE d = 1
    <3>1. m.row = k.row /\ m.col = under(1)
      BY <2>1, <2>6 DEF c, r
    <3>2. B(k) = B(m)
      BY <3>1
    <3>3. A(k) <= A(m)
      <4> HIDE DEF A, B
      <4>1. QED
        BY <2>4, <2>5, <3>2
    <3>4. off(1, k.col) \in Int /\ off(1, m.col) \in Int /\ u(1) \in Nat
      BY <1>2, <1>8, <1>9, <1>12, <2>2
    <3>5. -u(1) <= off(1, m.col) /\ off(1, m.col) <= u(1)
      BY <1>2, <1>10, <3>1
    <3>6. -u(1) <= off(1, k.col) /\ off(1, k.col) <= u(1)
      BY <1>5, <3>3, <3>4, <3>5, SquareCancels
    <3>7. QED
      BY <2>6, <3>6
  <2>7. CASE d = 2
    <3>1. m.col = k.col /\ m.row = under(2)
      BY <2>1, <2>7 DEF c, r
    <3>2. A(k) = A(m)
      BY <3>1
    <3>3. B(k) <= B(m)
      <4> HIDE DEF A, B
      <4>1. QED
        BY <2>4, <2>5, <3>2
    <3>4. off(2, k.row) \in Int /\ off(2, m.row) \in Int /\ u(2) \in Nat
      BY <1>2, <1>8, <1>9, <1>12, <2>2
    <3>5. -u(2) <= off(2, m.row) /\ off(2, m.row) <= u(2)
      BY <1>2, <1>10, <3>1
    <3>6. -u(2) <= off(2, k.row) /\ off(2, k.row) <= u(2)
      BY <1>5, <3>3, <3>4, <3>5, SquareCancels
    <3>7. QED
      BY <2>7, <3>6
  <2>8. QED
    BY <1>2, <2>6, <2>7
<1>15. ASSUME NEW d \in Axes PROVE Shows(v, k, d, x(d))
  <2>1. at(k, d) \in Nat /\ TILE \in Nat /\ w(d) \in Nat /\ y(d) \in Int
    BY <1>5, <1>6, <1>8, <1>11
  <2>2. (at(k, d) * TILE) * (2 * w(d)) <= y(d) /\ y(d) <= (at(k, d) * TILE + TILE) * (2 * w(d))
    <3> DEFINE i == at(k, d)
    <3>1. -(TILE * w(d)) <= (2 * i + 1) * TILE * w(d) - y(d)
          /\ (2 * i + 1) * TILE * w(d) - y(d) <= TILE * w(d)
      BY <1>14 DEF off, u
    <3> HIDE DEF i
    <3>2. QED
      BY <2>1, <3>1, HalfTile DEF i
  <2>3. y(d) <= s(d) * (2 * w(d))
    BY <1>7
  <2>4. KeyAt(k) /\ k.page = v.page /\ k.level = l
    BY <1>8, KeysAre DEF Tile
  <2>5. x(d) \in Int
    BY <1>3
  <2>6. QED
    BY <1>1, <2>2, <2>3, <2>4, <2>5, ShowsIs DEF y, s, w
<1>16. QED
  BY <1>15 DEF k, a, x

-----------------------------------------------------------------------------
(* The inductive invariant *)

\* Each entry has a time of last use of its own, none of them yet to come.
Uses ==
  /\ DOMAIN entries \in SUBSET Keys /\ IsFiniteSet(DOMAIN entries)
  /\ entries \in [DOMAIN entries -> 1..clock]
  /\ \A j, k \in DOMAIN entries : entries[j] = entries[k] => j = k
  /\ clock \in 0..MaxClock

\* The counters are those of the entries, and within the budget.
Account ==
  /\ bytes = Bytes(DOMAIN entries)
  /\ peak \in 0..Budget /\ bytes <= peak

\* While plans are made, only what is in sight is wanted, and what is in sight
\* was used after everything else.
Planned ==
  /\ view \in Views \cup {NoView} /\ fatal \in BOOLEAN /\ wanted \subseteq Keys
  /\ ~fatal =>
       /\ wanted \subseteq ToSet(sight)
       /\ \A j, k \in DOMAIN entries :
            k \in ToSet(sight) /\ j \notin ToSet(sight) => entries[j] < entries[k]

Inv == Uses /\ Account /\ Planned

\* An empty cache satisfies it.
LEMMA InitInv ==
  ASSUME Init
  PROVE  Inv
<1>1. DOMAIN <<>> = {} /\ ToSet(<<>>) = {}
  BY DEF ToSet
<1>2. MaxClock \in Nat /\ Budget \in Nat
  BY CacheAssumption, Sizes
<1>3. Uses
  BY <1>1, <1>2, FS_EmptySet DEF Init, Uses
<1>4. Account
  BY <1>1, <1>2, BytesOne DEF Init, Account
<1>5. Planned
  BY <1>1 DEF Init, Planned, sight
<1>6. QED
  BY <1>3, <1>4, <1>5 DEF Inv

\* What the eviction leaves of the entries when k arrives: Rest, without Gone.
Rest(k) == DOMAIN entries \ {k}
Older(k, j) == {i \in Rest(k) : entries[i] < entries[j]}
Gone(k) == {j \in Rest(k) : Bytes(Rest(k)) - Bytes(Older(k, j)) + Size[k] > Budget}

\* Insertion in terms of these.
LEMMA InsertIs ==
  ASSUME Uses, Account, NEW k \in Keys, Insert(k)
  PROVE  /\ entries' = [j \in (Rest(k) \ Gone(k)) \cup {k} |->
                          IF j = k THEN clock + 1 ELSE entries[j]]
         /\ bytes' = Bytes(Rest(k) \ Gone(k)) + Size[k]
         /\ clock' = clock + 1 /\ peak' = Max({peak, bytes'})
         /\ Size[k] <= Budget
         /\ IsFiniteSet(Rest(k)) /\ Rest(k) \in SUBSET Keys /\ Gone(k) \in SUBSET Rest(k)
<1> DEFINE D == DOMAIN entries
           O == Rest(k)
           others == Restrict(entries, D \ {k})
           used == bytes - Bytes(D \cap {k})
           gone == Victims(others, used, Size[k])
<1>1. D \in SUBSET Keys /\ IsFiniteSet(D) /\ bytes = Bytes(D)
  BY DEF Uses, Account
<1>2. O \in SUBSET D /\ IsFiniteSet(O) /\ D \ O = D \cap {k}
  <2>1. O \in SUBSET D /\ D \ O = D \cap {k}
    BY DEF Rest
  <2>2. QED
    BY <2>1, <1>1, FS_Subset
<1>3. used = Bytes(O) /\ Bytes(O) \in Nat
  <2>1. Bytes(D) = Bytes(O) + Bytes(D \ O) /\ Bytes(O) \in Nat /\ Bytes(D \ O) \in Nat
    BY <1>1, <1>2, BytesSplit
  <2>2. used = Bytes(D) - Bytes(D \ O)
    BY <1>1, <1>2
  <2> HIDE DEF D, O, used
  <2>3. QED
    BY <2>1, <2>2
<1>4. others = [j \in O |-> entries[j]] /\ DOMAIN others = O
  BY DEF Restrict, Rest
<1>5. gone = Gone(k)
  <2>1. ASSUME NEW j \in O PROVE {i \in DOMAIN others : others[i] < others[j]} = Older(k, j)
    BY <1>4 DEF Older
  <2>2. gone = {j \in O : Bytes(O) - Bytes(Older(k, j)) + Size[k] > Budget}
    <3>1. gone = {j \in DOMAIN others :
                    used - Bytes({i \in DOMAIN others : others[i] < others[j]}) + Size[k] > Budget}
      BY DEF Victims
    <3> HIDE DEF others, used, gone, O
    <3>2. QED
      BY <3>1, <2>1, <1>3, <1>4
  <2>3. QED
    BY <2>2 DEF Gone
<1>6. Gone(k) \in SUBSET O
  BY DEF Gone
<1>7. /\ Size[k] <= Budget /\ clock' = clock + 1 /\ peak' = Max({peak, bytes'})
      /\ entries' = [j \in (DOMAIN others \ gone) \cup {k} |->
                       IF j = k THEN clock + 1 ELSE others[j]]
      /\ bytes' = used - Bytes(gone) + Size[k]
  BY DEF Insert
<1> HIDE DEF others, used, gone, O
<1>8. entries' = [j \in (O \ Gone(k)) \cup {k} |-> IF j = k THEN clock + 1 ELSE entries[j]]
  BY <1>4, <1>5, <1>7
<1>9. Bytes(O) = Bytes(Gone(k)) + Bytes(O \ Gone(k))
      /\ Bytes(Gone(k)) \in Nat /\ Bytes(O \ Gone(k)) \in Nat
  BY <1>2, <1>6, BytesSplit
<1>10. bytes' = Bytes(O \ Gone(k)) + Size[k]
  <2>1. Size[k] \in Int
    BY SizeIs
  <2>2. bytes' = Bytes(O) - Bytes(Gone(k)) + Size[k]
    BY <1>3, <1>5, <1>7
  <2>3. QED
    BY <2>1, <2>2, <1>3, <1>9
<1>11. QED
  BY <1>1, <1>2, <1>6, <1>7, <1>8, <1>10 DEF O

\* What the eviction leaves fits the budget together with the new value.
LEMMA EvictionFits ==
  ASSUME Uses, NEW k \in Keys, Size[k] <= Budget
  PROVE  Bytes(Rest(k) \ Gone(k)) + Size[k] <= Budget
<1> DEFINE O == Rest(k)
           keep == O \ Gone(k)
           n == Size[k]
<1>1. O \in SUBSET DOMAIN entries /\ IsFiniteSet(O)
  <2>1. O \in SUBSET DOMAIN entries
    BY DEF Rest
  <2>2. QED
    BY <2>1, FS_Subset DEF Uses
<1>2. keep \in SUBSET O /\ IsFiniteSet(keep)
  BY <1>1, FS_Difference
<1>3. \A j \in O : entries[j] \in Int
  <2>1. clock \in Int /\ entries \in [DOMAIN entries -> 1..clock]
    BY DEF Uses
  <2>2. QED
    BY <2>1, <1>1
<1>4. n \in Int /\ n <= Budget /\ Budget \in Nat
  BY SizeIs, Sizes
<1> HIDE DEF n
<1>5. CASE keep = {}
  <2>1. Bytes(keep) = 0
    BY <1>5, BytesOne
  <2>2. QED
    BY <2>1, <1>4 DEF n
<1>6. CASE keep # {}
  <2> DEFINE B == {b \in keep \X keep : entries[b[1]] < entries[b[2]]}
  <2>1. PICK m \in keep : \A j \in keep : entries[m] <= entries[j]
    <3>1. \A i, j \in keep : <<i, j>> \in B <=> entries[i] < entries[j]
      OBVIOUS
    <3> HIDE DEF B
    <3>2. StrictOrder(keep, B)
      <4>1. \A i \in keep : entries[i] \in Int
        BY <1>2, <1>3
      <4>2. \A i, j \in keep : entries[i] = entries[j] => i = j
        BY <1>1, <1>2 DEF Uses
      <4>3. ASSUME NEW i \in keep, NEW j \in keep
            PROVE  i = j \/ <<i, j>> \in B \/ <<j, i>> \in B
        <5>1. entries[i] \in Int /\ entries[j] \in Int /\ (entries[i] = entries[j] => i = j)
          BY <4>1, <4>2
        <5>2. i = j \/ entries[i] < entries[j] \/ entries[j] < entries[i]
          BY <5>1
        <5>3. QED
          BY <5>2, <3>1
      <4>4. \A i, j, l \in keep : <<i, j>> \in B /\ <<j, l>> \in B => <<i, l>> \in B
        BY <3>1, <4>1
      <4>5. \A i \in keep : <<i, i>> \notin B
        BY <3>1, <4>1
      <4>6. QED
        BY <4>3, <4>4, <4>5 DEF StrictOrder
    <3>3. Ranked(keep, B) /\ Cardinality(keep) \in Nat /\ Cardinality(keep) # 0
      BY <1>2, <1>6, <3>2, RankingIs, FS_EmptySet
    <3>4. PICK m \in keep : Cardinality(Below(keep, B, m)) = 0
      BY <3>3 DEF Ranked
    <3>5. Below(keep, B, m) = {}
      <4>1. Below(keep, B, m) \in SUBSET keep
        BY DEF Below
      <4>2. QED
        BY <4>1, <3>4, <1>2, FS_Subset, FS_EmptySet
    <3>6. ASSUME NEW j \in keep PROVE entries[m] <= entries[j]
      <4>1. <<j, m>> \notin B
        BY <3>5 DEF Below
      <4>2. ~(entries[j] < entries[m]) /\ entries[j] \in Int /\ entries[m] \in Int
        BY <4>1, <3>1, <1>2, <1>3
      <4>3. QED
        BY <4>2
    <3>7. QED
      BY <3>6
  <2>2. Bytes(O) - Bytes(Older(k, m)) + n <= Budget
    <3>1. m \in Rest(k) /\ ~(Bytes(O) - Bytes(Older(k, m)) + n > Budget)
      BY DEF Gone, n
    <3>2. Older(k, m) \in SUBSET O
      BY DEF Older
    <3>3. Bytes(O) \in Nat /\ Bytes(Older(k, m)) \in Nat
      BY <3>2, <1>1, FS_Subset, BytesOf
    <3>4. QED
      BY <3>1, <3>3, <1>4
  <2>3. Older(k, m) \in SUBSET O /\ keep \in SUBSET (O \ Older(k, m))
    BY <2>1, <1>2, <1>3 DEF Older
  <2> HIDE DEF keep, O
  <2>4. /\ Bytes(O) = Bytes(Older(k, m)) + Bytes(O \ Older(k, m))
        /\ IsFiniteSet(O \ Older(k, m))
        /\ Bytes(Older(k, m)) \in Nat /\ Bytes(O \ Older(k, m)) \in Nat
    BY <2>3, <1>1, BytesSplit
  <2>5. Bytes(keep) \in Nat /\ Bytes(keep) <= Bytes(O \ Older(k, m))
    <3> DEFINE N == O \ Older(k, m)
    <3>1. Bytes(N) = Bytes(keep) + Bytes(N \ keep) /\ Bytes(keep) \in Nat
          /\ Bytes(N \ keep) \in Nat
      BY <2>3, <2>4, BytesSplit
    <3>2. QED
      BY <3>1
  <2>6. Bytes(keep) + n <= Budget
    BY <2>2, <2>4, <2>5, <1>4
  <2>7. QED
    BY <2>6 DEF keep, O, n
<1>7. QED
  BY <1>5, <1>6

\* A frame: what it shows becomes newest, in the order it is asked for.
LEMMA DrawInv ==
  ASSUME Inv, NEW v \in Views, Draw(v)
  PROVE  Inv' /\ DOMAIN entries' = DOMAIN entries
<1> DEFINE D == DOMAIN entries
           s == Frame[v]
           n == Len(s)
           K == ToSet(s)
           at(k) == CHOOSE i \in DOMAIN s : s[i] = k
<1>1. s \in Seq(Keys) /\ n \in Nat /\ DOMAIN s = 1..n /\ K \in SUBSET Keys
  BY FrameIs
<1>2. /\ D \in SUBSET Keys /\ IsFiniteSet(D) /\ clock \in Nat
      /\ \A k \in D : entries[k] \in 1..clock
      /\ \A j, k \in D : entries[j] = entries[k] => j = k
  BY DEF Inv, Uses
<1>3. /\ clock + n <= MaxClock /\ clock' = clock + n /\ view' = v
      /\ entries' = [k \in D |-> IF \E i \in DOMAIN s : s[i] = k THEN clock + at(k) ELSE entries[k]]
      /\ bytes' = bytes /\ peak' = peak /\ fatal' = fatal
      /\ wanted' = IF fatal THEN wanted ELSE K \ D
  BY DEF Draw, Get
<1>4. \A k \in D : k \in K <=> \E i \in DOMAIN s : s[i] = k
  BY <1>1 DEF ToSet
<1> HIDE DEF D, s, n, K
<1>5. DOMAIN entries' = D
  BY <1>3
<1>6. ASSUME NEW k \in D, k \in K
      PROVE  entries'[k] = clock + at(k) /\ at(k) \in 1..n /\ s[at(k)] = k
  BY <1>1, <1>3, <1>4, <1>6
<1>7. ASSUME NEW k \in D, k \notin K PROVE entries'[k] = entries[k]
  BY <1>3, <1>4, <1>7
<1> HIDE DEF at
<1>8. clock' \in 0..MaxClock
  BY <1>1, <1>2, <1>3, CacheAssumption
<1>9. ASSUME NEW k \in D
      PROVE  entries'[k] \in 1..clock' /\ (entries'[k] > clock <=> k \in K)
  <2>1. CASE k \in K
    BY <2>1, <1>1, <1>2, <1>3, <1>6
  <2>2. CASE k \notin K
    BY <2>2, <1>1, <1>2, <1>3, <1>7
  <2>3. QED
    BY <2>1, <2>2
<1>10. ASSUME NEW j \in D, NEW k \in D, entries'[j] = entries'[k] PROVE j = k
  <2>1. CASE j \in K /\ k \in K
    <3>1. at(j) = at(k)
      BY <2>1, <1>2, <1>6, <1>10
    <3>2. QED
      BY <2>1, <3>1, <1>6
  <2>2. CASE j \notin K /\ k \notin K
    BY <2>2, <1>2, <1>7, <1>10
  <2>3. (j \in K) <=> (k \in K)
    BY <1>9, <1>10
  <2>4. QED
    BY <2>1, <2>2, <2>3
<1>11. Uses'
  <2>1. entries' \in [D -> 1..clock']
    <3>1. entries' = [k \in D |-> entries'[k]]
      BY <1>3
    <3>2. QED
      BY <3>1, <1>9
  <2>2. QED
    BY <2>1, <1>2, <1>5, <1>8, <1>10 DEF Uses
<1>12. Account'
  BY <1>3, <1>5 DEF Inv, Account, D
<1>13. sight' = s
  <2>1. view' # NoView
    BY <1>3, CacheAssumption
  <2>2. QED
    BY <2>1, <1>3 DEF sight, s
<1>14. Planned'
  <2>1. view' \in Views \cup {NoView} /\ fatal' \in BOOLEAN /\ wanted' \subseteq Keys
    BY <1>1, <1>3 DEF Inv, Planned
  <2>2. ASSUME ~fatal' PROVE wanted' \subseteq ToSet(sight')
    BY <2>2, <1>3, <1>13 DEF K
  <2>3. ASSUME NEW j \in D, NEW k \in D, k \in K, j \notin K PROVE entries'[j] < entries'[k]
    BY <2>3, <1>2, <1>8, <1>9
  <2>4. QED
    BY <2>1, <2>2, <2>3, <1>5, <1>13 DEF Planned, K
<1>15. QED
  BY <1>5, <1>11, <1>12, <1>14 DEF Inv, D

\* An arrival: it is newest, and what is left fits.
LEMMA DeliverInv ==
  ASSUME Inv, NEW k \in Keys, Deliver(k)
  PROVE  Inv'
<1> DEFINE keep == Rest(k) \ Gone(k)
           D == keep \cup {k}
           n == Size[k]
           f == [j \in D |-> IF j = k THEN clock + 1 ELSE entries[j]]
<1>1. /\ Uses /\ Account /\ Planned /\ Insert(k) /\ clock < MaxClock /\ k \in wanted
      /\ view' = view /\ wanted' = wanted /\ fatal' = fatal
  BY DEF Inv, Deliver
<1>2. /\ entries' = f /\ bytes' = Bytes(keep) + n /\ clock' = clock + 1
      /\ peak' = Max({peak, bytes'}) /\ n <= Budget
      /\ IsFiniteSet(Rest(k)) /\ Rest(k) \in SUBSET Keys
  BY <1>1, InsertIs
<1>3. Bytes(keep) + n <= Budget
  BY <1>1, <1>2, EvictionFits
<1>4. /\ clock \in Nat /\ MaxClock \in Nat /\ \A j \in DOMAIN entries : entries[j] \in 1..clock
      /\ \A i, j \in DOMAIN entries : entries[i] = entries[j] => i = j
  BY <1>1, CacheAssumption DEF Uses
<1>5. keep \in SUBSET DOMAIN entries /\ k \notin keep /\ keep \in SUBSET Keys
  BY <1>2 DEF Rest
<1>6. IsFiniteSet(keep) /\ IsFiniteSet(D)
  <2>1. IsFiniteSet(keep)
    BY <1>2, FS_Difference
  <2> HIDE DEF keep
  <2>2. QED
    BY <2>1, FS_AddElement
<1>7. Bytes(D) = Bytes(keep) + n /\ Bytes(keep) \in Nat /\ n \in Nat
  <2>1. {k} \in SUBSET D /\ D \ {k} = keep
    BY <1>5
  <2>2. /\ Bytes(D) = Bytes({k}) + Bytes(D \ {k})
        /\ Bytes({k}) \in Nat /\ Bytes(D \ {k}) \in Nat
    BY <2>1, <1>6, BytesSplit
  <2>3. Bytes({k}) = n
    BY BytesOne
  <2> HIDE DEF D, keep, n
  <2>4. QED
    BY <2>1, <2>2, <2>3
<1> HIDE DEF keep, n
<1>8. DOMAIN entries' = D
  BY <1>2
<1>9. /\ entries'[k] = clock + 1
      /\ \A j \in keep : entries'[j] = entries[j] /\ entries[j] \in 1..clock
  BY <1>2, <1>4, <1>5
<1>10. Uses'
  <2>1. entries' = [j \in D |-> entries'[j]]
    BY <1>2
  <2>2. \A j \in D : entries'[j] \in 1..clock'
    BY <1>2, <1>4, <1>9
  <2>3. \A i, j \in D : entries'[i] = entries'[j] => i = j
    <3>1. ASSUME NEW i \in D, NEW j \in D, entries'[i] = entries'[j] PROVE i = j
      <4>1. CASE i = k /\ j \in keep
        BY <4>1, <3>1, <1>4, <1>9
      <4>2. CASE j = k /\ i \in keep
        BY <4>2, <3>1, <1>4, <1>9
      <4>3. CASE i \in keep /\ j \in keep
        BY <4>3, <3>1, <1>4, <1>5, <1>9
      <4>4. QED
        BY <4>1, <4>2, <4>3
    <3>2. QED
      BY <3>1
  <2>4. clock' \in 0..MaxClock /\ D \in SUBSET Keys
    BY <1>1, <1>2, <1>4, <1>5
  <2> HIDE DEF D, f
  <2>5. entries' \in [D -> 1..clock']
    BY <2>1, <2>2
  <2>6. QED
    BY <2>3, <2>4, <2>5, <1>6, <1>8 DEF Uses
<1>11. Account'
  <2>1. peak \in 0..Budget /\ Budget \in Nat
    BY <1>1, Sizes DEF Account
  <2>2. bytes' = Bytes(D) /\ bytes' \in 0..Budget
    BY <2>1, <1>2, <1>3, <1>7
  <2>3. peak' = IF peak >= bytes' THEN peak ELSE bytes'
    <3> DEFINE b == bytes'
    <3>1. peak \in Int /\ b \in Int /\ peak' = Max({peak, b})
      BY <1>2, <2>1, <2>2
    <3> HIDE DEF b
    <3>2. peak' = IF peak >= b THEN peak ELSE b
      BY <3>1, TwoIs
    <3>3. QED
      BY <3>2 DEF b
  <2>4. peak' \in 0..Budget /\ bytes' <= peak'
    BY <2>1, <2>2, <2>3
  <2>5. QED
    BY <2>2, <2>4, <1>8 DEF Account
<1>12. Planned'
  <2>1. sight' = sight
    BY <1>1 DEF sight
  <2>2. /\ view' \in Views \cup {NoView} /\ fatal' \in BOOLEAN /\ wanted' \subseteq Keys
        /\ ~fatal' => wanted' \subseteq ToSet(sight')
    BY <1>1, <2>1 DEF Planned
  <2>3. ASSUME ~fatal', NEW i \in D, NEW j \in D, j \in ToSet(sight), i \notin ToSet(sight)
        PROVE  entries'[i] < entries'[j]
    <3>1. k \in ToSet(sight)
      BY <2>3, <1>1 DEF Planned
    <3>2. i \in keep
      BY <2>3, <3>1
    <3>3. CASE j = k
      BY <3>2, <3>3, <1>4, <1>9
    <3>4. CASE j \in keep
      <4>1. entries[i] < entries[j]
        BY <2>3, <3>2, <3>4, <1>1, <1>5 DEF Planned
      <4>2. QED
        BY <3>2, <3>4, <4>1, <1>9
    <3>5. QED
      BY <3>3, <3>4
  <2>4. QED
    BY <2>1, <2>2, <2>3, <1>8 DEF Planned
<1>13. QED
  BY <1>10, <1>11, <1>12 DEF Inv

\* Every step keeps the invariant.
LEMMA NextInv ==
  ASSUME Inv, [Next]_vars
  PROVE  Inv'
<1>1. CASE \E v \in Views : Draw(v)
  BY <1>1, DrawInv
<1>2. CASE \E k \in Keys : Deliver(k)
  BY <1>2, DeliverInv
<1>3. CASE Fail
  BY <1>3 DEF Fail, Inv, Uses, Account, Planned, cache, sight
<1>4. CASE Leave
  <2>1. sight' = <<>> /\ ToSet(<<>>) = {}
    BY <1>4 DEF Leave, sight, ToSet
  <2>2. QED
    BY <1>4, <2>1 DEF Leave, Inv, Uses, Account, Planned, cache
<1>5. CASE UNCHANGED vars
  BY <1>5 DEF vars, Inv, Uses, Account, Planned, cache, sight
<1>6. QED
  BY <1>1, <1>2, <1>3, <1>4, <1>5 DEF Next, Exhausted

\* The invariant holds throughout.
THEOREM CacheInvariant == Spec => []Inv
<1>1. Init => Inv
  BY InitInv
<1>2. Inv /\ [Next]_vars => Inv'
  BY NextInv
<1>3. QED
  BY <1>1, <1>2, PTL DEF Spec

-----------------------------------------------------------------------------
(* The properties *)

\* The keys, the counters and the clock are what model.rs declares, and the
\* bytes never exceed the budget (MEMORY_BUDGET_BYTES).
THEOREM CacheTypes == Spec => []TypeOK
<1>1. ASSUME Inv PROVE TypeOK
  <2>1. MaxClock \in Nat /\ Budget \in Nat /\ clock \in 0..MaxClock
    BY <1>1, CacheAssumption, Sizes DEF Inv, Uses
  <2>2. \E K \in SUBSET Keys : entries \in [K -> 1..MaxClock]
    <3>1. DOMAIN entries \in SUBSET Keys /\ entries \in [DOMAIN entries -> 1..clock]
      BY <1>1 DEF Inv, Uses
    <3>2. entries \in [DOMAIN entries -> 1..MaxClock]
      BY <2>1, <3>1
    <3>3. QED
      BY <3>1, <3>2
  <2>3. bytes \in 0..Budget /\ peak \in 0..Budget
    <3>1. bytes \in Nat /\ peak \in 0..Budget /\ bytes <= peak
      BY <1>1, BytesOf DEF Inv, Uses, Account
    <3>2. QED
      BY <2>1, <3>1
  <2>4. QED
    BY <1>1, <2>1, <2>2, <2>3 DEF TypeOK, Inv, Planned
<1>2. QED
  BY <1>1, CacheInvariant, PTL

\* model.rs:216-236: `bytes` is what the entries weigh, `peak` its maximum.
THEOREM CacheAccounts == Spec => []Accounting
<1>1. Inv => Accounting
  BY DEF Inv, Account, Accounting
<1>2. QED
  BY <1>1, CacheInvariant, PTL

\* model.rs:131-187: the tiles of a frame cover what can be seen of the page.
THEOREM CacheCovers == Spec => []SightCovered
<1>1. ASSUME Inv PROVE SightCovered
  <2>1. ASSUME view # NoView PROVE Covers(view, Tail(sight))
    <3>1. view \in Views /\ sight = Frame[view]
      BY <1>1, <2>1 DEF Inv, Planned, sight
    <3>2. Tail(sight) = VisibleTiles(view)
      BY <3>1, FrameIs
    <3>3. Covers(view, VisibleTiles(view))
      BY <3>1, FrameCovers
    <3>4. QED
      BY <3>2, <3>3
  <2>2. QED
    BY <2>1 DEF SightCovered
<1>2. QED
  BY <1>1, CacheInvariant, PTL

\* model.rs:131, 181: the tile under the middle of the view is asked for first.
THEOREM CacheCentresFirst == Spec => []CentreComesFirst
<1>1. ASSUME Inv PROVE CentreComesFirst
  <2>1. ASSUME view # NoView PROVE CentreFirst(view, Tail(sight))
    <3>1. view \in Views /\ sight = Frame[view]
      BY <1>1, <2>1 DEF Inv, Planned, sight
    <3>2. Tail(sight) = VisibleTiles(view)
      BY <3>1, FrameIs
    <3>3. CentreFirst(view, VisibleTiles(view))
      BY <3>1, FrameCentred
    <3>4. QED
      BY <3>2, <3>3
  <2>2. QED
    BY <2>1 DEF CentreComesFirst
<1>2. QED
  BY <1>1, CacheInvariant, PTL

\* An arrival evicts nothing in sight: everything used as late as a tile in
\* sight is in sight too, and what is in sight fits the budget.
LEMMA DeliverKeeps ==
  ASSUME Inv, NEW k \in Keys, Deliver(k), ~fatal, NEW j \in DOMAIN entries,
         j \in ToSet(sight)
  PROVE  j \in DOMAIN entries'
<1> DEFINE O == Rest(k)
           K == ToSet(sight)
           N == O \ Older(k, j)
           n == Size[k]
<1>1. /\ Uses /\ Account /\ Planned /\ Insert(k) /\ k \in wanted
      /\ clock \in Nat /\ \A i \in DOMAIN entries : entries[i] \in 1..clock
  BY DEF Inv, Uses, Deliver
<1>2. /\ DOMAIN entries' = (O \ Gone(k)) \cup {k}
      /\ IsFiniteSet(O) /\ O \in SUBSET DOMAIN entries
  <2>1. O \in SUBSET DOMAIN entries
    BY DEF Rest
  <2>2. QED
    BY <2>1, <1>1, InsertIs
<1>3. /\ k \in K /\ k \notin O
      /\ \A i \in DOMAIN entries : i \notin K => entries[i] < entries[j]
  BY <1>1 DEF Planned, Rest
<1>4. /\ IsFiniteSet(K) /\ Cardinality(K) <= MAX_JOBS /\ Cardinality(K) \in Nat
      /\ Bytes(K) \in Nat /\ Bytes(K) <= Budget
  <2>1. view \in Views /\ sight = Frame[view]
    <3>1. ToSet(<<>>) = {}
      BY DEF ToSet
    <3>2. QED
      BY <3>1, <1>1 DEF Planned, sight
  <2>2. IsFiniteSet(K) /\ Cardinality(K) <= MAX_JOBS
    BY <2>1, FrameIs
  <2> HIDE DEF K
  <2>3. Cardinality(K) \in Nat /\ Bytes(K) \in Nat /\ Bytes(K) <= Cardinality(K) * MaxReply
    BY <2>2, FS_CardinalityType, BytesOf
  <2>4. Cardinality(K) * MaxReply <= Budget
    <3>1. MaxReply \in Nat /\ MAX_JOBS \in Nat /\ Budget = MAX_JOBS * MaxReply
      BY Sizes DEF Budget
    <3>2. QED
      BY <3>1, <2>2, <2>3, TimesGrows
  <2>5. Cardinality(K) * MaxReply \in Int /\ Budget \in Int
    BY <2>3, Sizes
  <2>6. QED
    BY <2>2, <2>3, <2>4, <2>5
<1>5. Older(k, j) \in SUBSET O /\ N \in SUBSET K
  BY <1>1, <1>2, <1>3 DEF Older
<1> HIDE DEF O, K
<1>6. IsFiniteSet(N) /\ Bytes(O) = Bytes(Older(k, j)) + Bytes(N)
      /\ Bytes(Older(k, j)) \in Nat /\ Bytes(N) \in Nat
  BY <1>2, <1>5, BytesSplit
<1>7. N \in SUBSET (K \ {k}) /\ {k} \in SUBSET K
  BY <1>3, <1>5
<1> HIDE DEF N
<1>8. Bytes(K) = n + Bytes(K \ {k}) /\ IsFiniteSet(K \ {k}) /\ Bytes(K \ {k}) \in Nat /\ n \in Nat
  BY <1>4, <1>7, BytesSplit, BytesOne
<1>9. Bytes(N) <= Bytes(K \ {k})
  <2> DEFINE M == K \ {k}
  <2>1. Bytes(M) = Bytes(N) + Bytes(M \ N) /\ Bytes(N) \in Nat /\ Bytes(M \ N) \in Nat
    BY <1>7, <1>8, BytesSplit
  <2>2. QED
    BY <2>1
<1> HIDE DEF n
<1>10. ~(Bytes(O) - Bytes(Older(k, j)) + n > Budget)
  BY <1>4, <1>6, <1>8, <1>9, Sizes
<1>11. j \notin Gone(k)
  BY <1>10 DEF Gone, O, n
<1>12. QED
  BY <1>2, <1>11 DEF O, Rest

\* model.rs:147: while plans are made, a tile that arrives evicts nothing that
\* is in sight, however the view moved before.
THEOREM CacheDoesNotThrash == Spec => NoThrash
<1> DEFINE A == ~fatal /\ view' = view => DOMAIN entries \cap ToSet(sight) \subseteq DOMAIN entries'
<1>1. ASSUME Inv, [Next]_vars PROVE [A]_vars
  <2>1. CASE \E v \in Views : Draw(v)
    BY <2>1, <1>1, DrawInv
  <2>2. CASE \E k \in Keys : Deliver(k)
    BY <2>2, <1>1, DeliverKeeps
  <2>3. CASE Fail
    BY <2>3 DEF Fail, cache
  <2>4. CASE Leave
    BY <2>4 DEF Leave, cache
  <2>5. CASE UNCHANGED vars
    BY <2>5 DEF vars, cache
  <2>6. QED
    BY <1>1, <2>1, <2>2, <2>3, <2>4, <2>5 DEF Next, Exhausted
<1>2. QED
  BY <1>1, CacheInvariant, PTL DEF Spec, NoThrash

-----------------------------------------------------------------------------
(* The cache implements LruCache *)

\* A frame asks for each of its keys once.
LEMMA FrameOnce ==
  ASSUME NEW v \in Views
  PROVE  \A i, j \in DOMAIN Frame[v] : Frame[v][i] = Frame[v][j] => i = j
<1> DEFINE a == VisibleTiles(v)
           x == Preview(v.page)
           s == Frame[v]
           n == Len(a)
<1>1. a \in Seq(Keys) /\ n \in Nat /\ DOMAIN a = 1..n /\ x \in Keys
  <2>1. v.page \in Pages
    BY CacheAssumption
  <2>2. QED
    BY <2>1, VisibleIs, KeysAre
<1>2. s = <<x>> \o a
  BY DEF Frame
<1>3. /\ \A i, j \in DOMAIN a : a[i] = a[j] => i = j
      /\ \A i \in DOMAIN a : a[i] # x
  <2>1. CASE Offscreen(v)
    <3>1. DOMAIN a = {}
      BY <2>1, VisibleIs
    <3>2. QED
      BY <3>1
  <2>2. CASE ~Offscreen(v)
    <3> DEFINE l == Level(v)
               T == TilesAt(v, l)
    <3>1. l \in 0..MAX_LEVEL /\ Lists(a, T)
      BY <2>2, LevelIs, VisibleIs
    <3>2. \A k \in T : k.level = l
      BY <2>2, <3>1, TilesAre DEF Tile
    <3>3. x.level = -1 /\ l # -1
      BY <3>1, Sizes DEF Preview, Key
    <3> HIDE DEF a, x, l, T
    <3>4. \A i \in DOMAIN a : a[i] \in T
      BY <3>1 DEF Lists
    <3>5. QED
      BY <3>1, <3>2, <3>3, <3>4 DEF Lists
  <2>3. QED
    BY <2>1, <2>2
<1> HIDE DEF a, x, s
<1>4. /\ DOMAIN s = 1..(n + 1) /\ s[1] = x
      /\ \A i \in 2..(n + 1) : i - 1 \in DOMAIN a /\ s[i] = a[i - 1]
  BY <1>1, <1>2
<1>5. ASSUME NEW i \in 1..(n + 1), NEW j \in 1..(n + 1), s[i] = s[j] PROVE i = j
  <2>1. CASE i = 1 /\ j \in 2..(n + 1)
    BY <2>1, <1>3, <1>4, <1>5
  <2>2. CASE j = 1 /\ i \in 2..(n + 1)
    BY <2>2, <1>3, <1>4, <1>5
  <2>3. CASE i \in 2..(n + 1) /\ j \in 2..(n + 1)
    <3>1. a[i - 1] = a[j - 1] /\ i - 1 \in DOMAIN a /\ j - 1 \in DOMAIN a
      BY <2>3, <1>4, <1>5
    <3>2. i - 1 = j - 1
      BY <3>1, <1>3
    <3>3. QED
      BY <3>2
  <2>4. QED
    BY <2>1, <2>2, <2>3, <1>1
<1>6. QED
  BY <1>4, <1>5 DEF s

\* The weight of keys is their bytes.
LEMMA WeightIs ==
  ASSUME NEW K \in SUBSET Keys, IsFiniteSet(K)
  PROVE  Lru!Weight(K) = Bytes(K)
<1> DEFINE U == UNION {{k} \X (1..Size[k]) : k \in K}
<1>1. Bytes(K) = Cardinality(Held(K))
  BY BytesOf
<1>2. ASSUME NEW k \in K PROVE Size[k] \in Nat /\ 1..Size[k] \in SUBSET (1..MaxReply)
  <2> DEFINE n == Size[k]
  <2>1. n \in 1..MaxReply
    BY SizeIs
  <2> HIDE DEF n
  <2>2. n \in Nat /\ 1..n \in SUBSET (1..MaxReply)
    BY <2>1, Sizes
  <2>3. QED
    BY <2>2 DEF n
<1>3. ASSUME NEW b \in U PROVE b \in Held(K)
  <2>1. PICK k \in K : b \in {k} \X (1..Size[k])
    OBVIOUS
  <2>2. b = <<k, b[2]>> /\ b[2] \in 1..Size[k]
    BY <2>1
  <2>3. b \in K \X (1..MaxReply) /\ b[2] <= Size[b[1]]
    BY <2>2, <1>2
  <2>4. QED
    BY <2>3 DEF Held
<1>4. ASSUME NEW b \in Held(K) PROVE b \in U
  <2>1. b \in K \X (1..MaxReply) /\ b[2] <= Size[b[1]]
    BY DEF Held
  <2>2. b[1] \in K /\ b[2] \in 1..Size[b[1]] /\ b = <<b[1], b[2]>>
    BY <2>1, <1>2
  <2>3. b \in {b[1]} \X (1..Size[b[1]])
    BY <2>2
  <2>4. QED
    BY <2>2, <2>3
<1>5. U = Held(K)
  BY <1>3, <1>4
<1>6. Lru!Weight(K) = Cardinality(U)
  BY DEF Lru!Weight, Lru!Cardinality, Cardinality, Lru!IsFiniteSet, IsFiniteSet
<1> HIDE DEF U
<1>7. QED
  BY <1>1, <1>5, <1>6

\* After a frame the entries are ordered as LruCache says.
LEMMA DrawOrders ==
  ASSUME Inv, NEW v \in Views, Draw(v),
         NEW j \in DOMAIN entries, NEW k \in DOMAIN entries
  PROVE  entries'[j] < entries'[k] <=>
           \/ Lru!AskedBefore(Frame[v], j, k)
           \/ ~Lru!Asked(Frame[v], j) /\ (Lru!Asked(Frame[v], k) \/ entries[j] < entries[k])
<1> DEFINE s == Frame[v]
           n == Len(s)
           Is(i, m) == i \in 1..n /\ s[i] = m /\ entries'[m] = clock + i
           In(m) == \E i \in DOMAIN s : s[i] = m
<1>1. s \in Seq(Keys) /\ n \in Nat /\ DOMAIN s = 1..n
  BY FrameIs
<1>2. \A i, m \in 1..n : s[i] = s[m] => i = m
  BY <1>1, FrameOnce
<1>3. entries[j] \in 1..clock /\ entries[k] \in 1..clock /\ clock \in Nat
  BY DEF Inv, Uses
<1>4. entries' = [m \in DOMAIN entries |->
                    IF \E i \in DOMAIN s : s[i] = m
                    THEN clock + (CHOOSE i \in DOMAIN s : s[i] = m) ELSE entries[m]]
  BY DEF Draw, Get
<1> HIDE DEF s, n
<1>5. ASSUME NEW m \in DOMAIN entries
      PROVE  /\ In(m) => \E i \in 1..n : Is(i, m)
             /\ ~In(m) => entries'[m] = entries[m]
  <2>1. CASE In(m)
    <3> DEFINE i == CHOOSE i \in DOMAIN s : s[i] = m
    <3>1. i \in DOMAIN s /\ s[i] = m
      BY <2>1
    <3>2. entries'[m] = clock + i
      BY <2>1, <1>4
    <3> HIDE DEF i
    <3>3. QED
      BY <2>1, <3>1, <3>2, <1>1
  <2>2. CASE ~In(m)
    BY <2>2, <1>4
  <2>3. QED
    BY <2>1, <2>2
<1>6. /\ Lru!Asked(s, j) <=> In(j)
      /\ Lru!Asked(s, k) <=> In(k)
  BY DEF Lru!Asked
<1>7. Lru!AskedBefore(s, j, k) <=> \E a, b \in 1..n : a < b /\ s[a] = j /\ s[b] = k
  BY <1>1 DEF Lru!AskedBefore
<1>8. CASE In(j) /\ In(k)
  <2>1. PICK a \in 1..n : Is(a, j)
    BY <1>5, <1>8
  <2>2. PICK b \in 1..n : Is(b, k)
    BY <1>5, <1>8
  <2>3. Lru!AskedBefore(s, j, k) <=> a < b
    <3>1. \A i \in 1..n : s[i] = j => i = a
      BY <1>2, <2>1
    <3>2. \A i \in 1..n : s[i] = k => i = b
      BY <1>2, <2>2
    <3>3. QED
      BY <1>7, <2>1, <2>2, <3>1, <3>2
  <2>4. entries'[j] < entries'[k] <=> a < b
    BY <1>1, <1>3, <2>1, <2>2
  <2>5. QED
    BY <2>3, <2>4, <1>6, <1>8 DEF s
<1>9. ~(In(j) /\ In(k)) => ~Lru!AskedBefore(s, j, k)
  BY <1>1, <1>7
<1>10. CASE In(j) /\ ~In(k)
  <2>1. PICK a \in 1..n : Is(a, j)
    BY <1>5, <1>10
  <2>2. ~(entries'[j] < entries'[k])
    BY <2>1, <1>1, <1>3, <1>5, <1>10
  <2>3. QED
    BY <2>2, <1>6, <1>9, <1>10 DEF s
<1>11. CASE ~In(j) /\ In(k)
  <2>1. PICK a \in 1..n : Is(a, k)
    BY <1>5, <1>11
  <2>2. entries'[j] < entries'[k]
    BY <2>1, <1>1, <1>3, <1>5, <1>11
  <2>3. QED
    BY <2>2, <1>6, <1>11 DEF s
<1>12. CASE ~In(j) /\ ~In(k)
  <2>1. entries'[j] < entries'[k] <=> entries[j] < entries[k]
    BY <1>5, <1>12
  <2>2. QED
    BY <2>1, <1>6, <1>9, <1>12 DEF s
<1>13. QED
  BY <1>8, <1>10, <1>11, <1>12

\* A frame is a use.
LEMMA DrawUses ==
  ASSUME Inv, NEW v \in Views, Draw(v)
  PROVE  Lru!Use
<1> DEFINE D == DOMAIN entries
           s == Frame[v]
           R == {p \in D \X D :
                   \/ Lru!AskedBefore(s, p[1], p[2])
                   \/ ~Lru!Asked(s, p[1]) /\ (Lru!Asked(s, p[2]) \/ p \in Ages)}
<1>1. DOMAIN entries' = D
  BY DrawInv
<1>2. sight' = s /\ s \in Seq(Keys)
  <2>1. view' = v /\ v # NoView
    BY CacheAssumption DEF Draw
  <2>2. QED
    BY <2>1, FrameIs DEF sight
<1>3. Ages' = {p \in D \X D : entries'[p[1]] < entries'[p[2]]}
  BY <1>1 DEF Ages
<1>4. ASSUME NEW p \in D \X D
      PROVE  p \in Ages <=> entries[p[1]] < entries[p[2]]
  BY DEF Ages
<1>5. ASSUME NEW p \in D \X D PROVE p \in Ages' <=> p \in R
  <2>1. p[1] \in D /\ p[2] \in D
    OBVIOUS
  <2>2. p \in Ages' <=> entries'[p[1]] < entries'[p[2]]
    BY <1>3
  <2>3. p \in R <=> \/ Lru!AskedBefore(s, p[1], p[2])
                    \/ ~Lru!Asked(s, p[1]) /\ (Lru!Asked(s, p[2]) \/ p \in Ages)
    OBVIOUS
  <2> HIDE DEF R
  <2>4. QED
    BY <2>1, <2>2, <2>3, <1>4, DrawOrders
<1>6. Ages' = R
  <2>1. Ages' \in SUBSET (D \X D) /\ R \in SUBSET (D \X D)
    BY <1>3
  <2> HIDE DEF R
  <2>2. QED
    BY <2>1, <1>5
<1>7. QED
  BY <1>1, <1>2, <1>6 DEF Lru!Use

\* Leaving the page asks for nothing.
LEMMA LeaveUses ==
  ASSUME Leave
  PROVE  Lru!Use
<1>1. entries' = entries /\ sight' = <<>> /\ <<>> \in Seq(Keys)
  BY DEF Leave, cache, sight
<1>2. \A j, k : ~Lru!Asked(<<>>, j) /\ ~Lru!AskedBefore(<<>>, j, k)
  BY DEF Lru!Asked, Lru!AskedBefore
<1>3. Ages' = Ages /\ Ages \in SUBSET ((DOMAIN entries) \X (DOMAIN entries))
  BY <1>1 DEF Ages
<1>4. QED
  BY <1>1, <1>2, <1>3 DEF Lru!Use

\* What is kept of the entries when k arrives, against any other way to keep the
\* most recent of them.
LEMMA KeepsMost ==
  ASSUME Inv, NEW k \in Keys, Insert(k)
  PROVE  /\ Rest(k) \ Gone(k) \in Lru!Recent(Rest(k))
         /\ \A M \in Lru!Recent(Rest(k)) :
              Bytes(M) + Size[k] <= Budget => M \subseteq Rest(k) \ Gone(k)
<1> DEFINE O == Rest(k)
           n == Size[k]
<1>1. Uses /\ Account
  BY DEF Inv
<1>2. /\ IsFiniteSet(O) /\ O \in SUBSET Keys /\ Gone(k) \in SUBSET O
      /\ O \in SUBSET DOMAIN entries
  <2>1. O \in SUBSET DOMAIN entries
    BY DEF Rest
  <2>2. QED
    BY <2>1, <1>1, InsertIs
<1>3. /\ clock \in Nat /\ \A i \in O : entries[i] \in 1..clock
      /\ \A i, j \in O : entries[i] = entries[j] => i = j
  BY <1>1, <1>2 DEF Uses
<1>4. n \in Int /\ Budget \in Int
  BY SizeIs, Sizes
<1>5. \A i, j \in O : <<i, j>> \in Ages <=> entries[i] < entries[j]
  BY <1>2 DEF Ages
<1>6. ASSUME NEW j \in O
      PROVE  /\ Older(k, j) \in SUBSET O /\ IsFiniteSet(Older(k, j))
             /\ Bytes(O) = Bytes(Older(k, j)) + Bytes(O \ Older(k, j))
             /\ Bytes(Older(k, j)) \in Nat /\ Bytes(O \ Older(k, j)) \in Nat
             /\ IsFiniteSet(O \ Older(k, j)) /\ Bytes(O) \in Nat
             /\ j \in Gone(k) <=> Bytes(O) - Bytes(Older(k, j)) + n > Budget
  <2>1. Older(k, j) \in SUBSET O
    BY DEF Older
  <2>2. j \in Gone(k) <=> Bytes(O) - Bytes(Older(k, j)) + n > Budget
    BY DEF Gone
  <2>3. Bytes(O) \in Nat
    BY <1>2, BytesOf
  <2> HIDE DEF O, n
  <2>4. QED
    BY <2>1, <2>2, <2>3, <1>2, BytesSplit, FS_Subset
<1>7. ASSUME NEW i \in O, NEW j \in O, entries[i] < entries[j], j \in Gone(k) PROVE i \in Gone(k)
  <2>1. Older(k, i) \in SUBSET Older(k, j)
    BY <1>3, <1>7 DEF Older
  <2> DEFINE I == Older(k, i)
             J == Older(k, j)
  <2>2. IsFiniteSet(J)
    BY <1>6
  <2> HIDE DEF I, J
  <2>3. Bytes(J) = Bytes(I) + Bytes(J \ I) /\ Bytes(I) \in Nat /\ Bytes(J \ I) \in Nat
    BY <2>1, <2>2, BytesSplit DEF I, J
  <2>4. Bytes(O) \in Nat /\ Bytes(O) - Bytes(J) + n > Budget
    BY <1>6, <1>7 DEF J
  <2> HIDE DEF n, O
  <2>5. Bytes(O) - Bytes(I) + n > Budget
    BY <2>3, <2>4, <1>4
  <2>6. QED
    BY <2>5, <1>6 DEF I
<1>8. O \ Gone(k) \in Lru!Recent(O)
  BY <1>5, <1>7 DEF Lru!Recent
<1>9. ASSUME NEW M \in Lru!Recent(O), Bytes(M) + n <= Budget, NEW j \in M
      PROVE  j \in O \ Gone(k)
  <2> DEFINE N == O \ Older(k, j)
  <2>1. M \in SUBSET O /\ \A i, l \in O : i \in M /\ <<i, l>> \in Ages => l \in M
    BY DEF Lru!Recent
  <2>2. N \in SUBSET M
    <3>1. ASSUME NEW i \in O, i \notin Older(k, j) PROVE i \in M
      <4>1. ~(entries[i] < entries[j]) /\ j \in O
        BY <2>1, <3>1 DEF Older
      <4>2. entries[j] < entries[i] \/ i = j
        BY <4>1, <1>3
      <4>3. QED
        BY <4>1, <4>2, <2>1, <1>5
    <3>2. QED
      BY <3>1
  <2> HIDE DEF N, O, n
  <2>3. IsFiniteSet(M)
    BY <2>1, <1>2, FS_Subset
  <2>4. Bytes(M) = Bytes(N) + Bytes(M \ N) /\ Bytes(N) \in Nat /\ Bytes(M \ N) \in Nat
    BY <2>2, <2>3, BytesSplit
  <2>5. /\ j \in O /\ Bytes(O) = Bytes(Older(k, j)) + Bytes(N) /\ Bytes(Older(k, j)) \in Nat
        /\ (j \in Gone(k) <=> Bytes(O) - Bytes(Older(k, j)) + n > Budget)
    BY <2>1, <1>6 DEF N
  <2>6. ~(Bytes(O) - Bytes(Older(k, j)) + n > Budget)
    BY <2>4, <2>5, <1>4, <1>9
  <2>7. QED
    BY <2>5, <2>6
<1>10. QED
  BY <1>8, <1>9

\* An arrival is a put.
LEMMA DeliverPuts ==
  ASSUME Inv, NEW k \in Keys, Deliver(k)
  PROVE  Lru!Put(k)
<1> DEFINE D == DOMAIN entries
           O == Rest(k)
           L == O \ Gone(k)
           n == Size[k]
<1>1. Uses /\ Account /\ Insert(k) /\ view' = view
  BY DEF Inv, Deliver
<1>2. /\ entries' = [j \in L \cup {k} |-> IF j = k THEN clock + 1 ELSE entries[j]]
      /\ n <= Budget /\ IsFiniteSet(O) /\ O \in SUBSET Keys
  BY <1>1, InsertIs
<1>3. O = D \ {k} /\ L \in SUBSET O /\ L \in SUBSET D /\ k \notin L
  BY DEF Rest
<1>4. clock \in Nat /\ \A j \in D : entries[j] \in 1..clock
  BY <1>1 DEF Uses
<1>5. sight' = sight
  BY <1>1 DEF sight
<1>6. /\ L \in Lru!Recent(O)
      /\ \A M \in Lru!Recent(O) : Bytes(M) + n <= Budget => M \subseteq L
      /\ Bytes(L) + n <= Budget
  BY <1>1, <1>2, KeepsMost, EvictionFits
<1>7. ASSUME NEW M \in Lru!Recent(O) PROVE Lru!Weight(M) = Bytes(M)
  <2>1. M \in SUBSET O
    BY DEF Lru!Recent
  <2> HIDE DEF O
  <2>2. M \in SUBSET Keys /\ IsFiniteSet(M)
    BY <2>1, <1>2, FS_Subset
  <2>3. QED
    BY <2>2, WeightIs
<1> HIDE DEF L, O, n
<1>8. DOMAIN entries' = L \cup {k}
  BY <1>2
<1>9. Ages' = (Ages \cap (L \X L)) \cup (L \X {k})
  <2> DEFINE R == (Ages \cap (L \X L)) \cup (L \X {k})
             E == L \cup {k}
  <2>1. Ages' = {p \in E \X E : entries'[p[1]] < entries'[p[2]]}
    BY <1>8 DEF Ages
  <2>2. entries'[k] = clock + 1 /\ \A j \in L : entries'[j] = entries[j] /\ entries[j] \in 1..clock
    BY <1>2, <1>3, <1>4
  <2>3. ASSUME NEW i \in E, NEW j \in E PROVE entries'[i] < entries'[j] <=> <<i, j>> \in R
    <3>1. CASE i = k
      <4>1. ~(entries'[i] < entries'[j])
        BY <3>1, <2>2, <1>4
      <4>2. <<i, j>> \notin R
        BY <3>1, <1>3
      <4>3. QED
        BY <4>1, <4>2
    <3>2. CASE i \in L /\ j = k
      <4>1. entries'[i] < entries'[j]
        BY <3>2, <2>2, <1>4
      <4>2. QED
        BY <4>1, <3>2
    <3>3. CASE i \in L /\ j \in L
      <4>1. entries'[i] < entries'[j] <=> <<i, j>> \in Ages
        BY <3>3, <2>2, <1>3 DEF Ages
      <4>2. <<i, j>> \in R <=> <<i, j>> \in Ages
        BY <3>3, <1>3
      <4>3. QED
        BY <4>1, <4>2
    <3>4. QED
      BY <3>1, <3>2, <3>3
  <2>4. R \in SUBSET (E \X E)
    OBVIOUS
  <2> HIDE DEF R, E
  <2>5. ASSUME NEW p \in E \X E PROVE p \in Ages' <=> p \in R
    <3>1. PICK i \in E, j \in E : p = <<i, j>>
      OBVIOUS
    <3>2. QED
      BY <3>1, <2>1, <2>3
  <2>6. Ages' \in SUBSET (E \X E)
    BY <2>1
  <2>7. Ages' = R
    BY <2>4, <2>5, <2>6
  <2>8. QED
    BY <2>7 DEF R
<1>10. /\ Lru!Weight(L) + n <= Budget
       /\ \A M \in Lru!Recent(O) : Lru!Weight(M) + n <= Budget => M \subseteq L
  BY <1>6, <1>7
<1>11. \E M \in Lru!Recent(O) :
         /\ Lru!Weight(M) + n <= Budget
         /\ \A N \in Lru!Recent(O) : Lru!Weight(N) + n <= Budget => N \subseteq M
         /\ DOMAIN entries' = M \cup {k}
         /\ Ages' = (Ages \cap (M \X M)) \cup (M \X {k})
  BY <1>6, <1>8, <1>9, <1>10
<1>12. QED
  BY <1>2, <1>3, <1>5, <1>11 DEF Lru!Put, n

\* model.rs:199-240: clock, account and eviction loop implement the cache that
\* forgets what was used longest ago.
THEOREM CacheImplementsLru == Spec => ImplementsLru
<1>1. Init => Lru!Init
  <2> SUFFICES ASSUME Init PROVE Lru!Init
    OBVIOUS
  <2>1. DOMAIN entries = {} /\ sight = <<>>
    BY DEF Init, sight
  <2>2. Ages = {}
    BY <2>1 DEF Ages
  <2>3. QED
    BY <2>1, <2>2 DEF Lru!Init
<1>2. ASSUME Inv, [Next]_vars PROVE [Lru!Next]_<<DOMAIN entries, Ages, sight>>
  <2>1. CASE \E v \in Views : Draw(v)
    BY <2>1, <1>2, DrawUses DEF Lru!Next
  <2>2. CASE \E k \in Keys : Deliver(k)
    BY <2>2, <1>2, DeliverPuts DEF Lru!Next
  <2>3. CASE Fail
    BY <2>3 DEF Fail, cache, sight, Ages
  <2>4. CASE Leave
    BY <2>4, LeaveUses DEF Lru!Next
  <2>5. CASE UNCHANGED vars
    BY <2>5 DEF vars, cache, sight, Ages
  <2>6. QED
    BY <1>2, <2>1, <2>2, <2>3, <2>4, <2>5 DEF Next, Exhausted
<1>3. QED
  BY <1>1, <1>2, CacheInvariant, PTL DEF Spec, ImplementsLru, Lru!Spec
=============================================================================
