------------------------ MODULE StagingReviewProofs ------------------------
(***************************************************************************)
(* Proofs about the staging review, for any files, sheets, fields, texts   *)
(* and templates, any number of versions and of steps of the user: names,  *)
(* rows, corrections, exports, orders and decisions.                       *)
(***************************************************************************)
EXTENDS StagingReview, TLAPS, FiniteSetTheorems, FunctionTheorems

-----------------------------------------------------------------------------
(* Sorting: the place of an index is the number of those up to it *)

Precedes(rank, i, j) == rank[i] < rank[j] \/ (rank[i] = rank[j] /\ i < j)

UpTo(S, rank, i) == {j \in S : rank[j] < rank[i] \/ (rank[j] = rank[i] /\ j <= i)}

Place(S, rank) == [i \in S |-> Cardinality(UpTo(S, rank, i))]

\* What comes earlier has a smaller place.
LEMMA PlaceGrows ==
  ASSUME NEW S \in SUBSET Int, IsFiniteSet(S), NEW rank, \A i \in S : rank[i] \in Int
  PROVE  /\ Place(S, rank) \in [S -> 1..Cardinality(S)]
         /\ \A i, j \in S : Precedes(rank, i, j) => Place(S, rank)[i] < Place(S, rank)[j]
<1>1. ASSUME NEW i \in S
      PROVE  /\ IsFiniteSet(UpTo(S, rank, i)) /\ i \in UpTo(S, rank, i)
             /\ Cardinality(UpTo(S, rank, i)) \in 1..Cardinality(S)
  <2>1. UpTo(S, rank, i) \in SUBSET S /\ i \in UpTo(S, rank, i)
    BY DEF UpTo
  <2>2. /\ IsFiniteSet(UpTo(S, rank, i))
        /\ Cardinality(UpTo(S, rank, i)) <= Cardinality(S)
    BY <2>1, FS_Subset
  <2>3. Cardinality(UpTo(S, rank, i)) \in Nat /\ Cardinality(S) \in Nat
    BY <2>2, FS_CardinalityType
  <2>4. Cardinality(UpTo(S, rank, i)) # 0
    BY <2>1, <2>2, FS_EmptySet
  <2>5. QED
    BY <2>1, <2>2, <2>3, <2>4
<1>2. ASSUME NEW i \in S, NEW j \in S, Precedes(rank, i, j)
      PROVE  Cardinality(UpTo(S, rank, i)) < Cardinality(UpTo(S, rank, j))
  <2> DEFINE U == UpTo(S, rank, j) \ {j}
  <2>1. UpTo(S, rank, i) \in SUBSET U
    <3>1. ASSUME NEW k \in S, rank[k] < rank[i] \/ (rank[k] = rank[i] /\ k <= i)
          PROVE  (rank[k] < rank[j] \/ (rank[k] = rank[j] /\ k <= j)) /\ k # j
      <4>1. /\ rank[k] \in Int /\ rank[i] \in Int /\ rank[j] \in Int
            /\ k \in Int /\ i \in Int /\ j \in Int
        OBVIOUS
      <4>2. QED
        BY <4>1, <3>1, <1>2 DEF Precedes
    <3>2. QED
      BY <3>1 DEF UpTo
  <2>2. IsFiniteSet(U) /\ Cardinality(U) = Cardinality(UpTo(S, rank, j)) - 1
    BY <1>1, FS_RemoveElement
  <2>3. Cardinality(UpTo(S, rank, i)) <= Cardinality(U)
    BY <2>1, <2>2, FS_Subset
  <2>4. /\ Cardinality(UpTo(S, rank, i)) \in Int /\ Cardinality(UpTo(S, rank, j)) \in Int
        /\ Cardinality(U) \in Int
    BY <1>1, <2>2
  <2>5. QED
    BY <2>2, <2>3, <2>4
<1>3. QED
  BY <1>1, <1>2 DEF Place

\* So every place is taken once.
LEMMA PlaceBijective ==
  ASSUME NEW S \in SUBSET Int, IsFiniteSet(S), NEW rank, \A i \in S : rank[i] \in Int
  PROVE  Place(S, rank) \in Bijection(S, 1..Cardinality(S))
<1> DEFINE p == Place(S, rank)
           n == Cardinality(S)
<1>1. n \in Nat
  BY FS_CardinalityType
<1>2. p \in [S -> 1..n]
  BY PlaceGrows
<1>3. ASSUME NEW i \in S, NEW j \in S, p[i] = p[j] PROVE i = j
  <2>1. i = j \/ Precedes(rank, i, j) \/ Precedes(rank, j, i)
    BY DEF Precedes
  <2>2. p[i] \in Int /\ p[j] \in Int
    BY <1>2
  <2>3. /\ Precedes(rank, i, j) => p[i] < p[j]
        /\ Precedes(rank, j, i) => p[j] < p[i]
    BY PlaceGrows
  <2>4. QED
    BY <1>3, <2>1, <2>2, <2>3
<1> HIDE DEF p
<1>4. p \in Injection(S, 1..n)
  BY <1>2, <1>3, Fun_IsInj
<1>5. IsFiniteSet(1..n) /\ Cardinality(1..n) = n
  BY <1>1, FS_Interval
<1>6. p \in Surjection(S, 1..n)
  BY <1>4, <1>5, FS_Injection
<1>7. QED
  BY <1>4, <1>6 DEF Bijection, p

\* The list of S holds each of its members once, in order.
LEMMA ListedIs ==
  ASSUME NEW S \in SUBSET Int, IsFiniteSet(S), NEW rank, \A i \in S : rank[i] \in Int
  PROVE  /\ Cardinality(S) \in Nat /\ DOMAIN Listed(S, rank) = 1..Cardinality(S)
         /\ \A k \in 1..Cardinality(S) :
              Listed(S, rank)[k] \in S /\ Place(S, rank)[Listed(S, rank)[k]] = k
         /\ \A i \in S : /\ Place(S, rank)[i] \in 1..Cardinality(S)
                         /\ Listed(S, rank)[Place(S, rank)[i]] = i
<1> DEFINE n == Cardinality(S)
           p == Place(S, rank)
           L == Listed(S, rank)
<1>1. n \in Nat
  BY FS_CardinalityType
<1>2. /\ p \in [S -> 1..n] /\ \A i, j \in S : p[i] = p[j] => i = j
      /\ \A k \in 1..n : \E i \in S : p[i] = k
  <2>1. p \in Bijection(S, 1..n)
    BY PlaceBijective
  <2> HIDE DEF p, n
  <2>2. p \in [S -> 1..n] /\ \A i, j \in S : p[i] = p[j] => i = j
    BY <2>1, Fun_BijectionProperties
  <2>3. \A k \in 1..n : \E i \in S : p[i] = k
    BY <2>1 DEF Bijection, Surjection
  <2>4. QED
    BY <2>2, <2>3
<1>3. /\ DOMAIN L = 1..n
      /\ \A k \in 1..n : L[k] = CHOOSE i \in S : p[i] = k
  <2>1. \A i \in S : p[i] = Cardinality({j \in S : \/ rank[j] < rank[i]
                                                   \/ (rank[j] = rank[i] /\ j <= i)})
    BY DEF Place, UpTo
  <2>2. \A k : (CHOOSE i \in S : p[i] = k) =
               (CHOOSE i \in S : Cardinality({j \in S : \/ rank[j] < rank[i]
                                                        \/ (rank[j] = rank[i] /\ j <= i)}) = k)
    BY <2>1
  <2> HIDE DEF p
  <2>3. QED
    BY <2>2 DEF Listed
<1> HIDE DEF n, p, L
<1>4. \A k \in 1..n : L[k] \in S /\ p[L[k]] = k
  BY <1>2, <1>3
<1>5. \A i \in S : p[i] \in 1..n /\ L[p[i]] = i
  BY <1>2, <1>4
<1>6. QED
  BY <1>1, <1>3, <1>4, <1>5 DEF n, p, L

-----------------------------------------------------------------------------
(* What the rows always are *)

Distinct(rs) == \A i, j \in DOMAIN rs : rs[i].key = rs[j].key => i = j

\* The texts are normalised, whether read or typed.
CleanRows(rs) == \A i \in DOMAIN rs : \A f \in Fields : Clean[rs[i].values[f]] = rs[i].values[f]

\* Rows that were edited in a field read once agree on it.
AgreeOnce(rs) ==
  \A i, j \in DOMAIN rs : \A f \in Once :
    rs[i].version > 0 /\ rs[j].version > 0 /\ f \in rs[i].dirty /\ f \in rs[j].dirty
      => rs[i].values[f] = rs[j].values[f]

ManualTyped(rs) == \A i \in DOMAIN rs : rs[i].manual => rs[i].filename \in Names

IncludedKnown(rs) == \A i \in DOMAIN rs : rs[i].included => rs[i].version > 0

Sound(rs) ==
  /\ rs \in Seq(Row)
  /\ Distinct(rs) /\ CleanRows(rs) /\ AgreeOnce(rs) /\ ManualTyped(rs) /\ IncludedKnown(rs)

Follow(rs, temp, seq) ==
  \A i \in DOMAIN rs : IF rs[i].manual THEN rs[i].filename \in Names
                       ELSE rs[i].filename = NameOf(i, rs[i], temp, seq)

\* The rows are read from the documents as they are.
Current(rs, ver) == \A i \in DOMAIN rs : rs[i].version = ver[rs[i].key.path]

\* The same rows, in any order.
Permutes(rs, qs) ==
  /\ qs \in Seq(Row) /\ Len(qs) = Len(rs) /\ Distinct(qs)
  /\ \A k \in DOMAIN qs : \E i \in DOMAIN rs : qs[k] = rs[i]
  /\ \A i \in DOMAIN rs : \E k \in DOMAIN qs : qs[k] = rs[i]

\* The same rows in the same places, but for their names.
Renames(rs, qs) ==
  /\ qs \in Seq(Row) /\ DOMAIN qs = DOMAIN rs /\ Len(qs) = Len(rs)
  /\ \A i \in DOMAIN rs : /\ qs[i].key = rs[i].key /\ qs[i].version = rs[i].version
                          /\ qs[i].included = rs[i].included /\ qs[i].manual = rs[i].manual
                          /\ qs[i].values = rs[i].values /\ qs[i].dirty = rs[i].dirty
                          /\ rs[i].manual => qs[i].filename = rs[i].filename

\* A sequence of rows is a function on an interval.
LEMMA RowsAre ==
  ASSUME NEW T, NEW rs \in Seq(T)
  PROVE  Len(rs) \in Nat /\ DOMAIN rs = 1..Len(rs) /\ \A i \in DOMAIN rs : rs[i] \in T
OBVIOUS

\* And such a function is a sequence.
LEMMA RowsFrom ==
  ASSUME NEW T, NEW n \in Nat, NEW q \in [1..n -> T]
  PROVE  q \in Seq(T) /\ Len(q) = n /\ DOMAIN q = 1..n
OBVIOUS

\* A generated name is a name.
LEMMA NameIs ==
  ASSUME StagingAssumption, NEW row \in Row, NEW i \in Nat, NEW temp \in Templates, NEW seq \in BOOLEAN
  PROVE  NameOf(i, row, temp, seq) \in Generated
<1> DEFINE parts == {<<f, row.values[f]>> : f \in {g \in temp : row.values[g] # Blank}}
<1>1. temp \subseteq Fields
  BY DEF StagingAssumption
<1>2. row.values \in [Fields -> Values] /\ row.key \in Keys
  BY DEF Row
<1>3. parts \in SUBSET (Fields \X Values)
  BY <1>1, <1>2
<1>4. row.key.page \in Int
  <2>1. PICK k \in DOMAIN Sheets : row.key = Sheets[k]
    BY <1>2 DEF Keys
  <2>2. Sheets[k] \in [path : Paths, page : Nat]
    BY RowsAre DEF StagingAssumption
  <2>3. QED
    BY <2>1, <2>2
<1> HIDE DEF parts
<1>5. [place |-> IF seq THEN i ELSE 0, parts |-> parts,
       page |-> IF parts = {} THEN row.key.page ELSE -1] \in Generated
  BY <1>3, <1>4 DEF Generated
<1>6. QED
  BY <1>5 DEF NameOf, parts

\* It depends on the sheet and its values.
LEMMA NameAlike ==
  ASSUME NEW i, NEW row, NEW new, new.key = row.key, new.values = row.values, NEW temp, NEW seq
  PROVE  NameOf(i, new, temp, seq) = NameOf(i, row, temp, seq)
BY DEF NameOf

\* Making the names again leaves the rows as they are, and the names follow.
LEMMA NamedIs ==
  ASSUME StagingAssumption, NEW rs \in Seq(Row), ManualTyped(rs),
         NEW temp \in Templates, NEW seq \in BOOLEAN
  PROVE  /\ Renames(rs, Named(rs, temp, seq))
         /\ Follow(Named(rs, temp, seq), temp, seq)
<1> DEFINE qs == Named(rs, temp, seq)
<1>1. Len(rs) \in Nat /\ DOMAIN rs = 1..Len(rs) /\ \A i \in DOMAIN rs : rs[i] \in Row
  BY RowsAre
<1>2. DOMAIN qs = DOMAIN rs
  BY DEF Named
<1>3. ASSUME NEW i \in DOMAIN rs
      PROVE  /\ qs[i] \in Row
             /\ qs[i].key = rs[i].key /\ qs[i].version = rs[i].version
             /\ qs[i].included = rs[i].included /\ qs[i].manual = rs[i].manual
             /\ qs[i].values = rs[i].values /\ qs[i].dirty = rs[i].dirty
             /\ rs[i].manual => qs[i].filename = rs[i].filename
             /\ ~rs[i].manual => qs[i].filename = NameOf(i, rs[i], temp, seq)
  <2>1. rs[i] \in Row /\ i \in Nat
    BY <1>1
  <2>2. NameOf(i, rs[i], temp, seq) \in Generated
    BY <2>1, NameIs
  <2>3. qs[i] = IF rs[i].manual THEN rs[i]
                ELSE [rs[i] EXCEPT !.filename = NameOf(i, rs[i], temp, seq)]
    BY DEF Named
  <2> HIDE DEF qs
  <2>4. CASE rs[i].manual
    BY <2>1, <2>3, <2>4
  <2>5. CASE ~rs[i].manual
    <3>1. qs[i] = [rs[i] EXCEPT !.filename = NameOf(i, rs[i], temp, seq)]
      BY <2>3, <2>5
    <3>2. NameOf(i, rs[i], temp, seq) \in Generated \cup Names
      BY <2>2
    <3> DEFINE new == NameOf(i, rs[i], temp, seq)
    <3> HIDE DEF new
    <3>3. QED
      BY <3>1, <3>2, <2>1, <2>5 DEF Row, new
  <2>6. QED
    BY <2>4, <2>5
<1>4. ASSUME NEW i \in DOMAIN rs PROVE NameOf(i, qs[i], temp, seq) = NameOf(i, rs[i], temp, seq)
  <2>1. qs[i].key = rs[i].key /\ qs[i].values = rs[i].values
    BY <1>3
  <2> HIDE DEF qs
  <2>2. QED
    BY <2>1, NameAlike
<1>5. qs = [i \in 1..Len(rs) |-> qs[i]]
  BY <1>1 DEF Named
<1> HIDE DEF qs
<1>6. qs \in [1..Len(rs) -> Row]
  BY <1>1, <1>3, <1>5
<1>7. qs \in Seq(Row) /\ Len(qs) = Len(rs)
  BY <1>1, <1>6, RowsFrom
<1>8. Renames(rs, qs)
  BY <1>2, <1>3, <1>7 DEF Renames
<1>9. Follow(qs, temp, seq)
  BY <1>2, <1>3, <1>4 DEF Follow, ManualTyped
<1>10. QED
  BY <1>8, <1>9 DEF qs

\* Rows that may take the place of others in the review.
Keeps(rs, qs) ==
  /\ Sound(qs) /\ KeySet(qs) = KeySet(rs) /\ Len(qs) = Len(rs)
  /\ \A ver : Current(rs, ver) => Current(qs, ver)

\* Renamed rows may.
LEMMA RenamesKeeps ==
  ASSUME NEW rs, Sound(rs), NEW qs, Renames(rs, qs)
  PROVE  Keeps(rs, qs) /\ KeysOf(qs) = KeysOf(rs)
<1>1. DOMAIN qs = DOMAIN rs /\ qs \in Seq(Row)
  BY DEF Renames
<1>2. \A i \in DOMAIN rs : /\ qs[i].key = rs[i].key /\ qs[i].version = rs[i].version
                           /\ qs[i].included = rs[i].included /\ qs[i].manual = rs[i].manual
                           /\ qs[i].values = rs[i].values /\ qs[i].dirty = rs[i].dirty
                           /\ rs[i].manual => qs[i].filename = rs[i].filename
  BY DEF Renames
<1>3. Distinct(qs)
  BY <1>1, <1>2 DEF Distinct, Sound
<1>4. CleanRows(qs)
  BY <1>1, <1>2 DEF CleanRows, Sound
<1>5. AgreeOnce(qs)
  BY <1>1, <1>2 DEF AgreeOnce, Sound
<1>6. ManualTyped(qs)
  BY <1>1, <1>2 DEF ManualTyped, Sound
<1>7. IncludedKnown(qs)
  BY <1>1, <1>2 DEF IncludedKnown, Sound
<1>8. KeySet(qs) = KeySet(rs) /\ KeysOf(qs) = KeysOf(rs)
  BY <1>1, <1>2 DEF KeySet, KeysOf
<1>9. \A ver : Current(rs, ver) => Current(qs, ver)
  BY <1>1, <1>2 DEF Current
<1>10. QED
  BY <1>1, <1>3, <1>4, <1>5, <1>6, <1>7, <1>8, <1>9 DEF Sound, Keeps, Renames

\* So are permuted ones.
LEMMA PermutesKeeps ==
  ASSUME NEW rs, Sound(rs), NEW qs, Permutes(rs, qs)
  PROVE  Keeps(rs, qs)
<1>1. /\ \A k \in DOMAIN qs : \E i \in DOMAIN rs : qs[k] = rs[i]
      /\ \A i \in DOMAIN rs : \E k \in DOMAIN qs : qs[k] = rs[i]
  BY DEF Permutes
<1>2. CleanRows(qs)
  BY <1>1 DEF CleanRows, Sound
<1>3. AgreeOnce(qs)
  BY <1>1 DEF AgreeOnce, Sound
<1>4. ManualTyped(qs)
  BY <1>1 DEF ManualTyped, Sound
<1>5. IncludedKnown(qs)
  BY <1>1 DEF IncludedKnown, Sound
<1>6. KeySet(qs) = KeySet(rs)
  BY <1>1 DEF KeySet
<1>7. \A ver : Current(rs, ver) => Current(qs, ver)
  BY <1>1 DEF Current
<1>8. QED
  BY <1>2, <1>3, <1>4, <1>5, <1>6, <1>7 DEF Sound, Permutes, Keeps

\* Sorting permutes.
LEMMA SortPermutes ==
  ASSUME NEW rs \in Seq(Row), Distinct(rs), NEW rank, \A i \in DOMAIN rs : rank[i] \in Int
  PROVE  Permutes(rs, SortBy(rs, rank))
<1> DEFINE S == DOMAIN rs
           L == Listed(S, rank)
           p == Place(S, rank)
           qs == SortBy(rs, rank)
<1>1. Len(rs) \in Nat /\ S = 1..Len(rs) /\ \A i \in S : rs[i] \in Row
  BY RowsAre
<1>2. S \in SUBSET Int /\ IsFiniteSet(S) /\ Cardinality(S) = Len(rs)
  BY <1>1, FS_Interval
<1>3. /\ DOMAIN L = 1..Len(rs)
      /\ \A k \in 1..Len(rs) : L[k] \in S /\ p[L[k]] = k
      /\ \A i \in S : p[i] \in 1..Len(rs) /\ L[p[i]] = i
  BY <1>2, ListedIs
<1>4. qs = [k \in DOMAIN L |-> rs[L[k]]]
  BY DEF SortBy
<1> HIDE DEF L, p, qs
<1>5. qs = [k \in 1..Len(rs) |-> rs[L[k]]]
  BY <1>3, <1>4
<1>6. qs \in [1..Len(rs) -> Row]
  BY <1>1, <1>3, <1>5
<1>7. qs \in Seq(Row) /\ Len(qs) = Len(rs) /\ DOMAIN qs = 1..Len(rs)
  BY <1>1, <1>6, RowsFrom
<1>8. \A k \in DOMAIN qs : \E i \in DOMAIN rs : qs[k] = rs[i]
  BY <1>1, <1>3, <1>5, <1>7
<1>9. \A i \in DOMAIN rs : \E k \in DOMAIN qs : qs[k] = rs[i]
  BY <1>1, <1>3, <1>5, <1>7
<1>10. Distinct(qs)
  <2>1. ASSUME NEW j \in DOMAIN qs, NEW k \in DOMAIN qs, qs[j].key = qs[k].key PROVE j = k
    <3>1. j \in 1..Len(rs) /\ k \in 1..Len(rs)
      BY <1>7
    <3>2. rs[L[j]].key = rs[L[k]].key
      BY <2>1, <3>1, <1>5
    <3>3. L[j] = L[k]
      BY <3>1, <3>2, <1>3 DEF Distinct
    <3>4. QED
      BY <3>1, <3>3, <1>3
  <2>2. QED
    BY <2>1 DEF Distinct
<1>11. QED
  BY <1>7, <1>8, <1>9, <1>10 DEF Permutes, qs

-----------------------------------------------------------------------------
(* Writing the rows back to the captures *)

\* A finite set of integers has a greatest member.
LEMMA GreatestIs ==
  ASSUME NEW W \in SUBSET Int, IsFiniteSet(W), W # {}
  PROVE  \E i \in W : \A j \in W : j <= i
<1> DEFINE rank == [i \in W |-> 0]
           n == Cardinality(W)
<1>1. n \in Nat /\ n # 0
  BY FS_CardinalityType, FS_EmptySet
<1>2. \A i \in W : rank[i] \in Int
  OBVIOUS
<1>3. PICK i \in W : Place(W, rank)[i] = n
  <2>1. n \in 1..n
    BY <1>1
  <2> HIDE DEF rank
  <2>2. Listed(W, rank)[n] \in W /\ Place(W, rank)[Listed(W, rank)[n]] = n
    BY <1>2, <2>1, ListedIs
  <2>3. QED
    BY <2>2
<1>4. Cardinality(UpTo(W, rank, i)) = Cardinality(W)
  BY <1>3 DEF Place
<1>5. UpTo(W, rank, i) \in SUBSET W
  BY DEF UpTo
<1>6. UpTo(W, rank, i) = W
  <2> HIDE DEF rank
  <2>1. QED
    BY <1>4, <1>5, FS_Subset
<1>7. \A j \in W : j <= i
  BY <1>6 DEF UpTo
<1>8. QED
  BY <1>7

\* A row is of a sheet.
LEMMA KeyIs ==
  ASSUME StagingAssumption, NEW key \in Keys
  PROVE  /\ key \in [path : Paths, page : Nat] /\ key.path \in Paths
         /\ key.page \in PageNumbers /\ key.page \in Nat
<1>1. PICK k \in DOMAIN Sheets : key = Sheets[k]
  BY DEF Keys
<1>2. Sheets[k] \in [path : Paths, page : Nat]
  BY RowsAre DEF StagingAssumption
<1>3. Sheets[k].page \in PageNumbers
  BY DEF PageNumbers
<1>4. QED
  BY <1>1, <1>2, <1>3

CellType == [Paths -> [Fields -> [PageNumbers \cup {-1} -> Cell]]]

\* What a set of rows leaves in the cells it writes: a cell once, whichever row
\* comes last.
Reaches(rs, held) ==
  \A i \in DOMAIN rs : \A f \in rs[i].dirty :
    rs[i].version > 0 =>
      held[rs[i].key.path][f][IF f \in Once THEN -1 ELSE rs[i].key.page]
        = [text |-> rs[i].values[f], flagged |-> FALSE]

LastWriter(rs, p, f, k) ==
  CHOOSE i \in Writers(rs, p, f, k) : \A j \in Writers(rs, p, f, k) : j <= i

\* The writers of a cell agree, so the last of them has the text of each.
LEMMA WritersAgree ==
  ASSUME StagingAssumption, NEW rs, Sound(rs),
         NEW p, NEW f \in Fields, NEW k, Writers(rs, p, f, k) # {}
  PROVE  /\ LastWriter(rs, p, f, k) \in DOMAIN rs
         /\ \A i \in Writers(rs, p, f, k) :
              rs[LastWriter(rs, p, f, k)].values[f] = rs[i].values[f]
<1> DEFINE W == Writers(rs, p, f, k)
           last == LastWriter(rs, p, f, k)
<1>1. /\ rs \in Seq(Row) /\ Distinct(rs) /\ AgreeOnce(rs)
      /\ Len(rs) \in Nat /\ DOMAIN rs = 1..Len(rs) /\ \A i \in DOMAIN rs : rs[i] \in Row
  BY RowsAre DEF Sound
<1>2. W \in SUBSET DOMAIN rs
  BY DEF Writers
<1>3. W \in SUBSET Int /\ IsFiniteSet(W)
  <2> HIDE DEF W
  <2>1. IsFiniteSet(DOMAIN rs) /\ DOMAIN rs \in SUBSET Int
    BY <1>1, FS_Interval
  <2>2. QED
    BY <1>2, <2>1, FS_Subset
<1>4. last \in W
  <2> HIDE DEF W
  <2>1. \E i \in W : \A j \in W : j <= i
    <3>1. W # {}
      BY DEF W
    <3>2. QED
      BY <3>1, <1>3, GreatestIs
  <2>2. QED
    BY <2>1 DEF LastWriter, W
<1> HIDE DEF last
<1>5. ASSUME NEW i \in W PROVE rs[last].values[f] = rs[i].values[f]
  <2>1. /\ i \in DOMAIN rs /\ last \in DOMAIN rs
        /\ rs[i].key.path = p /\ rs[last].key.path = p
        /\ rs[i].version > 0 /\ rs[last].version > 0
        /\ f \in rs[i].dirty /\ f \in rs[last].dirty
        /\ k = (IF f \in Once THEN -1 ELSE rs[i].key.page)
        /\ k = (IF f \in Once THEN -1 ELSE rs[last].key.page)
    BY <1>4 DEF Writers
  <2>2. CASE f \in Once
    BY <1>1, <2>1, <2>2 DEF AgreeOnce
  <2>3. CASE f \notin Once
    <3>1. rs[i].key.page = rs[last].key.page /\ rs[i].key.path = rs[last].key.path
      BY <2>1, <2>3
    <3>2. rs[i].key \in Keys /\ rs[last].key \in Keys
      BY <1>1, <2>1 DEF Row
    <3>3. /\ rs[i].key \in [path : Paths, page : Nat]
          /\ rs[last].key \in [path : Paths, page : Nat]
      BY <3>2, KeyIs
    <3>4. rs[i].key = rs[last].key
      BY <3>1, <3>3
    <3>5. i = last
      BY <1>1, <2>1, <3>4 DEF Distinct
    <3>6. QED
      BY <3>5
  <2>4. QED
    BY <2>2, <2>3
<1>6. QED
  BY <1>2, <1>4, <1>5 DEF last

\* After a frame the captures hold every correction of its rows.
LEMMA AppliedReaches ==
  ASSUME StagingAssumption, captured \in CellType, NEW rs, Sound(rs), Current(rs, version)
  PROVE  Applied(rs) \in CellType /\ Reaches(rs, Applied(rs))
<1>1. /\ rs \in Seq(Row) /\ CleanRows(rs)
      /\ Len(rs) \in Nat /\ DOMAIN rs = 1..Len(rs) /\ \A i \in DOMAIN rs : rs[i] \in Row
  BY RowsAre DEF Sound
<1>2. ASSUME NEW i \in DOMAIN rs
      PROVE  /\ rs[i].key \in Keys /\ rs[i].dirty \in SUBSET Fields
             /\ rs[i].values \in [Fields -> Values] /\ rs[i].version \in Versions
  BY <1>1 DEF Row
<1> DEFINE cell(p, f, k) ==
             LET W == Writers(rs, p, f, k)
             IN IF W = {} THEN captured[p][f][k]
                ELSE [text |-> Clean[rs[LastWriter(rs, p, f, k)].values[f]], flagged |-> FALSE]
<1>3. ASSUME NEW p \in Paths, NEW f \in Fields, NEW k \in PageNumbers \cup {-1}
      PROVE  cell(p, f, k) \in Cell
  <2>1. CASE Writers(rs, p, f, k) = {}
    BY <2>1 DEF CellType
  <2>2. CASE Writers(rs, p, f, k) # {}
    <3> DEFINE last == LastWriter(rs, p, f, k)
    <3>1. last \in DOMAIN rs
      BY <2>2, WritersAgree
    <3>2. cell(p, f, k) = [text |-> Clean[rs[last].values[f]], flagged |-> FALSE]
      BY <2>2
    <3> HIDE DEF last, cell
    <3>3. Clean[rs[last].values[f]] \in Values
      BY <3>1, <1>2 DEF StagingAssumption
    <3>4. QED
      BY <3>2, <3>3 DEF Cell
  <2>3. QED
    BY <2>1, <2>2
<1>4. CASE \A i \in DOMAIN rs : rs[i].dirty = {}
  <2>1. Applied(rs) = captured
    BY <1>4 DEF Applied
  <2>2. Reaches(rs, captured)
    BY <1>4 DEF Reaches
  <2>3. QED
    BY <2>1, <2>2
<1>5. CASE ~(\A i \in DOMAIN rs : rs[i].dirty = {})
  <2>1. Applied(rs) = [p \in Paths |-> [f \in Fields |-> [k \in PageNumbers \cup {-1} |-> cell(p, f, k)]]]
    BY <1>5 DEF Applied, LastWriter
  <2>2. Applied(rs) \in CellType
    <3> HIDE DEF cell
    <3>1. QED
      BY <2>1, <1>3 DEF CellType
  <2>3. ASSUME NEW i \in DOMAIN rs, NEW f \in rs[i].dirty, rs[i].version > 0
        PROVE  Applied(rs)[rs[i].key.path][f][IF f \in Once THEN -1 ELSE rs[i].key.page]
                 = [text |-> rs[i].values[f], flagged |-> FALSE]
    <3> DEFINE p == rs[i].key.path
               k == IF f \in Once THEN -1 ELSE rs[i].key.page
               W == Writers(rs, p, f, k)
               last == LastWriter(rs, p, f, k)
    <3>1. p \in Paths /\ f \in Fields /\ k \in PageNumbers \cup {-1}
      BY <1>2, KeyIs
    <3>2. i \in W
      BY <2>3 DEF Writers, Current
    <3>3. last \in DOMAIN rs /\ rs[last].values[f] = rs[i].values[f]
      <4>1. W # {}
        BY <3>2
      <4>2. last \in DOMAIN rs /\ \A j \in W : rs[last].values[f] = rs[j].values[f]
        BY <3>1, <4>1, WritersAgree
      <4> HIDE DEF W, last
      <4>3. QED
        BY <3>2, <4>2
    <3>4. cell(p, f, k) = [text |-> Clean[rs[last].values[f]], flagged |-> FALSE]
      BY <3>2
    <3>5. Applied(rs)[p][f][k] = cell(p, f, k)
      <4> HIDE DEF cell, p, k
      <4>1. QED
        BY <2>1, <3>1
    <3> HIDE DEF last, cell
    <3>6. Clean[rs[last].values[f]] = rs[i].values[f]
      BY <3>1, <3>3, <1>1 DEF CleanRows
    <3>7. QED
      BY <3>4, <3>5, <3>6
  <2>4. Reaches(rs, Applied(rs))
    BY <2>3 DEF Reaches
  <2>5. QED
    BY <2>2, <2>4
<1>6. QED
  BY <1>4, <1>5

-----------------------------------------------------------------------------
(* The inductive invariant *)

\* The files, what was captured, and the choices of the user.
Documents ==
  /\ ticked \subseteq Paths /\ version \in [Paths -> Versions] /\ captured \in CellType
  /\ reviewed \in BOOLEAN /\ open \in BOOLEAN
  /\ template \in Templates /\ sequence \in BOOLEAN

\* The rows are of the sheets the review was opened with, one each.
Answers(rs, orig) ==
  /\ orig \in Seq(Keys)
  /\ KeySet(rs) = {orig[k] : k \in DOMAIN orig}
  /\ Len(rs) = Len(orig)
  /\ \A i, j \in DOMAIN orig : orig[i] = orig[j] => i = j

\* What is filtered, dragged and being saved.
Asked ==
  /\ filter \in Filters
  /\ drag \in {{}} \cup {{i} : i \in DOMAIN rows}
  /\ Cardinality(saving) <= 1 /\ \A e \in saving : e \in Seq(Export)
  /\ steps \in 0..MaxSteps

\* An export has the rows that are included, with the values they show.
Shows(e, rs) ==
  /\ {e[k].key : k \in DOMAIN e} = {rs[i].key : i \in {j \in DOMAIN rs : rs[j].included}}
  /\ \A k \in DOMAIN e : e[k].values = rs[IndexOf(rs, e[k].key)].values

Matches(saved, rs) == \A e \in saved : Shows(e, rs)

\* Rows with the names that follow from them; those of an open review are of
\* the present versions, and what they show has reached the captures.
Reviewing ==
  /\ Sound(rows) /\ Follow(rows, template, sequence) /\ Answers(rows, original)
  /\ open => Current(rows, version) /\ Reaches(rows, captured)

Inv == Documents /\ Reviewing /\ Asked /\ Matches(saving, rows)

\* It says all the properties of a state that are checked.
LEMMA InvSays ==
  Inv => TypeOK /\ NamesFollow /\ RowsOfTheSet /\ EditsReachCaptures /\ SavedIsReviewed
<1> SUFFICES ASSUME Inv
             PROVE  TypeOK /\ NamesFollow /\ RowsOfTheSet /\ EditsReachCaptures /\ SavedIsReviewed
  OBVIOUS
<1>1. TypeOK
  BY DEF Inv, Documents, Reviewing, Asked, Sound, Answers, CellType, TypeOK
<1>2. NamesFollow
  BY DEF Inv, Reviewing, Follow, NamesFollow
<1>3. RowsOfTheSet
  BY DEF Inv, Reviewing, Sound, Distinct, Answers, RowsOfTheSet
<1>4. EditsReachCaptures
  BY DEF Inv, Reviewing, Reaches, EditsReachCaptures, CellOf
<1>5. SavedIsReviewed
  BY DEF Inv, Matches, Shows, SavedIsReviewed
<1>6. QED
  BY <1>1, <1>2, <1>3, <1>4, <1>5

\* A frame whose rows may take the place of the last one's.
LEMMA FrameKeeps ==
  ASSUME StagingAssumption, Documents, Reviewing, Frame, original' = original, open' \in BOOLEAN,
         Keeps(rows, rows'), Follow(rows', template', sequence'),
         template' \in Templates, sequence' \in BOOLEAN
  PROVE  Documents' /\ Reviewing' /\ DOMAIN rows' = DOMAIN rows
<1>1. /\ captured' = Applied(rows') /\ ticked' = ticked /\ version' = version
      /\ reviewed' = reviewed /\ open
  BY DEF Frame
<1>2. /\ Sound(rows') /\ KeySet(rows') = KeySet(rows) /\ Len(rows') = Len(rows)
      /\ Current(rows', version)
  BY <1>1 DEF Keeps, Reviewing
<1>3. Applied(rows') \in CellType /\ Reaches(rows', Applied(rows'))
  BY <1>2, AppliedReaches DEF Documents
<1>4. Answers(rows', original')
  BY <1>2 DEF Reviewing, Answers
<1>5. Documents'
  BY <1>1, <1>3 DEF Documents, CellType
<1>6. Current(rows', version') /\ Reaches(rows', captured')
  BY <1>1, <1>2, <1>3
<1>7. Reviewing'
  BY <1>2, <1>4, <1>6 DEF Reviewing
<1>8. DOMAIN rows' = DOMAIN rows
  BY <1>2, RowsAre DEF Reviewing, Sound
<1>9. QED
  BY <1>5, <1>7, <1>8

\* The names of such rows made again.
LEMMA NamedKeeps ==
  ASSUME StagingAssumption, NEW rs, NEW qs, Keeps(rs, qs),
         NEW temp \in Templates, NEW seq \in BOOLEAN
  PROVE  /\ Keeps(rs, Named(qs, temp, seq)) /\ Follow(Named(qs, temp, seq), temp, seq)
         /\ Renames(qs, Named(qs, temp, seq)) /\ KeysOf(Named(qs, temp, seq)) = KeysOf(qs)
<1> DEFINE ws == Named(qs, temp, seq)
<1>1. Sound(qs) /\ qs \in Seq(Row) /\ ManualTyped(qs)
  BY DEF Keeps, Sound
<1>2. Renames(qs, ws) /\ Follow(ws, temp, seq)
  BY <1>1, NamedIs
<1> HIDE DEF ws
<1>3. Keeps(qs, ws) /\ KeysOf(ws) = KeysOf(qs)
  BY <1>1, <1>2, RenamesKeeps
<1>4. Keeps(rs, ws)
  BY <1>3 DEF Keeps
<1>5. QED
  BY <1>2, <1>3, <1>4 DEF ws

\* The rows as they are.
LEMMA SameKeeps ==
  ASSUME NEW rs, Sound(rs)
  PROVE  Keeps(rs, rs)
BY DEF Keeps

-----------------------------------------------------------------------------
(* What the user does to single rows *)

\* Rows of the same documents in the same places.
Rewrites(rs, qs) ==
  /\ DOMAIN qs = DOMAIN rs /\ qs = [i \in DOMAIN rs |-> qs[i]]
  /\ \A i \in DOMAIN rs : /\ qs[i] \in Row
                          /\ qs[i].key = rs[i].key /\ qs[i].version = rs[i].version

\* They may take the place of the others when they are sound in the rest.
LEMMA RewritesKeeps ==
  ASSUME NEW rs, Sound(rs), NEW qs, Rewrites(rs, qs),
         CleanRows(qs), AgreeOnce(qs), ManualTyped(qs), IncludedKnown(qs)
  PROVE  Keeps(rs, qs)
<1>1. Len(rs) \in Nat /\ DOMAIN rs = 1..Len(rs)
  BY RowsAre DEF Sound
<1>2. qs \in [1..Len(rs) -> Row]
  BY <1>1 DEF Rewrites
<1>3. qs \in Seq(Row) /\ Len(qs) = Len(rs)
  BY <1>1, <1>2, RowsFrom
<1>4. \A i \in DOMAIN rs : qs[i].key = rs[i].key /\ qs[i].version = rs[i].version
  BY DEF Rewrites
<1>5. DOMAIN qs = DOMAIN rs
  BY DEF Rewrites
<1>6. Distinct(qs)
  BY <1>4, <1>5 DEF Distinct, Sound
<1>7. KeySet(qs) = KeySet(rs)
  BY <1>4, <1>5 DEF KeySet
<1>8. \A ver : Current(rs, ver) => Current(qs, ver)
  BY <1>4, <1>5 DEF Current
<1>9. QED
  BY <1>3, <1>6, <1>7, <1>8 DEF Keeps, Sound

\* A value is written to the row edited, or to all rows of a known document.
LEMMA SetValueKeeps ==
  ASSUME StagingAssumption, Sound(rows), NEW i \in DOMAIN rows, NEW f \in Fields, NEW v \in Values
  PROVE  Keeps(rows, SetValue(i, f, v))
<1> DEFINE qs == SetValue(i, f, v)
           written(j) == j = i \/ (f \in Once /\ rows[j].version > 0)
<1>1. /\ DOMAIN qs = DOMAIN rows /\ qs = [j \in DOMAIN rows |-> qs[j]]
      /\ \A j \in DOMAIN rows : rows[j] \in Row
  BY RowsAre DEF SetValue, Sound
<1>2. Clean[v] \in Values /\ Clean[Clean[v]] = Clean[v] /\ Once \subseteq Fields
  BY DEF StagingAssumption
<1>3. ASSUME NEW j \in DOMAIN rows
      PROVE  /\ qs[j] \in Row
             /\ qs[j].key = rows[j].key /\ qs[j].version = rows[j].version
             /\ qs[j].included = rows[j].included /\ qs[j].manual = rows[j].manual
             /\ qs[j].filename = rows[j].filename
             /\ \A g \in Fields : g # f => qs[j].values[g] = rows[j].values[g]
             /\ \A g \in Fields : g # f /\ g \in qs[j].dirty => g \in rows[j].dirty
             /\ written(j) => qs[j].values[f] = Clean[v]
             /\ ~written(j) => qs[j] = rows[j]
  <2>1. rows[j] \in Row /\ rows[j].values \in [Fields -> Values]
        /\ rows[j].dirty \in SUBSET Fields /\ rows[j].warnings \in SUBSET Fields
    BY <1>1 DEF Row
  <2>2. CASE written(j)
    <3> DEFINE new   == [rows[j].values EXCEPT ![f] = Clean[v]]
               dirty == rows[j].dirty \cup {f}
               warn  == rows[j].warnings \ {f}
    <3>1. qs[j] = [rows[j] EXCEPT !.values = new, !.dirty = dirty, !.warnings = warn]
      BY <2>2 DEF SetValue
    <3>2. /\ new \in [Fields -> Values] /\ new[f] = Clean[v]
          /\ \A g \in Fields : g # f => new[g] = rows[j].values[g]
      BY <2>1, <1>2
    <3>3. /\ dirty \in SUBSET Fields /\ warn \in SUBSET Fields
          /\ \A g \in Fields : g # f /\ g \in dirty => g \in rows[j].dirty
      BY <2>1
    <3> HIDE DEF new, qs, dirty, warn
    <3>4. /\ qs[j].key = rows[j].key /\ qs[j].version = rows[j].version
          /\ qs[j].included = rows[j].included /\ qs[j].manual = rows[j].manual
          /\ qs[j].filename = rows[j].filename /\ qs[j].values = new
          /\ qs[j].dirty = dirty
      BY <2>1, <3>1 DEF Row
    <3>5. qs[j] \in Row
      BY <2>1, <3>1, <3>2, <3>3 DEF Row
    <3>6. QED
      BY <2>2, <3>2, <3>3, <3>4, <3>5
  <2>3. CASE ~written(j)
    <3>1. qs[j] = rows[j]
      BY <2>3 DEF SetValue
    <3> HIDE DEF qs
    <3>2. QED
      BY <2>1, <2>3, <3>1
  <2>4. QED
    BY <2>2, <2>3
<1> HIDE DEF qs
<1>4. Rewrites(rows, qs)
  BY <1>1, <1>3 DEF Rewrites
<1>5. CleanRows(qs)
  <2>1. ASSUME NEW j \in DOMAIN rows, NEW g \in Fields PROVE Clean[qs[j].values[g]] = qs[j].values[g]
    <3>1. Clean[rows[j].values[g]] = rows[j].values[g]
      BY DEF Sound, CleanRows
    <3>2. CASE g = f
      BY <3>1, <3>2, <1>2, <1>3
    <3>3. CASE g # f
      BY <3>1, <3>3, <1>3
    <3>4. QED
      BY <3>2, <3>3
  <2>2. QED
    BY <1>1, <2>1 DEF CleanRows
<1>6. AgreeOnce(qs)
  <2>1. ASSUME NEW j \in DOMAIN rows, NEW l \in DOMAIN rows, NEW g \in Once,
               qs[j].version > 0, qs[l].version > 0, g \in qs[j].dirty, g \in qs[l].dirty
        PROVE  qs[j].values[g] = qs[l].values[g]
    <3>1. g \in Fields /\ rows[j].version > 0 /\ rows[l].version > 0
      BY <2>1, <1>2, <1>3
    <3>2. CASE g = f
      <4>1. written(j) /\ written(l)
        BY <3>1, <3>2
      <4>2. QED
        BY <4>1, <3>2, <1>3
    <3>3. CASE g # f
      <4>1. g \in rows[j].dirty /\ g \in rows[l].dirty
        BY <2>1, <3>1, <3>3, <1>3
      <4>2. rows[j].values[g] = rows[l].values[g]
        BY <3>1, <4>1 DEF Sound, AgreeOnce
      <4>3. QED
        BY <4>2, <3>1, <3>3, <1>3
    <3>4. QED
      BY <3>2, <3>3
  <2>2. QED
    BY <1>1, <2>1 DEF AgreeOnce
<1>7. ManualTyped(qs)
  BY <1>1, <1>3 DEF ManualTyped, Sound
<1>8. IncludedKnown(qs)
  BY <1>1, <1>3 DEF IncludedKnown, Sound
<1>9. QED
  BY <1>4, <1>5, <1>6, <1>7, <1>8, RewritesKeeps DEF qs

\* The user types a name.
LEMMA RenameKeeps ==
  ASSUME Sound(rows), NEW i \in DOMAIN rows, NEW name \in Names, NEW temp, NEW seq,
         NEW qs, qs = [rows EXCEPT ![i].filename = name, ![i].manual = TRUE]
  PROVE  Keeps(rows, qs) /\ (Follow(rows, temp, seq) => Follow(qs, temp, seq))
<1>1. /\ DOMAIN qs = DOMAIN rows /\ qs = [j \in DOMAIN rows |-> qs[j]]
      /\ \A j \in DOMAIN rows : rows[j] \in Row
  BY RowsAre DEF Sound
<1>2. \A j \in DOMAIN rows \ {i} : qs[j] = rows[j]
  OBVIOUS
<1>3. /\ qs[i] \in Row /\ qs[i].key = rows[i].key /\ qs[i].version = rows[i].version
      /\ qs[i].included = rows[i].included /\ qs[i].values = rows[i].values
      /\ qs[i].dirty = rows[i].dirty /\ qs[i].manual = TRUE /\ qs[i].filename = name
  <2>1. qs[i] = [rows[i] EXCEPT !.filename = name, !.manual = TRUE]
    OBVIOUS
  <2>2. rows[i] \in Row
    BY <1>1
  <2>3. QED
    BY <2>1, <2>2 DEF Row
<1>4. \A j \in DOMAIN rows :
        /\ qs[j] \in Row /\ qs[j].key = rows[j].key /\ qs[j].version = rows[j].version
        /\ qs[j].included = rows[j].included /\ qs[j].values = rows[j].values
        /\ qs[j].dirty = rows[j].dirty
        /\ qs[j] = rows[j] \/ (qs[j].manual /\ qs[j].filename \in Names)
  BY <1>1, <1>2, <1>3
<1>5. Rewrites(rows, qs)
  BY <1>1, <1>4 DEF Rewrites
<1>6. CleanRows(qs) /\ AgreeOnce(qs)
  BY <1>1, <1>4 DEF CleanRows, AgreeOnce, Sound
<1>7. ManualTyped(qs) /\ IncludedKnown(qs)
  BY <1>1, <1>4 DEF ManualTyped, IncludedKnown, Sound
<1>8. Follow(rows, temp, seq) => Follow(qs, temp, seq)
  BY <1>1, <1>4 DEF Follow
<1>9. QED
  BY <1>5, <1>6, <1>7, <1>8, RewritesKeeps

\* He chooses which rows are exported, among those of known documents.
LEMMA InclusionKeeps ==
  ASSUME Sound(rows), NEW chosen, \A j \in DOMAIN rows : chosen[j] \in BOOLEAN /\ (chosen[j] => rows[j].included \/ rows[j].version > 0),
         NEW temp, NEW seq, NEW qs, qs = [j \in DOMAIN rows |-> [rows[j] EXCEPT !.included = chosen[j]]]
  PROVE  Keeps(rows, qs) /\ (Follow(rows, temp, seq) => Follow(qs, temp, seq))
<1>1. /\ DOMAIN qs = DOMAIN rows /\ qs = [j \in DOMAIN rows |-> qs[j]]
      /\ \A j \in DOMAIN rows : rows[j] \in Row
  BY RowsAre DEF Sound
<1>2. ASSUME NEW j \in DOMAIN rows
      PROVE  /\ qs[j] \in Row /\ qs[j].key = rows[j].key /\ qs[j].version = rows[j].version
             /\ qs[j].manual = rows[j].manual /\ qs[j].filename = rows[j].filename
             /\ qs[j].values = rows[j].values /\ qs[j].dirty = rows[j].dirty
             /\ qs[j].included = chosen[j]
  <2>1. qs[j] = [rows[j] EXCEPT !.included = chosen[j]]
    OBVIOUS
  <2>2. rows[j] \in Row /\ chosen[j] \in BOOLEAN
    BY <1>1
  <2>3. QED
    BY <2>1, <2>2 DEF Row
<1>3. Rewrites(rows, qs)
  BY <1>1, <1>2 DEF Rewrites
<1>4. CleanRows(qs) /\ AgreeOnce(qs)
  BY <1>1, <1>2 DEF CleanRows, AgreeOnce, Sound
<1>5. ManualTyped(qs)
  BY <1>1, <1>2 DEF ManualTyped, Sound
<1>6. IncludedKnown(qs)
  BY <1>1, <1>2 DEF IncludedKnown, Sound
<1>7. Follow(rows, temp, seq) => Follow(qs, temp, seq)
  <2> SUFFICES ASSUME Follow(rows, temp, seq), NEW j \in DOMAIN rows
               PROVE  IF qs[j].manual THEN qs[j].filename \in Names
                      ELSE qs[j].filename = NameOf(j, qs[j], temp, seq)
    BY <1>1 DEF Follow
  <2>1. qs[j].key = rows[j].key /\ qs[j].values = rows[j].values
    BY <1>2
  <2>2. NameOf(j, qs[j], temp, seq) = NameOf(j, rows[j], temp, seq)
    BY <2>1, NameAlike
  <2>3. QED
    BY <2>2, <1>2 DEF Follow
<1>8. QED
  BY <1>3, <1>4, <1>5, <1>6, <1>7, RewritesKeeps

-----------------------------------------------------------------------------
(* Where a dragged row lands *)

\* The index at which the row is put in again, counted without it.
Gap(from, target, above) ==
  LET adjusted == IF target > from THEN target - 1 ELSE target
  IN IF above THEN adjusted ELSE adjusted + 1

\* Where row i lies afterwards, and which row then lies at k.
DestOf(from, gap, i) ==
  IF i = from THEN gap
  ELSE LET other == IF i < from THEN i ELSE i - 1
       IN IF other < gap THEN other ELSE other + 1

SourceOf(from, gap, k) ==
  IF k = gap THEN from
  ELSE LET other == IF k < gap THEN k ELSE k - 1
       IN IF other < from THEN other ELSE other + 1

Relocates(n, from, gap) ==
  /\ \A i \in 1..n : /\ DestOf(from, gap, i) \in 1..n
                    /\ SourceOf(from, gap, DestOf(from, gap, i)) = i
  /\ \A k \in 1..n : /\ SourceOf(from, gap, k) \in 1..n
                    /\ DestOf(from, gap, SourceOf(from, gap, k)) = k

Beside(n, from, target, above, gap) ==
  /\ DestOf(from, gap, from) = IF above THEN DestOf(from, gap, target) - 1
                                ELSE DestOf(from, gap, target) + 1
  /\ \A i, j \in (1..n) \ {from} : i < j => DestOf(from, gap, i) < DestOf(from, gap, j)

\* The two are inverse, and what the line shows is what happens.
LEMMA LandsThere ==
  ASSUME NEW n \in Nat, NEW from \in 1..n, NEW target \in 1..n, from # target,
         NEW above \in BOOLEAN, NEW gap, gap = Gap(from, target, above)
  PROVE  /\ gap \in 1..n /\ Relocates(n, from, gap)
         /\ Beside(n, from, target, above, gap)
<1>1. gap \in 1..n
  BY DEF Gap
<1>2. \A i \in 1..n : /\ DestOf(from, gap, i) \in 1..n
                     /\ SourceOf(from, gap, DestOf(from, gap, i)) = i
  BY <1>1 DEF DestOf, SourceOf
<1>3. \A k \in 1..n : /\ SourceOf(from, gap, k) \in 1..n
                     /\ DestOf(from, gap, SourceOf(from, gap, k)) = k
  BY <1>1 DEF DestOf, SourceOf
<1>4. DestOf(from, gap, from) = IF above THEN DestOf(from, gap, target) - 1
                                ELSE DestOf(from, gap, target) + 1
  BY DEF DestOf, Gap
<1>5. \A i, j \in (1..n) \ {from} : i < j => DestOf(from, gap, i) < DestOf(from, gap, j)
  BY <1>1 DEF DestOf
<1>6. QED
  BY <1>1, <1>2, <1>3, <1>4, <1>5 DEF Relocates, Beside

\* Taking a row out and putting it in again puts every row where it says.
LEMMA ReorderedIs ==
  ASSUME Sound(rows), NEW from \in DOMAIN rows, NEW target \in DOMAIN rows, from # target,
         NEW above \in BOOLEAN, NEW gap, gap = Gap(from, target, above)
  PROVE  /\ Permutes(rows, Reordered(from, target, above))
         /\ \A i \in DOMAIN rows :
              /\ DestOf(from, gap, i) \in DOMAIN Reordered(from, target, above)
              /\ Reordered(from, target, above)[DestOf(from, gap, i)] = rows[i]
<1> DEFINE n == Len(rows)
           qs == Reordered(from, target, above)
           src(k) == SourceOf(from, gap, k)
           dest(i) == DestOf(from, gap, i)
<1>1. n \in Nat /\ DOMAIN rows = 1..n /\ \A i \in 1..n : rows[i] \in Row
  BY RowsAre DEF Sound
<1>2. /\ gap \in 1..n
      /\ \A i \in 1..n : dest(i) \in 1..n /\ src(dest(i)) = i
      /\ \A k \in 1..n : src(k) \in 1..n /\ dest(src(k)) = k
  <2>1. from \in 1..n /\ target \in 1..n
    BY <1>1
  <2> HIDE DEF n
  <2>2. gap \in 1..n
    BY <1>1, <2>1, LandsThere
  <2>3. Relocates(n, from, gap)
    BY <1>1, <2>1, LandsThere
  <2>4. QED
    BY <2>2, <2>3 DEF Relocates
<1>3. qs = [k \in 1..n |-> rows[src(k)]]
  <2> DEFINE others == [i \in 1..Len(rows) - 1 |-> IF i < from THEN rows[i] ELSE rows[i + 1]]
  <2>1. qs = [i \in 1..n |-> CASE i < gap -> others[i]
                             [] i = gap -> rows[from]
                             [] OTHER   -> others[i - 1]]
    BY <1>1 DEF Reordered, Gap
  <2>2. \A i \in 1..n - 1 : others[i] = rows[IF i < from THEN i ELSE i + 1]
    OBVIOUS
  <2> HIDE DEF others, qs
  <2>3. ASSUME NEW k \in 1..n
        PROVE  (CASE k < gap -> others[k] [] k = gap -> rows[from] [] OTHER -> others[k - 1])
                 = rows[src(k)]
    <3>1. CASE k < gap
      <4>1. k \in 1..n - 1 /\ src(k) = IF k < from THEN k ELSE k + 1
        BY <3>1, <1>1, <1>2 DEF SourceOf
      <4>2. QED
        BY <4>1, <3>1, <2>2
    <3>2. CASE k = gap
      BY <3>2, <1>1, <1>2 DEF SourceOf
    <3>3. CASE k > gap
      <4>1. k - 1 \in 1..n - 1 /\ src(k) = IF k - 1 < from THEN k - 1 ELSE (k - 1) + 1
        BY <3>3, <1>1, <1>2 DEF SourceOf
      <4>2. others[k - 1] = rows[src(k)]
        BY <4>1, <2>2
      <4>3. ~(k < gap) /\ k # gap
        <5>1. k \in Int /\ gap \in Int
          BY <1>1, <1>2
        <5>2. QED
          BY <3>3, <5>1
      <4>4. QED
        BY <4>2, <4>3
    <3>4. QED
      BY <3>1, <3>2, <3>3, <1>1, <1>2
  <2>4. QED
    BY <2>1, <2>3
<1> HIDE DEF qs, src, dest
<1>4. qs \in [1..n -> Row]
  BY <1>1, <1>2, <1>3
<1>5. qs \in Seq(Row) /\ Len(qs) = n /\ DOMAIN qs = 1..n
  BY <1>1, <1>4, RowsFrom
<1>6. \A i \in 1..n : qs[dest(i)] = rows[i]
  BY <1>2, <1>3
<1>7. Distinct(qs)
  <2>1. ASSUME NEW j \in 1..n, NEW k \in 1..n, qs[j].key = qs[k].key PROVE j = k
    <3>1. rows[src(j)].key = rows[src(k)].key /\ src(j) \in 1..n /\ src(k) \in 1..n
      BY <2>1, <1>2, <1>3
    <3>2. src(j) = src(k)
      BY <3>1, <1>1 DEF Sound, Distinct
    <3>3. QED
      BY <3>2, <1>2
  <2>2. QED
    BY <2>1, <1>5 DEF Distinct
<1>8. Permutes(rows, qs)
  <2>1. \A k \in 1..n : \E i \in 1..n : qs[k] = rows[i]
    BY <1>2, <1>3
  <2>2. \A i \in 1..n : \E k \in 1..n : qs[k] = rows[i]
    BY <1>2, <1>6
  <2>3. QED
    BY <2>1, <2>2, <1>1, <1>5, <1>7 DEF Permutes
<1>9. QED
  BY <1>1, <1>2, <1>5, <1>6, <1>8 DEF qs, dest

\* Each sheet has one row.
LEMMA IndexIs ==
  ASSUME NEW rs, Distinct(rs)
  PROVE  /\ \A i \in DOMAIN rs : IndexOf(rs, rs[i].key) = i
         /\ \A key \in KeySet(rs) : IndexOf(rs, key) \in DOMAIN rs /\ rs[IndexOf(rs, key)].key = key
<1>1. ASSUME NEW key \in KeySet(rs)
      PROVE  IndexOf(rs, key) \in DOMAIN rs /\ rs[IndexOf(rs, key)].key = key
  BY DEF KeySet, IndexOf
<1>2. ASSUME NEW i \in DOMAIN rs PROVE IndexOf(rs, rs[i].key) = i
  <2>1. rs[i].key \in KeySet(rs)
    BY DEF KeySet
  <2>2. QED
    BY <2>1, <1>1 DEF Distinct
<1>3. QED
  BY <1>1, <1>2

\* What is being saved is still what the rows say, in whatever order they are.
LEMMA MatchesPermuted ==
  ASSUME NEW saved, NEW rs, Sound(rs), Matches(saved, rs), NEW qs, Permutes(rs, qs)
  PROVE  Matches(saved, qs)
<1>1. Distinct(rs) /\ Distinct(qs)
  BY DEF Sound, Permutes
<1>2. /\ \A k \in DOMAIN qs : \E i \in DOMAIN rs : qs[k] = rs[i]
      /\ \A i \in DOMAIN rs : \E k \in DOMAIN qs : qs[k] = rs[i]
  BY DEF Permutes
<1>3. KeySet(qs) = KeySet(rs)
  BY <1>2 DEF KeySet
<1>4. ASSUME NEW key \in KeySet(rs) PROVE qs[IndexOf(qs, key)] = rs[IndexOf(rs, key)]
  <2>1. IndexOf(qs, key) \in DOMAIN qs /\ qs[IndexOf(qs, key)].key = key
    BY <1>1, <1>3, IndexIs
  <2>2. PICK i \in DOMAIN rs : qs[IndexOf(qs, key)] = rs[i]
    BY <1>2, <2>1
  <2>3. IndexOf(rs, key) = i
    BY <1>1, <2>1, <2>2, IndexIs
  <2>4. QED
    BY <2>2, <2>3
<1>5. {qs[i].key : i \in {j \in DOMAIN qs : qs[j].included}}
        = {rs[i].key : i \in {j \in DOMAIN rs : rs[j].included}}
  BY <1>2
<1>6. ASSUME NEW e \in saved
      PROVE  /\ {e[k].key : k \in DOMAIN e} = {qs[i].key : i \in {j \in DOMAIN qs : qs[j].included}}
             /\ \A k \in DOMAIN e : e[k].values = qs[IndexOf(qs, e[k].key)].values
  <2>1. /\ {e[k].key : k \in DOMAIN e} = {rs[i].key : i \in {j \in DOMAIN rs : rs[j].included}}
        /\ \A k \in DOMAIN e : e[k].values = rs[IndexOf(rs, e[k].key)].values
    BY DEF Matches, Shows
  <2>2. \A k \in DOMAIN e : e[k].key \in KeySet(rs)
    BY <2>1 DEF KeySet
  <2>3. QED
    BY <2>1, <2>2, <1>4, <1>5
<1>7. QED
  BY <1>6 DEF Matches, Shows

\* And whatever their names are.
LEMMA MatchesRenamed ==
  ASSUME NEW saved, NEW rs, Sound(rs), Matches(saved, rs), NEW qs, Renames(rs, qs)
  PROVE  Matches(saved, qs)
<1>1. /\ DOMAIN qs = DOMAIN rs /\ Keeps(rs, qs)
      /\ \A i \in DOMAIN rs : /\ qs[i].key = rs[i].key /\ qs[i].included = rs[i].included
                              /\ qs[i].values = rs[i].values
  BY RenamesKeeps DEF Renames
<1>2. {qs[i].key : i \in {j \in DOMAIN qs : qs[j].included}}
        = {rs[i].key : i \in {j \in DOMAIN rs : rs[j].included}}
  BY <1>1
<1>3. \A key \in KeySet(rs) : /\ IndexOf(rs, key) \in DOMAIN rs /\ IndexOf(qs, key) \in DOMAIN qs
                             /\ qs[IndexOf(qs, key)].key = key /\ rs[IndexOf(rs, key)].key = key
  BY <1>1, IndexIs DEF Keeps, Sound
<1>4. \A key \in KeySet(rs) : IndexOf(rs, key) = IndexOf(qs, key)
  BY <1>1, <1>3 DEF Sound, Distinct
<1>5. ASSUME NEW e \in saved
      PROVE  /\ {e[k].key : k \in DOMAIN e} = {qs[i].key : i \in {j \in DOMAIN qs : qs[j].included}}
             /\ \A k \in DOMAIN e : e[k].values = qs[IndexOf(qs, e[k].key)].values
  <2>1. /\ {e[k].key : k \in DOMAIN e} = {rs[i].key : i \in {j \in DOMAIN rs : rs[j].included}}
        /\ \A k \in DOMAIN e : e[k].values = rs[IndexOf(rs, e[k].key)].values
    BY DEF Matches, Shows
  <2>2. \A k \in DOMAIN e : e[k].key \in KeySet(rs)
    BY <2>1 DEF KeySet
  <2>3. ASSUME NEW k \in DOMAIN e PROVE e[k].values = qs[IndexOf(qs, e[k].key)].values
    <3>1. IndexOf(rs, e[k].key) = IndexOf(qs, e[k].key) /\ IndexOf(rs, e[k].key) \in DOMAIN rs
      BY <2>2, <1>3, <1>4
    <3>2. QED
      BY <3>1, <2>1, <1>1
  <2>4. QED
    BY <2>1, <2>3, <1>2
<1>6. QED
  BY <1>5 DEF Matches, Shows

-----------------------------------------------------------------------------
(* Opening the review *)

Untouched(rs) == \A i \in DOMAIN rs : rs[i].dirty = {}

\* A row made from the captures.
LEMMA FreshRowIs ==
  ASSUME StagingAssumption, version \in [Paths -> Versions], captured \in CellType, NEW key \in Keys
  PROVE  /\ FreshRow(key) \in Row
         /\ FreshRow(key).key = key /\ FreshRow(key).version = version[key.path]
         /\ FreshRow(key).included => FreshRow(key).version > 0
         /\ ~FreshRow(key).manual /\ FreshRow(key).dirty = {}
         /\ \A f \in Fields : Clean[FreshRow(key).values[f]] = FreshRow(key).values[f]
<1> DEFINE values == [f \in Fields |-> IF version[key.path] = 0 THEN Blank
                                      ELSE Clean[CellOf(f, key).text]]
           warnings == {f \in Fields : version[key.path] > 0 /\ CellOf(f, key).flagged}
           name == [place |-> 0, parts |-> {}, page |-> -1]
           row == FreshRow(key)
<1>1. key.path \in Paths /\ key.page \in PageNumbers /\ version[key.path] \in Versions
  BY KeyIs
<1>2. ASSUME NEW f \in Fields PROVE CellOf(f, key).text \in Values
  <2>1. CellOf(f, key) \in Cell
    BY <1>1 DEF CellOf, CellType
  <2>2. QED
    BY <2>1 DEF Cell
<1>3. values \in [Fields -> Values] /\ \A f \in Fields : Clean[values[f]] = values[f]
  BY <1>2 DEF StagingAssumption
<1>4. warnings \in SUBSET Fields
  OBVIOUS
<1>5. name \in Generated
  BY DEF Generated
<1>6. (version[key.path] > 0) \in BOOLEAN
  OBVIOUS
<1>7. row = [key |-> key, version |-> version[key.path], included |-> version[key.path] > 0,
             filename |-> name, manual |-> FALSE, values |-> values,
             warnings |-> warnings, dirty |-> {}]
  BY DEF FreshRow
<1> HIDE DEF values, warnings, name, row
<1>8. row \in Row
  BY <1>1, <1>3, <1>4, <1>5, <1>7 DEF Row
<1>9. /\ row.key = key /\ row.version = version[key.path]
      /\ row.included => row.version > 0
      /\ ~row.manual /\ row.dirty = {} /\ row.values = values
  BY <1>7
<1>10. QED
  BY <1>3, <1>8, <1>9 DEF row

\* The rows of a new review: each sheet of it once, as the captures have it.
LEMMA FreshIs ==
  ASSUME StagingAssumption, version \in [Paths -> Versions], captured \in CellType, NEW active
  PROVE  /\ Sound(Fresh(active)) /\ Current(Fresh(active), version) /\ Untouched(Fresh(active))
<1> DEFINE S == {i \in DOMAIN Sheets : InReview(Sheets[i], active)}
           rank == [i \in DOMAIN Sheets |-> i]
           L == Listed(S, rank)
           n == Cardinality(S)
           rs == Fresh(active)
<1>1. Len(Sheets) \in Nat /\ DOMAIN Sheets = 1..Len(Sheets)
  BY RowsAre DEF StagingAssumption
<1>2. S \in SUBSET DOMAIN Sheets
  OBVIOUS
<1>3. S \in SUBSET Int /\ IsFiniteSet(S) /\ \A i \in S : rank[i] \in Int
  <2> HIDE DEF S
  <2>1. IsFiniteSet(DOMAIN Sheets) /\ DOMAIN Sheets \in SUBSET Int
    BY <1>1, FS_Interval
  <2>2. QED
    BY <1>2, <2>1, FS_Subset
<1>4. rs = [k \in DOMAIN L |-> FreshRow(Sheets[L[k]])]
  BY DEF Fresh
<1> HIDE DEF S, rank
<1>5. n \in Nat /\ DOMAIN L = 1..n
  BY <1>3, ListedIs
<1>6. \A k \in 1..n : L[k] \in S /\ Place(S, rank)[L[k]] = k
  BY <1>3, ListedIs
<1> HIDE DEF n, L, rs
<1>7. ASSUME NEW k \in 1..n
      PROVE  /\ L[k] \in DOMAIN Sheets /\ Sheets[L[k]] \in Keys
             /\ rs[k] = FreshRow(Sheets[L[k]])
  <2>1. L[k] \in DOMAIN Sheets
    BY <1>2, <1>6
  <2>2. Sheets[L[k]] \in Keys
    BY <2>1 DEF Keys
  <2>3. QED
    BY <2>1, <2>2, <1>4, <1>5
<1>8. \A k \in 1..n :
        /\ rs[k] \in Row /\ rs[k].key = Sheets[L[k]] /\ rs[k].version = version[rs[k].key.path]
        /\ rs[k].included => rs[k].version > 0
        /\ ~rs[k].manual /\ rs[k].dirty = {}
        /\ \A f \in Fields : Clean[rs[k].values[f]] = rs[k].values[f]
  BY <1>7, FreshRowIs
<1>9. rs \in [1..n -> Row]
  <2>1. rs = [k \in 1..n |-> rs[k]]
    BY <1>4, <1>5
  <2>2. QED
    BY <2>1, <1>8
<1>10. rs \in Seq(Row) /\ DOMAIN rs = 1..n
  BY <1>5, <1>9, RowsFrom
<1>11. Distinct(rs)
  <2>1. ASSUME NEW j \in 1..n, NEW k \in 1..n, rs[j].key = rs[k].key PROVE j = k
    <3>1. L[j] = L[k]
      BY <2>1, <1>7, <1>8 DEF StagingAssumption
    <3>2. QED
      BY <3>1, <1>6
  <2>2. QED
    BY <2>1, <1>10 DEF Distinct
<1>12. CleanRows(rs) /\ AgreeOnce(rs)
  BY <1>8, <1>10 DEF CleanRows, AgreeOnce
<1>13. ManualTyped(rs) /\ IncludedKnown(rs)
  BY <1>8, <1>10 DEF ManualTyped, IncludedKnown
<1>14. Current(rs, version) /\ Untouched(rs)
  BY <1>8, <1>10 DEF Current, Untouched
<1>15. QED
  BY <1>10, <1>11, <1>12, <1>13, <1>14 DEF Sound, rs

\* The rows that take over what was decided about them.
KeptRows(fresh) == [i \in DOMAIN fresh |-> Kept(fresh[i])]

\* They are the same rows, but for the name and the inclusion.
LEMMA KeptIs ==
  ASSUME Sound(rows), NEW fresh, Sound(fresh), Untouched(fresh), SameRows(fresh)
  PROVE  /\ Keeps(fresh, KeptRows(fresh)) /\ Untouched(KeptRows(fresh))
         /\ DOMAIN KeptRows(fresh) = DOMAIN fresh
         /\ \A i \in DOMAIN fresh : IndexOf(rows, fresh[i].key) \in DOMAIN rows
<1> DEFINE qs == KeptRows(fresh)
<1>1. /\ DOMAIN qs = DOMAIN fresh /\ qs = [i \in DOMAIN fresh |-> qs[i]]
      /\ \A i \in DOMAIN fresh : qs[i] = Kept(fresh[i])
  BY DEF KeptRows
<1>2. /\ \A i \in DOMAIN fresh : fresh[i] \in Row
      /\ \A i \in DOMAIN rows : rows[i] \in Row
  BY RowsAre DEF Sound
<1>3. \A i \in DOMAIN fresh : IndexOf(rows, fresh[i].key) \in DOMAIN rows
  <2>1. \A i \in DOMAIN fresh : fresh[i].key \in KeySet(rows)
    BY DEF SameRows, KeySet
  <2>2. QED
    BY <2>1, IndexIs DEF Sound
<1> HIDE DEF qs
<1>4. ASSUME NEW i \in DOMAIN fresh
      PROVE  /\ qs[i] \in Row
             /\ qs[i].key = fresh[i].key /\ qs[i].version = fresh[i].version
             /\ qs[i].values = fresh[i].values /\ qs[i].dirty = fresh[i].dirty
             /\ qs[i].manual => qs[i].filename \in Names
             /\ qs[i].included => qs[i].version > 0
  <2> DEFINE prior == rows[IndexOf(rows, fresh[i].key)]
             in == prior.included /\ fresh[i].version > 0
             name == prior.filename
             manual == prior.manual
  <2>1. /\ fresh[i] \in Row /\ prior \in Row
        /\ prior.manual => prior.filename \in Names
        /\ fresh[i].manual => fresh[i].filename \in Names
        /\ fresh[i].included => fresh[i].version > 0
    BY <1>2, <1>3 DEF Sound, ManualTyped, IncludedKnown
  <2>2. CASE prior.version = fresh[i].version
    <3>1. qs[i] = [fresh[i] EXCEPT !.included = in, !.filename = name, !.manual = manual]
      BY <1>1, <2>2 DEF Kept
    <3>2. in \in BOOLEAN /\ name \in Generated \cup Names /\ manual \in BOOLEAN
      BY <2>1 DEF Row
    <3>3. (in => fresh[i].version > 0) /\ (manual => name \in Names)
      BY <2>1
    <3>4. fresh[i] \in Row
      BY <2>1
    <3> HIDE DEF prior, in, name, manual
    <3>5. qs[i] \in Row
      BY <3>1, <3>2, <3>4 DEF Row
    <3>6. /\ qs[i].key = fresh[i].key /\ qs[i].version = fresh[i].version
          /\ qs[i].values = fresh[i].values /\ qs[i].dirty = fresh[i].dirty
          /\ qs[i].manual = manual /\ qs[i].filename = name /\ qs[i].included = in
      BY <3>1, <3>4 DEF Row
    <3>7. QED
      BY <3>3, <3>5, <3>6
  <2>3. CASE prior.version # fresh[i].version
    <3>1. qs[i] = fresh[i]
      BY <1>1, <2>3 DEF Kept
    <3>2. QED
      BY <2>1, <3>1
  <2>4. QED
    BY <2>2, <2>3
<1>5. Rewrites(fresh, qs)
  BY <1>1, <1>4 DEF Rewrites
<1>6. CleanRows(qs)
  BY <1>1, <1>4 DEF CleanRows, Sound
<1>7. AgreeOnce(qs)
  BY <1>1, <1>4 DEF AgreeOnce, Untouched
<1>8. ManualTyped(qs) /\ IncludedKnown(qs)
  BY <1>1, <1>4 DEF ManualTyped, IncludedKnown
<1>9. Keeps(fresh, qs)
  BY <1>5, <1>6, <1>7, <1>8, RewritesKeeps
<1>10. Untouched(qs)
  BY <1>1, <1>4 DEF Untouched
<1>11. QED
  BY <1>1, <1>3, <1>9, <1>10 DEF qs

\* The order of the earlier review is an order of the same rows.
LEMMA LayoutIs ==
  ASSUME Sound(rows), NEW fresh, Sound(fresh), Untouched(fresh)
  PROVE  Keeps(fresh, PreserveLayout(fresh)) /\ Untouched(PreserveLayout(fresh))
<1>1. CASE ~SameRows(fresh)
  <2>1. PreserveLayout(fresh) = fresh
    BY <1>1 DEF PreserveLayout
  <2>2. QED
    BY <2>1, SameKeeps
<1>2. CASE SameRows(fresh)
  <2> DEFINE qs == KeptRows(fresh)
             rank == [i \in DOMAIN fresh |-> IndexOf(rows, fresh[i].key)]
             ws == SortBy(qs, rank)
  <2>1. PreserveLayout(fresh) = ws
    BY <1>2 DEF PreserveLayout, KeptRows
  <2>2. /\ Keeps(fresh, qs) /\ Untouched(qs) /\ DOMAIN qs = DOMAIN fresh
        /\ \A i \in DOMAIN fresh : rank[i] \in DOMAIN rows
    BY <1>2, KeptIs
  <2>3. DOMAIN rows \in SUBSET Int
    BY RowsAre DEF Sound
  <2>4. \A i \in DOMAIN qs : rank[i] \in Int
    BY <2>2, <2>3
  <2> HIDE DEF qs, rank
  <2>5. Sound(qs) /\ qs \in Seq(Row) /\ Distinct(qs)
    BY <2>2 DEF Keeps, Sound
  <2>6. Permutes(qs, ws)
    BY <2>4, <2>5, SortPermutes
  <2> HIDE DEF ws
  <2>7. Keeps(qs, ws)
    BY <2>5, <2>6, PermutesKeeps
  <2>8. Keeps(fresh, ws)
    BY <2>2, <2>7 DEF Keeps
  <2>9. Untouched(ws)
    BY <2>2, <2>6 DEF Permutes, Untouched
  <2>10. QED
    BY <2>1, <2>8, <2>9
<1>3. QED
  BY <1>1, <1>2

\* What is saved is what the rows say.
LEMMA ExportedIs ==
  ASSUME StagingAssumption, Sound(rows), NEW saved, saved = {Exported}
  PROVE  Exported \in Seq(Export) /\ Matches(saved, rows)
<1> DEFINE S == {i \in DOMAIN rows : rows[i].included}
           rank == [i \in DOMAIN rows |-> i]
           L == Listed(S, rank)
           n == Cardinality(S)
           e == Exported
<1>1. /\ Len(rows) \in Nat /\ DOMAIN rows = 1..Len(rows)
      /\ \A i \in DOMAIN rows : rows[i] \in Row
  BY RowsAre DEF Sound
<1>2. S \in SUBSET DOMAIN rows
  OBVIOUS
<1>3. S \in SUBSET Int /\ IsFiniteSet(S) /\ \A i \in S : rank[i] \in Int
  <2> HIDE DEF S
  <2>1. IsFiniteSet(DOMAIN rows) /\ DOMAIN rows \in SUBSET Int
    BY <1>1, FS_Interval
  <2>2. QED
    BY <1>2, <2>1, FS_Subset
<1>4. e = [k \in DOMAIN L |-> [key |-> rows[L[k]].key, filename |-> rows[L[k]].filename,
                               values |-> [f \in Fields |-> Clean[rows[L[k]].values[f]]]]]
  BY DEF Exported
<1> HIDE DEF S, rank
<1>5. n \in Nat /\ DOMAIN L = 1..n
  BY <1>3, ListedIs
<1>6. \A k \in 1..n : L[k] \in S
  BY <1>3, ListedIs
<1>7. \A i \in S : Place(S, rank)[i] \in 1..n /\ L[Place(S, rank)[i]] = i
  BY <1>3, ListedIs
<1> HIDE DEF n, L, e
<1>8. ASSUME NEW k \in 1..n
      PROVE  /\ L[k] \in DOMAIN rows /\ e[k] \in Export
             /\ e[k].key = rows[L[k]].key /\ e[k].values = rows[L[k]].values
  <2> DEFINE row == rows[L[k]]
             values == [f \in Fields |-> Clean[row.values[f]]]
  <2>1. L[k] \in DOMAIN rows
    BY <1>2, <1>6
  <2>2. row \in Row /\ \A f \in Fields : Clean[row.values[f]] = row.values[f]
    BY <2>1, <1>1 DEF Sound, CleanRows
  <2>3. row.values \in [Fields -> Values] /\ row.key \in Keys /\ row.filename \in Generated \cup Names
    BY <2>2 DEF Row
  <2>4. values = row.values
    <3> HIDE DEF row
    <3>1. QED
      BY <2>2, <2>3
  <2>5. e[k] = [key |-> row.key, filename |-> row.filename, values |-> values]
    BY <1>4, <1>5
  <2> HIDE DEF row, values
  <2>6. e[k] = [key |-> row.key, filename |-> row.filename, values |-> row.values]
    BY <2>4, <2>5
  <2>7. e[k] \in Export /\ e[k].key = row.key /\ e[k].values = row.values
    BY <2>3, <2>6 DEF Export
  <2>8. QED
    BY <2>1, <2>7 DEF row
<1>9. e \in Seq(Export) /\ DOMAIN e = 1..n
  <2>1. e \in [1..n -> Export]
    <3>1. e = [k \in 1..n |-> e[k]]
      BY <1>4, <1>5
    <3>2. QED
      BY <3>1, <1>8
  <2>2. QED
    BY <2>1, <1>5, RowsFrom
<1>10. {e[k].key : k \in DOMAIN e} = {rows[i].key : i \in S}
  <2>1. ASSUME NEW k \in 1..n PROVE \E i \in S : e[k].key = rows[i].key
    BY <1>6, <1>8
  <2>2. ASSUME NEW i \in S PROVE \E k \in 1..n : e[k].key = rows[i].key
    <3>1. Place(S, rank)[i] \in 1..n /\ L[Place(S, rank)[i]] = i
      BY <1>7
    <3>2. e[Place(S, rank)[i]].key = rows[i].key
      BY <3>1, <1>8
    <3>3. QED
      BY <3>1, <3>2
  <2>3. QED
    BY <2>1, <2>2, <1>9
<1>11. \A k \in DOMAIN e : e[k].values = rows[IndexOf(rows, e[k].key)].values
  <2>1. ASSUME NEW k \in 1..n PROVE e[k].values = rows[IndexOf(rows, e[k].key)].values
    <3>1. IndexOf(rows, rows[L[k]].key) = L[k]
      BY <1>8, IndexIs DEF Sound
    <3>2. QED
      BY <3>1, <1>8
  <2>2. QED
    BY <2>1, <1>9
<1>12. {e[k].key : k \in DOMAIN e} = {rows[i].key : i \in {j \in DOMAIN rows : rows[j].included}}
  BY <1>10 DEF S
<1>13. Shows(e, rows)
  BY <1>11, <1>12 DEF Shows
<1>14. QED
  BY <1>9, <1>13 DEF Matches, e

-----------------------------------------------------------------------------
(* Every step keeps the invariant *)

\* It holds at the start.
LEMMA InvInit ==
  StagingAssumption /\ Init => Inv
<1> SUFFICES ASSUME StagingAssumption, Init PROVE Inv
  OBVIOUS
<1>1. Empty \in Cell
  BY DEF StagingAssumption, Empty, Cell
<1>2. Documents
  <2>1. captured \in CellType
    BY <1>1 DEF Init, CellType
  <2>2. version \in [Paths -> Versions]
    BY DEF Init
  <2>3. ticked \subseteq Paths /\ reviewed \in BOOLEAN /\ open \in BOOLEAN /\ sequence \in BOOLEAN
    BY DEF Init
  <2>4. template \in Templates
    BY DEF Init, StagingAssumption
  <2>5. QED
    BY <2>1, <2>2, <2>3, <2>4 DEF Documents
<1>3. rows = <<>> /\ original = <<>> /\ saving = {} /\ ~open
  BY DEF Init
<1>4. DOMAIN rows = {} /\ rows \in Seq(Row) /\ Len(rows) = 0
      /\ DOMAIN original = {} /\ original \in Seq(Keys) /\ Len(original) = 0
  BY <1>3
<1>5. Sound(rows)
  BY <1>4 DEF Sound, Distinct, CleanRows, AgreeOnce, ManualTyped, IncludedKnown
<1>6. Follow(rows, template, sequence) /\ Answers(rows, original)
  BY <1>4 DEF Follow, Answers, KeySet
<1>7. Reviewing
  BY <1>3, <1>5, <1>6 DEF Reviewing
<1>8. Matches(saving, rows)
  BY <1>3 DEF Matches, Shows
<1>9. Asked
  BY FS_EmptySet DEF Init, Asked, Filters, StagingAssumption
<1>10. QED
  BY <1>2, <1>7, <1>8, <1>9 DEF Inv

\* Outside the review its state stays, and a step is counted.
LEMMA OutsideKeeps ==
  ASSUME StagingAssumption, Inv, ~open, Step, UNCHANGED review, Documents'
  PROVE  Inv'
<1>1. /\ reviewed' = reviewed /\ open' = open /\ rows' = rows /\ original' = original
      /\ template' = template /\ sequence' = sequence /\ filter' = filter
      /\ drag' = drag /\ saving' = saving
  BY DEF review
<1>2. steps' \in 0..MaxSteps
  BY DEF Step, Inv, Asked, StagingAssumption
<1>3. Asked'
  BY <1>1, <1>2 DEF Inv, Asked
<1>4. Reviewing'
  BY <1>1 DEF Inv, Reviewing
<1>5. QED
  BY <1>1, <1>3, <1>4 DEF Inv

\* The drawing set changes.
LEMMA TickStep ==
  ASSUME StagingAssumption, Inv, NEW p \in Paths, Tick(p)
  PROVE  Inv'
<1>1. /\ ~open /\ Step /\ UNCHANGED review /\ version' = version /\ captured' = captured
      /\ ticked' = IF p \in ticked THEN ticked \ {p} ELSE ticked \cup {p}
  BY DEF Tick
<1>2. Documents'
  BY <1>1 DEF Inv, Documents, review, CellType
<1>3. QED
  BY <1>1, <1>2, OutsideKeeps

\* A file is read.
LEMMA NewDocumentStep ==
  ASSUME StagingAssumption, Inv, NEW p \in Paths, NewDocument(p)
  PROVE  Inv'
<1>1. /\ ~open /\ Step /\ UNCHANGED review /\ ticked' = ticked /\ version[p] < MaxVersion
      /\ version' = [version EXCEPT ![p] = @ + 1]
      /\ captured' = [captured EXCEPT ![p] =
                        [f \in Fields |-> [k \in PageNumbers \cup {-1} |-> Empty]]]
  BY DEF NewDocument
<1>2. Empty \in Cell
  BY DEF StagingAssumption, Empty, Cell
<1>3. captured' \in CellType
  BY <1>1, <1>2 DEF Inv, Documents, CellType
<1>4. version' \in [Paths -> Versions]
  BY <1>1 DEF Inv, Documents, Versions, StagingAssumption
<1>5. Documents'
  BY <1>1, <1>3, <1>4 DEF Inv, Documents, review, CellType
<1>6. QED
  BY <1>1, <1>5, OutsideKeeps

\* A cell is reported.
LEMMA CaptureStep ==
  ASSUME StagingAssumption, Inv, NEW key \in Keys, NEW f \in Fields, NEW cell \in Read,
         Capture(key, f, cell)
  PROVE  Inv'
<1> DEFINE k == IF f \in Once THEN -1 ELSE key.page
<1>1. /\ ~open /\ Step /\ UNCHANGED review /\ ticked' = ticked /\ version' = version
      /\ captured' = [captured EXCEPT ![key.path][f][k] = cell]
  BY DEF Capture
<1>2. key.path \in Paths /\ k \in PageNumbers \cup {-1} /\ cell \in Cell
  BY KeyIs DEF StagingAssumption, Cell
<1> HIDE DEF k
<1>3. captured' \in CellType
  BY <1>1, <1>2 DEF Inv, Documents, CellType
<1>4. Documents'
  BY <1>1, <1>3 DEF Inv, Documents, review, CellType
<1>5. QED
  BY <1>1, <1>4, OutsideKeeps

\* What the controls of the review ask for, one step at a time.
LEMMA ControlsKeep ==
  ASSUME StagingAssumption, Inv, Controls, Keeps(rows, rows'),
         Follow(rows', template', sequence'),
         template' \in Templates, sequence' \in BOOLEAN, filter' \in Filters,
         drag' \in {{}} \cup {{i} : i \in DOMAIN rows}
  PROVE  Inv'
<1>1. /\ saving = {} /\ saving' = {} /\ open' = open /\ original' = original /\ Frame /\ Step
  BY DEF Controls
<1>2. Documents' /\ Reviewing' /\ DOMAIN rows' = DOMAIN rows
  BY <1>1, FrameKeeps DEF Inv, Documents
<1>3. steps' \in 0..MaxSteps
  BY <1>1 DEF Step, Inv, Asked, StagingAssumption
<1>4. Asked'
  BY <1>1, <1>2, <1>3, FS_EmptySet DEF Asked
<1>5. Matches(saving', rows')
  BY <1>1 DEF Matches, Shows
<1>6. QED
  BY <1>2, <1>4, <1>5 DEF Inv

\* What is not asked for stays of its type.
LEMMA InvTypes ==
  ASSUME Inv
  PROVE  /\ Sound(rows) /\ Follow(rows, template, sequence)
         /\ template \in Templates /\ sequence \in BOOLEAN /\ filter \in Filters
         /\ drag \in {{}} \cup {{i} : i \in DOMAIN rows}
BY DEF Inv, Documents, Reviewing, Asked

\* A value is typed.
LEMMA EditStep ==
  ASSUME StagingAssumption, Inv, NEW i \in DOMAIN rows, NEW f \in Fields, NEW v \in Typed,
         Edit(i, f, v)
  PROVE  Inv'
<1>1. /\ rows' = Named(SetValue(i, f, v), template, sequence) /\ Controls
      /\ template' = template /\ sequence' = sequence /\ filter' = filter /\ drag' = drag
  BY DEF Edit
<1>2. v \in Values
  BY DEF StagingAssumption
<1>3. Keeps(rows, SetValue(i, f, v))
  BY <1>2, InvTypes, SetValueKeeps
<1>4. Keeps(rows, rows') /\ Follow(rows', template', sequence')
  BY <1>1, <1>3, InvTypes, NamedKeeps
<1>5. QED
  BY <1>1, <1>4, InvTypes, ControlsKeep

\* A name is typed.
LEMMA RenameStep ==
  ASSUME StagingAssumption, Inv, NEW i \in DOMAIN rows, NEW name \in Names, Rename(i, name)
  PROVE  Inv'
<1>1. /\ rows' = [rows EXCEPT ![i].filename = name, ![i].manual = TRUE] /\ Controls
      /\ template' = template /\ sequence' = sequence /\ filter' = filter /\ drag' = drag
  BY DEF Rename
<1>2. Keeps(rows, rows') /\ (Follow(rows, template, sequence) => Follow(rows', template, sequence))
  BY <1>1, InvTypes, RenameKeeps
<1>3. QED
  BY <1>1, <1>2, InvTypes, ControlsKeep

\* A row is taken into the export or out of it.
LEMMA IncludeStep ==
  ASSUME StagingAssumption, Inv, NEW i \in DOMAIN rows, Include(i)
  PROVE  Inv'
<1> DEFINE chosen == [j \in DOMAIN rows |-> IF j = i THEN ~rows[i].included ELSE rows[j].included]
<1>1. /\ rows' = [rows EXCEPT ![i].included = ~rows[i].included] /\ Controls /\ rows[i].version > 0
      /\ template' = template /\ sequence' = sequence /\ filter' = filter /\ drag' = drag
  BY DEF Include
<1>2. \A j \in DOMAIN rows : rows[j] \in Row /\ rows[j].included \in BOOLEAN
  <2>1. \A j \in DOMAIN rows : rows[j] \in Row
    BY InvTypes, RowsAre DEF Sound
  <2>2. QED
    BY <2>1 DEF Row
<1>3. \A j \in DOMAIN rows : chosen[j] \in BOOLEAN /\ (chosen[j] => rows[j].included \/ rows[j].version > 0)
  BY <1>1, <1>2
<1>4. rows' = [j \in DOMAIN rows |-> [rows[j] EXCEPT !.included = chosen[j]]]
  <2>1. \A j \in DOMAIN rows : [rows[j] EXCEPT !.included = rows[j].included] = rows[j]
    BY <1>2 DEF Row
  <2>2. rows = [j \in DOMAIN rows |-> rows[j]]
    BY InvTypes DEF Sound
  <2>3. QED
    BY <1>1, <2>1, <2>2
<1> HIDE DEF chosen
<1>5. Keeps(rows, rows') /\ (Follow(rows, template, sequence) => Follow(rows', template, sequence))
  BY <1>3, <1>4, InvTypes, InclusionKeeps
<1>6. QED
  BY <1>1, <1>5, InvTypes, ControlsKeep

\* Or all rows of known documents.
LEMMA IncludeAllStep ==
  ASSUME StagingAssumption, Inv, NEW all \in BOOLEAN, IncludeAll(all)
  PROVE  Inv'
<1> DEFINE chosen == [j \in DOMAIN rows |-> all /\ rows[j].version > 0]
<1>1. /\ rows' = [j \in DOMAIN rows |-> [rows[j] EXCEPT !.included = chosen[j]]] /\ Controls
      /\ template' = template /\ sequence' = sequence /\ filter' = filter /\ drag' = drag
  BY DEF IncludeAll
<1>2. \A j \in DOMAIN rows : chosen[j] \in BOOLEAN /\ (chosen[j] => rows[j].included \/ rows[j].version > 0)
  OBVIOUS
<1> HIDE DEF chosen
<1>3. Keeps(rows, rows') /\ (Follow(rows, template, sequence) => Follow(rows', template, sequence))
  BY <1>1, <1>2, InvTypes, InclusionKeeps
<1>4. QED
  BY <1>1, <1>3, InvTypes, ControlsKeep

\* Another template, or the number in front of the names.
LEMMA ChooseNamesStep ==
  ASSUME StagingAssumption, Inv, NEW temp \in Templates, NEW seq \in BOOLEAN, ChooseNames(temp, seq)
  PROVE  Inv'
<1>1. /\ rows' = Named(rows, temp, seq) /\ Controls
      /\ template' = temp /\ sequence' = seq /\ filter' = filter /\ drag' = drag
  BY DEF ChooseNames
<1>2. Keeps(rows, rows') /\ Follow(rows', temp, seq)
  BY <1>1, InvTypes, SameKeeps, NamedKeeps
<1>3. QED
  BY <1>1, <1>2, InvTypes, ControlsKeep

\* Another filter, or a row is taken.
LEMMA LookStep ==
  ASSUME StagingAssumption, Inv,
         (\E new \in Filters : SetFilter(new)) \/ (\E i \in DOMAIN rows : Grab(i))
  PROVE  Inv'
<1>1. /\ rows' = rows /\ Controls /\ template' = template /\ sequence' = sequence
      /\ filter' \in Filters /\ drag' \in {{}} \cup {{i} : i \in DOMAIN rows}
  BY InvTypes DEF SetFilter, Grab
<1>2. Keeps(rows, rows') /\ Follow(rows', template', sequence')
  BY <1>1, InvTypes, SameKeeps
<1>3. QED
  BY <1>1, <1>2, InvTypes, ControlsKeep

\* The first order comes back; a row that was not there goes to the end.
PlaceIn(orig, key) ==
  IF \E k \in DOMAIN orig : orig[k] = key
  THEN CHOOSE k \in DOMAIN orig : orig[k] = key
  ELSE Len(orig) + 1

LEMMA ResetOrderStep ==
  ASSUME StagingAssumption, Inv, ResetOrder
  PROVE  Inv'
<1> DEFINE rank == [i \in DOMAIN rows |-> PlaceIn(original, rows[i].key)]
           qs == SortBy(rows, rank)
<1>1. /\ rows' = Named(qs, template, sequence) /\ Controls
      /\ template' = template /\ sequence' = sequence /\ filter' = filter /\ drag' = drag
  BY DEF ResetOrder, PlaceIn
<1>2. \A i \in DOMAIN rows : rank[i] \in Int
  <2>1. Len(original) \in Nat /\ DOMAIN original \in SUBSET Int
    BY RowsAre DEF Inv, Reviewing, Answers
  <2>2. QED
    BY <2>1 DEF PlaceIn
<1> HIDE DEF rank
<1>3. rows \in Seq(Row) /\ Distinct(rows)
  BY InvTypes DEF Sound
<1>4. Permutes(rows, qs)
  BY <1>2, <1>3, SortPermutes
<1> HIDE DEF qs
<1>5. Keeps(rows, qs)
  BY <1>4, InvTypes, PermutesKeeps
<1>6. Keeps(rows, rows') /\ Follow(rows', template', sequence')
  BY <1>1, <1>5, InvTypes, NamedKeeps
<1>7. QED
  BY <1>1, <1>6, InvTypes, ControlsKeep

\* The row that is dragged and the row under it.
LEMMA DragIs ==
  ASSUME Inv, drag # {}
  PROVE  (CHOOSE i \in drag : TRUE) \in DOMAIN rows /\ (CHOOSE i \in drag : TRUE) \in drag
BY InvTypes

\* A dragged row is dropped, also while an export is saved.
LEMMA DropStep ==
  ASSUME StagingAssumption, Inv, NEW target \in DOMAIN rows, NEW above \in BOOLEAN,
         Drop(target, above)
  PROVE  Inv'
<1> DEFINE from == CHOOSE i \in drag : TRUE
           qs == IF from = target THEN rows ELSE Reordered(from, target, above)
<1>1. /\ rows' = IF from = target THEN rows
                  ELSE Named(Reordered(from, target, above), template, sequence)
      /\ Frame /\ drag # {} /\ drag' = {}
      /\ open' = open /\ original' = original /\ template' = template
      /\ sequence' = sequence /\ filter' = filter /\ saving' = saving /\ steps' = steps
  BY DEF Drop
<1>2. from \in DOMAIN rows
  BY <1>1, DragIs
<1> HIDE DEF from
<1>3. Keeps(rows, rows') /\ Follow(rows', template', sequence') /\ Matches(saving', rows')
  <2>1. CASE from = target
    BY <2>1, <1>1, InvTypes, SameKeeps DEF Inv
  <2>2. CASE from # target
    <3>1. Permutes(rows, Reordered(from, target, above))
      BY <1>2, <2>2, InvTypes, ReorderedIs
    <3>2. Keeps(rows, Reordered(from, target, above)) /\ Matches(saving, Reordered(from, target, above))
      BY <3>1, InvTypes, PermutesKeeps, MatchesPermuted DEF Inv
    <3>3. /\ Keeps(rows, rows') /\ Follow(rows', template', sequence')
          /\ Renames(Reordered(from, target, above), rows')
      BY <1>1, <2>2, <3>2, InvTypes, NamedKeeps
    <3>4. Sound(Reordered(from, target, above))
      BY <3>2 DEF Keeps
    <3>5. Matches(saving, rows')
      BY <3>2, <3>3, <3>4, MatchesRenamed
    <3>6. QED
      BY <1>1, <3>3, <3>5
  <2>3. QED
    BY <2>1, <2>2
<1>4. Documents' /\ Reviewing' /\ DOMAIN rows' = DOMAIN rows
  BY <1>1, <1>3, FrameKeeps DEF Inv, Documents
<1>5. Asked'
  BY <1>1 DEF Inv, Asked
<1>6. QED
  BY <1>3, <1>4, <1>5 DEF Inv

\* The frame goes on without a change to the rows.
LEMMA StillStep ==
  ASSUME StagingAssumption, Inv, DropElsewhere \/ Close \/ Save
  PROVE  Inv'
<1>1. /\ rows' = rows /\ Frame /\ original' = original /\ template' = template
      /\ sequence' = sequence /\ filter' = filter /\ steps' = steps
      /\ open' \in BOOLEAN
      /\ drag' = {} \/ drag' = drag
      /\ saving' = saving \/ (saving = {} /\ saving' = {Exported})
  BY DEF DropElsewhere, Close, Save, Inv, Documents
<1>2. Keeps(rows, rows') /\ Follow(rows', template', sequence')
  BY <1>1, InvTypes, SameKeeps
<1>3. Documents' /\ Reviewing'
  BY <1>1, <1>2, FrameKeeps DEF Inv, Documents
<1>4. /\ Cardinality(saving') <= 1 /\ \A e \in saving' : e \in Seq(Export)
      /\ Matches(saving', rows')
  <2>1. CASE saving' = saving
    BY <2>1, <1>1 DEF Inv, Asked
  <2>2. CASE saving' = {Exported}
    <3>1. Exported \in Seq(Export) /\ Matches(saving', rows)
      BY <2>2, InvTypes, ExportedIs
    <3>2. Cardinality(saving') = 1
      BY <2>2, FS_Singleton
    <3>3. QED
      BY <3>1, <3>2, <2>2, <1>1
  <2>3. QED
    BY <1>1, <2>1, <2>2
<1>5. Asked'
  BY <1>1, <1>4 DEF Inv, Asked
<1>6. QED
  BY <1>3, <1>4, <1>5 DEF Inv

\* The export ends, or the viewer.
LEMMA EndsStep ==
  ASSUME Inv, SaveEnds \/ Restart
  PROVE  Inv'
<1>1. /\ ticked' = ticked /\ version' = version /\ captured' = captured
      /\ reviewed' = reviewed /\ rows' = rows /\ original' = original
      /\ template' = template /\ sequence' = sequence /\ filter' = filter /\ steps' = steps
      /\ saving' = {} /\ open' \in BOOLEAN /\ (open' => open)
      /\ drag' = drag \/ drag' = {}
  <2>1. CASE SaveEnds
    BY <2>1 DEF SaveEnds, Inv, Documents
  <2>2. CASE Restart
    BY <2>2 DEF Restart
  <2>3. QED
    BY <2>1, <2>2
<1>2. Documents'
  BY <1>1 DEF Inv, Documents, CellType
<1>3. Reviewing'
  BY <1>1 DEF Inv, Reviewing
<1>4. Asked'
  BY <1>1, FS_EmptySet DEF Inv, Asked
<1>5. Matches(saving', rows')
  BY <1>1 DEF Matches, Shows
<1>6. QED
  BY <1>2, <1>3, <1>4, <1>5 DEF Inv

\* The review is opened.
LEMMA OpenStep ==
  ASSUME StagingAssumption, Inv, NEW active, OpenStaging(active)
  PROVE  Inv'
<1> DEFINE fresh == Fresh(active)
           qs == PreserveLayout(fresh)
<1>1. /\ rows' = Named(qs, template', sequence') /\ original' = KeysOf(fresh)
      /\ reviewed' = TRUE /\ open' = TRUE /\ filter' = "all" /\ drag' = {} /\ saving' = {}
      /\ ticked' = ticked /\ version' = version /\ captured' = captured /\ steps' = steps
      /\ template' \in Templates /\ sequence' \in BOOLEAN
  BY InvTypes DEF OpenStaging, StagingAssumption
<1>2. Sound(fresh) /\ Current(fresh, version) /\ Untouched(fresh)
  BY FreshIs DEF Inv, Documents
<1> HIDE DEF fresh
<1>3. Keeps(fresh, qs) /\ Untouched(qs)
  BY <1>2, InvTypes, LayoutIs
<1> HIDE DEF qs
<1>4. Keeps(fresh, rows') /\ Follow(rows', template', sequence') /\ Renames(qs, rows')
  BY <1>1, <1>3, NamedKeeps
<1>5. Untouched(rows')
  BY <1>3, <1>4 DEF Untouched, Renames
<1>6. Sound(rows') /\ Current(rows', version') /\ Reaches(rows', captured')
  BY <1>1, <1>2, <1>4, <1>5 DEF Keeps, Untouched, Reaches
<1>7. Answers(rows', original')
  <2>1. Len(fresh) \in Nat /\ DOMAIN fresh = 1..Len(fresh) /\ \A i \in DOMAIN fresh : fresh[i] \in Row
    BY <1>2, RowsAre DEF Sound
  <2>2. KeysOf(fresh) \in [1..Len(fresh) -> Keys]
    BY <2>1 DEF KeysOf, Row
  <2>3. /\ KeysOf(fresh) \in Seq(Keys) /\ Len(KeysOf(fresh)) = Len(fresh)
        /\ DOMAIN KeysOf(fresh) = DOMAIN fresh
    BY <2>1, <2>2, RowsFrom
  <2>4. \A i \in DOMAIN fresh : KeysOf(fresh)[i] = fresh[i].key
    BY DEF KeysOf
  <2>5. KeySet(fresh) = {KeysOf(fresh)[k] : k \in DOMAIN KeysOf(fresh)}
    BY <2>3, <2>4 DEF KeySet
  <2>6. \A i, j \in DOMAIN KeysOf(fresh) : KeysOf(fresh)[i] = KeysOf(fresh)[j] => i = j
    BY <2>3, <2>4, <1>2 DEF Sound, Distinct
  <2>7. QED
    BY <2>3, <2>5, <2>6, <1>1, <1>4 DEF Answers, Keeps
<1>8. Documents'
  BY <1>1 DEF Inv, Documents, CellType
<1>9. Reviewing'
  BY <1>4, <1>6, <1>7 DEF Reviewing
<1>10. Asked'
  <2>1. filter' \in Filters
    BY <1>1 DEF Filters
  <2>2. Cardinality(saving') <= 1
    BY <1>1, FS_EmptySet
  <2>3. QED
    BY <1>1, <2>1, <2>2 DEF Inv, Asked
<1>11. Matches(saving', rows')
  BY <1>1 DEF Matches, Shows
<1>12. QED
  BY <1>8, <1>9, <1>10, <1>11 DEF Inv

\* So every step does.
LEMMA InvStep ==
  ASSUME StagingAssumption, Inv, [Next]_vars
  PROVE  Inv'
<1>1. ASSUME NEW p \in Paths, Tick(p) \/ NewDocument(p) \/ OpenStaging(p) PROVE Inv'
  BY <1>1, TickStep, NewDocumentStep, OpenStep
<1>2. ASSUME NEW key \in Keys, NEW f \in Fields, NEW cell \in Read, Capture(key, f, cell) PROVE Inv'
  BY <1>2, CaptureStep
<1>3. OpenRows \subseteq DOMAIN rows
  BY DEF OpenRows
<1>4. ASSUME NEW i \in OpenRows, NEW f \in Fields, NEW v \in Typed, Edit(i, f, v) PROVE Inv'
  BY <1>3, <1>4, EditStep
<1>5. ASSUME NEW i \in OpenRows, NEW name \in Names, Rename(i, name) PROVE Inv'
  BY <1>3, <1>5, RenameStep
<1>6. ASSUME NEW i \in OpenRows, Include(i) \/ Grab(i) PROVE Inv'
  BY <1>3, <1>6, IncludeStep, LookStep
<1>7. ASSUME NEW i \in OpenRows, NEW above \in BOOLEAN, Drop(i, above) PROVE Inv'
  BY <1>3, <1>7, DropStep
<1>8. ASSUME NEW all \in BOOLEAN, IncludeAll(all) PROVE Inv'
  BY <1>8, IncludeAllStep
<1>9. ASSUME NEW temp \in Templates, NEW seq \in BOOLEAN, ChooseNames(temp, seq) PROVE Inv'
  BY <1>9, ChooseNamesStep
<1>10. ASSUME NEW new \in Filters, SetFilter(new) PROVE Inv'
  BY <1>10, LookStep
<1>11. ASSUME ResetOrder \/ DropElsewhere \/ Close \/ Save \/ SaveEnds \/ Restart PROVE Inv'
  BY <1>11, ResetOrderStep, StillStep, EndsStep
<1>12. CASE UNCHANGED vars
  <2>1. /\ ticked' = ticked /\ version' = version /\ captured' = captured
        /\ reviewed' = reviewed /\ rows' = rows /\ original' = original /\ open' = open
        /\ template' = template /\ sequence' = sequence /\ filter' = filter /\ steps' = steps
        /\ saving' = saving /\ drag' = drag
    BY <1>12 DEF vars, review
  <2>2. Documents' /\ Reviewing' /\ Asked' /\ Matches(saving', rows')
    BY <2>1 DEF Inv, Documents, Reviewing, Asked, CellType
  <2>3. QED
    BY <2>2 DEF Inv
<1>13. QED
  BY <1>1, <1>2, <1>4, <1>5, <1>6, <1>7, <1>8, <1>9, <1>10, <1>11, <1>12 DEF Next

-----------------------------------------------------------------------------
(* The orders *)

\* What makes a function a bijection.
LEMMA BijectionIs ==
  ASSUME NEW S, NEW T, NEW f \in [S -> T], \A i, j \in S : f[i] = f[j] => i = j,
         \A k \in T : \E i \in S : f[i] = k
  PROVE  f \in Bijection(S, T) /\ ExistsBijection(S, T)
<1>1. f \in Injection(S, T)
  BY Fun_IsInj
<1>2. f \in Surjection(S, T)
  BY DEF Surjection
<1>3. QED
  BY <1>1, <1>2 DEF Bijection, ExistsBijection

\* The size of an interval.
LEMMA IntervalIs ==
  ASSUME NEW n \in Nat, NEW S, S = 1..n
  PROVE  IsFiniteSet(S) /\ Cardinality(S) = n
BY FS_Interval

\* When the ranks are the numbers up to n, each once, sorting puts the row of
\* rank k at k.
LEMMA RankIsPlace ==
  ASSUME NEW n \in Nat, NEW S, S = 1..n, NEW rank, \A i \in S : rank[i] \in S,
         \A i, j \in S : rank[i] = rank[j] => i = j
  PROVE  /\ DOMAIN Listed(S, rank) = S
         /\ \A k \in S : Listed(S, rank)[k] \in S /\ rank[Listed(S, rank)[k]] = k
<1> DEFINE L == Listed(S, rank)
           p == Place(S, rank)
<1>1. S \in SUBSET Int /\ IsFiniteSet(S) /\ Cardinality(S) = n /\ \A i \in S : rank[i] \in Int
  BY FS_Interval
<1>2. /\ DOMAIN L = S /\ \A k \in S : L[k] \in S /\ p[L[k]] = k
  BY <1>1, ListedIs
<1>3. \A k \in S : \E i \in S : rank[i] = k
  <2> DEFINE f == [i \in S |-> rank[i]]
  <2>1. f \in [S -> S] /\ \A i, j \in S : f[i] = f[j] => i = j
    OBVIOUS
  <2> HIDE DEF f
  <2>2. f \in Injection(S, S)
    BY <2>1, Fun_IsInj
  <2>3. f \in Surjection(S, S)
    BY <2>2, <1>1, FS_Injection
  <2>4. \A k \in S : \E i \in S : f[i] = k
    BY <2>3 DEF Surjection
  <2>5. QED
    BY <2>4 DEF f
<1>4. ASSUME NEW i \in S PROVE p[i] = rank[i]
  <2> DEFINE U == UpTo(S, rank, i)
             m == rank[i]
             f == [j \in U |-> rank[j]]
  <2>1. m \in 1..n /\ U \in SUBSET S
    BY DEF UpTo
  <2>2. \A j \in S : j \in U <=> rank[j] <= m
    <3>1. ASSUME NEW j \in S PROVE j \in U <=> rank[j] <= m
      <4>1. rank[j] \in Int /\ m \in Int /\ j \in Int /\ i \in Int
        BY <1>1
      <4>2. rank[j] = m => j = i
        OBVIOUS
      <4>3. QED
        BY <4>1, <4>2 DEF UpTo
    <3>2. QED
      BY <3>1
  <2> HIDE DEF U, m
  <2>3. \A j \in U : f[j] \in 1..m
    BY <2>1, <2>2
  <2>4. \A j, k \in U : f[j] = f[k] => j = k
    BY <2>1
  <2>5. \A k \in 1..m : \E j \in U : f[j] = k
    <3>1. ASSUME NEW k \in 1..m PROVE \E j \in U : f[j] = k
      <4>1. k \in S /\ k <= m
        BY <2>1
      <4>2. PICK j \in S : rank[j] = k
        BY <4>1, <1>3
      <4>3. j \in U
        BY <4>1, <4>2, <2>2
      <4>4. QED
        BY <4>2, <4>3
    <3>2. QED
      BY <3>1
  <2>6. f \in [U -> 1..m]
    BY <2>3
  <2> HIDE DEF f
  <2>7. ExistsBijection(U, 1..m)
    BY <2>4, <2>5, <2>6, BijectionIs
  <2>8. IsFiniteSet(U)
    BY <1>1, <2>1, FS_Subset
  <2>9. Cardinality(1..m) = Cardinality(U)
    BY <2>7, <2>8, FS_Bijection
  <2>10. Cardinality(1..m) = m
    BY <2>1, FS_Interval
  <2>11. p[i] = Cardinality(U)
    BY DEF Place, U
  <2>12. QED
    BY <2>9, <2>10, <2>11 DEF m
<1>5. QED
  BY <1>2, <1>4

\* The first order is back after a reset.
LEMMA ResetRestores ==
  ASSUME StagingAssumption, Inv, ResetOrder
  PROVE  KeysOf(rows') = original
<1> DEFINE rank == [i \in DOMAIN rows |-> PlaceIn(original, rows[i].key)]
           S == DOMAIN rows
           n == Len(rows)
           L == Listed(S, rank)
           qs == SortBy(rows, rank)
<1>1. rows' = Named(qs, template, sequence)
  BY DEF ResetOrder, PlaceIn
<1>2. /\ Distinct(rows) /\ rows \in Seq(Row) /\ original \in Seq(Keys)
      /\ KeySet(rows) = {original[k] : k \in DOMAIN original} /\ Len(original) = n
      /\ \A i, j \in DOMAIN original : original[i] = original[j] => i = j
  BY DEF Inv, Reviewing, Sound, Answers
<1>3. n \in Nat /\ S = 1..n /\ DOMAIN original = S
  BY <1>2, RowsAre
<1>4. ASSUME NEW i \in S PROVE rank[i] \in S /\ original[rank[i]] = rows[i].key
  <2>1. rows[i].key \in KeySet(rows)
    BY DEF KeySet
  <2>2. \E k \in DOMAIN original : original[k] = rows[i].key
    BY <2>1, <1>2
  <2>3. /\ PlaceIn(original, rows[i].key) \in DOMAIN original
        /\ original[PlaceIn(original, rows[i].key)] = rows[i].key
    BY <2>2 DEF PlaceIn
  <2>4. QED
    BY <2>3, <1>3
<1>5. rank = [i \in S |-> rank[i]]
  OBVIOUS
<1> HIDE DEF rank, S, n
<1>6. ASSUME NEW i \in S, NEW j \in S, rank[i] = rank[j] PROVE i = j
  <2>1. rows[i].key = rows[j].key
    BY <1>4, <1>6
  <2>2. QED
    BY <2>1, <1>2 DEF Distinct, S
<1>7. DOMAIN L = S /\ \A k \in S : L[k] \in S /\ rank[L[k]] = k
  BY <1>3, <1>4, <1>6, RankIsPlace
<1>8. qs = [k \in DOMAIN L |-> rows[L[k]]]
  BY DEF SortBy, S
<1> HIDE DEF L, qs
<1>9. ASSUME NEW k \in S PROVE qs[k].key = original[k]
  <2>1. qs[k] = rows[L[k]] /\ L[k] \in S /\ rank[L[k]] = k
    BY <1>7, <1>8
  <2>2. QED
    BY <2>1, <1>4
<1>10. KeysOf(qs) = original
  <2>1. DOMAIN qs = S
    BY <1>7, <1>8
  <2>2. original = [k \in S |-> original[k]]
    BY <1>2, <1>3
  <2>3. QED
    BY <2>1, <2>2, <1>9 DEF KeysOf
<1>11. Permutes(rows, qs)
  <2>1. \A i \in DOMAIN rows : rank[i] \in Int
    BY <1>3, <1>4 DEF S
  <2>2. QED
    BY <2>1, <1>2, SortPermutes DEF qs
<1>12. Keeps(rows, qs)
  BY <1>11, InvTypes, PermutesKeeps
<1>13. KeysOf(Named(qs, template, sequence)) = KeysOf(qs)
  BY <1>12, InvTypes, NamedKeeps
<1>14. QED
  BY <1>1, <1>10, <1>13

\* A dropped row lies where the line was shown.
LEMMA DropLands ==
  ASSUME StagingAssumption, Inv, NEW from \in drag, NEW target \in DOMAIN rows,
         NEW above \in BOOLEAN, from # target, Drop(target, above)
  PROVE  Lands(from, target, above)
<1> DEFINE gap == Gap(from, target, above)
           qs == Reordered(from, target, above)
           dest(i) == DestOf(from, gap, i)
           now(i) == CHOOSE k \in DOMAIN rows' : rows'[k].key = rows[i].key
<1>1. from \in DOMAIN rows /\ (CHOOSE i \in drag : TRUE) = from
  <2>1. PICK d \in DOMAIN rows : drag = {d}
    BY InvTypes
  <2>2. QED
    BY <2>1
<1>2. rows' = Named(qs, template, sequence)
  BY <1>1 DEF Drop
<1>3. /\ Permutes(rows, qs)
      /\ \A i \in DOMAIN rows : dest(i) \in DOMAIN qs /\ qs[dest(i)] = rows[i]
  BY <1>1, InvTypes, ReorderedIs
<1>4. Len(rows) \in Nat /\ DOMAIN rows = 1..Len(rows)
  BY InvTypes, RowsAre DEF Sound
<1>5. /\ dest(from) = IF above THEN dest(target) - 1 ELSE dest(target) + 1
      /\ \A i, j \in DOMAIN rows \ {from} : i < j => dest(i) < dest(j)
  <2>1. Beside(Len(rows), from, target, above, gap)
    <3> HIDE DEF gap
    <3>1. from \in 1..Len(rows) /\ target \in 1..Len(rows)
      BY <1>1, <1>4
    <3>2. QED
      BY <3>1, <1>4, LandsThere DEF gap
  <2> HIDE DEF gap
  <2>2. QED
    BY <2>1, <1>4 DEF Beside
<1> HIDE DEF qs, dest
<1>6. Keeps(rows, qs)
  BY <1>3, InvTypes, PermutesKeeps
<1>7. Renames(qs, rows') /\ Keeps(rows, rows')
  BY <1>2, <1>6, InvTypes, NamedKeeps
<1>8. ASSUME NEW i \in DOMAIN rows PROVE now(i) = dest(i)
  <2>1. dest(i) \in DOMAIN rows' /\ rows'[dest(i)].key = rows[i].key
    BY <1>3, <1>7 DEF Renames
  <2>2. Distinct(rows')
    BY <1>7 DEF Keeps, Sound
  <2>3. QED
    BY <2>1, <2>2 DEF Distinct
<1> HIDE DEF now
<1>9. /\ now(from) = IF above THEN now(target) - 1 ELSE now(target) + 1
      /\ \A i, j \in DOMAIN rows \ {from} : i < j => now(i) < now(j)
  BY <1>1, <1>5, <1>8
<1>10. QED
  BY <1>9 DEF Lands, now

\* Reviewing the same sheets again keeps what was decided about them.
LEMMA LayoutKept ==
  ASSUME StagingAssumption, Inv, NEW active, OpenStaging(active), reviewed,
         KeySet(rows') = KeySet(rows)
  PROVE  /\ KeysOf(rows') = KeysOf(rows)
         /\ \A i \in DOMAIN rows : rows'[i].version = rows[i].version =>
              /\ rows'[i].included = rows[i].included
              /\ rows'[i].manual = rows[i].manual
              /\ rows[i].manual => rows'[i].filename = rows[i].filename
<1> DEFINE fresh == Fresh(active)
           ks == KeptRows(fresh)
           S == DOMAIN rows
           n == Len(rows)
           rank == [i \in DOMAIN fresh |-> IndexOf(rows, fresh[i].key)]
           L == Listed(S, rank)
           qs == SortBy(ks, rank)
<1>1. Sound(fresh) /\ Current(fresh, version) /\ Untouched(fresh)
  BY FreshIs DEF Inv, Documents
<1>2. /\ rows' = Named(PreserveLayout(fresh), template', sequence')
      /\ template' \in Templates /\ sequence' \in BOOLEAN
  BY InvTypes DEF OpenStaging, StagingAssumption
<1> HIDE DEF fresh
<1>3. /\ Distinct(rows) /\ rows \in Seq(Row) /\ n \in Nat /\ S = 1..n
      /\ \A i \in S : rows[i] \in Row
  BY InvTypes, RowsAre DEF Sound
<1>4. KeySet(fresh) = KeySet(rows)
  <2>1. Keeps(fresh, PreserveLayout(fresh))
    BY <1>1, InvTypes, LayoutIs
  <2>2. Keeps(fresh, rows')
    BY <1>2, <2>1, NamedKeeps
  <2>3. QED
    BY <2>2 DEF Keeps
<1>5. Len(fresh) = n /\ DOMAIN fresh = S
  <2>1. Len(fresh) \in Nat /\ DOMAIN fresh = 1..Len(fresh) /\ Distinct(fresh)
    BY <1>1, RowsAre DEF Sound
  <2> DEFINE f == [i \in DOMAIN fresh |-> IndexOf(rows, fresh[i].key)]
  <2>2. f \in [DOMAIN fresh -> S] /\ \A i, j \in DOMAIN fresh : f[i] = f[j] => i = j
    <3>1. ASSUME NEW i \in DOMAIN fresh PROVE f[i] \in S /\ rows[f[i]].key = fresh[i].key
      <4>1. fresh[i].key \in KeySet(rows)
        BY <1>4 DEF KeySet
      <4>2. QED
        BY <4>1, <1>3, IndexIs
    <3>2. f \in [DOMAIN fresh -> S]
      BY <3>1
    <3> HIDE DEF f
    <3>3. \A i, j \in DOMAIN fresh : f[i] = f[j] => fresh[i].key = fresh[j].key
      BY <3>1
    <3>4. QED
      BY <3>2, <3>3, <2>1 DEF Distinct
  <2>3. \A k \in S : \E i \in DOMAIN fresh : f[i] = k
    <3>1. ASSUME NEW k \in S PROVE \E i \in DOMAIN fresh : f[i] = k
      <4>1. PICK i \in DOMAIN fresh : fresh[i].key = rows[k].key
        <5>1. rows[k].key \in KeySet(fresh)
          BY <1>4 DEF KeySet
        <5>2. QED
          BY <5>1 DEF KeySet
      <4>2. IndexOf(rows, rows[k].key) = k
        BY <1>3, IndexIs
      <4>3. QED
        BY <4>1, <4>2
    <3>2. QED
      BY <3>1
  <2> HIDE DEF f
  <2> HIDE DEF S
  <2>5. ExistsBijection(DOMAIN fresh, S)
    BY <2>2, <2>3, BijectionIs
  <2>6. IsFiniteSet(DOMAIN fresh) /\ Cardinality(DOMAIN fresh) = Len(fresh)
    BY <2>1, IntervalIs
  <2>7. Cardinality(S) = Len(fresh)
    BY <2>5, <2>6, FS_Bijection
  <2>8. Cardinality(S) = n
    BY <1>3, IntervalIs
  <2>9. QED
    BY <2>1, <2>7, <2>8, <1>3
<1>6. SameRows(fresh)
  BY <1>4, <1>5 DEF SameRows
<1>7. PreserveLayout(fresh) = qs
  BY <1>6 DEF PreserveLayout, KeptRows
<1>8. Keeps(fresh, ks) /\ DOMAIN ks = S
  BY <1>1, <1>5, <1>6, InvTypes, KeptIs
<1>9. ASSUME NEW i \in S
      PROVE  /\ rank[i] \in S /\ rows[rank[i]].key = fresh[i].key
             /\ ks[i] = Kept(fresh[i])
  <2>1. fresh[i].key \in KeySet(rows)
    BY <1>4, <1>5 DEF KeySet
  <2>2. rank[i] \in S /\ rows[rank[i]].key = fresh[i].key
    BY <2>1, <1>3, <1>5, IndexIs
  <2>3. ks[i] = Kept(fresh[i])
    BY <1>5 DEF KeptRows
  <2>4. QED
    BY <2>2, <2>3
<1>10. \A i, j \in S : rank[i] = rank[j] => i = j
  <2> HIDE DEF rank
  <2>1. QED
    BY <1>1, <1>5, <1>9 DEF Sound, Distinct
<1>11. qs = [k \in DOMAIN L |-> ks[L[k]]]
  BY <1>8 DEF SortBy
<1>12. Permutes(ks, qs)
  <2>1. \A i \in DOMAIN ks : rank[i] \in Int
    BY <1>3, <1>8, <1>9
  <2>2. ks \in Seq(Row) /\ Distinct(ks)
    BY <1>8 DEF Keeps, Sound
  <2> HIDE DEF ks, rank
  <2>3. QED
    BY <2>1, <2>2, SortPermutes
<1> DEFINE From(row, prior) ==
             IF prior.version = row.version
             THEN [row EXCEPT !.included = prior.included /\ row.version > 0,
                              !.filename = prior.filename, !.manual = prior.manual]
             ELSE row
<1>13. \A i \in S : Kept(fresh[i]) = From(fresh[i], rows[rank[i]])
  BY <1>5 DEF Kept
<1> HIDE DEF rank, ks, S, n, From
<1>14. DOMAIN L = S /\ \A k \in S : L[k] \in S /\ rank[L[k]] = k
  BY <1>3, <1>9, <1>10, RankIsPlace
<1> HIDE DEF L, qs
<1>15. Keeps(ks, qs)
  BY <1>8, <1>12, PermutesKeeps DEF Keeps
<1>16. Renames(qs, rows') /\ DOMAIN qs = S
  <2>1. Renames(qs, rows')
    BY <1>2, <1>7, <1>15, NamedKeeps
  <2>2. QED
    BY <2>1, <1>11, <1>14
<1>17. ASSUME NEW k \in S
       PROVE  /\ rows'[k].key = rows[k].key
              /\ rows'[k].version = rows[k].version =>
                   /\ rows'[k].included = rows[k].included
                   /\ rows'[k].manual = rows[k].manual
                   /\ rows[k].manual => rows'[k].filename = rows[k].filename
  <2> DEFINE row == fresh[L[k]]
  <2>1. /\ qs[k] = Kept(row) /\ row.key = rows[k].key /\ L[k] \in S /\ rank[L[k]] = k
    BY <1>9, <1>11, <1>14
  <2>2. row \in Row /\ rows[k] \in Row /\ (rows[k].included => rows[k].version > 0)
    BY <2>1, <1>1, <1>3, <1>5, InvTypes, RowsAre DEF Sound, IncludedKnown, S
  <2>3. Kept(row) = From(row, rows[k])
    BY <2>1, <1>13
  <2> HIDE DEF row
  <2>4. /\ rows'[k].key = qs[k].key /\ rows'[k].version = qs[k].version
        /\ rows'[k].included = qs[k].included /\ rows'[k].manual = qs[k].manual
        /\ qs[k].manual => rows'[k].filename = qs[k].filename
    BY <1>16 DEF Renames
  <2>5. qs[k].key = row.key /\ qs[k].version = row.version
    BY <2>1, <2>2, <2>3 DEF Row, From
  <2>6. ASSUME rows[k].version = row.version
        PROVE  /\ qs[k].included = rows[k].included /\ qs[k].manual = rows[k].manual
               /\ qs[k].filename = rows[k].filename
    <3> DEFINE in == rows[k].included /\ row.version > 0
    <3>1. in = rows[k].included
      BY <2>2, <2>6 DEF Row
    <3>2. qs[k] = [row EXCEPT !.included = in, !.filename = rows[k].filename, !.manual = rows[k].manual]
      BY <2>1, <2>3, <2>6 DEF From
    <3> HIDE DEF in
    <3>3. qs[k].included = in /\ qs[k].manual = rows[k].manual /\ qs[k].filename = rows[k].filename
      BY <2>2, <3>2 DEF Row
    <3>4. QED
      BY <3>1, <3>3
  <2>7. QED
    BY <2>1, <2>4, <2>5, <2>6
<1>18. KeysOf(rows') = KeysOf(rows)
  <2>1. DOMAIN rows' = DOMAIN rows
    BY <1>16 DEF Renames, S
  <2>2. QED
    BY <2>1, <1>17 DEF KeysOf, S
<1>19. QED
  BY <1>17, <1>18 DEF S

-----------------------------------------------------------------------------
(* The theorems *)

\* The invariant holds of every state of every review.
THEOREM StagingInvariant ==
  Spec => []Inv
<1>1. Init => Inv
  BY InvInit, StagingAssumption
<1>2. Inv /\ [Next]_vars => Inv'
  BY InvStep, StagingAssumption
<1>3. QED
  BY <1>1, <1>2, PTL DEF Spec

\* Rows, captures, choices and exports stay of their types.
THEOREM StagingTypes ==
  Spec => []TypeOK
BY StagingInvariant, InvSays, PTL

\* The names of the review: a row the user named keeps a name he typed, and
\* every other row is named after its values and its place, whatever edits,
\* drags, resets and reopenings went before (generate_filenames).
THEOREM StagingNamesFollow ==
  Spec => []NamesFollow
BY StagingInvariant, InvSays, PTL

\* Each sheet of the review has one row, in every order the user gives them
\* (reorder, reset_order, preserve_layout).
THEOREM StagingRowsOfTheSet ==
  Spec => []RowsOfTheSet
BY StagingInvariant, InvSays, PTL

\* What is corrected in the review is in the captures after the same frame,
\* also when several rows write one cell (apply).
THEOREM StagingEditsReachCaptures ==
  Spec => []EditsReachCaptures
BY StagingInvariant, InvSays, PTL

\* The export being saved has the sheets and the values shown behind the dialog,
\* although a drag that began before it may still end (csv, json, any_released).
THEOREM StagingSavedIsReviewed ==
  Spec => []SavedIsReviewed
BY StagingInvariant, InvSays, PTL

\* Every drop puts the row beside the one under the pointer and leaves the others
\* in their order, and every reset restores the first order.
THEOREM StagingOrderIsAsAsked ==
  Spec => OrderIsAsAsked
<1>1. Inv /\ [Next]_vars =>
        [/\ \A from \in drag, target \in DOMAIN rows, above \in BOOLEAN :
              drag' = {} /\ from # target /\ Drop(target, above) => Lands(from, target, above)
         /\ KeysOf(rows') = original \/ ~ResetOrder]_vars
  <2> SUFFICES ASSUME Inv
               PROVE  /\ \A from \in drag, target \in DOMAIN rows, above \in BOOLEAN :
                           drag' = {} /\ from # target /\ Drop(target, above) => Lands(from, target, above)
                      /\ KeysOf(rows') = original \/ ~ResetOrder
    OBVIOUS
  <2>1. ASSUME NEW from \in drag, NEW target \in DOMAIN rows, NEW above \in BOOLEAN,
               from # target, Drop(target, above)
        PROVE  Lands(from, target, above)
    BY <2>1, DropLands, StagingAssumption
  <2>2. ASSUME ResetOrder PROVE KeysOf(rows') = original
    BY <2>2, ResetRestores, StagingAssumption
  <2>3. QED
    BY <2>1, <2>2
<1>2. QED
  BY <1>1, StagingInvariant, PTL DEF Spec, OrderIsAsAsked

\* Only opening the review opens it.
LEMMA OpensIt ==
  ASSUME [Next]_vars, ~open, open'
  PROVE  \E active \in Paths : OpenStaging(active)
<1>1. ASSUME NEW p \in Paths, Tick(p) \/ NewDocument(p) PROVE FALSE
  BY <1>1 DEF Tick, NewDocument, review
<1>2. ASSUME NEW key \in Keys, NEW f \in Fields, NEW cell \in Read, Capture(key, f, cell) PROVE FALSE
  BY <1>2 DEF Capture, review
<1>3. OpenRows = {}
  BY DEF OpenRows
<1>4. ~Controls /\ ~Frame
  BY DEF Controls, Frame
<1>5. ~(\E all \in BOOLEAN : IncludeAll(all))
  BY <1>4 DEF IncludeAll
<1>6. ~(\E temp \in Templates, seq \in BOOLEAN : ChooseNames(temp, seq))
  BY <1>4 DEF ChooseNames
<1>7. ~(\E new \in Filters : SetFilter(new))
  BY <1>4 DEF SetFilter
<1>8. ~ResetOrder /\ ~DropElsewhere /\ ~Close /\ ~Save
  BY <1>4 DEF ResetOrder, DropElsewhere, Close, Save
<1>9. ~SaveEnds /\ ~Restart
  BY DEF SaveEnds, Restart
<1>10. ~UNCHANGED vars
  BY DEF vars, review
<1>11. QED
  BY <1>1, <1>2, <1>3, <1>5, <1>6, <1>7, <1>8, <1>9, <1>10 DEF Next

\* Opening the review of the same sheets again keeps their order, and the name and
\* the inclusion of every row whose document is the same (preserve_layout).
THEOREM StagingLayoutSurvives ==
  Spec => LayoutSurvives
<1>1. Inv /\ [Next]_vars =>
        [~open /\ open' /\ reviewed /\ KeySet(rows') = KeySet(rows) =>
           /\ KeysOf(rows') = KeysOf(rows)
           /\ \A i \in DOMAIN rows : rows'[i].version = rows[i].version =>
                /\ rows'[i].included = rows[i].included
                /\ rows'[i].manual = rows[i].manual
                /\ rows[i].manual => rows'[i].filename = rows[i].filename]_vars
  <2> SUFFICES ASSUME Inv, [Next]_vars, ~open, open', reviewed, KeySet(rows') = KeySet(rows)
               PROVE  /\ KeysOf(rows') = KeysOf(rows)
                      /\ \A i \in DOMAIN rows : rows'[i].version = rows[i].version =>
                           /\ rows'[i].included = rows[i].included
                           /\ rows'[i].manual = rows[i].manual
                           /\ rows[i].manual => rows'[i].filename = rows[i].filename
    OBVIOUS
  <2>1. PICK active \in Paths : OpenStaging(active)
    BY OpensIt
  <2>2. QED
    BY <2>1, LayoutKept, StagingAssumption
<1>2. QED
  BY <1>1, StagingInvariant, PTL DEF Spec, LayoutSurvives
=============================================================================
