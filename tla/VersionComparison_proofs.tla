----------------------- MODULE VersionComparison_proofs ----------------------
(***************************************************************************)
(* Proofs about comparisons: the passes of the alignment pair each element *)
(* at most once and leave none out, a run's rows tell its artifact, and    *)
(* the artifact accounts for both versions.                                *)
(***************************************************************************)
EXTENDS VersionComparison, Folds_proofs, FiniteSetTheorems, SequenceTheorems, TLAPS

(* ------------------------------ Alignment ------------------------------ *)
(* The passes of the alignment each lead from one sound alignment to       *)
(* another: what has no partner yet is what no pair has, no two pairs      *)
(* share an element, and the kinds that join two clauses join compatible   *)
(* ones.                                                                   *)

IsContent(a) ==
    /\ Len(a) \in Nat /\ DOMAIN a = 1..Len(a)
    /\ \A i \in DOMAIN a : IsFiniteSet(a[i].text)

Alignments(a, b) ==
    [kind : {"matched", "moved", "split", "merged"},
     from : SUBSET DOMAIN a, to : SUBSET DOMAIN b, confidence : Int]

\* The alignments that account for each element at most once, and know which
\* they have not accounted for
Sound(a, b) ==
    {s \in [left : SUBSET DOMAIN a, right : SUBSET DOMAIN b, pairs : SUBSET Alignments(a, b)] :
        /\ \A i \in DOMAIN a : i \in s.left <=> \A p \in s.pairs : i \notin p.from
        /\ \A j \in DOMAIN b : j \in s.right <=> \A p \in s.pairs : j \notin p.to
        /\ \A p, q \in s.pairs : p # q => p.from \cap q.from = {} /\ p.to \cap q.to = {}
        /\ \A p \in s.pairs : p.kind \in {"matched", "moved"} =>
            \A i \in p.from, j \in p.to : CompatibleType(a[i], b[j])}

\* A pair of elements that have no partner is aligned.
LEMMA AlignKeeps ==
  ASSUME NEW a, NEW b, NEW s \in Sound(a, b), NEW from \in SUBSET s.left,
         NEW to \in SUBSET s.right, NEW pair \in Alignments(a, b),
         pair.from = from, pair.to = to,
         pair.kind \in {"matched", "moved"} =>
            \A i \in from, j \in to : CompatibleType(a[i], b[j])
  PROVE  Align(s, from, to, pair) \in Sound(a, b)
<1>1. PICK t : t = Align(s, from, to, pair)
  OBVIOUS
<1>2. /\ t \in [left : SUBSET DOMAIN a, right : SUBSET DOMAIN b, pairs : SUBSET Alignments(a, b)]
      /\ t.left = s.left \ from /\ t.right = s.right \ to /\ t.pairs = s.pairs \cup {pair}
  BY <1>1 DEF Align, Sound
<1>3. \A i \in DOMAIN a : i \in t.left <=> \A p \in t.pairs : i \notin p.from
  BY <1>2 DEF Sound
<1>4. \A j \in DOMAIN b : j \in t.right <=> \A p \in t.pairs : j \notin p.to
  BY <1>2 DEF Sound
<1>5. \A p \in s.pairs : p.from \cap from = {} /\ p.to \cap to = {}
  BY DEF Sound
<1>6. \A p, q \in t.pairs : p # q => p.from \cap q.from = {} /\ p.to \cap q.to = {}
  BY <1>2, <1>5 DEF Sound
<1>7. \A p \in t.pairs : p.kind \in {"matched", "moved"} =>
            \A i \in p.from, j \in p.to : CompatibleType(a[i], b[j])
  BY <1>2 DEF Sound
<1> QED
  BY <1>1, <1>2, <1>3, <1>4, <1>6, <1>7 DEF Sound

LEMMA NothingIsAligned ==
  ASSUME NEW a, NEW b PROVE Unaligned(a, b) \in Sound(a, b)
BY DEF Unaligned, Sound

\* The scores and the distances are numbers, so that there is a best of them.
LEMMA MaxOfTwo ==
  ASSUME NEW x \in Int, NEW y \in Int
  PROVE  Max({x, y}) = IF x >= y THEN x ELSE y
<1>1. \E m \in {x, y} : \A k \in {x, y} : m >= k
  OBVIOUS
<1>2. PICK m : m = Max({x, y})
  OBVIOUS
<1>3. m \in {x, y} /\ \A k \in {x, y} : m >= k
  BY <1>1, <1>2 DEF Max
<1> QED
  BY <1>2, <1>3

LEMMA DistanceIsInteger ==
  ASSUME NEW i \in Nat, NEW n \in Nat, NEW j \in Nat, NEW m \in Nat
  PROVE  Distance(i, n, j, m) \in Int
<1>1. Max({n - 1, 1}) \in Nat /\ Max({n - 1, 1}) > 0
  BY MaxOfTwo
<1>2. Max({m - 1, 1}) \in Nat /\ Max({m - 1, 1}) > 0
  BY MaxOfTwo
<1>3. PICK x, y : x = (100 * (i - 1)) \div Max({n - 1, 1}) /\ y = (100 * (j - 1)) \div Max({m - 1, 1})
  OBVIOUS
<1>4. x \in Int /\ y \in Int
  BY <1>1, <1>2, <1>3
<1> QED
  BY <1>3, <1>4 DEF Distance

\* A text has finitely many words.
Text(e) == IsFiniteSet(e.text)

LEMMA TextIsCounted ==
  ASSUME NEW e, Text(e)
  PROVE  /\ Cardinality(e.text) \in Nat /\ (e.text # {} => Cardinality(e.text) > 0)
         /\ \A f : Cardinality(e.text \cap f.text) \in Nat
<1>1. Cardinality(e.text) \in Nat /\ (e.text # {} => Cardinality(e.text) # 0)
  BY FS_CardinalityType, FS_EmptySet DEF Text
<1>2. ASSUME NEW f PROVE Cardinality(e.text \cap f.text) \in Nat
  BY FS_Subset, FS_CardinalityType DEF Text
<1> QED
  BY <1>1, <1>2

LEMMA CoversIsInteger ==
  ASSUME NEW e, Text(e), NEW f PROVE Covers(e, f) \in Int
<1>1. PICK n, m \in Nat : n = Cardinality(e.text) /\ m = Cardinality(e.text \cap f.text)
  BY TextIsCounted
<1>2. CASE e.text = {}
  BY <1>2 DEF Covers
<1>3. CASE e.text # {}
  <2>1. n > 0
    BY <1>1, <1>3, TextIsCounted
  <2>2. (100 * m) \div n \in Int
    BY <2>1
  <2> QED
    BY <1>1, <1>3, <2>2 DEF Covers
<1> QED
  BY <1>2, <1>3

LEMMA ScoreIsInteger ==
  ASSUME NEW e, Text(e), NEW f, Text(f),
         NEW i \in Nat, NEW n \in Nat, NEW j \in Nat, NEW m \in Nat
  PROVE  Score(e, i, n, f, j, m) \in Int
<1>1. PICK x, y, z \in Nat : /\ x = Cardinality(e.text) /\ y = Cardinality(f.text)
                             /\ z = Cardinality(e.text \cap f.text)
  BY TextIsCounted
<1>2. e.text \cup f.text # {} => x + y > 0
  BY <1>1, TextIsCounted
<1>3. PICK ratio \in Int : ratio = IF e.text \cup f.text = {} THEN 100 ELSE (200 * z) \div (x + y)
  <2>1. CASE e.text \cup f.text = {}
    BY <2>1
  <2>2. CASE e.text \cup f.text # {}
    BY <1>2, <2>2
  <2> QED
    BY <2>1, <2>2
<1>4. PICK distance \in Int : distance = Distance(i, n, j, m)
  BY DistanceIsInteger
<1>5. PICK heading \in Int : heading = IF e.heading = f.heading THEN 100 ELSE 0
  OBVIOUS
<1>6. PICK taxonomy \in Int : taxonomy =
        IF e.type = Absent /\ f.type = Absent THEN 50
        ELSE IF e.type = Absent \/ f.type = Absent THEN 25
        ELSE IF e.type = f.type THEN 100 ELSE 0
  OBVIOUS
<1>7. Score(e, i, n, f, j, m) =
        (65 * ratio + 20 * heading + 10 * taxonomy + 5 * (100 - distance)) \div 100
  BY <1>1, <1>3, <1>4, <1>5, <1>6 DEF Score
<1> QED
  BY <1>7

LEMMA TogetherIsText ==
  ASSUME NEW b, IsContent(b), NEW j \in DOMAIN b, j + 1 \in DOMAIN b PROVE Text(Together(b, j))
<1>1. IsFiniteSet(b[j].text \cup b[j + 1].text)
  BY FS_Union DEF IsContent
<1>2. Together(b, j).text = b[j].text \cup b[j + 1].text
  BY DEF Together, Both
<1> QED
  BY <1>1, <1>2 DEF Text

LEMMA GroupConfidenceIsInteger ==
  ASSUME NEW a, IsContent(a), NEW i \in DOMAIN a,
         NEW b, IsContent(b), NEW j \in DOMAIN b, j + 1 \in DOMAIN b
  PROVE  GroupConfidence(a, i, b, j) \in Int
<1>1. Text(a[i]) /\ i \in Nat /\ Len(a) \in Nat /\ j \in Nat /\ Len(b) \in Nat
  BY DEF IsContent, Text
<1>2. Text(Together(b, j))
  BY TogetherIsText
<1>3. PICK x \in Int : x = Score(a[i], i, Len(a), Together(b, j), j, Len(b))
  BY <1>1, <1>2, ScoreIsInteger
<1>4. PICK y \in Int : y = Covers(a[i], Together(b, j))
  BY <1>1, CoversIsInteger
<1>5. Max({x, y}) \in Int
  BY MaxOfTwo
<1> QED
  BY <1>3, <1>4, <1>5 DEF GroupConfidence

\* Two neighbours that are proposed for an element are free.
LEMMA GroupIsFree ==
  ASSUME NEW a, IsContent(a), NEW i \in DOMAIN a, NEW b, IsContent(b),
         NEW free \in SUBSET DOMAIN b, BestGroup(a, i, b, free) # Absent
  PROVE  LET best == BestGroup(a, i, b, free)
         IN  best.first \in free /\ best.first + 1 \in free /\ best.confidence \in Int
<1>1. PICK C : C = GroupCandidates(a, i, b, free)
  OBVIOUS
<1>2. \A j \in C : j \in free /\ j + 1 \in free /\ j \in Nat /\ GroupConfidence(a, i, b, j) \in Int
  <2>1. ASSUME NEW j \in C PROVE j \in free /\ j + 1 \in free /\ j \in Nat
    BY <1>1 DEF IsContent, GroupCandidates
  <2>2. \A j \in C : j \in DOMAIN b /\ j + 1 \in DOMAIN b
    BY <2>1
  <2> QED
    BY <2>1, <2>2, GroupConfidenceIsInteger
<1> DEFINE Best(j) == \A k \in C :
                \/ GroupConfidence(a, i, b, k) < GroupConfidence(a, i, b, j)
                \/ GroupConfidence(a, i, b, k) = GroupConfidence(a, i, b, j) /\ j <= k
<1>3. BestGroup(a, i, b, free) =
        IF C = {} THEN Absent
        ELSE [first |-> CHOOSE j \in C : Best(j),
              confidence |-> GroupConfidence(a, i, b, CHOOSE j \in C : Best(j))]
  BY <1>1 DEF BestGroup
<1>4. C # {}
  BY <1>3
<1>5. \E j \in C : Best(j)
  <2>1. IsFiniteSet(C)
    <3>1. IsFiniteSet(1..Len(b)) /\ C \subseteq 1..Len(b)
      BY <1>2, FS_Interval DEF IsContent
    <3> QED
      BY <3>1, FS_Subset
  <2>2. PICK key : key = [j \in C |-> GroupConfidence(a, i, b, j)]
    OBVIOUS
  <2>3. \A j \in C : j \in Nat /\ key[j] \in Int /\ key[j] = GroupConfidence(a, i, b, j)
    BY <1>2, <2>2
  <2>4. PICK order : order =
            {p \in C \X C : key[p[1]] < key[p[2]] \/ (key[p[1]] = key[p[2]] /\ p[2] < p[1])}
    OBVIOUS
  <2>5. \A x, y \in C : <<x, y>> \in order <=> key[x] < key[y] \/ (key[x] = key[y] /\ y < x)
    BY <2>4
  <2>6. \A x, y \in C : x # y => <<x, y>> \in order \/ <<y, x>> \in order
    BY <2>3, <2>5
  <2>7. \A x, y, z \in C : <<x, y>> \in order /\ <<y, z>> \in order => <<x, z>> \in order
    BY <2>3, <2>5
  <2>8. PICK m \in C : \A x \in C \ {m} : <<x, m>> \in order
    BY <1>4, <2>1, <2>6, <2>7, LastOfOrder
  <2>9. \A k \in C : key[k] < key[m] \/ (key[k] = key[m] /\ m <= k)
    <3>1. \A k \in C \ {m} : key[k] < key[m] \/ (key[k] = key[m] /\ m < k)
      BY <2>5, <2>8
    <3> QED
      BY <2>3, <2>8, <3>1
  <2>10. Best(m)
    BY <2>3, <2>9
  <2> QED
    BY <2>10
<1> HIDE DEF Best
<1>6. PICK j \in C : j = CHOOSE k \in C : Best(k)
  BY <1>5
<1>7. BestGroup(a, i, b, free) = [first |-> j, confidence |-> GroupConfidence(a, i, b, j)]
  BY <1>3, <1>4, <1>6
<1> QED
  BY <1>2, <1>7

\* A step of each pass keeps an alignment sound.

LEMMA PairedIsAlignment ==
  ASSUME NEW a, NEW b, NEW i \in DOMAIN a, NEW j \in DOMAIN b, NEW confidence \in Int, NEW n, NEW m
  PROVE  /\ Paired(i, n, j, m, confidence) \in Alignments(a, b)
         /\ Paired(i, n, j, m, confidence).from = {i}
         /\ Paired(i, n, j, m, confidence).to = {j}
BY DEF Paired, Alignment, Alignments

LEMMA ExactStays ==
  ASSUME NEW a, NEW b, NEW s \in Sound(a, b), NEW i
  PROVE  AlignExact(a, b, s, i) \in Sound(a, b)
<1>1. CASE i \notin s.left \/ Cardinality(SameText(a, b, s, i)) # 1
  BY <1>1 DEF AlignExact
<1>2. CASE i \in s.left /\ Cardinality(SameText(a, b, s, i)) = 1
  <2>1. SameText(a, b, s, i) # {}
    BY <1>2, FS_EmptySet
  <2>2. PICK j \in SameText(a, b, s, i) : j = CHOOSE k \in SameText(a, b, s, i) : TRUE
    BY <2>1
  <2>3. j \in s.right /\ CompatibleType(a[i], b[j]) /\ i \in DOMAIN a /\ j \in DOMAIN b
    BY <1>2 DEF SameText, Sound
  <2>4. PICK pair : pair = Paired(i, Len(a), j, Len(b), 100)
    OBVIOUS
  <2>5. /\ Paired(i, Len(a), j, Len(b), 100) \in Alignments(a, b)
        /\ Paired(i, Len(a), j, Len(b), 100).from = {i}
        /\ Paired(i, Len(a), j, Len(b), 100).to = {j}
    <3>1. i \in DOMAIN a /\ j \in DOMAIN b /\ 100 \in Int
      BY <2>3
    <3> QED
      BY <3>1 DEF Paired, Alignment, Alignments
  <2>6. Align(s, {i}, {j}, pair) \in Sound(a, b)
    BY <1>2, <2>3, <2>4, <2>5, AlignKeeps, ZenonT(40)
  <2>7. AlignExact(a, b, s, i) = Align(s, {i}, {j}, pair)
    BY <1>2, <2>2, <2>4 DEF AlignExact
  <2> QED
    BY <2>6, <2>7
<1> QED
  BY <1>1, <1>2

LEMMA SplitStays ==
  ASSUME NEW a, IsContent(a), NEW b, IsContent(b), NEW s \in Sound(a, b), NEW i
  PROVE  AlignSplit(a, b, s, i) \in Sound(a, b)
<1>1. PICK best : best = BestGroup(a, i, b, s.right)
  OBVIOUS
<1>2. CASE i \notin s.left \/ best = Absent
  BY <1>1, <1>2 DEF AlignSplit
<1>3. CASE i \in s.left /\ best # Absent
  <2>1. i \in DOMAIN a /\ s.right \in SUBSET DOMAIN b
    BY <1>3 DEF Sound
  <2>2. best.first \in s.right /\ best.first + 1 \in s.right /\ best.confidence \in Int
    BY <1>1, <1>3, <2>1, GroupIsFree
  <2>3. PICK to : to = {best.first, best.first + 1}
    OBVIOUS
  <2>4. PICK pair : pair = Alignment("split", {i}, to, best.confidence)
    OBVIOUS
  <2>5. pair \in Alignments(a, b) /\ pair.from = {i} /\ pair.to = to /\ pair.kind = "split"
    BY <2>1, <2>2, <2>3, <2>4 DEF Alignment, Alignments
  <2>6. Align(s, {i}, to, pair) \in Sound(a, b)
    BY <1>3, <2>2, <2>3, <2>5, AlignKeeps
  <2>7. AlignSplit(a, b, s, i) = Align(s, {i}, to, pair)
    BY <1>1, <1>3, <2>3, <2>4 DEF AlignSplit
  <2> QED
    BY <2>6, <2>7
<1> QED
  BY <1>2, <1>3

LEMMA MergeStays ==
  ASSUME NEW a, IsContent(a), NEW b, IsContent(b), NEW s \in Sound(a, b), NEW j
  PROVE  AlignMerge(a, b, s, j) \in Sound(a, b)
<1>1. PICK best : best = BestGroup(b, j, a, s.left)
  OBVIOUS
<1>2. CASE j \notin s.right \/ best = Absent
  BY <1>1, <1>2 DEF AlignMerge
<1>3. CASE j \in s.right /\ best # Absent
  <2>1. j \in DOMAIN b /\ s.left \in SUBSET DOMAIN a
    BY <1>3 DEF Sound
  <2>2. best.first \in s.left /\ best.first + 1 \in s.left /\ best.confidence \in Int
    BY <1>1, <1>3, <2>1, GroupIsFree
  <2>3. PICK from : from = {best.first, best.first + 1}
    OBVIOUS
  <2>4. PICK pair : pair = Alignment("merged", from, {j}, best.confidence)
    OBVIOUS
  <2>5. pair \in Alignments(a, b) /\ pair.from = from /\ pair.to = {j} /\ pair.kind = "merged"
    BY <2>1, <2>2, <2>3, <2>4 DEF Alignment, Alignments
  <2>6. Align(s, from, {j}, pair) \in Sound(a, b)
    BY <1>3, <2>2, <2>3, <2>5, AlignKeeps
  <2>7. AlignMerge(a, b, s, j) = Align(s, from, {j}, pair)
    BY <1>1, <1>3, <2>3, <2>4 DEF AlignMerge
  <2> QED
    BY <2>6, <2>7
<1> QED
  BY <1>2, <1>3

\* The parts of a pair
LEMMA PairOf ==
  ASSUME NEW X, NEW Y, NEW p \in X \X Y
  PROVE  p[1] \in X /\ p[2] \in Y /\ p = <<p[1], p[2]>>
OBVIOUS

LEMMA PairScoreIsInteger ==
  ASSUME NEW a, IsContent(a), NEW b, IsContent(b), NEW i \in DOMAIN a, NEW j \in DOMAIN b
  PROVE  PairScore(a, b, <<i, j>>) \in Int
<1>1. /\ Text(a[i]) /\ Text(b[j])
      /\ i \in Nat /\ j \in Nat /\ Len(a) \in Nat /\ Len(b) \in Nat
  BY DEF IsContent, Text
<1> QED
  BY <1>1, ScoreIsInteger DEF PairScore

LEMMA PairStays ==
  ASSUME NEW a, IsContent(a), NEW b, IsContent(b), NEW s \in Sound(a, b),
         NEW i \in DOMAIN a, NEW j \in DOMAIN b, CompatibleType(a[i], b[j])
  PROVE  AlignPair(a, b, s, <<i, j>>) \in Sound(a, b)
<1>1. CASE ~(i \in s.left /\ j \in s.right)
  BY <1>1 DEF AlignPair
<1>2. CASE i \in s.left /\ j \in s.right
  <2>1. PICK confidence \in Int : confidence = PairScore(a, b, <<i, j>>)
    BY PairScoreIsInteger
  <2>2. PICK pair : pair = Paired(i, Len(a), j, Len(b), confidence)
    OBVIOUS
  <2>3. /\ Paired(i, Len(a), j, Len(b), confidence) \in Alignments(a, b)
        /\ Paired(i, Len(a), j, Len(b), confidence).from = {i}
        /\ Paired(i, Len(a), j, Len(b), confidence).to = {j}
    BY <2>1, PairedIsAlignment
  <2>4. Align(s, {i}, {j}, pair) \in Sound(a, b)
    BY <1>2, <2>2, <2>3, AlignKeeps
  <2>5. AlignPair(a, b, s, <<i, j>>) = Align(s, {i}, {j}, pair)
    BY <1>2, <2>1, <2>2 DEF AlignPair
  <2> QED
    BY <2>4, <2>5
<1> QED
  BY <1>1, <1>2

\* A pass over the elements takes them from the last: there is a last of any.
LEMMA LastElement ==
  ASSUME NEW a, IsContent(a)
  PROVE  IsFiniteSet(DOMAIN a) /\ \A u \in SUBSET DOMAIN a : u # {} => Max(u) \in u
<1>1. PICK n \in Nat : DOMAIN a = 1..n
  BY DEF IsContent
<1>2. IsFiniteSet(DOMAIN a)
  BY <1>1, FS_Interval
<1>3. \A u \in SUBSET DOMAIN a : u # {} => Max(u) \in u
  BY <1>1, GreatestExists
<1> QED
  BY <1>2, <1>3

\* The four passes, each a fold: what FoldLeft and MapThenFoldSet choose is a
\* recursion over the subsets of the elements, or of the pairs, left to take.

ExactRecursion(a, b, s, h) ==
    h = [u \in SUBSET DOMAIN [i \in DOMAIN a |-> i] |-> IF u = {} THEN s
         ELSE AlignExact(a, b, h[u \ {Max(u)}], [i \in DOMAIN a |-> i][Max(u)])]

LEMMA ExactFold ==
  ASSUME NEW a, IsContent(a), NEW b, IsContent(b), NEW s \in Sound(a, b)
  PROVE  FoldLeft(LAMBDA t, i : AlignExact(a, b, t, i), s, [i \in DOMAIN a |-> i]) \in Sound(a, b)
<1>1. PICK S, R : S = DOMAIN a /\ R = Sound(a, b)
  OBVIOUS
<1> DEFINE c == [u \in SUBSET S |-> Max(u)]
           step == [p \in S \X R |-> AlignExact(a, b, p[2], p[1])]
<1>2. IsFiniteSet(S) /\ \A u \in SUBSET S : u # {} => Max(u) \in u
  BY <1>1, LastElement
<1>3. \A u \in SUBSET S : c[u] = Max(u) /\ (u # {} => c[u] \in u)
  BY <1>2
<1>4. \A i \in S, t \in R : AlignExact(a, b, t, i) \in R
  BY <1>1, ExactStays
<1>5. \A i \in S, t \in R : step[<<i, t>>] = AlignExact(a, b, t, i) /\ step[<<i, t>>] \in R
  BY <1>4
<1> HIDE DEF c, step
<1>6. PICK g : Recurses(S, c, s, step, g) /\ \A u \in SUBSET S : g[u] \in R
  <2>1. s \in R /\ \A u \in SUBSET S : u # {} => c[u] \in u
    BY <1>1, <1>3
  <2>2. \A i \in S, t \in R : step[<<i, t>>] \in R
    BY <1>5
  <2> QED
    BY <1>2, <2>1, <2>2, RecursionInExists
<1>7. ExactRecursion(a, b, s, g)
  <2>1. g = [u \in SUBSET S |-> g[u]] /\ g[{}] = s
    BY <1>6 DEF Recurses
  <2>2. ASSUME NEW u \in SUBSET S, u # {}
        PROVE  g[u] = AlignExact(a, b, g[u \ {Max(u)}], [i \in S |-> i][Max(u)])
    <3>1. Max(u) \in S /\ u \ {Max(u)} \in SUBSET S /\ g[u] = step[<<Max(u), g[u \ {Max(u)}]>>]
      BY <1>2, <1>3, <1>6, <2>2, ZenonT(40) DEF Recurses
    <3> QED
      BY <1>5, <1>6, <3>1
  <2>3. DOMAIN [i \in S |-> i] = S
    OBVIOUS
  <2>4. g = [u \in SUBSET DOMAIN [i \in S |-> i] |-> IF u = {} THEN s
               ELSE AlignExact(a, b, g[u \ {Max(u)}], [i \in S |-> i][Max(u)])]
    BY <2>1, <2>2, <2>3
  <2> QED
    BY <1>1, <2>4 DEF ExactRecursion
<1>8. PICK h : h = CHOOSE k : ExactRecursion(a, b, s, k)
  OBVIOUS
<1>9. ExactRecursion(a, b, s, h)
  BY <1>7, <1>8
<1>10. DOMAIN [i \in DOMAIN a |-> i] = S
  BY <1>1
<1>11. FoldLeft(LAMBDA t, i : AlignExact(a, b, t, i), s, [i \in DOMAIN a |-> i])
         = h[DOMAIN [i \in DOMAIN a |-> i]]
  BY <1>8 DEF FoldLeft, MapThenFoldSet, ExactRecursion
<1>12. ASSUME NEW u \in SUBSET S, u # {}, h[u \ {c[u]}] \in R
       PROVE  h[u] \in R
  <2>1. Max(u) \in S /\ c[u] = Max(u)
    BY <1>2, <1>3, <1>12
  <2>2. h[u] = AlignExact(a, b, h[u \ {Max(u)}], [i \in DOMAIN a |-> i][Max(u)])
    BY <1>9, <1>10, <1>12 DEF ExactRecursion
  <2>3. h[u] = AlignExact(a, b, h[u \ {Max(u)}], Max(u))
    BY <1>1, <2>1, <2>2
  <2> QED
    BY <1>4, <1>12, <2>1, <2>3
<1>13. h[{}] = s
  BY <1>9 DEF ExactRecursion
<1>14. StaysIn(R, S, c, h)
  BY <1>1, <1>2, <1>3, <1>12, <1>13 DEF StaysIn
<1>15. \A u \in SUBSET S : h[u] \in R
  BY <1>14, RecursionStays
<1> QED
  BY <1>1, <1>10, <1>11, <1>15

SplitRecursion(a, b, s, h) ==
    h = [u \in SUBSET DOMAIN [i \in DOMAIN a |-> i] |-> IF u = {} THEN s
         ELSE AlignSplit(a, b, h[u \ {Max(u)}], [i \in DOMAIN a |-> i][Max(u)])]

LEMMA SplitFold ==
  ASSUME NEW a, IsContent(a), NEW b, IsContent(b), NEW s \in Sound(a, b)
  PROVE  FoldLeft(LAMBDA t, i : AlignSplit(a, b, t, i), s, [i \in DOMAIN a |-> i]) \in Sound(a, b)
<1>1. PICK S, R : S = DOMAIN a /\ R = Sound(a, b)
  OBVIOUS
<1> DEFINE c == [u \in SUBSET S |-> Max(u)]
           step == [p \in S \X R |-> AlignSplit(a, b, p[2], p[1])]
<1>2. IsFiniteSet(S) /\ \A u \in SUBSET S : u # {} => Max(u) \in u
  BY <1>1, LastElement
<1>3. \A u \in SUBSET S : c[u] = Max(u) /\ (u # {} => c[u] \in u)
  BY <1>2
<1>4. \A i \in S, t \in R : AlignSplit(a, b, t, i) \in R
  BY <1>1, SplitStays
<1>5. \A i \in S, t \in R : step[<<i, t>>] = AlignSplit(a, b, t, i) /\ step[<<i, t>>] \in R
  BY <1>4
<1> HIDE DEF c, step
<1>6. PICK g : Recurses(S, c, s, step, g) /\ \A u \in SUBSET S : g[u] \in R
  <2>1. s \in R /\ \A u \in SUBSET S : u # {} => c[u] \in u
    BY <1>1, <1>3
  <2>2. \A i \in S, t \in R : step[<<i, t>>] \in R
    BY <1>5
  <2> QED
    BY <1>2, <2>1, <2>2, RecursionInExists
<1>7. SplitRecursion(a, b, s, g)
  <2>1. g = [u \in SUBSET S |-> g[u]] /\ g[{}] = s
    BY <1>6 DEF Recurses
  <2>2. ASSUME NEW u \in SUBSET S, u # {}
        PROVE  g[u] = AlignSplit(a, b, g[u \ {Max(u)}], [i \in S |-> i][Max(u)])
    <3>1. Max(u) \in S /\ u \ {Max(u)} \in SUBSET S /\ g[u] = step[<<Max(u), g[u \ {Max(u)}]>>]
      BY <1>2, <1>3, <1>6, <2>2, ZenonT(40) DEF Recurses
    <3> QED
      BY <1>5, <1>6, <3>1
  <2>3. DOMAIN [i \in S |-> i] = S
    OBVIOUS
  <2>4. g = [u \in SUBSET DOMAIN [i \in S |-> i] |-> IF u = {} THEN s
               ELSE AlignSplit(a, b, g[u \ {Max(u)}], [i \in S |-> i][Max(u)])]
    BY <2>1, <2>2, <2>3
  <2> QED
    BY <1>1, <2>4 DEF SplitRecursion
<1>8. PICK h : h = CHOOSE k : SplitRecursion(a, b, s, k)
  OBVIOUS
<1>9. SplitRecursion(a, b, s, h)
  BY <1>7, <1>8
<1>10. DOMAIN [i \in DOMAIN a |-> i] = S
  BY <1>1
<1>11. FoldLeft(LAMBDA t, i : AlignSplit(a, b, t, i), s, [i \in DOMAIN a |-> i])
         = h[DOMAIN [i \in DOMAIN a |-> i]]
  BY <1>8 DEF FoldLeft, MapThenFoldSet, SplitRecursion
<1>12. ASSUME NEW u \in SUBSET S, u # {}, h[u \ {c[u]}] \in R
       PROVE  h[u] \in R
  <2>1. Max(u) \in S /\ c[u] = Max(u)
    BY <1>2, <1>3, <1>12
  <2>2. h[u] = AlignSplit(a, b, h[u \ {Max(u)}], [i \in DOMAIN a |-> i][Max(u)])
    BY <1>9, <1>10, <1>12 DEF SplitRecursion
  <2>3. h[u] = AlignSplit(a, b, h[u \ {Max(u)}], Max(u))
    BY <1>1, <2>1, <2>2
  <2> QED
    BY <1>4, <1>12, <2>1, <2>3
<1>13. h[{}] = s
  BY <1>9 DEF SplitRecursion
<1>14. StaysIn(R, S, c, h)
  BY <1>1, <1>2, <1>3, <1>12, <1>13 DEF StaysIn
<1>15. \A u \in SUBSET S : h[u] \in R
  BY <1>14, RecursionStays
<1> QED
  BY <1>1, <1>10, <1>11, <1>15

MergeRecursion(a, b, s, h) ==
    h = [u \in SUBSET DOMAIN [i \in DOMAIN b |-> i] |-> IF u = {} THEN s
         ELSE AlignMerge(a, b, h[u \ {Max(u)}], [i \in DOMAIN b |-> i][Max(u)])]

LEMMA MergeFold ==
  ASSUME NEW a, IsContent(a), NEW b, IsContent(b), NEW s \in Sound(a, b)
  PROVE  FoldLeft(LAMBDA t, i : AlignMerge(a, b, t, i), s, [i \in DOMAIN b |-> i]) \in Sound(a, b)
<1>1. PICK S, R : S = DOMAIN b /\ R = Sound(a, b)
  OBVIOUS
<1> DEFINE c == [u \in SUBSET S |-> Max(u)]
           step == [p \in S \X R |-> AlignMerge(a, b, p[2], p[1])]
<1>2. IsFiniteSet(S) /\ \A u \in SUBSET S : u # {} => Max(u) \in u
  BY <1>1, LastElement
<1>3. \A u \in SUBSET S : c[u] = Max(u) /\ (u # {} => c[u] \in u)
  BY <1>2
<1>4. \A i \in S, t \in R : AlignMerge(a, b, t, i) \in R
  BY <1>1, MergeStays
<1>5. \A i \in S, t \in R : step[<<i, t>>] = AlignMerge(a, b, t, i) /\ step[<<i, t>>] \in R
  BY <1>4
<1> HIDE DEF c, step
<1>6. PICK g : Recurses(S, c, s, step, g) /\ \A u \in SUBSET S : g[u] \in R
  <2>1. s \in R /\ \A u \in SUBSET S : u # {} => c[u] \in u
    BY <1>1, <1>3
  <2>2. \A i \in S, t \in R : step[<<i, t>>] \in R
    BY <1>5
  <2> QED
    BY <1>2, <2>1, <2>2, RecursionInExists
<1>7. MergeRecursion(a, b, s, g)
  <2>1. g = [u \in SUBSET S |-> g[u]] /\ g[{}] = s
    BY <1>6 DEF Recurses
  <2>2. ASSUME NEW u \in SUBSET S, u # {}
        PROVE  g[u] = AlignMerge(a, b, g[u \ {Max(u)}], [i \in S |-> i][Max(u)])
    <3>1. Max(u) \in S /\ u \ {Max(u)} \in SUBSET S /\ g[u] = step[<<Max(u), g[u \ {Max(u)}]>>]
      BY <1>2, <1>3, <1>6, <2>2, ZenonT(40) DEF Recurses
    <3> QED
      BY <1>5, <1>6, <3>1
  <2>3. DOMAIN [i \in S |-> i] = S
    OBVIOUS
  <2>4. g = [u \in SUBSET DOMAIN [i \in S |-> i] |-> IF u = {} THEN s
               ELSE AlignMerge(a, b, g[u \ {Max(u)}], [i \in S |-> i][Max(u)])]
    BY <2>1, <2>2, <2>3
  <2> QED
    BY <1>1, <2>4 DEF MergeRecursion
<1>8. PICK h : h = CHOOSE k : MergeRecursion(a, b, s, k)
  OBVIOUS
<1>9. MergeRecursion(a, b, s, h)
  BY <1>7, <1>8
<1>10. DOMAIN [i \in DOMAIN b |-> i] = S
  BY <1>1
<1>11. FoldLeft(LAMBDA t, i : AlignMerge(a, b, t, i), s, [i \in DOMAIN b |-> i])
         = h[DOMAIN [i \in DOMAIN b |-> i]]
  BY <1>8 DEF FoldLeft, MapThenFoldSet, MergeRecursion
<1>12. ASSUME NEW u \in SUBSET S, u # {}, h[u \ {c[u]}] \in R
       PROVE  h[u] \in R
  <2>1. Max(u) \in S /\ c[u] = Max(u)
    BY <1>2, <1>3, <1>12
  <2>2. h[u] = AlignMerge(a, b, h[u \ {Max(u)}], [i \in DOMAIN b |-> i][Max(u)])
    BY <1>9, <1>10, <1>12 DEF MergeRecursion
  <2>3. h[u] = AlignMerge(a, b, h[u \ {Max(u)}], Max(u))
    BY <1>1, <2>1, <2>2
  <2> QED
    BY <1>4, <1>12, <2>1, <2>3
<1>13. h[{}] = s
  BY <1>9 DEF MergeRecursion
<1>14. StaysIn(R, S, c, h)
  BY <1>1, <1>2, <1>3, <1>12, <1>13 DEF StaysIn
<1>15. \A u \in SUBSET S : h[u] \in R
  BY <1>14, RecursionStays
<1> QED
  BY <1>1, <1>10, <1>11, <1>15

\* The pairs have a worst, among any of them.
LEMMA WorstPair ==
  ASSUME NEW a, IsContent(a), NEW b, IsContent(b), NEW X, X = DOMAIN a, NEW Y, Y = DOMAIN b,
         NEW u, u # {}, IsFiniteSet(u), u \subseteq X \X Y
  PROVE  \E p \in u : \A q \in u \ {p} : Before(a, b, q, p)
<1>1. PICK score : score = [p \in u |-> PairScore(a, b, p)]
  OBVIOUS
<1>2. \A p \in u : /\ score[p] \in Int /\ score[p] = PairScore(a, b, p)
                   /\ p[1] \in Nat /\ p[2] \in Nat /\ p = <<p[1], p[2]>>
  <2> TAKE p \in u
  <2>1. p[1] \in DOMAIN a /\ p[2] \in DOMAIN b /\ p = <<p[1], p[2]>>
    BY PairOf
  <2>2. PairScore(a, b, <<p[1], p[2]>>) \in Int
    BY <2>1, PairScoreIsInteger
  <2>3. p[1] \in Nat /\ p[2] \in Nat
    BY <2>1 DEF IsContent
  <2> QED
    BY <1>1, <2>1, <2>2, <2>3
<1>3. PICK order : order = {r \in u \X u : Before(a, b, r[1], r[2])}
  OBVIOUS
<1>4. \A p, q \in u : <<p, q>> \in order <=>
        \/ score[p] > score[q]
        \/ score[p] = score[q] /\ p[1] < q[1]
        \/ score[p] = score[q] /\ p[1] = q[1] /\ p[2] < q[2]
  <2> TAKE p, q \in u
  <2>1. <<p, q>> \in order <=> Before(a, b, p, q)
    BY <1>3
  <2> QED
    BY <1>2, <2>1 DEF Before
<1>5. \A p, q \in u : p # q => <<p, q>> \in order \/ <<q, p>> \in order
  <2> TAKE p, q \in u
  <2>1. p[1] = q[1] /\ p[2] = q[2] => p = q
    BY <1>2
  <2>2. /\ score[p] \in Int /\ score[q] \in Int
        /\ p[1] \in Nat /\ p[2] \in Nat /\ q[1] \in Nat /\ q[2] \in Nat
    BY <1>2
  <2> QED
    BY <1>4, <2>1, <2>2
<1>6. \A p, q, r \in u : <<p, q>> \in order /\ <<q, r>> \in order => <<p, r>> \in order
  <2> TAKE p, q, r \in u
  <2>1. /\ score[p] \in Int /\ score[q] \in Int /\ score[r] \in Int
        /\ p[1] \in Nat /\ p[2] \in Nat /\ q[1] \in Nat /\ q[2] \in Nat
        /\ r[1] \in Nat /\ r[2] \in Nat
    BY <1>2
  <2> QED
    BY <1>4, <2>1
<1>7. PICK p \in u : \A q \in u \ {p} : <<q, p>> \in order
  BY <1>5, <1>6, LastOfOrder
<1>8. \A q \in u \ {p} : Before(a, b, q, p)
  BY <1>3, <1>7
<1> QED
  BY <1>8

PairRecursion(a, b, s, h) ==
    h = [u \in SUBSET ScoredPairs(a, b, s) |-> IF u = {} THEN s
         ELSE LET x == CHOOSE p \in u : \A q \in u \ {p} : Before(a, b, q, p)
              IN  AlignPair(a, b, h[u \ {x}], x)]

LEMMA PairFold ==
  ASSUME NEW a, IsContent(a), NEW b, IsContent(b), NEW s \in Sound(a, b)
  PROVE  AlignRemainingPairs(a, b, s) \in Sound(a, b)
<1>1. PICK S : S = ScoredPairs(a, b, s)
  OBVIOUS
<1>2. PICK R : R = Sound(a, b)
  OBVIOUS
<1> DEFINE Worst(u) == CHOOSE p \in u : \A q \in u \ {p} : Before(a, b, q, p)
           c == [u \in SUBSET S |-> Worst(u)]
           step == [p \in S \X R |-> AlignPair(a, b, p[2], p[1])]
<1>0. PICK X, Y : X = DOMAIN a /\ Y = DOMAIN b
  OBVIOUS
<1>3. S \subseteq X \X Y /\ \A p \in S : CompatibleType(a[p[1]], b[p[2]])
  <2>1. PICK L, M : L = s.left /\ M = s.right
    OBVIOUS
  <2>2. L \subseteq X /\ M \subseteq Y
    BY <1>0, <2>1 DEF Sound
  <2>3. S \subseteq L \X M
    BY <1>1, <2>1 DEF ScoredPairs
  <2>4. L \X M \subseteq X \X Y
    BY <2>2
  <2> QED
    BY <1>1, <2>3, <2>4 DEF ScoredPairs
<1>4. IsFiniteSet(S)
  <2>1. IsFiniteSet(X) /\ IsFiniteSet(Y)
    BY <1>0, FS_Interval DEF IsContent
  <2>2. IsFiniteSet(X \X Y)
    BY <2>1, FS_Product
  <2> QED
    BY <1>3, <2>2, FS_Subset
<1>5. \A u \in SUBSET S : u # {} => Worst(u) \in u
  <2>1. \A u \in SUBSET S : u # {} => \E p \in u : \A q \in u \ {p} : Before(a, b, q, p)
    <3> TAKE u \in SUBSET S
    <3>1. IsFiniteSet(u) /\ u \subseteq X \X Y
      BY <1>3, <1>4, FS_Subset
    <3> QED
      BY <1>0, <3>1, WorstPair
  <2> QED
    BY <2>1
<1>6. \A u \in SUBSET S : c[u] = Worst(u) /\ (u # {} => c[u] \in u)
  BY <1>5
<1>7. \A p \in S, t \in R : step[<<p, t>>] = AlignPair(a, b, t, p) /\ step[<<p, t>>] \in R
  <2>1. \A p \in S, t \in R : AlignPair(a, b, t, p) \in R
    <3> TAKE p \in S, t \in R
    <3>1. p[1] \in DOMAIN a /\ p[2] \in DOMAIN b /\ p = <<p[1], p[2]>>
      BY <1>0, <1>3, PairOf
    <3>2. AlignPair(a, b, t, <<p[1], p[2]>>) \in R
      BY <1>2, <1>3, <3>1, PairStays
    <3> QED
      BY <3>1, <3>2
  <2> QED
    BY <2>1
<1> HIDE DEF c, step, Worst
<1>8. /\ IsFiniteSet(S) /\ \A u \in SUBSET S : u # {} => c[u] \in u
      /\ \A p \in S, t \in R : step[<<p, t>>] \in R
  BY <1>4, <1>6, <1>7
<1>9. PICK g : Recurses(S, c, s, step, g) /\ \A u \in SUBSET S : g[u] \in R
  BY <1>2, <1>8, RecursionInExists
<1>12. PairRecursion(a, b, s, g)
  <2>1. g = [u \in SUBSET S |-> g[u]] /\ g[{}] = s
    BY <1>9 DEF Recurses
  <2>2. ASSUME NEW u \in SUBSET S, u # {}
        PROVE  g[u] = AlignPair(a, b, g[u \ {Worst(u)}], Worst(u))
    <3>1. Worst(u) \in S /\ u \ {Worst(u)} \in SUBSET S /\ g[u] = step[<<Worst(u), g[u \ {Worst(u)}]>>]
      BY <1>5, <1>6, <1>9, <2>2, ZenonT(40) DEF Recurses
    <3> QED
      BY <1>7, <1>9, <3>1
  <2>3. g = [u \in SUBSET S |-> IF u = {} THEN s
               ELSE AlignPair(a, b, g[u \ {Worst(u)}], Worst(u))]
    BY <2>1, <2>2
  <2> QED
    BY <1>1, <2>3 DEF PairRecursion, Worst
<1>13. PICK h : h = CHOOSE k : PairRecursion(a, b, s, k)
  OBVIOUS
<1>14. PairRecursion(a, b, s, h)
  BY <1>12, <1>13
<1>15. AlignRemainingPairs(a, b, s) = h[ScoredPairs(a, b, s)]
  BY <1>13 DEF AlignRemainingPairs, MapThenFoldSet, PairRecursion
<1>16. h = [u \in SUBSET S |-> IF u = {} THEN s
              ELSE AlignPair(a, b, h[u \ {Worst(u)}], Worst(u))]
  BY <1>1, <1>14 DEF PairRecursion, Worst
<1>17. ASSUME NEW u \in SUBSET S, u # {}, h[u \ {c[u]}] \in R
       PROVE  h[u] \in R
  <2>1. Worst(u) \in S /\ c[u] = Worst(u)
    BY <1>5, <1>6, <1>17
  <2>2. h[u] = AlignPair(a, b, h[u \ {Worst(u)}], Worst(u))
    BY <1>16, <1>17
  <2> QED
    BY <1>7, <1>17, <2>1, <2>2
<1>18. h[{}] \in R
  BY <1>2, <1>16
<1>19. StaysIn(R, S, c, h)
  BY <1>8, <1>17, <1>18 DEF StaysIn
<1> QED
  BY <1>1, <1>2, <1>15, <1>19, RecursionStays

\* What a comparison of the two says of each of their elements
AccountsFor(a, b, changes) ==
    /\ \A i \in DOMAIN a : Cardinality({c \in changes : i \in c.pair.from}) = 1
    /\ \A j \in DOMAIN b : Cardinality({c \in changes : j \in c.pair.to}) = 1
    /\ \A c \in changes : c.pair.kind \in {"matched", "moved"} =>
        \A i \in c.pair.from, j \in c.pair.to : CompatibleType(a[i], b[j])

\* When the passes have ended, every element is in one alignment.
LEMMA AlignedOnce ==
  ASSUME NEW a, IsContent(a), NEW b, IsContent(b)
  PROVE  /\ \A i \in DOMAIN a : \E p \in AlignVersions(a, b) :
                i \in p.from /\ \A q \in AlignVersions(a, b) : i \in q.from => q = p
         /\ \A j \in DOMAIN b : \E p \in AlignVersions(a, b) :
                j \in p.to /\ \A q \in AlignVersions(a, b) : j \in q.to => q = p
         /\ \A p \in AlignVersions(a, b) : p.kind \in {"matched", "moved"} =>
                \A i \in p.from, j \in p.to : CompatibleType(a[i], b[j])
<1>1. PICK s : s = AlignExactElements(a, b, Unaligned(a, b))
  OBVIOUS
<1>2. PICK t : t = FoldLeft(LAMBDA r, i : AlignSplit(a, b, r, i), s, [i \in DOMAIN a |-> i])
  OBVIOUS
<1>3. PICK u : u = FoldLeft(LAMBDA r, j : AlignMerge(a, b, r, j), t, [j \in DOMAIN b |-> j])
  OBVIOUS
<1>4. PICK v : v = AlignRemainingPairs(a, b, u)
  OBVIOUS
<1>5. s \in Sound(a, b)
  BY <1>1, NothingIsAligned, ExactFold DEF AlignExactElements
<1>6. t \in Sound(a, b)
  BY <1>2, <1>5, SplitFold
<1>7. u \in Sound(a, b)
  BY <1>3, <1>6, MergeFold
<1>8. v \in Sound(a, b)
  BY <1>4, <1>7, PairFold
<1>9. PICK P : P = AlignVersions(a, b)
  OBVIOUS
<1>10. u = AlignAdjacentGroups(a, b, s)
  BY <1>2, <1>3 DEF AlignAdjacentGroups
<1>11. P = v.pairs \cup {Alignment("removed", {i}, {}, 100) : i \in v.left}
                   \cup {Alignment("added", {}, {j}, 100) : j \in v.right}
  BY <1>1, <1>4, <1>9, <1>10 DEF AlignVersions
<1>12. \A p \in P : \/ p \in v.pairs
                    \/ \E i \in v.left : p = Alignment("removed", {i}, {}, 100)
                    \/ \E j \in v.right : p = Alignment("added", {}, {j}, 100)
  BY <1>11
<1>13. ASSUME NEW i \in DOMAIN a
       PROVE  \E p \in P : i \in p.from /\ \A q \in P : i \in q.from => q = p
  <2>1. CASE i \in v.left
    <3>1. PICK p \in P : p = Alignment("removed", {i}, {}, 100)
      BY <1>11, <2>1
    <3>2. \A q \in v.pairs : i \notin q.from
      BY <1>8, <2>1 DEF Sound
    <3>3. i \in p.from
      BY <3>1 DEF Alignment
    <3>4. ASSUME NEW q \in P, i \in q.from PROVE q = p
      <4>1. q \notin v.pairs
        BY <3>2, <3>4
      <4>2. CASE \E k \in v.left : q = Alignment("removed", {k}, {}, 100)
        BY <3>1, <3>4, <4>2 DEF Alignment
      <4>3. CASE \E k \in v.right : q = Alignment("added", {}, {k}, 100)
        BY <3>1, <3>4, <4>3 DEF Alignment
      <4> QED
        BY <1>12, <4>1, <4>2, <4>3
    <3> QED
      BY <3>3, <3>4
  <2>2. CASE i \notin v.left
    <3>1. PICK p \in v.pairs : i \in p.from
      BY <1>8, <2>2 DEF Sound
    <3>2. \A q \in v.pairs : i \in q.from => q = p
      BY <1>8, <3>1 DEF Sound
    <3> QED
      BY <1>11, <1>12, <2>2, <3>1, <3>2 DEF Alignment
  <2> QED
    BY <2>1, <2>2
<1>14. ASSUME NEW j \in DOMAIN b
       PROVE  \E p \in P : j \in p.to /\ \A q \in P : j \in q.to => q = p
  <2>1. CASE j \in v.right
    <3>1. PICK p \in P : p = Alignment("added", {}, {j}, 100)
      BY <1>11, <2>1
    <3>2. \A q \in v.pairs : j \notin q.to
      BY <1>8, <2>1 DEF Sound
    <3>3. j \in p.to
      BY <3>1 DEF Alignment
    <3>4. ASSUME NEW q \in P, j \in q.to PROVE q = p
      <4>1. q \notin v.pairs
        BY <3>2, <3>4
      <4>2. CASE \E k \in v.left : q = Alignment("removed", {k}, {}, 100)
        BY <3>1, <3>4, <4>2 DEF Alignment
      <4>3. CASE \E k \in v.right : q = Alignment("added", {}, {k}, 100)
        BY <3>1, <3>4, <4>3 DEF Alignment
      <4> QED
        BY <1>12, <4>1, <4>2, <4>3
    <3> QED
      BY <3>3, <3>4
  <2>2. CASE j \notin v.right
    <3>1. PICK p \in v.pairs : j \in p.to
      BY <1>8, <2>2 DEF Sound
    <3>2. \A q \in v.pairs : j \in q.to => q = p
      BY <1>8, <3>1 DEF Sound
    <3> QED
      BY <1>11, <1>12, <2>2, <3>1, <3>2 DEF Alignment
  <2> QED
    BY <2>1, <2>2
<1>15. ASSUME NEW p \in P, p.kind \in {"matched", "moved"}
       PROVE  \A i \in p.from, j \in p.to : CompatibleType(a[i], b[j])
  <2>1. p \in v.pairs
    BY <1>12, <1>15 DEF Alignment
  <2> QED
    BY <1>8, <1>15, <2>1 DEF Sound
<1> QED
  BY <1>9, <1>13, <1>14, <1>15

\* A change is made of each alignment, whatever the model answers.
LEMMA ChangesAccount ==
  ASSUME NEW a, IsContent(a), NEW b, IsContent(b), NEW answered
  PROVE  AccountsFor(a, b, Changes(a, b, answered))
<1>1. PICK P : P = AlignVersions(a, b)
  OBVIOUS
<1>2. PICK C : C = Changes(a, b, answered)
  OBVIOUS
<1>3. PICK change : change = [p \in P |-> Change(a, b, p, answered)]
  OBVIOUS
<1>4. \A p \in P : change[p].pair = p
  BY <1>3 DEF Change
<1>5. C = {change[p] : p \in P}
  BY <1>1, <1>2, <1>3 DEF Changes
<1>6. ASSUME NEW i \in DOMAIN a PROVE Cardinality({c \in C : i \in c.pair.from}) = 1
  <2>1. PICK p \in P : i \in p.from /\ \A q \in P : i \in q.from => q = p
    BY <1>1, AlignedOnce
  <2>2. {c \in C : i \in c.pair.from} = {change[p]}
    BY <1>4, <1>5, <2>1
  <2> QED
    BY <2>2, FS_Singleton
<1>7. ASSUME NEW j \in DOMAIN b PROVE Cardinality({c \in C : j \in c.pair.to}) = 1
  <2>1. PICK p \in P : j \in p.to /\ \A q \in P : j \in q.to => q = p
    BY <1>1, AlignedOnce
  <2>2. {c \in C : j \in c.pair.to} = {change[p]}
    BY <1>4, <1>5, <2>1
  <2> QED
    BY <2>2, FS_Singleton
<1>8. \A c \in C : c.pair.kind \in {"matched", "moved"} =>
        \A i \in c.pair.from, j \in c.pair.to : CompatibleType(a[i], b[j])
  BY <1>1, <1>4, <1>5, AlignedOnce
<1> QED
  BY <1>2, <1>6, <1>7, <1>8 DEF AccountsFor

(* ----------------------------- Comparisons ----------------------------- *)
(* The rows of a completed comparison say what its object says, for any    *)
(* versions, contents and answers of the model and any number of workers.  *)
(* A run is known by its two versions and an object by the id of its job,  *)
(* and neither is ever rewritten under another name.                       *)

JobsAreRows ==
    /\ Len(versionJobs) \in Nat
    /\ versionJobs = [i \in 1..Len(versionJobs) |-> versionJobs[i]]
    /\ \A i \in DOMAIN versionJobs : "id" \in DOMAIN versionJobs[i]

NameOf(r) == <<"compare", <<r.from, r.to>>>>
HasRun(id, runs) == \E r \in runs : id = NameOf(r)

RunsAreRows ==
    /\ \A r \in comparisons : r = [from |-> r.from, to |-> r.to, state |-> r.state,
                                   changes |-> r.changes]
    /\ \A q, r \in comparisons : q.from = r.from /\ q.to = r.to => q = r

\* Every job of a comparison, and every worker with one, has its run.
JobsHaveRuns ==
    /\ \A i \in DOMAIN versionJobs : Compared(i) => HasRun(versionJobs[i].id, comparisons)
    /\ inHand = [w \in Comparing |-> inHand[w]]
    /\ \A w \in Comparing : inHand[w] # Absent =>
        /\ inHand[w] = [id |-> inHand[w].id, changes |-> inHand[w].changes, put |-> inHand[w].put]
        /\ HasRun(inHand[w].id, comparisons)
        /\ inHand[w].put => \E o \in written : o.id = inHand[w].id

ObjectsAreFinal == \A o, p \in written : o.id = p.id => o = p

ComparisonInv ==
    JobsAreRows /\ RunsAreRows /\ JobsHaveRuns /\ ObjectsAreFinal /\ RowsTellTheArtifact

\* A job's row keeps its id, and the table its length.
LEMMA JobChanges ==
  ASSUME JobsAreRows, NEW i, NEW s, NEW t, NEW h, NEW a,
         \/ versionJobs' = [versionJobs EXCEPT ![i] =
                [@ EXCEPT !.state = s, !.tries = t, !.holder = h]]
         \/ versionJobs' = [versionJobs EXCEPT ![i] = [@ EXCEPT !.state = s, !.holder = h]]
         \/ versionJobs' = [versionJobs EXCEPT ![i] = [@ EXCEPT !.holder = h]]
         \/ versionJobs' = [versionJobs EXCEPT ![i] =
                [@ EXCEPT !.state = s, !.holder = h, !.artifact = a]]
  PROVE  /\ JobsAreRows' /\ DOMAIN versionJobs' = DOMAIN versionJobs
         /\ \A j \in DOMAIN versionJobs : versionJobs'[j].id = versionJobs[j].id
<1> DEFINE n == Len(versionJobs)
<1>1. n \in Nat /\ DOMAIN versionJobs = 1..n
  BY DEF JobsAreRows
<1>2. PICK row : versionJobs' = [versionJobs EXCEPT ![i] = row]
  OBVIOUS
<1>3. /\ DOMAIN versionJobs' = 1..n /\ versionJobs' = [j \in 1..n |-> versionJobs'[j]]
      /\ \A j \in 1..n : j # i => versionJobs'[j] = versionJobs[j]
  BY <1>1, <1>2
<1>4. Len(versionJobs') = n
  BY <1>1, <1>3
<1>5. ASSUME i \in 1..n
      PROVE  versionJobs'[i].id = versionJobs[i].id /\ "id" \in DOMAIN versionJobs'[i]
  <2> DEFINE old == versionJobs[i]
  <2>1. \/ versionJobs'[i] = [old EXCEPT !.state = s, !.tries = t, !.holder = h]
        \/ versionJobs'[i] = [old EXCEPT !.state = s, !.holder = h]
        \/ versionJobs'[i] = [old EXCEPT !.holder = h]
        \/ versionJobs'[i] = [old EXCEPT !.state = s, !.holder = h, !.artifact = a]
    BY <1>1, <1>5
  <2>2. "id" \in DOMAIN old
    BY <1>1, <1>5 DEF JobsAreRows
  <2> HIDE DEF old
  <2>3. ASSUME NEW f, "id" \in DOMAIN f, NEW x
        PROVE  /\ [f EXCEPT !.state = x].id = f.id /\ "id" \in DOMAIN [f EXCEPT !.state = x]
               /\ [f EXCEPT !.tries = x].id = f.id /\ "id" \in DOMAIN [f EXCEPT !.tries = x]
               /\ [f EXCEPT !.holder = x].id = f.id /\ "id" \in DOMAIN [f EXCEPT !.holder = x]
               /\ [f EXCEPT !.artifact = x].id = f.id /\ "id" \in DOMAIN [f EXCEPT !.artifact = x]
    BY <2>3
  <2> QED
    BY <2>1, <2>2, <2>3 DEF old
<1> QED
  BY <1>1, <1>3, <1>4, <1>5 DEF JobsAreRows

LEMMA JobInserts ==
  ASSUME JobsAreRows, NEW job, "id" \in DOMAIN job, Insert(job)
  PROVE  /\ JobsAreRows'
         /\ \A j \in DOMAIN versionJobs' :
                versionJobs'[j] = job \/ \E k \in DOMAIN versionJobs : versionJobs'[j] = versionJobs[k]
<1> DEFINE n == Len(versionJobs)
           S == {versionJobs[k] : k \in DOMAIN versionJobs}
           T == S \cup {job}
<1>1. n \in Nat /\ DOMAIN versionJobs = 1..n
  BY DEF JobsAreRows
<1>2. versionJobs \in [1..n -> T]
  BY <1>1 DEF JobsAreRows
<1>3. PICK i \in 1..(n + 1) : versionJobs' = InsertAt(versionJobs, i, job)
  BY DEF Insert
<1>4. job \in T /\ \A x \in T : x = job \/ x \in S
  OBVIOUS
<1> HIDE DEF T
<1>5. versionJobs \in Seq(T)
  BY <1>1, <1>2, SeqDef
<1>6. versionJobs' = SubSeq(versionJobs, 1, i - 1) \o <<job>> \o SubSeq(versionJobs, i, n)
  BY <1>3 DEF InsertAt
<1>7. SubSeq(versionJobs, 1, i - 1) \in Seq(T) /\ SubSeq(versionJobs, i, n) \in Seq(T)
  BY <1>1, <1>3, <1>5, SubSeqProperties
<1>8. <<job>> \in Seq(T)
  BY <1>4
<1>9. SubSeq(versionJobs, 1, i - 1) \o <<job>> \in Seq(T)
  BY <1>7, <1>8, ConcatProperties
<1>10. versionJobs' \in Seq(T)
  BY <1>6, <1>7, <1>9, ConcatProperties
<1>11. /\ Len(versionJobs') \in Nat /\ DOMAIN versionJobs' = 1..Len(versionJobs')
       /\ versionJobs' = [j \in 1..Len(versionJobs') |-> versionJobs'[j]]
       /\ \A j \in DOMAIN versionJobs' : versionJobs'[j] \in T
  BY <1>10
<1>12. \A x \in T : "id" \in DOMAIN x
  BY <1>4 DEF JobsAreRows
<1> QED
  BY <1>4, <1>11, <1>12 DEF JobsAreRows

\* SetRun changes one run, which keeps its name.
LEMMA RunChanges ==
  ASSUME RunsAreRows, NEW id, HasRun(id, comparisons), NEW state, NEW changes, SetRun(id, state, changes)
  PROVE  /\ RunsAreRows' /\ \A x : HasRun(x, comparisons) => HasRun(x, comparisons')
         /\ \A r \in comparisons' : r \in comparisons \/
                (r.state = state /\ r.changes = changes /\ NameOf(r) = id)
<1>1. PICK r \in comparisons : id = NameOf(r)
  BY DEF HasRun
<1>2. id[2] = <<r.from, r.to>>
  BY <1>1 DEF NameOf
<1>3. RunOf(id) \in comparisons /\ <<RunOf(id).from, RunOf(id).to>> = id[2]
  BY <1>1, <1>2 DEF RunOf
<1>4. RunOf(id) = r
  BY <1>1, <1>2, <1>3 DEF RunsAreRows
<1>5. PICK f, t, s, c : r = [from |-> f, to |-> t, state |-> s, changes |-> c]
  BY <1>1 DEF RunsAreRows
<1> DEFINE new == [from |-> f, to |-> t, state |-> state, changes |-> changes]
<1>6. [r EXCEPT !.state = state, !.changes = changes] = new
  <2>1. [r EXCEPT !.state = state, !.changes = changes] =
            [g \in {"from", "to", "state", "changes"} |->
                IF g = "changes" THEN changes ELSE IF g = "state" THEN state ELSE r[g]]
    BY <1>5
  <2>2. new = [g \in {"from", "to", "state", "changes"} |->
                IF g = "changes" THEN changes ELSE IF g = "state" THEN state ELSE r[g]]
    BY <1>5
  <2> QED
    BY <2>1, <2>2
<1>7. comparisons' = (comparisons \ {r}) \cup {new}
  BY <1>4, <1>6 DEF SetRun
<1>8. /\ new.from = r.from /\ new.to = r.to /\ new.state = state /\ new.changes = changes
      /\ new = [from |-> new.from, to |-> new.to, state |-> new.state, changes |-> new.changes]
  BY <1>5
<1>9. NameOf(new) = NameOf(r)
  BY <1>8 DEF NameOf
<1> HIDE DEF new
<1>10. RunsAreRows'
  BY <1>1, <1>7, <1>8 DEF RunsAreRows
<1>11. ASSUME NEW x, HasRun(x, comparisons) PROVE HasRun(x, comparisons')
  BY <1>7, <1>9, <1>11 DEF HasRun
<1> QED
  BY <1>1, <1>7, <1>8, <1>9, <1>10, <1>11

\* A job's id stays the name of a run, however the rows of the jobs change.
LEMMA JobsKeepRuns ==
  ASSUME ComparisonInv, JobsAreRows', DOMAIN versionJobs' = DOMAIN versionJobs,
         \A j \in DOMAIN versionJobs : versionJobs'[j].id = versionJobs[j].id,
         \A x : HasRun(x, comparisons) => HasRun(x, comparisons')
  PROVE  \A i \in DOMAIN versionJobs' : Compared(i)' => HasRun(versionJobs'[i].id, comparisons')
BY DEF ComparisonInv, JobsHaveRuns, Compared

\* A worker's hands change; what the other workers hold is as before.
LEMMA HandChanges ==
  ASSUME ComparisonInv, NEW w \in Comparing, NEW row, inHand' = [inHand EXCEPT ![w] = row],
         \A x : HasRun(x, comparisons) => HasRun(x, comparisons'), written \subseteq written',
         row # Absent =>
            /\ row = [id |-> row.id, changes |-> row.changes, put |-> row.put]
            /\ HasRun(row.id, comparisons') /\ (row.put => \E o \in written' : o.id = row.id)
  PROVE  /\ inHand' = [v \in Comparing |-> inHand'[v]]
         /\ \A v \in Comparing : inHand'[v] # Absent =>
              /\ inHand'[v] = [id |-> inHand'[v].id, changes |-> inHand'[v].changes,
                               put |-> inHand'[v].put]
              /\ HasRun(inHand'[v].id, comparisons')
              /\ inHand'[v].put => \E o \in written' : o.id = inHand'[v].id
<1>1. inHand = [v \in Comparing |-> inHand[v]]
  BY DEF ComparisonInv, JobsHaveRuns
<1>2. inHand' = [v \in Comparing |-> IF v = w THEN row ELSE inHand[v]]
  BY <1>1
<1>3. ASSUME NEW v \in Comparing, v # w, inHand[v] # Absent
      PROVE  /\ inHand[v] = [id |-> inHand[v].id, changes |-> inHand[v].changes,
                             put |-> inHand[v].put]
             /\ HasRun(inHand[v].id, comparisons')
             /\ inHand[v].put => \E o \in written' : o.id = inHand[v].id
  BY <1>3 DEF ComparisonInv, JobsHaveRuns
<1> QED
  BY <1>2, <1>3, ZenonT(40)

\* Runs and objects that stay as they are keep their agreement.
LEMMA RunsStay ==
  ASSUME ComparisonInv, UNCHANGED <<comparisons, written>>
  PROVE  /\ RunsAreRows' /\ ObjectsAreFinal' /\ RowsTellTheArtifact'
         /\ \A x : HasRun(x, comparisons) => HasRun(x, comparisons')
BY DEF ComparisonInv, RunsAreRows, ObjectsAreFinal, RowsTellTheArtifact, Completed, HasRun, NameOf

\* A job that compares nothing is inserted.
LEMMA OtherJobKeeps ==
  ASSUME ComparisonInv, NEW job, "id" \in DOMAIN job, job.id[1] # "compare", Insert(job),
         UNCHANGED <<comparisons, written, inHand>>
  PROVE  ComparisonInv'
<1>1. /\ JobsAreRows'
      /\ \A j \in DOMAIN versionJobs' :
            versionJobs'[j] = job \/ \E k \in DOMAIN versionJobs : versionJobs'[j] = versionJobs[k]
  BY JobInserts DEF ComparisonInv
<1>2. /\ RunsAreRows' /\ ObjectsAreFinal' /\ RowsTellTheArtifact'
      /\ \A x : HasRun(x, comparisons) => HasRun(x, comparisons')
  BY RunsStay
<1>3. \A i \in DOMAIN versionJobs' : Compared(i)' => HasRun(versionJobs'[i].id, comparisons')
  BY <1>1, <1>2 DEF ComparisonInv, JobsHaveRuns, Compared
<1>4. JobsHaveRuns'
  BY <1>2, <1>3 DEF ComparisonInv, JobsHaveRuns
<1> QED
  BY <1>1, <1>2, <1>4 DEF ComparisonInv

LEMMA AnalyseKeeps ==
  ASSUME ComparisonInv, NEW v, NEW content, AnalyseVersion(v, content)
  PROVE  ComparisonInv'
<1> DEFINE job == [id |-> <<"analyse", v>>, version |-> v, state |-> "completed", tries |-> 1,
                   holder |-> Absent, artifact |-> [kind |-> "analysis", elements |-> content]]
<1>1. "id" \in DOMAIN job /\ job.id[1] # "compare"
  OBVIOUS
<1>2. Insert(job) /\ UNCHANGED <<comparisons, written, inHand>>
  BY DEF AnalyseVersion
<1> HIDE DEF job
<1> QED
  BY <1>1, <1>2, OtherJobKeeps

LEMMA ReindexKeeps ==
  ASSUME ComparisonInv, NEW v, ReindexVersion(v)
  PROVE  ComparisonInv'
<1> DEFINE job == [id |-> <<"reindex", v>>, version |-> v, state |-> "completed", tries |-> 1,
                   holder |-> Absent, artifact |-> Absent]
<1>1. "id" \in DOMAIN job /\ job.id[1] # "compare"
  OBVIOUS
<1>2. Insert(job) /\ UNCHANGED <<comparisons, written, inHand>>
  BY DEF ReindexVersion
<1> HIDE DEF job
<1> QED
  BY <1>1, <1>2, OtherJobKeeps

\* What touches neither jobs, runs, objects nor workers
LEMMA AskingKeeps ==
  ASSUME ComparisonInv, UNCHANGED <<versionJobs, comparisons, written, inHand>>
  PROVE  ComparisonInv'
BY DEF ComparisonInv, JobsAreRows, RunsAreRows, JobsHaveRuns, HasRun, NameOf, Compared,
       ObjectsAreFinal, RowsTellTheArtifact, Completed

LEMMA CreateComparisonKeeps ==
  ASSUME ComparisonInv, NEW c \in Comparers, CreateComparison(c)
  PROVE  ComparisonInv'
<1> DEFINE from == requested[c].from
           to == requested[c].to
           name == <<"compare", <<from, to>>>>
           job == [id |-> name, version |-> to, state |-> "queued", tries |-> 0,
                   holder |-> Absent, artifact |-> Absent]
           run == [from |-> from, to |-> to, state |-> "queued", changes |-> Absent]
<1>1. CASE \E r \in comparisons : r.from = from /\ r.to = to
  BY <1>1, AskingKeeps DEF CreateComparison
<1>2. CASE ~\E r \in comparisons : r.from = from /\ r.to = to
  <2>1. /\ Insert(job) /\ comparisons' = comparisons \cup {run}
        /\ UNCHANGED <<written, inHand>>
    BY <1>2 DEF CreateComparison
  <2>2. "id" \in DOMAIN job /\ job.id = name
    OBVIOUS
  <2>3. /\ run.from = from /\ run.to = to /\ run.state # "completed"
        /\ run = [from |-> run.from, to |-> run.to, state |-> run.state, changes |-> run.changes]
    OBVIOUS
  <2>4. name = NameOf(run)
    BY <2>3 DEF NameOf
  <2> HIDE DEF job, run
  <2>5. /\ JobsAreRows'
        /\ \A j \in DOMAIN versionJobs' : versionJobs'[j] = job \/
                \E k \in DOMAIN versionJobs : versionJobs'[j] = versionJobs[k]
    BY <2>1, <2>2, JobInserts DEF ComparisonInv
  <2>6. /\ HasRun(name, comparisons') /\ \A x : HasRun(x, comparisons) => HasRun(x, comparisons')
    BY <2>1, <2>4 DEF HasRun, NameOf
  <2>7. RunsAreRows'
    BY <1>2, <2>1, <2>3 DEF ComparisonInv, RunsAreRows
  <2>8. RowsTellTheArtifact' /\ ObjectsAreFinal'
    BY <2>1, <2>3 DEF ComparisonInv, RowsTellTheArtifact, Completed, ObjectsAreFinal
  <2>9. JobsHaveRuns'
    <3>1. \A i \in DOMAIN versionJobs' : Compared(i)' => HasRun(versionJobs'[i].id, comparisons')
      BY <2>2, <2>5, <2>6 DEF ComparisonInv, JobsHaveRuns, Compared
    <3> QED
      BY <2>1, <2>6, <3>1 DEF ComparisonInv, JobsHaveRuns
  <2> QED
    BY <2>5, <2>7, <2>8, <2>9 DEF ComparisonInv
<1> QED
  BY <1>1, <1>2

LEMMA ClaimKeeps ==
  ASSUME ComparisonInv, NEW w \in Comparing, NEW i \in DOMAIN versionJobs, ClaimComparison(w, i)
  PROVE  ComparisonInv'
<1> DEFINE row == [id |-> versionJobs[i].id, changes |-> Absent, put |-> FALSE]
<1>1. /\ versionJobs' = [versionJobs EXCEPT ![i] =
                [@ EXCEPT !.state = "processing", !.tries = @ + 1, !.holder = w]]
      /\ inHand' = [inHand EXCEPT ![w] = row] /\ UNCHANGED <<comparisons, written>>
      /\ Compared(i)
  BY DEF ClaimComparison
<1>2. PICK t : versionJobs' = [versionJobs EXCEPT ![i] =
                [@ EXCEPT !.state = "processing", !.tries = t, !.holder = w]]
  <2> DEFINE t == versionJobs[i].tries + 1
             changed(f) == [versionJobs[i] EXCEPT !.state = "processing", !.tries = t, !.holder = w]
  <2> QED
    BY <1>1
<1>3. /\ JobsAreRows' /\ DOMAIN versionJobs' = DOMAIN versionJobs
      /\ \A j \in DOMAIN versionJobs : versionJobs'[j].id = versionJobs[j].id
  BY <1>2, JobChanges DEF ComparisonInv
<1>4. /\ RunsAreRows' /\ ObjectsAreFinal' /\ RowsTellTheArtifact'
      /\ \A x : HasRun(x, comparisons) => HasRun(x, comparisons')
  BY <1>1, RunsStay
<1>5. /\ row = [id |-> row.id, changes |-> row.changes, put |-> row.put]
      /\ row.id = versionJobs[i].id /\ ~row.put
  OBVIOUS
<1> HIDE DEF row
<1>6. HasRun(row.id, comparisons')
  BY <1>1, <1>4, <1>5 DEF ComparisonInv, JobsHaveRuns
<1>7. JobsHaveRuns'
  BY <1>1, <1>3, <1>4, <1>5, <1>6, JobsKeepRuns, HandChanges DEF JobsHaveRuns
<1> QED
  BY <1>3, <1>4, <1>7 DEF ComparisonInv

LEMMA ExpireKeeps ==
  ASSUME ComparisonInv, NEW i \in DOMAIN versionJobs, ClaimExpires(i)
  PROVE  ComparisonInv'
<1>1. /\ JobsAreRows' /\ DOMAIN versionJobs' = DOMAIN versionJobs
      /\ \A j \in DOMAIN versionJobs : versionJobs'[j].id = versionJobs[j].id
  BY JobChanges DEF ComparisonInv, ClaimExpires
<1>2. /\ RunsAreRows' /\ ObjectsAreFinal' /\ RowsTellTheArtifact'
      /\ \A x : HasRun(x, comparisons) => HasRun(x, comparisons')
  BY RunsStay DEF ClaimExpires
<1>3. JobsHaveRuns'
  BY <1>1, <1>2, JobsKeepRuns DEF ClaimExpires, ComparisonInv, JobsHaveRuns
<1> QED
  BY <1>1, <1>2, <1>3 DEF ComparisonInv

\* What a worker prepares or puts changes one field of its row.
LEMMA HandFields ==
  ASSUME ComparisonInv, NEW w \in Comparing, inHand[w] # Absent, NEW x
  PROVE  /\ [inHand[w] EXCEPT !.changes = x] =
                [id |-> inHand[w].id, changes |-> x, put |-> inHand[w].put]
         /\ [inHand[w] EXCEPT !.put = x] =
                [id |-> inHand[w].id, changes |-> inHand[w].changes, put |-> x]
<1>1. PICK i, c, p : inHand[w] = [id |-> i, changes |-> c, put |-> p]
  BY DEF ComparisonInv, JobsHaveRuns
<1> QED
  BY <1>1

LEMMA PrepareKeeps ==
  ASSUME ComparisonInv, NEW w \in Comparing, NEW answered, PrepareComparison(w, answered)
  PROVE  ComparisonInv'
<1>1. PICK x : inHand' = [inHand EXCEPT ![w].changes = x]
  BY DEF PrepareComparison
<1>2. inHand[w] # Absent /\ UNCHANGED <<versionJobs, comparisons, written>>
  BY DEF PrepareComparison
<1>3. PICK row : row = [id |-> inHand[w].id, changes |-> x, put |-> inHand[w].put]
  OBVIOUS
<1>4. inHand' = [inHand EXCEPT ![w] = row]
  BY <1>1, <1>2, <1>3, HandFields
<1>5. /\ row = [id |-> row.id, changes |-> row.changes, put |-> row.put]
      /\ row.id = inHand[w].id /\ row.put = inHand[w].put
  BY <1>3
<1>6. /\ RunsAreRows' /\ ObjectsAreFinal' /\ RowsTellTheArtifact'
      /\ \A y : HasRun(y, comparisons) => HasRun(y, comparisons')
  BY <1>2, RunsStay
<1>7. HasRun(row.id, comparisons') /\ (row.put => \E o \in written' : o.id = row.id)
  BY <1>2, <1>5 DEF ComparisonInv, JobsHaveRuns
<1>8. JobsAreRows' /\ \A i \in DOMAIN versionJobs' : Compared(i)' => HasRun(versionJobs'[i].id, comparisons')
  BY <1>2 DEF ComparisonInv, JobsAreRows, JobsHaveRuns, Compared
<1>9. JobsHaveRuns'
  BY <1>2, <1>4, <1>5, <1>6, <1>7, <1>8, HandChanges DEF JobsHaveRuns
<1> QED
  BY <1>6, <1>8, <1>9 DEF ComparisonInv

\* A worker that lets go of its job leaves the rest to the others.
LEMMA HandsEmpty ==
  ASSUME ComparisonInv, NEW w \in Comparing, inHand' = [inHand EXCEPT ![w] = Absent],
         JobsAreRows', DOMAIN versionJobs' = DOMAIN versionJobs,
         \A j \in DOMAIN versionJobs : versionJobs'[j].id = versionJobs[j].id,
         \A x : HasRun(x, comparisons) => HasRun(x, comparisons'), UNCHANGED written
  PROVE  JobsHaveRuns'
<1>1. PICK row : row = Absent
  OBVIOUS
<1> QED
  BY <1>1, JobsKeepRuns, HandChanges DEF JobsHaveRuns

LEMMA LoseKeeps ==
  ASSUME ComparisonInv, NEW w \in Comparing, inHand' = [inHand EXCEPT ![w] = Absent],
         UNCHANGED <<versionJobs, comparisons, written>>
  PROVE  ComparisonInv'
<1>1. /\ RunsAreRows' /\ ObjectsAreFinal' /\ RowsTellTheArtifact'
      /\ \A y : HasRun(y, comparisons) => HasRun(y, comparisons')
  BY RunsStay
<1>2. /\ JobsAreRows' /\ DOMAIN versionJobs' = DOMAIN versionJobs
      /\ \A j \in DOMAIN versionJobs : versionJobs'[j].id = versionJobs[j].id
  BY DEF ComparisonInv, JobsAreRows
<1> QED
  BY <1>1, <1>2, HandsEmpty DEF ComparisonInv

LEMMA FailKeeps ==
  ASSUME ComparisonInv, NEW w \in Comparing, ComparisonFails(w)
  PROVE  ComparisonInv'
<1> DEFINE id == inHand[w].id
           i == JobOf(id)
           sources == {SourceFor(v) : v \in {id[2][1], id[2][2]}}
           again == Absent \notin sources /\ versionJobs[i].tries < MaxTries
           next == IF again THEN "queued" ELSE "failed"
<1> HIDE DEF i, sources, again
<1>1. /\ inHand[w] # Absent /\ inHand' = [inHand EXCEPT ![w] = Absent] /\ UNCHANGED written
      /\ IF versionJobs[i].holder # w
         THEN UNCHANGED <<versionJobs, versionState, comparisons>>
         ELSE /\ versionJobs' = [versionJobs EXCEPT ![i] = [@ EXCEPT !.state = next, !.holder = Absent]]
              /\ IF again THEN UNCHANGED comparisons ELSE SetRun(id, next, Absent)
  BY DEF ComparisonFails, i, sources, again
<1>2. CASE versionJobs[i].holder # w
  BY <1>1, <1>2, LoseKeeps
<1>3. CASE versionJobs[i].holder = w
  <2>1. PICK k, s : versionJobs' = [versionJobs EXCEPT ![k] = [@ EXCEPT !.state = s, !.holder = Absent]]
    BY <1>1, <1>3
  <2>2. /\ JobsAreRows' /\ DOMAIN versionJobs' = DOMAIN versionJobs
        /\ \A j \in DOMAIN versionJobs : versionJobs'[j].id = versionJobs[j].id
    BY <2>1, JobChanges DEF ComparisonInv
  <2>3. HasRun(id, comparisons)
    BY <1>1 DEF ComparisonInv, JobsHaveRuns
  <2>4. /\ RunsAreRows' /\ RowsTellTheArtifact'
        /\ \A x : HasRun(x, comparisons) => HasRun(x, comparisons')
    <3>1. CASE again
      BY <1>1, <1>3, <3>1, RunsStay
    <3>2. CASE ~again
      <4>1. PICK name : name = inHand[w].id
        OBVIOUS
      <4>2. SetRun(name, "failed", Absent) /\ HasRun(name, comparisons)
        BY <1>1, <1>3, <2>3, <3>2, <4>1
      <4>3. /\ RunsAreRows' /\ \A x : HasRun(x, comparisons) => HasRun(x, comparisons')
            /\ \A r \in comparisons' : r \in comparisons \/ r.state = "failed"
        BY <4>2, RunChanges DEF ComparisonInv
      <4>4. RowsTellTheArtifact'
        BY <1>1, <4>3 DEF ComparisonInv, RowsTellTheArtifact, Completed
      <4> QED
        BY <4>3, <4>4
    <3> QED
      BY <3>1, <3>2
  <2>5. ObjectsAreFinal'
    BY <1>1 DEF ComparisonInv, ObjectsAreFinal
  <2>6. JobsHaveRuns'
    BY <1>1, <2>2, <2>4, HandsEmpty
  <2> QED
    BY <2>2, <2>4, <2>5, <2>6 DEF ComparisonInv
<1> QED
  BY <1>2, <1>3

LEMMA PutKeeps ==
  ASSUME ComparisonInv, NEW w \in Comparing, PutComparison(w)
  PROVE  ComparisonInv'
<1> DEFINE id == inHand[w].id
           object == [id |-> id, changes |-> inHand[w].changes]
<1>1. /\ inHand[w] # Absent /\ UNCHANGED <<versionJobs, comparisons>>
  BY DEF PutComparison
<1>2. CASE versionJobs[JobOf(id)].holder # w
  BY <1>1, <1>2, LoseKeeps DEF PutComparison
<1>3. CASE versionJobs[JobOf(id)].holder = w
  <2>1. /\ inHand' = [inHand EXCEPT ![w].put = TRUE]
        /\ written' = written \cup (IF \E o \in written : o.id = id THEN {} ELSE {object})
    BY <1>1, <1>3 DEF PutComparison
  <2>2. PICK row : row = [id |-> inHand[w].id, changes |-> inHand[w].changes, put |-> TRUE]
    OBVIOUS
  <2>3. /\ row = [id |-> row.id, changes |-> row.changes, put |-> row.put]
        /\ row.id = id
    BY <2>2
  <2>4. inHand' = [inHand EXCEPT ![w] = row]
    BY <1>1, <2>1, <2>2, HandFields
  <2>5. object.id = id
    OBVIOUS
  <2> HIDE DEF object
  <2>6. written \subseteq written' /\ \E o \in written' : o.id = id
    BY <2>1, <2>5
  <2>7. ObjectsAreFinal'
    BY <2>1, <2>5 DEF ComparisonInv, ObjectsAreFinal
  <2>8. RowsTellTheArtifact' /\ RunsAreRows'
    BY <1>1, <2>6 DEF ComparisonInv, RowsTellTheArtifact, Completed, RunsAreRows
  <2>9. JobsAreRows' /\ \A i \in DOMAIN versionJobs' : Compared(i)' => HasRun(versionJobs'[i].id, comparisons')
    BY <1>1 DEF ComparisonInv, JobsAreRows, JobsHaveRuns, Compared
  <2>10. HasRun(row.id, comparisons') /\ \E o \in written' : o.id = row.id
    BY <1>1, <2>3, <2>6 DEF ComparisonInv, JobsHaveRuns
  <2>11. JobsHaveRuns'
    BY <1>1, <2>3, <2>4, <2>6, <2>9, <2>10, HandChanges DEF JobsHaveRuns
  <2> QED
    BY <2>7, <2>8, <2>9, <2>11 DEF ComparisonInv
<1> QED
  BY <1>2, <1>3

LEMMA CommitKeeps ==
  ASSUME ComparisonInv, NEW w \in Comparing, CommitComparison(w)
  PROVE  ComparisonInv'
<1>1. PICK id : id = inHand[w].id
  OBVIOUS
<1>2. PICK o \in written : o.id = id /\ o.changes = Canonical(w)
  <2>1. \E o \in written : o.id = inHand[w].id
    BY DEF ComparisonInv, JobsHaveRuns, CommitComparison
  <2> DEFINE o == CHOOSE o \in written : o.id = inHand[w].id
  <2>2. o \in written /\ o.id = inHand[w].id
    BY <2>1
  <2> QED
    BY <1>1, <2>2 DEF Canonical
<1>3. PICK changes : changes = Canonical(w)
  OBVIOUS
<1>4. /\ SetRun(id, "completed", changes) /\ HasRun(id, comparisons) /\ UNCHANGED written
      /\ inHand' = [inHand EXCEPT ![w] = Absent]
  BY <1>1, <1>3 DEF CommitComparison, ComparisonInv, JobsHaveRuns
<1>5. PICK k, a : versionJobs' = [versionJobs EXCEPT ![k] =
                    [@ EXCEPT !.state = "completed", !.holder = Absent, !.artifact = a]]
  BY DEF CommitComparison
<1>6. /\ JobsAreRows' /\ DOMAIN versionJobs' = DOMAIN versionJobs
      /\ \A j \in DOMAIN versionJobs : versionJobs'[j].id = versionJobs[j].id
  BY <1>5, JobChanges DEF ComparisonInv
<1>7. /\ RunsAreRows' /\ \A x : HasRun(x, comparisons) => HasRun(x, comparisons')
      /\ \A r \in comparisons' : r \in comparisons \/ (r.changes = changes /\ NameOf(r) = id)
  BY <1>4, RunChanges DEF ComparisonInv
<1>8. RowsTellTheArtifact' /\ ObjectsAreFinal'
  BY <1>2, <1>3, <1>4, <1>7
  DEF ComparisonInv, RowsTellTheArtifact, Completed, ObjectsAreFinal, NameOf
<1>9. JobsHaveRuns'
  BY <1>4, <1>6, <1>7, HandsEmpty
<1> QED
  BY <1>6, <1>7, <1>8, <1>9 DEF ComparisonInv

LEMMA ComparisonInitial == ComparisonInit => ComparisonInv
<1> SUFFICES ASSUME ComparisonInit PROVE ComparisonInv
  OBVIOUS
<1>1. versionJobs = <<>> /\ comparisons = {} /\ written = {} /\ inHand = [w \in Comparing |-> Absent]
  BY DEF ComparisonInit
<1>2. JobsAreRows
  BY <1>1 DEF JobsAreRows
<1>3. JobsHaveRuns
  BY <1>1 DEF JobsHaveRuns
<1> QED
  BY <1>1, <1>2, <1>3 DEF ComparisonInv, RunsAreRows, ObjectsAreFinal, RowsTellTheArtifact, Completed

LEMMA ComparisonStep ==
  ASSUME ComparisonInv, [ComparisonNext]_comparisonVars
  PROVE  ComparisonInv'
<1>1. CASE UNCHANGED comparisonVars
  BY <1>1, AskingKeeps DEF comparisonVars
<1>2. ASSUME NEW v \in Versions,
             (\E content \in Contents : AnalyseVersion(v, content)) \/ ReindexVersion(v)
      PROVE  ComparisonInv'
  BY <1>2, AnalyseKeeps, ReindexKeeps
<1>3. ASSUME NEW c \in Comparers,
             (\E from, to \in Versions : RequestComparison(c, from, to)) \/ CreateComparison(c)
      PROVE  ComparisonInv'
  BY <1>3, AskingKeeps, CreateComparisonKeeps DEF RequestComparison
<1>4. ASSUME NEW i \in DOMAIN versionJobs, ClaimExpires(i)
      PROVE  ComparisonInv'
  BY <1>4, ExpireKeeps
<1>5. ASSUME NEW w \in Comparing, \E i \in DOMAIN versionJobs : ClaimComparison(w, i)
      PROVE  ComparisonInv'
  BY <1>5, ClaimKeeps
<1>6. ASSUME NEW w \in Comparing, \E answered \in Providers : PrepareComparison(w, answered)
      PROVE  ComparisonInv'
  BY <1>6, PrepareKeeps
<1>7. ASSUME NEW w \in Comparing, LoseComparison(w)
      PROVE  ComparisonInv'
  BY <1>7, LoseKeeps DEF LoseComparison
<1>8. ASSUME NEW w \in Comparing,
             ComparisonFails(w) \/ PutComparison(w) \/ CommitComparison(w)
      PROVE  ComparisonInv'
  BY <1>8, FailKeeps, PutKeeps, CommitKeeps
<1> QED
  BY <1>1, <1>2, <1>3, <1>4, <1>5, <1>6, <1>7, <1>8 DEF ComparisonNext

\* The rows of a completed comparison say what its immutable object says, for
\* any number of workers, claims that expire under them, and answers of the
\* model that differ from one attempt to the next (finalize() of
\* version_comparison_processor.py writes what write_or_read_canonical gave).
THEOREM ComparisonsTellTheirArtifact == ComparisonSpec => []RowsTellTheArtifact
<1>1. ComparisonInit => ComparisonInv
  BY ComparisonInitial
<1>2. ComparisonInv /\ [ComparisonNext]_comparisonVars => ComparisonInv'
  BY ComparisonStep
<1>3. ComparisonInv => RowsTellTheArtifact
  BY DEF ComparisonInv
<1> QED
  BY <1>1, <1>2, <1>3, PTL DEF ComparisonSpec

(* The elements of a completed comparison.  What the invariant above lacks *)
(* is that a version, once analysed, goes on saying what its analysis      *)
(* said, and that prepare() reads two such analyses.                       *)

\* Every job that has an analysis is the analysis of its version, completed for
\* good, and says something of the versions' contents; two rows of the same
\* analysis say the same.
JobFields == {"id", "version", "state", "tries", "holder", "artifact"}
AnalysesStand ==
    \A i \in DOMAIN versionJobs :
        /\ JobFields \subseteq DOMAIN versionJobs[i]
        /\ IsAnalysis(versionJobs[i].artifact) => versionJobs[i].id[1] = "analyse"
        /\ versionJobs[i].id[1] = "analyse" =>
            /\ versionJobs[i].id = <<"analyse", versionJobs[i].version>>
            /\ versionJobs[i].state = "completed"
            /\ \E content \in Contents :
                versionJobs[i].artifact = [kind |-> "analysis", elements |-> content]
            /\ \A j \in DOMAIN versionJobs : versionJobs[j].id = versionJobs[i].id =>
                versionJobs[j].artifact = versionJobs[i].artifact

Says(v, content) ==
    \E i \in DOMAIN versionJobs :
        /\ versionJobs[i].id = <<"analyse", v>>
        /\ versionJobs[i].artifact = [kind |-> "analysis", elements |-> content]
Analysed(v) == \E content \in Contents : Says(v, content)
HasJob(id) == \E i \in DOMAIN versionJobs : versionJobs[i].id = id
Told(id, changes) ==
    \E a, b \in Contents : /\ Says(id[2][1], a) /\ Says(id[2][2], b)
                           /\ AccountsFor(a, b, changes)

AccountsInv ==
    /\ AnalysesStand
    /\ DOMAIN versionState = Versions /\ DOMAIN requested = Comparers
    /\ \A v \in Versions : versionState[v] = "completed" => Analysed(v)
    /\ \A c \in Comparers : requested[c] # Absent =>
        Analysed(requested[c].from) /\ Analysed(requested[c].to)
    /\ \A r \in comparisons : Analysed(r.from) /\ Analysed(r.to)
    /\ \A w \in Comparing : inHand[w] # Absent =>
        /\ HasJob(inHand[w].id)
        /\ inHand[w].changes # Absent => Told(inHand[w].id, inHand[w].changes)
    /\ \A o \in written : Told(o.id, o.changes)

\* Rows are added and rows change, but what an analysis says stays.
RowsGoOn ==
    \A i \in DOMAIN versionJobs : \E j \in DOMAIN versionJobs' :
        /\ versionJobs'[j].id = versionJobs[i].id
        /\ versionJobs[i].id[1] = "analyse" => versionJobs'[j].artifact = versionJobs[i].artifact

LEMMA AnalysesGoOn ==
  ASSUME RowsGoOn
  PROVE  /\ \A v, content : Says(v, content) => Says(v, content)'
         /\ \A v : Analysed(v) => Analysed(v)'
         /\ \A id : HasJob(id) => HasJob(id)'
         /\ \A id, changes : Told(id, changes) => Told(id, changes)'
<1>1. ASSUME NEW v, NEW content, Says(v, content) PROVE Says(v, content)'
  <2>1. PICK i \in DOMAIN versionJobs :
            /\ versionJobs[i].id = <<"analyse", v>>
            /\ versionJobs[i].artifact = [kind |-> "analysis", elements |-> content]
    BY <1>1 DEF Says
  <2>2. versionJobs[i].id[1] = "analyse"
    BY <2>1
  <2>3. PICK j \in DOMAIN versionJobs' :
            versionJobs'[j].id = versionJobs[i].id /\ versionJobs'[j].artifact = versionJobs[i].artifact
    BY <2>2 DEF RowsGoOn
  <2> QED
    BY <2>1, <2>3 DEF Says
<1>2. \A v : Analysed(v) => Analysed(v)'
  BY <1>1 DEF Analysed
<1>3. \A id : HasJob(id) => HasJob(id)'
  BY DEF HasJob, RowsGoOn
<1>4. \A id, changes : Told(id, changes) => Told(id, changes)'
  BY <1>1 DEF Told
<1> QED
  BY <1>1, <1>2, <1>3, <1>4

\* A job's row changes, and keeps what an analysis says.
LEMMA RowChanges ==
  ASSUME JobsAreRows, AnalysesStand, NEW i \in DOMAIN versionJobs, NEW row,
         versionJobs' = [versionJobs EXCEPT ![i] = row], JobFields \subseteq DOMAIN row,
         row.id = versionJobs[i].id, row.version = versionJobs[i].version,
         IF row.id[1] = "analyse"
         THEN row.state = versionJobs[i].state /\ row.artifact = versionJobs[i].artifact
         ELSE row.artifact = versionJobs[i].artifact \/ ~IsAnalysis(row.artifact)
  PROVE  AnalysesStand' /\ RowsGoOn
<1>1. /\ DOMAIN versionJobs' = DOMAIN versionJobs
      /\ \A j \in DOMAIN versionJobs : versionJobs'[j] = IF j = i THEN row ELSE versionJobs[j]
  BY DEF JobsAreRows
<1>2. \A j \in DOMAIN versionJobs :
        /\ JobFields \subseteq DOMAIN versionJobs'[j]
        /\ versionJobs'[j].id = versionJobs[j].id /\ versionJobs'[j].version = versionJobs[j].version
        /\ versionJobs[j].id[1] = "analyse" =>
              versionJobs'[j].state = versionJobs[j].state /\ versionJobs'[j].artifact = versionJobs[j].artifact
        /\ IsAnalysis(versionJobs'[j].artifact) => versionJobs'[j].artifact = versionJobs[j].artifact
  BY <1>1 DEF AnalysesStand
<1>3. RowsGoOn
  BY <1>1, <1>2 DEF RowsGoOn
<1>4. AnalysesStand'
  <2> SUFFICES ASSUME NEW j \in DOMAIN versionJobs
               PROVE  /\ JobFields \subseteq DOMAIN versionJobs'[j]
                      /\ IsAnalysis(versionJobs'[j].artifact) => versionJobs'[j].id[1] = "analyse"
                      /\ versionJobs'[j].id[1] = "analyse" =>
                          /\ versionJobs'[j].id = <<"analyse", versionJobs'[j].version>>
                          /\ versionJobs'[j].state = "completed"
                          /\ \E content \in Contents :
                              versionJobs'[j].artifact = [kind |-> "analysis", elements |-> content]
                          /\ \A k \in DOMAIN versionJobs' : versionJobs'[k].id = versionJobs'[j].id =>
                              versionJobs'[k].artifact = versionJobs'[j].artifact
    BY <1>1 DEF AnalysesStand
  <2>1. IsAnalysis(versionJobs'[j].artifact) => versionJobs'[j].id[1] = "analyse"
    BY <1>2 DEF AnalysesStand
  <2>2. ASSUME versionJobs'[j].id[1] = "analyse"
        PROVE  /\ versionJobs'[j].id = <<"analyse", versionJobs'[j].version>>
               /\ versionJobs'[j].state = "completed"
               /\ \E content \in Contents :
                    versionJobs'[j].artifact = [kind |-> "analysis", elements |-> content]
    BY <1>2, <2>2 DEF AnalysesStand
  <2>3. ASSUME versionJobs'[j].id[1] = "analyse",
               NEW k \in DOMAIN versionJobs', versionJobs'[k].id = versionJobs'[j].id
        PROVE  versionJobs'[k].artifact = versionJobs'[j].artifact
    <3>1. versionJobs[j].id[1] = "analyse" /\ versionJobs[k].id = versionJobs[j].id
      BY <1>1, <1>2, <2>3
    <3>2. versionJobs[k].artifact = versionJobs[j].artifact
      BY <1>1, <3>1 DEF AnalysesStand
    <3> QED
      BY <1>1, <1>2, <3>1, <3>2
  <2> QED
    BY <1>2, <2>1, <2>2, <2>3
<1> QED
  BY <1>3, <1>4

\* A job is inserted, which analyses a version without a job or nothing.
LEMMA RowInserted ==
  ASSUME JobsAreRows, AnalysesStand, NEW job, Insert(job), "id" \in DOMAIN job,
         JobFields \subseteq DOMAIN job,
         IsAnalysis(job.artifact) => job.id[1] = "analyse",
         job.id[1] = "analyse" =>
            /\ job.id = <<"analyse", job.version>> /\ job.state = "completed"
            /\ \E content \in Contents : job.artifact = [kind |-> "analysis", elements |-> content]
            /\ \A i \in DOMAIN versionJobs : versionJobs[i].version # job.version
  PROVE  AnalysesStand' /\ RowsGoOn /\ \E j \in DOMAIN versionJobs' : versionJobs'[j] = job
<1>1. \A j \in DOMAIN versionJobs' :
        versionJobs'[j] = job \/ \E k \in DOMAIN versionJobs : versionJobs'[j] = versionJobs[k]
  BY JobInserts
<1>2. /\ \A k \in DOMAIN versionJobs : \E j \in DOMAIN versionJobs' : versionJobs'[j] = versionJobs[k]
      /\ \E j \in DOMAIN versionJobs' : versionJobs'[j] = job
  <2> DEFINE n == Len(versionJobs)
             S == {versionJobs[k] : k \in DOMAIN versionJobs}
             T == S \cup {job}
  <2>1. n \in Nat /\ DOMAIN versionJobs = 1..n
    BY DEF JobsAreRows
  <2>2. versionJobs \in [1..n -> T]
    BY <2>1 DEF JobsAreRows
  <2>3. PICK i \in 1..(n + 1) : versionJobs' = InsertAt(versionJobs, i, job)
    BY DEF Insert
  <2>4. job \in T
    OBVIOUS
  <2> HIDE DEF T
  <2>5. \A k \in 1..n : versionJobs[k] \in T
    BY <2>2
  <2>6. PICK left, right : left = SubSeq(versionJobs, 1, i - 1) /\ right = SubSeq(versionJobs, i, n)
    OBVIOUS
  <2>7. /\ left \in Seq(T) /\ Len(left) = i - 1
        /\ \A k \in 1..(i - 1) : left[k] = versionJobs[k]
    <3>1. \A k \in 1..(i - 1) : versionJobs[k] \in T
      BY <2>1, <2>3, <2>5
    <3> QED
      BY <2>1, <2>3, <2>6, <3>1, SubSeqProperties
  <2>8. /\ right \in Seq(T) /\ Len(right) = n - i + 1
        /\ \A k \in 1..(n - i + 1) : right[k] = versionJobs[i + k - 1]
    <3>1. \A k \in i..n : versionJobs[k] \in T
      BY <2>1, <2>3, <2>5
    <3> QED
      BY <2>1, <2>3, <2>6, <3>1, SubSeqProperties
  <2>9. <<job>> \in Seq(T) /\ Len(<<job>>) = 1 /\ <<job>>[1] = job
    BY <2>4
  <2>10. PICK front : front = left \o <<job>>
    OBVIOUS
  <2>11. /\ front \in Seq(T) /\ Len(front) = i
         /\ \A k \in 1..(i - 1) : front[k] = versionJobs[k]
         /\ front[i] = job
    BY <2>1, <2>3, <2>7, <2>9, <2>10, ConcatProperties
  <2>12. versionJobs' = front \o right
    BY <2>3, <2>6, <2>10 DEF InsertAt
  <2>13. /\ versionJobs' \in Seq(T) /\ Len(versionJobs') = n + 1
         /\ \A k \in 1..(n + 1) : versionJobs'[k] = IF k <= i THEN front[k] ELSE right[k - i]
    <3>1. PICK whole : whole = front \o right
      OBVIOUS
    <3>2. /\ whole \in Seq(T) /\ Len(whole) = Len(front) + Len(right)
          /\ \A k \in 1..(Len(front) + Len(right)) :
                whole[k] = IF k <= Len(front) THEN front[k] ELSE right[k - Len(front)]
      <4>1. front \in Seq(T) /\ right \in Seq(T)
        BY <2>8, <2>11
      <4> QED
        BY <3>1, <4>1, ConcatProperties
    <3>3. Len(front) = i /\ Len(front) + Len(right) = n + 1
      BY <2>1, <2>3, <2>8, <2>11
    <3>4. whole = versionJobs'
      BY <2>12, <3>1
    <3> QED
      BY <3>2, <3>3, <3>4
  <2>14. DOMAIN versionJobs' = 1..(n + 1)
    BY <2>13
  <2>15. versionJobs'[i] = job
    BY <2>3, <2>11, <2>13
  <2>16. ASSUME NEW k \in 1..n
         PROVE  \E j \in 1..(n + 1) : versionJobs'[j] = versionJobs[k]
    <3>1. CASE k < i
      BY <2>1, <2>3, <2>11, <2>13, <3>1
    <3>2. CASE k >= i
      <4>1. versionJobs'[k + 1] = right[k + 1 - i]
        BY <2>1, <2>3, <2>13, <3>2
      <4>2. right[k + 1 - i] = versionJobs[k]
        <5>1. k + 1 - i \in 1..(n - i + 1) /\ i + (k + 1 - i) - 1 = k
          BY <2>1, <2>3, <3>2
        <5> QED
          BY <2>8, <5>1
      <4> QED
        BY <2>1, <4>1, <4>2
    <3> QED
      BY <2>1, <2>3, <3>1, <3>2
  <2> QED
    BY <2>1, <2>3, <2>14, <2>15, <2>16
<1>3. RowsGoOn
  BY <1>2 DEF RowsGoOn
<1>4. AnalysesStand'
  <2> SUFFICES ASSUME NEW row, row = job \/ \E k \in DOMAIN versionJobs : row = versionJobs[k]
               PROVE  /\ JobFields \subseteq DOMAIN row
                      /\ IsAnalysis(row.artifact) => row.id[1] = "analyse"
                      /\ row.id[1] = "analyse" =>
                          /\ row.id = <<"analyse", row.version>>
                          /\ row.state = "completed"
                          /\ \E content \in Contents :
                              row.artifact = [kind |-> "analysis", elements |-> content]
                          /\ \A k \in DOMAIN versionJobs' : versionJobs'[k].id = row.id =>
                              versionJobs'[k].artifact = row.artifact
    BY <1>1 DEF AnalysesStand
  <2>1. CASE row = job
    <3>1. ASSUME row.id[1] = "analyse", NEW k \in DOMAIN versionJobs', versionJobs'[k].id = row.id
          PROVE  versionJobs'[k] = row
      <4>1. ASSUME NEW m \in DOMAIN versionJobs, versionJobs'[k] = versionJobs[m]
            PROVE  FALSE
        <5>1. versionJobs[m].id = job.id /\ job.id = <<"analyse", job.version>>
          BY <2>1, <3>1, <4>1
        <5>2. versionJobs[m].id = <<"analyse", versionJobs[m].version>>
          BY <5>1 DEF AnalysesStand
        <5>3. versionJobs[m].version = job.version
          BY <5>1, <5>2
        <5> QED
          BY <2>1, <3>1, <5>3
      <4> QED
        BY <1>1, <2>1, <4>1
    <3> QED
      BY <2>1, <3>1
  <2>2. ASSUME NEW m \in DOMAIN versionJobs, row = versionJobs[m]
        PROVE  /\ JobFields \subseteq DOMAIN row
               /\ IsAnalysis(row.artifact) => row.id[1] = "analyse"
               /\ row.id[1] = "analyse" =>
                   /\ row.id = <<"analyse", row.version>>
                   /\ row.state = "completed"
                   /\ \E content \in Contents :
                       row.artifact = [kind |-> "analysis", elements |-> content]
                   /\ \A k \in DOMAIN versionJobs' : versionJobs'[k].id = row.id =>
                       versionJobs'[k].artifact = row.artifact
    <3>1. ASSUME row.id[1] = "analyse", NEW k \in DOMAIN versionJobs', versionJobs'[k].id = row.id
          PROVE  versionJobs'[k].artifact = row.artifact
      <4>1. CASE versionJobs'[k] = job
        <5>1. job.id = <<"analyse", job.version>> /\ row.id = <<"analyse", row.version>>
          BY <2>2, <3>1, <4>1 DEF AnalysesStand
        <5>2. row.version = job.version
          BY <3>1, <4>1, <5>1
        <5> QED
          BY <2>2, <3>1, <4>1, <5>2
      <4>2. CASE \E l \in DOMAIN versionJobs : versionJobs'[k] = versionJobs[l]
        BY <2>2, <3>1, <4>2 DEF AnalysesStand
      <4> QED
        BY <1>1, <4>1, <4>2
    <3> QED
      BY <2>2, <3>1 DEF AnalysesStand
  <2> QED
    BY <2>1, <2>2
<1> QED
  BY <1>2, <1>3, <1>4

\* The invariant stands when what each part of it names is analysed.
LEMMA AccountsStay ==
  ASSUME AccountsInv, AnalysesStand', RowsGoOn,
         DOMAIN versionState' = Versions, DOMAIN requested' = Comparers,
         \A v \in Versions : versionState'[v] = "completed" =>
            versionState[v] = "completed" \/ Analysed(v) \/ Analysed(v)',
         \A c \in Comparers : requested'[c] # Absent =>
            Analysed(requested'[c].from) /\ Analysed(requested'[c].to),
         \A r \in comparisons' : Analysed(r.from) /\ Analysed(r.to),
         \A w \in Comparing : inHand'[w] # Absent =>
            /\ HasJob(inHand'[w].id)
            /\ inHand'[w].changes # Absent => Told(inHand'[w].id, inHand'[w].changes),
         \A o \in written' : Told(o.id, o.changes)
  PROVE  AccountsInv'
<1>1. /\ \A v : Analysed(v) => Analysed(v)'
      /\ \A id : HasJob(id) => HasJob(id)'
      /\ \A id, changes : Told(id, changes) => Told(id, changes)'
  BY AnalysesGoOn
<1>2. ASSUME NEW v \in Versions, versionState'[v] = "completed"
      PROVE  Analysed(v)'
  BY <1>1, <1>2 DEF AccountsInv
<1>3. ASSUME NEW c \in Comparers, requested'[c] # Absent
      PROVE  Analysed(requested[c].from)' /\ Analysed(requested[c].to)'
  <2>1. PICK v, u : v = requested'[c].from /\ u = requested'[c].to
    OBVIOUS
  <2>2. Analysed(v) /\ Analysed(u)
    BY <1>3, <2>1
  <2>3. Analysed(v)' /\ Analysed(u)'
    BY <1>1, <2>2
  <2> QED
    BY <2>1, <2>3 DEF Analysed, Says
<1>4. ASSUME NEW r \in comparisons'
      PROVE  Analysed(r.from)' /\ Analysed(r.to)'
  BY <1>1, <1>4
<1>5. ASSUME NEW w \in Comparing, inHand'[w] # Absent
      PROVE  /\ HasJob(inHand[w].id)'
             /\ inHand'[w].changes # Absent => Told(inHand[w].id, inHand[w].changes)'
  <2>1. PICK id, changes : id = inHand'[w].id /\ changes = inHand'[w].changes
    OBVIOUS
  <2>2. HasJob(id)' /\ (changes # Absent => Told(id, changes)')
    BY <1>1, <1>5, <2>1
  <2> QED
    BY <2>1, <2>2 DEF HasJob, Told, Says
<1>6. ASSUME NEW o \in written'
      PROVE  Told(o.id, o.changes)'
  BY <1>1, <1>6
<1> QED
  BY <1>2, <1>3, <1>4, <1>5, <1>6 DEF AccountsInv

\* What touches no job
LEMMA JobsRest ==
  ASSUME ComparisonInv, AccountsInv, UNCHANGED versionJobs
  PROVE  AnalysesStand' /\ RowsGoOn
<1>1. AnalysesStand'
  BY DEF AccountsInv, AnalysesStand
<1>2. RowsGoOn
  BY DEF RowsGoOn
<1> QED
  BY <1>1, <1>2

\* The row of a comparison changes.
LEMMA ComparedRowChanges ==
  ASSUME ComparisonInv, AccountsInv, NEW i \in DOMAIN versionJobs, versionJobs[i].id[1] # "analyse",
         NEW s, NEW t, NEW h, NEW a, ~IsAnalysis(a),
         \/ versionJobs' = [versionJobs EXCEPT ![i] =
                [@ EXCEPT !.state = s, !.tries = t, !.holder = h]]
         \/ versionJobs' = [versionJobs EXCEPT ![i] = [@ EXCEPT !.state = s, !.holder = h]]
         \/ versionJobs' = [versionJobs EXCEPT ![i] =
                [@ EXCEPT !.state = s, !.holder = h, !.artifact = a]]
  PROVE  AnalysesStand' /\ RowsGoOn
<1>1. PICK f : f = versionJobs[i]
  OBVIOUS
<1>2. PICK row : versionJobs' = [versionJobs EXCEPT ![i] = row] /\
        \/ row = [f EXCEPT !.state = s, !.tries = t, !.holder = h]
        \/ row = [f EXCEPT !.state = s, !.holder = h]
        \/ row = [f EXCEPT !.state = s, !.holder = h, !.artifact = a]
  BY <1>1
<1>3. JobFields \subseteq DOMAIN f
  BY <1>1 DEF AccountsInv, AnalysesStand
<1>4. /\ "id" \in DOMAIN f /\ "version" \in DOMAIN f /\ "state" \in DOMAIN f
      /\ "tries" \in DOMAIN f /\ "holder" \in DOMAIN f /\ "artifact" \in DOMAIN f
  BY <1>3 DEF JobFields
<1>5. /\ JobFields \subseteq DOMAIN row /\ row.id = f.id /\ row.version = f.version
      /\ row.artifact = f.artifact \/ row.artifact = a
  <2>1. CASE row = [f EXCEPT !.state = s, !.tries = t, !.holder = h]
    BY <1>3, <1>4, <2>1
  <2>2. CASE row = [f EXCEPT !.state = s, !.holder = h]
    BY <1>3, <1>4, <2>2
  <2>3. CASE row = [f EXCEPT !.state = s, !.holder = h, !.artifact = a]
    BY <1>3, <1>4, <2>3
  <2> QED
    BY <1>2, <2>1, <2>2, <2>3
<1> QED
  BY <1>1, <1>2, <1>5, RowChanges DEF ComparisonInv, AccountsInv

\* Each step keeps the invariant.
LEMMA AnalyseAccounts ==
  ASSUME ComparisonInv, AccountsInv, NEW v \in Versions, NEW content \in Contents,
         AnalyseVersion(v, content)
  PROVE  AccountsInv'
<1> DEFINE job == [id |-> <<"analyse", v>>, version |-> v, state |-> "completed", tries |-> 1,
                   holder |-> Absent, artifact |-> [kind |-> "analysis", elements |-> content]]
<1>1. /\ JobFields \subseteq DOMAIN job /\ "id" \in DOMAIN job /\ job.id[1] = "analyse"
      /\ job.id = <<"analyse", v>> /\ job.version = v
      /\ job.state = "completed" /\ job.artifact = [kind |-> "analysis", elements |-> content]
  BY DEF JobFields
<1>2. /\ Insert(job) /\ \A i \in DOMAIN versionJobs : versionJobs[i].version # v
      /\ versionState' = [versionState EXCEPT ![v] = "completed"]
      /\ UNCHANGED <<comparisons, written, requested, inHand>>
  BY DEF AnalyseVersion
<1> HIDE DEF job
<1>3. AnalysesStand' /\ RowsGoOn /\ \E j \in DOMAIN versionJobs' : versionJobs'[j] = job
  BY <1>1, <1>2, RowInserted DEF ComparisonInv, AccountsInv
<1>4. Analysed(v)'
  BY <1>1, <1>3 DEF Analysed, Says
<1>5. /\ DOMAIN versionState' = Versions
      /\ \A u \in Versions : u # v => versionState'[u] = versionState[u]
  BY <1>2 DEF AccountsInv
<1>6. \A u \in Versions : versionState'[u] = "completed" =>
            versionState[u] = "completed" \/ Analysed(u) \/ Analysed(u)'
  BY <1>4, <1>5
<1> QED
  BY <1>2, <1>3, <1>5, <1>6, AccountsStay DEF AccountsInv

LEMMA ReindexAccounts ==
  ASSUME ComparisonInv, AccountsInv, NEW v \in Versions, ReindexVersion(v)
  PROVE  AccountsInv'
<1> DEFINE job == [id |-> <<"reindex", v>>, version |-> v, state |-> "completed", tries |-> 1,
                   holder |-> Absent, artifact |-> Absent]
<1>1. /\ JobFields \subseteq DOMAIN job /\ "id" \in DOMAIN job /\ job.id[1] # "analyse"
      /\ ~IsAnalysis(job.artifact)
  BY DEF JobFields, IsAnalysis
<1>2. Insert(job) /\ UNCHANGED <<versionState, comparisons, written, requested, inHand>>
  BY DEF ReindexVersion
<1> HIDE DEF job
<1>3. AnalysesStand' /\ RowsGoOn
  BY <1>1, <1>2, RowInserted DEF ComparisonInv, AccountsInv
<1> QED
  BY <1>2, <1>3, AccountsStay DEF AccountsInv

LEMMA RequestAccounts ==
  ASSUME ComparisonInv, AccountsInv, NEW c \in Comparers, NEW from \in Versions, NEW to \in Versions,
         RequestComparison(c, from, to)
  PROVE  AccountsInv'
<1>1. /\ UNCHANGED <<versionState, versionJobs, comparisons, written, inHand>>
      /\ requested' = [requested EXCEPT ![c] = [from |-> from, to |-> to]]
  BY DEF RequestComparison
<1>2. AnalysesStand' /\ RowsGoOn
  BY <1>1, JobsRest
<1>3. Analysed(from) /\ Analysed(to)
  BY DEF RequestComparison, AccountsInv
<1>4. /\ DOMAIN requested' = Comparers
      /\ requested'[c].from = from /\ requested'[c].to = to
      /\ \A d \in Comparers : d # c => requested'[d] = requested[d]
  BY <1>1 DEF AccountsInv
<1>5. \A d \in Comparers : requested'[d] # Absent =>
            Analysed(requested'[d].from) /\ Analysed(requested'[d].to)
  BY <1>3, <1>4 DEF AccountsInv
<1> QED
  BY <1>1, <1>2, <1>4, <1>5, AccountsStay DEF AccountsInv

LEMMA CreateAccounts ==
  ASSUME ComparisonInv, AccountsInv, NEW c \in Comparers, CreateComparison(c)
  PROVE  AccountsInv'
<1> DEFINE from == requested[c].from
           to == requested[c].to
           job == [id |-> <<"compare", <<from, to>>>>, version |-> to, state |-> "queued",
                   tries |-> 0, holder |-> Absent, artifact |-> Absent]
           run == [from |-> from, to |-> to, state |-> "queued", changes |-> Absent]
<1>1. /\ requested[c] # Absent /\ UNCHANGED <<versionState, written, inHand>>
      /\ requested' = [requested EXCEPT ![c] = Absent]
      /\ \/ UNCHANGED <<versionJobs, comparisons>>
         \/ Insert(job) /\ comparisons' = comparisons \cup {run}
  BY DEF CreateComparison
<1>2. /\ JobFields \subseteq DOMAIN job /\ "id" \in DOMAIN job /\ job.id[1] # "analyse"
      /\ ~IsAnalysis(job.artifact)
  BY DEF JobFields, IsAnalysis
<1>3. run.from = from /\ run.to = to
  OBVIOUS
<1> HIDE DEF job, run
<1>4. AnalysesStand' /\ RowsGoOn
  BY <1>1, <1>2, JobsRest, RowInserted DEF ComparisonInv, AccountsInv
<1>5. Analysed(from) /\ Analysed(to)
  BY <1>1 DEF AccountsInv
<1>6. \A r \in comparisons' : Analysed(r.from) /\ Analysed(r.to)
  BY <1>1, <1>3, <1>5 DEF AccountsInv
<1>7. /\ DOMAIN requested' = Comparers
      /\ \A d \in Comparers : requested'[d] # Absent =>
            Analysed(requested'[d].from) /\ Analysed(requested'[d].to)
  BY <1>1 DEF AccountsInv
<1> QED
  BY <1>1, <1>4, <1>6, <1>7, AccountsStay DEF AccountsInv

LEMMA ClaimAccounts ==
  ASSUME ComparisonInv, AccountsInv, NEW w \in Comparing, NEW i \in DOMAIN versionJobs,
         ClaimComparison(w, i)
  PROVE  AccountsInv'
<1> DEFINE row == [id |-> versionJobs[i].id, changes |-> Absent, put |-> FALSE]
<1>1. /\ versionJobs' = [versionJobs EXCEPT ![i] =
                [@ EXCEPT !.state = "processing", !.tries = @ + 1, !.holder = w]]
      /\ versionState' = [versionState EXCEPT ![versionJobs[i].version] = "processing"]
      /\ inHand' = [inHand EXCEPT ![w] = row]
      /\ versionJobs[i].id[1] # "analyse" /\ UNCHANGED <<comparisons, written, requested>>
  BY DEF ClaimComparison, Compared
<1>2. row.id = versionJobs[i].id /\ row.changes = Absent
  OBVIOUS
<1> HIDE DEF row
<1>3. PICK k, s, t, h : /\ k = i
                        /\ versionJobs' = [versionJobs EXCEPT ![k] =
                              [@ EXCEPT !.state = s, !.tries = t, !.holder = h]]
  BY <1>1
<1>4. PICK a : a = [kind |-> "comparison"]
  OBVIOUS
<1>5. ~IsAnalysis(a)
  BY <1>4 DEF IsAnalysis
<1>6. AnalysesStand' /\ RowsGoOn
  <2>1. k \in DOMAIN versionJobs /\ versionJobs[k].id[1] # "analyse"
    BY <1>1, <1>3
  <2> QED
    BY <1>3, <1>5, <2>1, ComparedRowChanges
<1>7. /\ DOMAIN versionState' = Versions
      /\ \A v \in Versions : versionState'[v] = "completed" => versionState[v] = "completed"
  BY <1>1 DEF AccountsInv
<1>8. \A v \in Comparing : inHand'[v] # Absent =>
            /\ HasJob(inHand'[v].id)
            /\ inHand'[v].changes # Absent => Told(inHand'[v].id, inHand'[v].changes)
  <2>1. HasJob(row.id)
    BY <1>2 DEF HasJob
  <2> QED
    BY <1>1, <1>2, <2>1 DEF AccountsInv, ComparisonInv, JobsHaveRuns
<1> QED
  BY <1>1, <1>6, <1>7, <1>8, AccountsStay DEF AccountsInv

LEMMA ExpireAccounts ==
  ASSUME ComparisonInv, AccountsInv, NEW i \in DOMAIN versionJobs, ClaimExpires(i)
  PROVE  AccountsInv'
<1>1. PICK f, row : f = versionJobs[i] /\ row = [f EXCEPT !.holder = Absent]
  OBVIOUS
<1>2. /\ versionJobs' = [versionJobs EXCEPT ![i] = row]
      /\ UNCHANGED <<versionState, comparisons, written, requested, inHand>>
  BY <1>1 DEF ClaimExpires
<1>3. JobFields \subseteq DOMAIN f
  BY <1>1 DEF AccountsInv, AnalysesStand
<1>4. /\ JobFields \subseteq DOMAIN row /\ row.id = f.id /\ row.version = f.version
      /\ row.state = f.state /\ row.artifact = f.artifact
  BY <1>1, <1>3 DEF JobFields
<1>5. AnalysesStand' /\ RowsGoOn
  BY <1>1, <1>2, <1>4, RowChanges DEF ComparisonInv, AccountsInv
<1> QED
  BY <1>2, <1>5, AccountsStay DEF AccountsInv

\* What prepare() reads of a version that has been analysed is its analysis.
LEMMA SourceIsAnalysis ==
  ASSUME ComparisonInv, AccountsInv, NEW v, Analysed(v), IsAnalysis(SourceFor(v))
  PROVE  SourceFor(v).elements \in Contents /\ Says(v, SourceFor(v).elements)
<1>1. PICK done : done = {i \in DOMAIN versionJobs :
                    versionJobs[i].version = v /\ versionJobs[i].state = "completed"}
  OBVIOUS
<1>2. PICK i \in DOMAIN versionJobs : versionJobs[i].id = <<"analyse", v>>
  BY DEF Analysed, Says
<1>3. i \in done
  <2>1. versionJobs[i].id[1] = "analyse"
    BY <1>2
  <2>2. versionJobs[i].id = <<"analyse", versionJobs[i].version>> /\ versionJobs[i].state = "completed"
    BY <2>1 DEF AccountsInv, AnalysesStand
  <2> QED
    BY <1>1, <1>2, <2>2
<1>4. PICK last : last = Max(done)
  OBVIOUS
<1>5. last \in done
  <2>1. Len(versionJobs) \in Nat /\ DOMAIN versionJobs = 1..Len(versionJobs)
    BY DEF ComparisonInv, JobsAreRows
  <2>2. done \in SUBSET (1..Len(versionJobs))
    BY <1>1, <2>1
  <2> QED
    BY <1>3, <1>4, <2>1, <2>2, GreatestExists
<1>6. SourceFor(v) = versionJobs[last].artifact
  BY <1>1, <1>4 DEF SourceFor
<1>7. last \in DOMAIN versionJobs /\ versionJobs[last].version = v
  BY <1>1, <1>5
<1>8. versionJobs[last].id = <<"analyse", v>>
  BY <1>6, <1>7 DEF AccountsInv, AnalysesStand
<1>9. PICK content \in Contents : versionJobs[last].artifact = [kind |-> "analysis", elements |-> content]
  BY <1>7, <1>8 DEF AccountsInv, AnalysesStand
<1> QED
  BY <1>6, <1>7, <1>8, <1>9 DEF Says

LEMMA ContentsAreContents == \A content \in Contents : IsContent(content)
BY ComparisonAssumption DEF IsContent

\* The name of a run names its versions.
LEMMA NameTellsVersions ==
  ASSUME AccountsInv, NEW id, HasRun(id, comparisons)
  PROVE  Analysed(id[2][1]) /\ Analysed(id[2][2]) /\ id[1] = "compare"
<1>1. PICK r \in comparisons : id = NameOf(r)
  BY DEF HasRun
<1>2. id[2][1] = r.from /\ id[2][2] = r.to /\ id[1] = "compare"
  BY <1>1 DEF NameOf
<1>3. Analysed(r.from) /\ Analysed(r.to)
  BY DEF AccountsInv
<1> QED
  BY <1>2, <1>3

LEMMA PrepareAccounts ==
  ASSUME ComparisonInv, AccountsInv, NEW w \in Comparing, NEW answered, PrepareComparison(w, answered)
  PROVE  AccountsInv'
<1>1. PICK id : id = inHand[w].id
  OBVIOUS
<1>2. PICK from, to : from = SourceFor(id[2][1]) /\ to = SourceFor(id[2][2])
  OBVIOUS
<1>3. PICK changes : changes = Changes(from.elements, to.elements, answered)
  OBVIOUS
<1>4. /\ inHand[w] # Absent /\ IsAnalysis(from) /\ IsAnalysis(to)
      /\ inHand' = [inHand EXCEPT ![w].changes = changes]
      /\ UNCHANGED <<versionState, versionJobs, comparisons, written, requested>>
  BY <1>1, <1>2, <1>3 DEF PrepareComparison
<1>5. HasRun(id, comparisons) /\ HasJob(id)
  BY <1>1, <1>4 DEF ComparisonInv, JobsHaveRuns, AccountsInv
<1>6. Analysed(id[2][1]) /\ Analysed(id[2][2])
  BY <1>5, NameTellsVersions
<1>7. /\ from.elements \in Contents /\ Says(id[2][1], from.elements)
      /\ to.elements \in Contents /\ Says(id[2][2], to.elements)
  BY <1>2, <1>4, <1>6, SourceIsAnalysis
<1>8. AccountsFor(from.elements, to.elements, changes)
  BY <1>3, <1>7, ContentsAreContents, ChangesAccount
<1>9. Told(id, changes)
  BY <1>7, <1>8 DEF Told
<1>10. PICK row : row = [id |-> id, changes |-> changes, put |-> inHand[w].put]
  OBVIOUS
<1>11. inHand' = [inHand EXCEPT ![w] = row]
  BY <1>1, <1>4, <1>10, HandFields
<1>12. row.id = id /\ row.changes = changes
  BY <1>10
<1>13. \A v \in Comparing : inHand'[v] # Absent =>
            /\ HasJob(inHand'[v].id)
            /\ inHand'[v].changes # Absent => Told(inHand'[v].id, inHand'[v].changes)
  BY <1>5, <1>9, <1>11, <1>12 DEF AccountsInv, ComparisonInv, JobsHaveRuns
<1>14. AnalysesStand' /\ RowsGoOn
  BY <1>4, JobsRest
<1> QED
  BY <1>4, <1>13, <1>14, AccountsStay DEF AccountsInv

\* A worker that lets go of its job
LEMMA HandsRest ==
  ASSUME ComparisonInv, AccountsInv, NEW w \in Comparing, inHand' = [inHand EXCEPT ![w] = Absent]
  PROVE  \A v \in Comparing : inHand'[v] # Absent =>
            /\ HasJob(inHand'[v].id)
            /\ inHand'[v].changes # Absent => Told(inHand'[v].id, inHand'[v].changes)
BY DEF AccountsInv, ComparisonInv, JobsHaveRuns

LEMMA LetGoAccounts ==
  ASSUME ComparisonInv, AccountsInv, NEW w \in Comparing, inHand' = [inHand EXCEPT ![w] = Absent],
         UNCHANGED <<versionState, versionJobs, comparisons, written, requested>>
  PROVE  AccountsInv'
<1>1. AnalysesStand' /\ RowsGoOn
  BY JobsRest
<1> QED
  BY <1>1, HandsRest, AccountsStay DEF AccountsInv

\* The job of a comparison is not an analysis.
LEMMA JobIsFound ==
  ASSUME ComparisonInv, AccountsInv, NEW w \in Comparing, inHand[w] # Absent
  PROVE  /\ JobOf(inHand[w].id) \in DOMAIN versionJobs
         /\ versionJobs[JobOf(inHand[w].id)].id[1] # "analyse"
<1>1. PICK id : id = inHand[w].id
  OBVIOUS
<1>2. HasRun(id, comparisons) /\ HasJob(id)
  BY <1>1 DEF ComparisonInv, JobsHaveRuns, AccountsInv
<1>3. id[1] = "compare"
  BY <1>2, NameTellsVersions
<1>4. JobOf(id) \in DOMAIN versionJobs /\ versionJobs[JobOf(id)].id = id
  BY <1>2 DEF HasJob, JobOf
<1> QED
  BY <1>1, <1>3, <1>4

\* A run that changes keeps its versions.
LEMMA RunsKeepVersions ==
  ASSUME ComparisonInv, AccountsInv, NEW id, HasRun(id, comparisons),
         NEW state, NEW changes, SetRun(id, state, changes)
  PROVE  \A r \in comparisons' : Analysed(r.from) /\ Analysed(r.to)
<1>1. \A r \in comparisons' : r \in comparisons \/ NameOf(r) = id
  BY RunChanges DEF ComparisonInv
<1>2. ASSUME NEW r, NameOf(r) = id PROVE Analysed(r.from) /\ Analysed(r.to)
  <2>1. id[2][1] = r.from /\ id[2][2] = r.to
    BY <1>2 DEF NameOf
  <2> QED
    BY <2>1, NameTellsVersions
<1> QED
  BY <1>1, <1>2 DEF AccountsInv

LEMMA FailAccounts ==
  ASSUME ComparisonInv, AccountsInv, NEW w \in Comparing, ComparisonFails(w)
  PROVE  AccountsInv'
<1> DEFINE id == inHand[w].id
           i == JobOf(id)
           sources == {SourceFor(v) : v \in {id[2][1], id[2][2]}}
           again == Absent \notin sources /\ versionJobs[i].tries < MaxTries
           next == IF again THEN "queued" ELSE "failed"
<1>0. next # "completed"
  OBVIOUS
<1> HIDE DEF i, sources, again
<1>1. /\ inHand[w] # Absent /\ inHand' = [inHand EXCEPT ![w] = Absent] /\ UNCHANGED <<written, requested>>
      /\ IF versionJobs[i].holder # w
         THEN UNCHANGED <<versionJobs, versionState, comparisons>>
         ELSE /\ versionJobs' = [versionJobs EXCEPT ![i] = [@ EXCEPT !.state = next, !.holder = Absent]]
              /\ versionState' = [versionState EXCEPT ![id[2][2]] = next]
              /\ IF again THEN UNCHANGED comparisons ELSE SetRun(id, next, Absent)
  BY DEF ComparisonFails, i, sources, again
<1>2. CASE versionJobs[i].holder # w
  BY <1>1, <1>2, LetGoAccounts
<1>3. CASE versionJobs[i].holder = w
  <2>1. i \in DOMAIN versionJobs /\ versionJobs[i].id[1] # "analyse"
    BY <1>1, JobIsFound DEF i
  <2>2. PICK k, s : /\ k = i /\ s = next
                    /\ versionJobs' = [versionJobs EXCEPT ![k] = [@ EXCEPT !.state = s, !.holder = Absent]]
    BY <1>1, <1>3
  <2>3. PICK a : a = [kind |-> "comparison"]
    OBVIOUS
  <2>4. ~IsAnalysis(a)
    BY <2>3 DEF IsAnalysis
  <2>5. AnalysesStand' /\ RowsGoOn
    BY <2>1, <2>2, <2>4, ComparedRowChanges
  <2>6. /\ DOMAIN versionState' = Versions
        /\ \A v \in Versions : versionState'[v] = "completed" => versionState[v] = "completed"
    <3>1. PICK v, s0 : v = id[2][2] /\ s0 = next
      OBVIOUS
    <3>2. versionState' = [versionState EXCEPT ![v] = s0] /\ s0 # "completed"
      BY <1>0, <1>1, <1>3, <3>1
    <3> QED
      BY <3>2 DEF AccountsInv
  <2>7. \A r \in comparisons' : Analysed(r.from) /\ Analysed(r.to)
    <3>1. PICK name, s0 : name = inHand[w].id /\ s0 = next
      OBVIOUS
    <3>2. HasRun(name, comparisons)
      BY <1>1, <3>1 DEF ComparisonInv, JobsHaveRuns
    <3>3. CASE again
      BY <1>1, <1>3, <3>3 DEF AccountsInv
    <3>4. CASE ~again
      <4>1. SetRun(name, s0, Absent)
        BY <1>1, <1>3, <3>1, <3>4
      <4> QED
        BY <3>2, <4>1, RunsKeepVersions
    <3> QED
      BY <3>3, <3>4
  <2> QED
    BY <1>1, <2>5, <2>6, <2>7, HandsRest, AccountsStay DEF AccountsInv
<1> QED
  BY <1>2, <1>3

LEMMA PutAccounts ==
  ASSUME ComparisonInv, AccountsInv, NEW w \in Comparing, PutComparison(w)
  PROVE  AccountsInv'
<1> DEFINE id == inHand[w].id
           object == [id |-> id, changes |-> inHand[w].changes]
<1>1. /\ inHand[w] # Absent /\ inHand[w].changes # Absent
      /\ UNCHANGED <<versionState, versionJobs, comparisons, requested>>
  BY DEF PutComparison
<1>2. CASE versionJobs[JobOf(id)].holder # w
  BY <1>1, <1>2, LetGoAccounts DEF PutComparison
<1>3. CASE versionJobs[JobOf(id)].holder = w
  <2>1. /\ inHand' = [inHand EXCEPT ![w].put = TRUE]
        /\ written' = written \cup (IF \E o \in written : o.id = id THEN {} ELSE {object})
    BY <1>1, <1>3 DEF PutComparison
  <2>2. PICK row : row = [id |-> inHand[w].id, changes |-> inHand[w].changes, put |-> TRUE]
    OBVIOUS
  <2>3. row.id = inHand[w].id /\ row.changes = inHand[w].changes
    BY <2>2
  <2>4. inHand' = [inHand EXCEPT ![w] = row]
    BY <1>1, <2>1, <2>2, HandFields
  <2>5. \A v \in Comparing : inHand'[v] # Absent =>
            /\ HasJob(inHand'[v].id)
            /\ inHand'[v].changes # Absent => Told(inHand'[v].id, inHand'[v].changes)
    BY <1>1, <2>3, <2>4 DEF AccountsInv, ComparisonInv, JobsHaveRuns
  <2>6. object.id = inHand[w].id /\ object.changes = inHand[w].changes
    OBVIOUS
  <2> HIDE DEF object
  <2>7. \A o \in written' : Told(o.id, o.changes)
    BY <1>1, <2>1, <2>6 DEF AccountsInv
  <2>8. AnalysesStand' /\ RowsGoOn
    BY <1>1, JobsRest
  <2> QED
    BY <1>1, <2>5, <2>7, <2>8, AccountsStay DEF AccountsInv
<1> QED
  BY <1>2, <1>3

LEMMA CommitAccounts ==
  ASSUME ComparisonInv, AccountsInv, NEW w \in Comparing, CommitComparison(w)
  PROVE  AccountsInv'
<1>1. PICK id, k, a, changes : /\ id = inHand[w].id /\ k = JobOf(inHand[w].id)
                               /\ a = [kind |-> "comparison"] /\ changes = Canonical(w)
  OBVIOUS
<1>2. /\ inHand[w] # Absent /\ UNCHANGED <<written, requested>>
      /\ SetRun(id, "completed", changes) /\ inHand' = [inHand EXCEPT ![w] = Absent]
      /\ versionJobs' = [versionJobs EXCEPT ![k] =
                    [@ EXCEPT !.state = "completed", !.holder = Absent, !.artifact = a]]
      /\ versionState' = [versionState EXCEPT ![id[2][2]] = "completed"]
  BY <1>1 DEF CommitComparison
<1>3. HasRun(id, comparisons)
  BY <1>1, <1>2 DEF ComparisonInv, JobsHaveRuns
<1>4. ~IsAnalysis(a)
  BY <1>1 DEF IsAnalysis
<1>5. k \in DOMAIN versionJobs /\ versionJobs[k].id[1] # "analyse"
  BY <1>1, <1>2, JobIsFound
<1>6. AnalysesStand' /\ RowsGoOn
  BY <1>2, <1>4, <1>5, ComparedRowChanges
<1>7. \A r \in comparisons' : Analysed(r.from) /\ Analysed(r.to)
  BY <1>2, <1>3, RunsKeepVersions
<1>8. /\ DOMAIN versionState' = Versions
      /\ \A v \in Versions : versionState'[v] = "completed" => versionState[v] = "completed" \/ Analysed(v)
  <2>1. PICK v : v = id[2][2]
    OBVIOUS
  <2>2. Analysed(v)
    BY <1>3, <2>1, NameTellsVersions
  <2>3. versionState' = [versionState EXCEPT ![v] = "completed"]
    BY <1>2, <2>1
  <2> QED
    BY <2>2, <2>3 DEF AccountsInv
<1> QED
  BY <1>2, <1>6, <1>7, <1>8, HandsRest, AccountsStay DEF AccountsInv

LEMMA AccountsInitial == ComparisonInit => AccountsInv
<1> SUFFICES ASSUME ComparisonInit PROVE AccountsInv
  OBVIOUS
<1>1. /\ versionState = [v \in Versions |-> "queued"] /\ versionJobs = <<>>
      /\ comparisons = {} /\ written = {} /\ requested = [c \in Comparers |-> Absent]
      /\ inHand = [w \in Comparing |-> Absent]
  BY DEF ComparisonInit
<1>2. AnalysesStand
  BY <1>1 DEF AnalysesStand
<1> QED
  BY <1>1, <1>2 DEF AccountsInv

LEMMA AccountsStep ==
  ASSUME ComparisonInv, AccountsInv, [ComparisonNext]_comparisonVars
  PROVE  AccountsInv'
<1>1. CASE UNCHANGED comparisonVars
  <2>1. UNCHANGED <<versionState, versionJobs, comparisons, written, requested, inHand>>
    BY <1>1 DEF comparisonVars
  <2>2. AnalysesStand' /\ RowsGoOn
    BY <2>1, JobsRest
  <2> QED
    BY <2>1, <2>2, AccountsStay DEF AccountsInv
<1>2. ASSUME NEW v \in Versions,
             (\E content \in Contents : AnalyseVersion(v, content)) \/ ReindexVersion(v)
      PROVE  AccountsInv'
  BY <1>2, AnalyseAccounts, ReindexAccounts
<1>3. ASSUME NEW c \in Comparers,
             (\E from, to \in Versions : RequestComparison(c, from, to)) \/ CreateComparison(c)
      PROVE  AccountsInv'
  BY <1>3, RequestAccounts, CreateAccounts
<1>4. ASSUME NEW i \in DOMAIN versionJobs, ClaimExpires(i)
      PROVE  AccountsInv'
  BY <1>4, ExpireAccounts
<1>5. ASSUME NEW w \in Comparing, \E i \in DOMAIN versionJobs : ClaimComparison(w, i)
      PROVE  AccountsInv'
  BY <1>5, ClaimAccounts
<1>6. ASSUME NEW w \in Comparing, \E answered \in Providers : PrepareComparison(w, answered)
      PROVE  AccountsInv'
  BY <1>6, PrepareAccounts
<1>7. ASSUME NEW w \in Comparing, LoseComparison(w)
      PROVE  AccountsInv'
  BY <1>7, LetGoAccounts DEF LoseComparison
<1>8. ASSUME NEW w \in Comparing,
             ComparisonFails(w) \/ PutComparison(w) \/ CommitComparison(w)
      PROVE  AccountsInv'
  BY <1>8, FailAccounts, PutAccounts, CommitAccounts
<1> QED
  BY <1>1, <1>2, <1>3, <1>4, <1>5, <1>6, <1>7, <1>8 DEF ComparisonNext

\* What is said of an analysis is what the content of its version is.
LEMMA SaidIsContent ==
  ASSUME AccountsInv, NEW v, NEW content, Says(v, content)
  PROVE  ContentOf(v) = content
<1>1. PICK i \in DOMAIN versionJobs :
            /\ versionJobs[i].id = <<"analyse", v>>
            /\ versionJobs[i].artifact = [kind |-> "analysis", elements |-> content]
  BY DEF Says
<1>2. PICK k : k = JobOf(<<"analyse", v>>)
  OBVIOUS
<1>3. k \in DOMAIN versionJobs /\ versionJobs[k].id = <<"analyse", v>>
  BY <1>1, <1>2 DEF JobOf
<1>4. versionJobs[i].id[1] = "analyse"
  BY <1>1
<1>5. versionJobs[k].artifact = versionJobs[i].artifact
  BY <1>1, <1>3, <1>4 DEF AccountsInv, AnalysesStand
<1> QED
  BY <1>1, <1>2, <1>5 DEF ContentOf

LEMMA AccountedFor ==
  ASSUME ComparisonInv, AccountsInv
  PROVE  EveryElementIsAccountedFor
<1> SUFFICES ASSUME NEW r \in Completed
             PROVE  AccountsFor(ContentOf(r.from), ContentOf(r.to), r.changes)
  BY DEF EveryElementIsAccountedFor, AccountsFor
<1>1. PICK o \in written : o.id = <<"compare", <<r.from, r.to>>>> /\ o.changes = r.changes
  BY DEF ComparisonInv, RowsTellTheArtifact
<1>2. o.id[2][1] = r.from /\ o.id[2][2] = r.to
  BY <1>1
<1>3. PICK a, b : /\ a \in Contents /\ b \in Contents
                  /\ Says(r.from, a) /\ Says(r.to, b) /\ AccountsFor(a, b, r.changes)
  BY <1>1, <1>2 DEF AccountsInv, Told
<1>4. ContentOf(r.from) = a /\ ContentOf(r.to) = b
  BY <1>3, SaidIsContent
<1> QED
  BY <1>3, <1>4

\* A completed comparison accounts for every element of both versions once,
\* whatever the versions say, the passes of the alignment took and the model
\* answered, and joins no incompatible clauses: each pass of align_versions
\* (version_alignment.py) takes the elements it pairs from those the passes
\* before it left, and what all of them leave is added or removed.
THEOREM ComparisonsAccountForEverything == ComparisonSpec => []EveryElementIsAccountedFor
<1>1. ComparisonInit => ComparisonInv /\ AccountsInv
  BY ComparisonInitial, AccountsInitial
<1>2. ComparisonInv /\ AccountsInv /\ [ComparisonNext]_comparisonVars => (ComparisonInv /\ AccountsInv)'
  BY ComparisonStep, AccountsStep
<1>3. ComparisonInv /\ AccountsInv => EveryElementIsAccountedFor
  BY AccountedFor
<1> QED
  BY <1>1, <1>2, <1>3, PTL DEF ComparisonSpec
=============================================================================
