------------------------- MODULE StructureEditProofs -------------------------
(***************************************************************************)
(* The rows of StructureEdit stay in order, locked segments survive an     *)
(* extraction, checked audio speaks the text and only a text edit changes  *)
(* the words, for any text, parses and bounds.                             *)
(***************************************************************************)
EXTENDS StructureEdit, SequenceTheorems, FiniteSetTheorems, WellFoundedInduction, TLAPS

USE DEF Live

\* The orders of a scene's rows differ and leave no gap below any of them.
DenseIn(rows, scene) ==
  /\ \A i, j \in In(rows, scene) : rows[i].order = rows[j].order => i = j
  /\ \A i \in In(rows, scene) : \A m \in 0..rows[i].order :
       \E j \in In(rows, scene) : rows[j].order = m

Dense == ~raced => \A scene \in Scene : DenseIn(segs, scene)

\* Ids of split rows are numbered by the edits that made them.
IdsAreFresh ==
  /\ edits \in Nat /\ edits <= MaxEdits
  /\ IsFiniteSet(Live)
  /\ \A i \in Live : i \in ParserId \/ \E n \in 1..edits : i = <<0, n>>

\* A parser's row that is still at revision 1 has the source's text.
FirstIsSource(rows) ==
  \A i \in DOMAIN rows : i \in ParserId /\ rows[i].revision = 1 => rows[i].text = Atoms(i[1], i[2])

\* No render is of a later revision than its row's, and one of the same
\* revision is of the same text.
AudioIsOfText ==
  \A i \in Live : \A k \in DOMAIN renders[i] :
    /\ renders[i][k].revision <= segs[i].revision
    /\ renders[i][k].revision = segs[i].revision => renders[i][k].text = segs[i].text

\* What a replace has read: no edit since then lowers a revision or makes a
\* row the parser could name.
ReadingIsSound ==
  reading.on =>
    /\ reading.parse \in Parse
    /\ IsFiniteSet(DOMAIN reading.old)
    /\ \A i \in DOMAIN reading.old :
         /\ reading.old[i] \in Segment
         /\ i \in ParserId \/ \E n \in 1..edits : i = <<0, n>>
    /\ \A i \in Live : i \in DOMAIN reading.old => segs[i].revision >= reading.old[i].revision
    /\ \A i \in Live : i \in ParserId => i \in DOMAIN reading.old
    /\ ~raced => reading.old = segs
    /\ ~rewound => FirstIsSource(reading.old)

IInv ==
  /\ TypeOK
  /\ RowsHaveScenes
  /\ Dense
  /\ IdsAreFresh
  /\ ReadingIsSound
  /\ ~rewound => FirstIsSource(segs) /\ AudioIsOfText
-----------------------------------------------------------------------------
(* What a parse is made of *)

Span == (Nat \ {0}) \X (Nat \ {0})

LEMMA ParseShape ==
  ASSUME NEW p \in Parse
  PROVE  /\ Len(p) \in Nat \ {0} /\ DOMAIN p = 1..Len(p) /\ p \in Seq(Seq(Span))
         /\ \A k \in DOMAIN p : p[k] \in Seq(Span) /\ Len(p[k]) \in Nat \ {0} /\ DOMAIN p[k] = 1..Len(p[k])
<1>1. p \in Seq(Seq(Span)) /\ p # <<>> /\ \A k \in DOMAIN p : p[k] # <<>>
  BY ParseAssumption DEF Span
<1>2. ASSUME NEW k \in DOMAIN p PROVE p[k] \in Seq(Span)
  BY <1>1
<1> QED
  BY <1>1, <1>2, EmptySeq, LenProperties

LEMMA SpanFacts ==
  ASSUME NEW p \in Parse, NEW k \in DOMAIN p, NEW n \in DOMAIN p[k]
  PROVE  /\ p[k][n] \in Span /\ p[k][n] \in IdsOf(p) /\ p[k][n] \in ParserId
         /\ p[k][n][1] <= p[k][n][2]
<1>1. p[k][n] \in Span
  BY ParseShape
<1>2. p[k][n][1] <= p[k][n][2]
  BY ParseAssumption
<1>3. p[k] \in Range(p) /\ p[k][n] \in Range(p[k])
  BY DEF Range
<1>6. k \in 1..Len(p)
  BY ParseShape
<1>7. p[k][n] \in IdsOf(p)
  BY <1>3, <1>6 DEF IdsOf
<1>4. p[k] \in UNION {Range(q) : q \in Parse}
  BY <1>3
<1>5. p[k][n] \in ParserId
  BY <1>3, <1>4 DEF ParserId
<1> QED
  BY <1>1, <1>2, <1>5, <1>7

LEMMA SpansDiffer ==
  ASSUME NEW p \in Parse, NEW k \in DOMAIN p, NEW n \in DOMAIN p[k],
         NEW l \in DOMAIN p, NEW m \in DOMAIN p[l], p[k][n] = p[l][m]
  PROVE  k = l /\ n = m
<1>1. k \in Int /\ l \in Int /\ n \in Int /\ m \in Int
  BY ParseShape
<1>2. /\ p[k][n][1] \in Nat /\ p[k][n][2] \in Nat
      /\ p[k][n][1] <= p[k][n][2]
      /\ p[l][m][1] <= p[l][m][2]
  BY SpanFacts DEF Span
<1>3. /\ k < l \/ (k = l /\ n < m) => p[k][n][2] < p[l][m][1]
      /\ l < k \/ (l = k /\ m < n) => p[l][m][2] < p[k][n][1]
  BY ParseAssumption
<1>4. ~(k < l \/ (k = l /\ n < m))
  BY <1>2, <1>3
<1>5. ~(l < k \/ (l = k /\ m < n))
  BY <1>2, <1>3
<1> QED
  BY <1>1, <1>4, <1>5

LEMMA ScenesDiffer ==
  ASSUME NEW p \in Parse, NEW k \in DOMAIN p, NEW l \in DOMAIN p, SceneOf(p[k]) = SceneOf(p[l])
  PROVE  k = l
<1>1. 1 \in DOMAIN p[k] /\ 1 \in DOMAIN p[l] /\ k \in Int /\ l \in Int
  BY ParseShape
<1>2. p[k][1][1] = p[l][1][1]
  BY DEF SceneOf
<1>3. /\ p[k][1][1] \in Nat /\ p[k][1][2] \in Nat /\ p[k][1][1] <= p[k][1][2]
      /\ p[l][1][1] \in Nat /\ p[l][1][2] \in Nat /\ p[l][1][1] <= p[l][1][2]
  BY <1>1, SpanFacts DEF Span
<1>4. /\ k < l => p[k][1][2] < p[l][1][1]
      /\ l < k => p[l][1][2] < p[k][1][1]
  BY <1>1, ParseAssumption
<1> QED
  BY <1>1, <1>2, <1>3, <1>4

LEMMA SceneIsScene ==
  ASSUME NEW p \in Parse
  PROVE  /\ \A k \in DOMAIN p : SceneOf(p[k]) \in Scene
         /\ ScenesOf(p) \in Seq(Scene)
         /\ Range(ScenesOf(p)) = {SceneOf(p[k]) : k \in DOMAIN p}
<1>1. ASSUME NEW k \in DOMAIN p PROVE SceneOf(p[k]) \in Scene
  <2>1. p[k] \in UNION {Range(q) : q \in Parse}
    BY DEF Range
  <2> QED
    BY <2>1 DEF Scene, SceneOf
<1>2. DOMAIN p = 1..Len(p) /\ Len(p) \in Nat
  BY ParseShape
<1>3. ScenesOf(p) = [k \in 1..Len(p) |-> SceneOf(p[k])]
  BY DEF ScenesOf
<1> HIDE DEF Scene, SceneOf, ScenesOf
<1>4. ScenesOf(p) \in Seq(Scene)
  BY <1>1, <1>2, <1>3, SeqDef
<1> QED
  BY <1>1, <1>2, <1>3, <1>4 DEF Range

LEMMA IdsOfParse ==
  ASSUME NEW p \in Parse
  PROVE  /\ \A i \in IdsOf(p) : \E k \in DOMAIN p : \E n \in DOMAIN p[k] : i = p[k][n]
         /\ IdsOf(p) \subseteq ParserId
         /\ IsFiniteSet(IdsOf(p))
<1>1. \A i \in IdsOf(p) : \E k \in DOMAIN p : \E n \in DOMAIN p[k] : i = p[k][n]
  BY ParseShape DEF IdsOf, Range
<1>2. IdsOf(p) \subseteq ParserId
  BY <1>1, SpanFacts
<1>3. ASSUME NEW k \in DOMAIN p PROVE IsFiniteSet(Range(p[k]))
  <2>1. p[k] \in Surjection(1..Len(p[k]), Range(p[k]))
    BY ParseShape DEF Surjection, Range
  <2>2. IsFiniteSet(1..Len(p[k]))
    BY ParseShape, FS_Interval
  <2> QED
    BY <2>1, <2>2, FS_Surjection
<1>4. PICK f : f = [k \in 1..Len(p) |-> Range(p[k])]
  OBVIOUS
<1>5. f \in Surjection(1..Len(p), Range(f))
  BY <1>4 DEF Surjection, Range
<1>6. IsFiniteSet(1..Len(p))
  BY ParseShape, FS_Interval
<1>7. IsFiniteSet(Range(f))
  BY <1>5, <1>6, FS_Surjection
<1>8. Range(f) = {Range(p[k]) : k \in 1..Len(p)}
  BY <1>4 DEF Range
<1>9. \A T \in Range(f) : IsFiniteSet(T)
  BY <1>3, <1>8, ParseShape
<1>10. IsFiniteSet(UNION Range(f))
  BY <1>7, <1>9, FS_UNION
<1> QED
  BY <1>1, <1>2, <1>8, <1>10 DEF IdsOf

ParsedRow == [scene : Scene, order : Nat, start : Nat, text : Seq(Token), revision : Nat \ {0}]

LEMMA AtomsAreTokens ==
  ASSUME NEW a \in Nat \ {0}, NEW b \in Nat \ {0}
  PROVE  Atoms(a, b) \in Seq(Token)
<1>1. CASE a <= b
  <2>1. b - a + 1 \in Nat
    BY <1>1
  <2>2. \A k \in 1..(b - a + 1) : a + k - 1 \in Token
    BY <1>1 DEF Token
  <2> QED
    BY <2>1, <2>2, SeqDef DEF Atoms
<1>2. CASE b < a
  <2>1. 1..(b - a + 1) = 1..0
    BY <1>2
  <2>2. Atoms(a, b) = [k \in 1..0 |-> a + k - 1]
    BY <2>1 DEF Atoms
  <2> QED
    BY <2>2, SeqDef
<1> QED
  BY <1>1, <1>2

\* The row the parser wants for one of its spans.
LEMMA WantedRow ==
  ASSUME NEW p \in Parse, NEW k \in DOMAIN p, NEW n \in DOMAIN p[k]
  PROVE  /\ Wanted(p)[p[k][n]] = Parsed(p[k], n)
         /\ Parsed(p[k], n) \in ParsedRow
         /\ Parsed(p[k], n).scene = SceneOf(p[k])
         /\ Parsed(p[k], n).order = n - 1
         /\ Parsed(p[k], n).revision = 1
         /\ Parsed(p[k], n).text = Atoms(p[k][n][1], p[k][n][2])
<1>1. PICK i : i = p[k][n]
  OBVIOUS
<1>2. i \in IdsOf(p) /\ i \in Range(p[k])
  BY <1>1, SpanFacts DEF Range
<1>3. k \in 1..Len(p) /\ n \in 1..Len(p[k])
  BY ParseShape
<1>4. \A l \in 1..Len(p) : i \in Range(p[l]) => l = k
  <2> SUFFICES ASSUME NEW l \in 1..Len(p), i \in Range(p[l]) PROVE l = k
    OBVIOUS
  <2>1. PICK m \in DOMAIN p[l] : i = p[l][m]
    BY DEF Range
  <2> QED
    <3>1. l \in DOMAIN p
      BY ParseShape
    <3>2. p[k][n] = p[l][m]
      BY <1>1, <2>1
    <3> QED
      BY <2>1, <3>1, <3>2, SpansDiffer
<1>5. (CHOOSE l \in 1..Len(p) : i \in Range(p[l])) = k
  BY <1>2, <1>3, <1>4
<1>6. \A m \in 1..Len(p[k]) : p[k][m] = i => m = n
  BY <1>1, ParseShape, SpansDiffer
<1>7. (CHOOSE m \in 1..Len(p[k]) : p[k][m] = i) = n
  BY <1>1, <1>3, <1>6
<1>8. Wanted(p)[i] = Parsed(p[k], n)
  BY <1>2, <1>5, <1>7 DEF Wanted
<1>9. /\ SceneOf(p[k]) \in Scene /\ n - 1 \in Nat
      /\ p[k][n][1] \in Nat \ {0} /\ p[k][n][2] \in Nat \ {0}
  BY <1>3, SceneIsScene, SpanFacts DEF Span
<1>10. Atoms(p[k][n][1], p[k][n][2]) \in Seq(Token)
  BY <1>9, AtomsAreTokens
<1>11. Parsed(p[k], n) \in ParsedRow
  BY <1>9, <1>10 DEF Parsed, ParsedRow
<1> QED
  BY <1>1, <1>8, <1>11 DEF Parsed

LEMMA WantedRows ==
  ASSUME NEW p \in Parse, NEW i \in IdsOf(p)
  PROVE  /\ DOMAIN Wanted(p) = IdsOf(p)
         /\ Wanted(p)[i] \in ParsedRow
         /\ Wanted(p)[i].revision = 1
         /\ Wanted(p)[i].text = Atoms(i[1], i[2])
         /\ Wanted(p)[i].scene \in Range(ScenesOf(p))
<1>1. PICK k \in DOMAIN p : \E n \in DOMAIN p[k] : i = p[k][n]
  BY IdsOfParse
<1>2. PICK n \in DOMAIN p[k] : i = p[k][n]
  BY <1>1
<1>3. DOMAIN Wanted(p) = IdsOf(p)
  BY DEF Wanted
<1>4. SceneOf(p[k]) \in Range(ScenesOf(p))
  BY SceneIsScene
<1> QED
  BY <1>2, <1>3, <1>4, WantedRow
-----------------------------------------------------------------------------
(* Finite sets of numbers *)

LEMMA LeastExists ==
  ASSUME NEW S \in SUBSET Nat, S # {}
  PROVE  \E m \in S : \A k \in S : m <= k
<1>1. PICK m \in S : \A k \in S : <<k, m>> \notin OpToRel(<, Nat)
  BY NatLessThanWellFounded, WFMin
<1>2. \A k \in S : m <= k
  <2> SUFFICES ASSUME NEW k \in S PROVE ~(k < m)
    OBVIOUS
  <2>1. <<k, m>> \notin {ss \in Nat \X Nat : ss[1] < ss[2]}
    BY <1>1, Zenon DEF OpToRel
  <2> QED
    BY <2>1
<1> QED
  BY <1>2

LEMMA MinIsLeast ==
  ASSUME NEW S \in SUBSET Nat, S # {}
  PROVE  Min(S) \in S
BY LeastExists DEF Min

LEMMA InjectionFills ==
  ASSUME NEW S, IsFiniteSet(S), NEW f \in [S -> 0..(Cardinality(S) - 1)],
         \A i, j \in S : f[i] = f[j] => i = j
  PROVE  \A m \in 0..(Cardinality(S) - 1) : \E i \in S : f[i] = m
<1>1. Cardinality(S) \in Nat
  BY FS_CardinalityType
<1>2. IsFiniteSet(0..(Cardinality(S) - 1)) /\ Cardinality(0..(Cardinality(S) - 1)) = Cardinality(S)
  BY <1>1, FS_Interval
<1>3. f \in Injection(S, 0..(Cardinality(S) - 1))
  BY DEF Injection, IsInjective
<1>4. f \in Surjection(S, 0..(Cardinality(S) - 1))
  BY <1>2, <1>3, FS_Injection
<1> QED
  BY <1>4 DEF Surjection

\* How many come before: the ranks of a finite set in an order without ties
\* are 0, 1, 2, ...
Rank(S, f, i) == Cardinality({j \in S : f[j] < f[i]})

LEMMA RanksFill ==
  ASSUME NEW S, IsFiniteSet(S), NEW f \in [S -> Int], \A i, j \in S : f[i] = f[j] => i = j
  PROVE  /\ \A i \in S : Rank(S, f, i) \in 0..(Cardinality(S) - 1)
         /\ \A i, j \in S : Rank(S, f, i) = Rank(S, f, j) => i = j
         /\ \A m \in 0..(Cardinality(S) - 1) : \E i \in S : Rank(S, f, i) = m
<1> DEFINE below(i) == {j \in S : f[j] < f[i]}
<1>1. ASSUME NEW i \in S
      PROVE  IsFiniteSet(below(i)) /\ Cardinality(below(i)) \in Nat /\ Cardinality(below(i)) < Cardinality(S)
  <2>1. below(i) \in SUBSET S /\ i \notin below(i)
    OBVIOUS
  <2>2. /\ IsFiniteSet(below(i)) /\ Cardinality(below(i)) <= Cardinality(S)
        /\ Cardinality(S) = Cardinality(below(i)) => S = below(i)
    BY <2>1, FS_Subset
  <2>3. Cardinality(below(i)) \in Nat /\ Cardinality(S) \in Nat
    BY <2>2, FS_CardinalityType
  <2> HIDE DEF below
  <2> QED
    BY <2>1, <2>2, <2>3
<1>2. ASSUME NEW i \in S, NEW j \in S, f[i] < f[j]
      PROVE  Cardinality(below(i)) < Cardinality(below(j))
  <2>1. below(i) \in SUBSET below(j)
    BY <1>2
  <2>2. i \in below(j) /\ i \notin below(i)
    BY <1>2
  <2>3. /\ IsFiniteSet(below(i)) /\ Cardinality(below(i)) <= Cardinality(below(j))
        /\ Cardinality(below(j)) = Cardinality(below(i)) => below(j) = below(i)
    BY <1>1, <2>1, FS_Subset
  <2>4. Cardinality(below(i)) \in Nat /\ Cardinality(below(j)) \in Nat
    BY <1>1
  <2> HIDE DEF below
  <2> QED
    BY <2>2, <2>3, <2>4
<1>3. \A i \in S : Rank(S, f, i) = Cardinality(below(i))
  BY DEF Rank
<1>4. Cardinality(S) \in Nat
  BY FS_CardinalityType
<1> HIDE DEF below
<1>5. \A i \in S : Rank(S, f, i) \in 0..(Cardinality(S) - 1)
  BY <1>1, <1>3, <1>4
<1>6. \A i, j \in S : Rank(S, f, i) = Rank(S, f, j) => i = j
  <2> SUFFICES ASSUME NEW i \in S, NEW j \in S, Rank(S, f, i) = Rank(S, f, j) PROVE i = j
    OBVIOUS
  <2>1. ~(f[i] < f[j]) /\ ~(f[j] < f[i])
    BY <1>1, <1>2, <1>3
  <2> QED
    BY <2>1
<1>7. PICK rank : rank = [i \in S |-> Rank(S, f, i)]
  OBVIOUS
<1>8. rank \in [S -> 0..(Cardinality(S) - 1)] /\ \A i, j \in S : rank[i] = rank[j] => i = j
  BY <1>5, <1>6, <1>7
<1>9. \A m \in 0..(Cardinality(S) - 1) : \E i \in S : rank[i] = m
  BY <1>8, InjectionFills
<1> QED
  BY <1>5, <1>6, <1>7, <1>9

\* The order of a dense scene counts its rows.
LEMMA DenseCounts ==
  ASSUME NEW rows, NEW scene, DenseIn(rows, scene), IsFiniteSet(In(rows, scene)),
         \A i \in In(rows, scene) : rows[i].order \in Nat
  PROVE  {rows[i].order : i \in In(rows, scene)} = 0..(Cardinality(In(rows, scene)) - 1)
<1> DEFINE R == In(rows, scene)
<1>1. PICK O : O = {rows[i].order : i \in R}
  OBVIOUS
<1>2. PICK f : f = [i \in R |-> rows[i].order]
  OBVIOUS
<1>3. f \in Surjection(R, O)
  BY <1>1, <1>2 DEF Surjection
<1>4. f \in Injection(R, O)
  BY <1>1, <1>2 DEF Injection, IsInjective, DenseIn
<1>5. O \subseteq Nat /\ \A o \in O : 0..o \subseteq O
  BY <1>1 DEF DenseIn
<1> HIDE DEF R
<1>6. IsFiniteSet(R)
  BY DEF R
<1>7. IsFiniteSet(O) /\ Cardinality(O) = Cardinality(R)
  BY <1>3, <1>4, <1>6, FS_Surjection
<1>8. Cardinality(O) \in Nat
  BY <1>7, FS_CardinalityType
<1>9. O \in SUBSET (0..(Cardinality(O) - 1))
  <2> SUFFICES ASSUME NEW o \in O PROVE o \in 0..(Cardinality(O) - 1)
    OBVIOUS
  <2>1. o \in Nat /\ 0..o \in SUBSET O
    BY <1>5
  <2>2. Cardinality(0..o) = o + 1
    BY <2>1, FS_Interval
  <2>3. Cardinality(0..o) <= Cardinality(O)
    BY <1>7, <2>1, FS_Subset
  <2> QED
    BY <1>8, <2>1, <2>2, <2>3
<1>10. IsFiniteSet(0..(Cardinality(O) - 1)) /\ Cardinality(0..(Cardinality(O) - 1)) = Cardinality(O)
  BY SMTT(30), <1>8, FS_Interval
<1>11. 0..(Cardinality(O) - 1) = O
  BY <1>9, <1>10, FS_Subset
<1> QED
  BY <1>1, <1>7, <1>11 DEF R
-----------------------------------------------------------------------------
(* A parse laid out as rows *)

LEMMA FreshRow ==
  ASSUME NEW p \in Parse, NEW i \in IdsOf(p)
  PROVE  /\ Fresh(Wanted(p)[i]) \in Segment
         /\ Fresh(Wanted(p)[i]).scene = Wanted(p)[i].scene /\ Fresh(Wanted(p)[i]).order = Wanted(p)[i].order
         /\ Fresh(Wanted(p)[i]).revision = 1 /\ Fresh(Wanted(p)[i]).text = Atoms(i[1], i[2])
<1>1. PICK w \in ParsedRow : w = Wanted(p)[i] /\ w.revision = 1 /\ w.text = Atoms(i[1], i[2])
  BY WantedRows
<1>2. Fresh(w) \in Segment
  BY DEF Fresh, Segment, ParsedRow
<1> QED
  BY <1>1, <1>2 DEF Fresh

\* Spans in their order and, behind them, rows ranked by a turn without ties.
LaidOut(rows, p, H, place, turn) ==
  /\ p \in Parse /\ IsFiniteSet(H)
  /\ place \in [H -> DOMAIN p] /\ turn \in [H -> Int]
  /\ \A i, j \in H : turn[i] = turn[j] => i = j
  /\ DOMAIN rows = IdsOf(p) \cup H
  /\ \A k \in DOMAIN p : \A n \in DOMAIN p[k] :
       rows[p[k][n]].scene = SceneOf(p[k]) /\ rows[p[k][n]].order = n - 1
  /\ \A i \in H :
       /\ rows[i].scene = SceneOf(p[place[i]])
       /\ rows[i].order = Len(p[place[i]])
            + Cardinality({j \in H : place[j] = place[i] /\ turn[j] < turn[i]})

LEMMA LaidOutIsDense ==
  ASSUME NEW rows, NEW p, NEW H, NEW place, NEW turn, LaidOut(rows, p, H, place, turn), NEW scene
  PROVE  DenseIn(rows, scene)
<1> USE DEF LaidOut
<1>1. CASE ~\E k \in DOMAIN p : scene = SceneOf(p[k])
  <2>1. In(rows, scene) = {}
    <3> SUFFICES ASSUME NEW i \in DOMAIN rows PROVE rows[i].scene # scene
      BY DEF In
    <3>1. CASE i \in H
      <4>1. place[i] \in DOMAIN p /\ rows[i].scene = SceneOf(p[place[i]])
        BY <3>1
      <4> QED
        BY <1>1, <4>1
    <3>2. CASE i \in IdsOf(p)
      <4>1. PICK k \in DOMAIN p : \E n \in DOMAIN p[k] : i = p[k][n]
        BY <3>2, IdsOfParse
      <4> QED
        BY <1>1, <4>1
    <3> QED
      BY <3>1, <3>2
  <2> QED
    BY <2>1 DEF DenseIn
<1>2. CASE \E k \in DOMAIN p : scene = SceneOf(p[k])
  <2>1. PICK k \in DOMAIN p : scene = SceneOf(p[k])
    BY <1>2
  <2>2. PICK L \in Nat \ {0} : L = Len(p[k]) /\ DOMAIN p[k] = 1..L
    BY ParseShape
  <2>3. PICK B : B = {i \in H : place[i] = k}
    OBVIOUS
  <2>4. IsFiniteSet(B) /\ B \subseteq H
    BY <2>3, FS_Subset
  <2>5. PICK f : f = [i \in B |-> turn[i]]
    OBVIOUS
  <2>6. PICK rank : rank = [i \in B |-> Rank(B, f, i)]
    OBVIOUS
  <2>7. f \in [B -> Int] /\ \A i, j \in B : f[i] = f[j] => i = j
    BY <2>4, <2>5
  <2>8. PICK c : c = Cardinality(B) - 1
    OBVIOUS
  <2>9. /\ \A i \in B : rank[i] \in 0..c
        /\ \A i, j \in B : rank[i] = rank[j] => i = j
        /\ \A m \in 0..c : \E i \in B : rank[i] = m
    <3>1. /\ \A i \in B : Rank(B, f, i) \in 0..(Cardinality(B) - 1)
          /\ \A i, j \in B : Rank(B, f, i) = Rank(B, f, j) => i = j
          /\ \A m \in 0..(Cardinality(B) - 1) : \E i \in B : Rank(B, f, i) = m
      BY <2>4, <2>7, RanksFill
    <3> QED
      BY <2>6, <2>8, <3>1
  <2>10. ASSUME NEW i \in B PROVE rows[i].order = L + rank[i]
    <3>1. {j \in H : place[j] = place[i] /\ turn[j] < turn[i]} = {j \in B : f[j] < f[i]}
      BY <2>3, <2>5
    <3> QED
      BY <2>2, <2>3, <2>6, <3>1 DEF Rank
  <2>11. c \in Int
    BY <2>4, <2>8, FS_CardinalityType
  <2>12. ASSUME NEW i \in In(rows, scene), i \notin B PROVE \E n \in 1..L : i = p[k][n]
    <3>1. i \in IdsOf(p)
      <4>1. i \in IdsOf(p) \/ i \in H
        BY DEF In
      <4>2. i \in H => SceneOf(p[place[i]]) = SceneOf(p[k])
        BY <2>1 DEF In
      <4>3. i \in H => place[i] = k
        BY <4>2, ScenesDiffer
      <4> QED
        BY <2>3, <2>12, <4>1, <4>3
    <3>2. PICK l \in DOMAIN p : \E n \in DOMAIN p[l] : i = p[l][n]
      BY <3>1, IdsOfParse
    <3>3. SceneOf(p[l]) = SceneOf(p[k])
      BY <2>1, <3>2 DEF In
    <3>4. l = k
      BY <3>3, ScenesDiffer
    <3> QED
      BY <2>2, <3>2, <3>4
  <2>13. \A n \in 1..L : p[k][n] \in In(rows, scene) /\ rows[p[k][n]].order = n - 1
    BY <2>1, <2>2, SpanFacts DEF In
  <2>14. B \subseteq In(rows, scene)
    BY <2>1, <2>3 DEF In
  <2>15. ASSUME NEW i \in In(rows, scene)
         PROVE  \/ i \in B /\ rows[i].order = L + rank[i] /\ rank[i] \in 0..c
                \/ \E n \in 1..L : i = p[k][n] /\ rows[i].order = n - 1
    BY <2>9, <2>10, <2>12, <2>13
  <2>16. ASSUME NEW i \in In(rows, scene), NEW j \in In(rows, scene), rows[i].order = rows[j].order PROVE i = j
    <3>1. CASE i \in B /\ j \in B
      BY <2>2, <2>9, <2>10, <2>11, <2>16, <3>1
    <3>2. CASE i \notin B /\ j \notin B
      BY <2>2, <2>12, <2>13, <2>16, <3>2
    <3>3. CASE i \in B /\ j \notin B
      <4>1. PICK n \in 1..L : j = p[k][n]
        BY <2>12, <3>3
      <4>2. rows[j].order = n - 1 /\ rows[i].order = L + rank[i] /\ rank[i] \in 0..c
        BY <2>9, <2>10, <2>13, <3>3, <4>1
      <4>3. n - 1 < L /\ ~(L + rank[i] < L)
        BY <2>2, <2>11, <4>2
      <4> QED
        BY <2>16, <4>2, <4>3
    <3>4. CASE i \notin B /\ j \in B
      <4>1. PICK n \in 1..L : i = p[k][n]
        BY <2>12, <3>4
      <4>2. rows[i].order = n - 1 /\ rows[j].order = L + rank[j] /\ rank[j] \in 0..c
        BY <2>9, <2>10, <2>13, <3>4, <4>1
      <4>3. n - 1 < L /\ ~(L + rank[j] < L)
        BY <2>2, <2>11, <4>2
      <4> QED
        BY <2>16, <4>2, <4>3
    <3> QED
      BY <3>1, <3>2, <3>3, <3>4
  <2>17. ASSUME NEW i \in In(rows, scene), NEW m \in 0..rows[i].order
         PROVE  \E j \in In(rows, scene) : rows[j].order = m
    <3>1. CASE m < L
      <4>1. m + 1 \in 1..L /\ (m + 1) - 1 = m
        BY <2>2, <3>1
      <4> QED
        BY <2>13, <4>1
    <3>2. CASE ~(m < L)
      <4>1. i \in B /\ rows[i].order = L + rank[i] /\ rank[i] \in 0..c
        <5>1. ASSUME NEW n \in 1..L, rows[i].order = n - 1 PROVE FALSE
          BY <2>2, <3>2, <5>1
        <5> QED
          BY <2>15, <5>1
      <4>2. m - L \in 0..c
        BY <2>2, <2>11, <3>2, <4>1
      <4>3. PICK j \in B : rank[j] = m - L
        BY <2>9, <4>2
      <4>4. rows[j].order = L + (m - L)
        BY <2>10, <4>3
      <4>5. rows[j].order = m
        BY <2>2, <4>4
      <4> QED
        BY <2>14, <4>3, <4>5
    <3> QED
      BY <3>1, <3>2
  <2> QED
    BY <2>16, <2>17 DEF DenseIn
<1> QED
  BY <1>1, <1>2
-----------------------------------------------------------------------------
LEMMA InitIInv == Init => IInv
<1> SUFFICES ASSUME Init PROVE IInv
  OBVIOUS
<1>1. PICK p \in Parse :
        /\ segs = [i \in IdsOf(p) |-> Fresh(Wanted(p)[i])]
        /\ scenes = ScenesOf(p)
        /\ renders = [i \in IdsOf(p) |-> <<>>]
        /\ attributed = IdsOf(p)
  BY DEF Init
<1>2. reading = Idle /\ edits = 0 /\ raced = FALSE /\ rewound = FALSE
  BY DEF Init
<1>3. \A i \in Live : /\ segs[i] \in Segment /\ segs[i].revision = 1 /\ segs[i].text = Atoms(i[1], i[2])
                      /\ renders[i] = <<>>
  BY <1>1, FreshRow
<1>4. TypeOK
  <2>1. Live \subseteq Id
    BY <1>1, IdsOfParse DEF Id
  <2>2. scenes \in Seq(Scene)
    BY <1>1, SceneIsScene
  <2>3. \A i \in Live : renders[i] \in Seq(Render)
    BY <1>3, EmptySeq
  <2> QED
    BY <1>1, <1>2, <1>3, <2>1, <2>2, <2>3 DEF TypeOK
<1>5. Dense
  <2> SUFFICES ASSUME NEW scene \in Scene PROVE DenseIn(segs, scene)
    BY DEF Dense
  <2>1. PICK place : place = [i \in {} |-> 1]
    OBVIOUS
  <2>2. place \in [{} -> DOMAIN p] /\ place \in [{} -> Int]
    BY <2>1
  <2>3. DOMAIN segs = IdsOf(p) \cup {}
    BY <1>1
  <2>4. \A k \in DOMAIN p : \A n \in DOMAIN p[k] :
          segs[p[k][n]].scene = SceneOf(p[k]) /\ segs[p[k][n]].order = n - 1
    BY <1>1, SpanFacts, WantedRow, FreshRow
  <2>5. LaidOut(segs, p, {}, place, place)
    BY <2>2, <2>3, <2>4, FS_EmptySet DEF LaidOut
  <2> QED
    BY <2>5, LaidOutIsDense
<1>6. IdsAreFresh
  BY <1>1, <1>2, IdsOfParse, BoundsAssumption DEF IdsAreFresh
<1>7. ReadingIsSound
  BY <1>2 DEF ReadingIsSound, Idle
<1>8. FirstIsSource(segs) /\ AudioIsOfText
  BY <1>3 DEF FirstIsSource, AudioIsOfText
<1>9. RowsHaveScenes
  BY <1>1, FreshRow, WantedRows DEF RowsHaveScenes
<1> QED
  BY <1>4, <1>5, <1>6, <1>7, <1>8, <1>9 DEF IInv
-----------------------------------------------------------------------------
(* The user's edits *)

LEMMA DenseKept ==
  ASSUME IInv, ~raced' => ~raced, Live' = Live,
         \A j \in Live : segs'[j].scene = segs[j].scene /\ segs'[j].order = segs[j].order
  PROVE  Dense'
<1> SUFFICES ASSUME ~raced, NEW scene \in Scene PROVE DenseIn(segs', scene)
  BY DEF Dense
<1>1. DenseIn(segs, scene)
  BY DEF IInv, Dense
<1>2. In(segs', scene) = In(segs, scene)
  BY DEF In
<1>3. \A j \in In(segs, scene) : segs'[j].order = segs[j].order
  BY DEF In
<1> QED
  BY <1>1, <1>2, <1>3 DEF DenseIn

\* An edit sets no revision back and never reuses one for another text.
LEMMA EditStep ==
  ASSUME IInv, TypeOK', RowsHaveScenes', Dense', IdsAreFresh', UNCHANGED <<reading, rewound>>, edits' \in Nat, edits <= edits',
         reading.on => raced',
         \A j \in Live' :
           \/ /\ j \in Live /\ renders'[j] = renders[j]
              /\ segs'[j].revision >= segs[j].revision
              /\ segs'[j].revision = segs[j].revision => segs'[j].text = segs[j].text
           \/ /\ j \notin ParserId /\ renders'[j] = <<>>
              /\ reading.on => j \notin DOMAIN reading.old
  PROVE  IInv'
<1>1. \A j \in Live : segs[j].revision \in Nat
  BY DEF IInv, TypeOK, Segment
<1>2. \A j \in Live' : segs'[j].revision \in Nat
  BY DEF TypeOK, Segment
<1>3. ReadingIsSound'
  <2> SUFFICES ASSUME reading.on PROVE ReadingIsSound'
    BY DEF ReadingIsSound
  <2>1. ReadingIsSound
    BY DEF IInv
  <2>2. \A i \in DOMAIN reading.old : reading.old[i].revision \in Nat
    BY <2>1 DEF ReadingIsSound, Segment
  <2>3. edits \in Nat
    BY DEF IInv, IdsAreFresh
  <2>4. \A i \in DOMAIN reading.old : i \in ParserId \/ \E n \in 1..edits' : i = <<0, n>>
    BY <2>1, <2>3 DEF ReadingIsSound
  <2>5. \A i \in Live' : i \in DOMAIN reading.old => segs'[i].revision >= reading.old[i].revision
    BY <1>1, <1>2, <2>1, <2>2 DEF ReadingIsSound
  <2>6. \A i \in Live' : i \in ParserId => i \in DOMAIN reading.old
    BY <2>1 DEF ReadingIsSound
  <2> QED
    BY <2>1, <2>4, <2>5, <2>6 DEF ReadingIsSound, Segment
<1>4. ASSUME ~rewound PROVE FirstIsSource(segs')
  BY <1>1, <1>2, <1>4 DEF IInv, FirstIsSource, TypeOK, Segment
<1>5. ASSUME ~rewound PROVE AudioIsOfText'
  <2> SUFFICES ASSUME NEW i \in Live', NEW k \in DOMAIN renders'[i]
               PROVE  /\ renders'[i][k].revision <= segs'[i].revision
                      /\ renders'[i][k].revision = segs'[i].revision => renders'[i][k].text = segs'[i].text
    BY DEF AudioIsOfText
  <2>1. i \in Live /\ renders'[i] = renders[i]
    OBVIOUS
  <2>2. /\ renders[i][k].revision <= segs[i].revision
        /\ renders[i][k].revision = segs[i].revision => renders[i][k].text = segs[i].text
    BY <1>5, <2>1 DEF IInv, AudioIsOfText
  <2>3. renders[i] \in Seq(Render)
    BY <2>1 DEF IInv, TypeOK
  <2>4. renders[i][k] \in Render
    BY <2>1, <2>3
  <2>5. renders[i][k].revision \in Nat
    BY <2>4 DEF Render
  <2> QED
    BY <1>1, <1>2, <2>1, <2>2, <2>5
<1> QED
  BY <1>3, <1>4, <1>5 DEF IInv, FirstIsSource

LEMMA EditedFacts ==
  ASSUME IInv, Edited
  PROVE  /\ edits \in Nat /\ edits' = edits + 1 /\ edits' \in 1..MaxEdits
         /\ ~raced' => ~raced /\ ~reading.on
         /\ reading.on => raced'
         /\ raced \in BOOLEAN /\ raced' \in BOOLEAN
         /\ Token = Int \ {0} /\ -(edits + 1) \in Token
<1>1. edits \in Nat /\ edits' = edits + 1 /\ edits < MaxEdits /\ MaxEdits \in Nat
  BY BoundsAssumption DEF IInv, IdsAreFresh, Edited
<1>2. raced' = (raced \/ reading.on) /\ raced \in BOOLEAN
  BY DEF IInv, TypeOK, Edited
<1>3. edits' \in 1..MaxEdits /\ -(edits + 1) \in Int \ {0}
  BY <1>1
<1> QED
  BY <1>1, <1>2, <1>3 DEF Token

LEMMA SameIds ==
  ASSUME IInv, Live' = Live, edits' \in Nat, edits <= edits', edits' <= MaxEdits
  PROVE  IdsAreFresh'
  BY DEF IInv, IdsAreFresh

LEMMA UpdateIInv == ASSUME IInv, NEW i \in Live, UpdateSegment(i) PROVE IInv'
<1>1. /\ segs' = [segs EXCEPT ![i].text = <<-(edits + 1), -(edits + 1)>>, ![i].revision = @ + 1]
      /\ Edited /\ UNCHANGED <<scenes, renders, attributed, reading, rewound>>
  BY DEF UpdateSegment
<1>2. \A j \in Live : segs[j] \in Segment
  BY DEF IInv, TypeOK
<1>3. PICK new : /\ new \in Segment /\ new.revision = segs[i].revision + 1
                 /\ new.scene = segs[i].scene /\ new.order = segs[i].order
                 /\ segs' = [segs EXCEPT ![i] = new]
  <2>1. <<-(edits + 1), -(edits + 1)>> \in Seq(Token)
    BY <1>1, EditedFacts
  <2>2. PICK text \in Seq(Token) : text = <<-(edits + 1), -(edits + 1)>>
    BY <2>1
  <2>3. PICK old \in Segment : old = segs[i]
    BY <1>2
  <2>a. PICK next \in Nat \ {0} : next = old.revision + 1
    BY DEF Segment
  <2>4. PICK new : new = [old EXCEPT !.text = text, !.revision = next]
    OBVIOUS
  <2>5. new \in Segment /\ new.revision = old.revision + 1 /\ new.scene = old.scene /\ new.order = old.order
    BY <2>a, <2>4 DEF Segment
  <2>6. segs' = [segs EXCEPT ![i] = new]
    BY <1>1, <2>2, <2>3, <2>a, <2>4
  <2> QED
    BY <2>3, <2>5, <2>6
<1>4. Live' = Live /\ segs'[i] = new /\ \A j \in Live : j # i => segs'[j] = segs[j]
  BY <1>3
<1>5. TypeOK'
  BY <1>1, <1>2, <1>3, <1>4, EditedFacts DEF IInv, TypeOK
<1>6. Dense'
  BY <1>1, <1>3, <1>4, EditedFacts, DenseKept
<1>7. IdsAreFresh' /\ edits' \in Nat /\ edits <= edits'
  BY <1>1, <1>4, EditedFacts, SameIds
<1>8. \A j \in Live : segs[j].revision \in Nat
  BY <1>2 DEF Segment
<1>9. \A j \in Live' : /\ j \in Live /\ renders'[j] = renders[j]
                       /\ segs'[j].revision >= segs[j].revision
                       /\ segs'[j].revision = segs[j].revision => segs'[j].text = segs[j].text
  BY <1>1, <1>3, <1>4, <1>8
<1>10. RowsHaveScenes'
  BY <1>1, <1>3, <1>4 DEF IInv, RowsHaveScenes
<1> QED
  BY <1>1, <1>5, <1>6, <1>7, <1>9, <1>10, EditedFacts, EditStep

LEMMA SetLockIInv == ASSUME IInv, NEW i \in Live, NEW locked \in BOOLEAN, SetLock(i, locked) PROVE IInv'
<1>1. /\ segs' = [segs EXCEPT ![i].locked = locked]
      /\ Edited /\ UNCHANGED <<scenes, renders, attributed, reading, rewound>>
  BY DEF SetLock
<1>2. \A j \in Live : segs[j] \in Segment
  BY DEF IInv, TypeOK
<1>3. PICK new : /\ new \in Segment /\ new.revision = segs[i].revision /\ new.text = segs[i].text
                 /\ new.scene = segs[i].scene /\ new.order = segs[i].order
                 /\ segs' = [segs EXCEPT ![i] = new]
  <2>1. PICK old \in Segment : old = segs[i]
    BY <1>2
  <2>2. [old EXCEPT !.locked = TRUE] \in Segment /\ [old EXCEPT !.locked = FALSE] \in Segment
    BY DEF Segment
  <2>3. locked = TRUE \/ locked = FALSE
    OBVIOUS
  <2>4. PICK new : new = [old EXCEPT !.locked = locked]
    OBVIOUS
  <2>5. new \in Segment
    BY <2>2, <2>3, <2>4
  <2>6. new.revision = old.revision /\ new.text = old.text /\ new.scene = old.scene /\ new.order = old.order
    BY <2>4 DEF Segment
  <2>7. segs' = [segs EXCEPT ![i] = new]
    BY <1>1, <2>1, <2>4
  <2> QED
    BY <2>1, <2>5, <2>6, <2>7
<1>4. Live' = Live /\ segs'[i] = new /\ \A j \in Live : j # i => segs'[j] = segs[j]
  BY <1>3
<1>5. TypeOK'
  BY <1>1, <1>2, <1>3, <1>4, EditedFacts DEF IInv, TypeOK
<1>6. Dense'
  BY <1>1, <1>3, <1>4, EditedFacts, DenseKept
<1>7. IdsAreFresh' /\ edits' \in Nat /\ edits <= edits'
  BY <1>1, <1>4, EditedFacts, SameIds
<1>8. \A j \in Live : segs[j].revision \in Nat
  BY <1>2 DEF Segment
<1>9. \A j \in Live' : /\ j \in Live /\ renders'[j] = renders[j]
                       /\ segs'[j].revision >= segs[j].revision
                       /\ segs'[j].revision = segs[j].revision => segs'[j].text = segs[j].text
  BY <1>1, <1>3, <1>4, <1>8
<1>10. RowsHaveScenes'
  BY <1>1, <1>3, <1>4 DEF IInv, RowsHaveScenes
<1> QED
  BY <1>1, <1>5, <1>6, <1>7, <1>9, <1>10, EditedFacts, EditStep
-----------------------------------------------------------------------------
(* Splits and merges *)

LEMMA InsertDense ==
  ASSUME NEW rows, NEW after, NEW scene, DenseIn(rows, scene),
         \A j \in In(rows, scene) : rows[j].order \in Nat,
         NEW i \in In(rows, scene), NEW new, new \notin In(rows, scene),
         In(after, scene) = In(rows, scene) \cup {new},
         after[new].order = rows[i].order + 1,
         \A j \in In(rows, scene) :
           after[j].order = IF rows[j].order > rows[i].order THEN rows[j].order + 1 ELSE rows[j].order
  PROVE  DenseIn(after, scene)
<1> DEFINE R == In(rows, scene)
<1> DEFINE p == rows[i].order
<1>1. p \in Nat
  OBVIOUS
<1>2. \A j \in R : rows[j].order \in Nat /\ (rows[j].order = p => j = i)
  BY DEF DenseIn
<1>3. ASSUME NEW j \in R, NEW m \in 0..rows[j].order PROVE \E q \in R : rows[q].order = m
  BY DEF DenseIn
<1>4. ASSUME NEW j \in In(after, scene), NEW k \in In(after, scene), after[j].order = after[k].order PROVE j = k
  <2>1. CASE j \in R /\ k \in R
    <3>1. rows[j].order = rows[k].order
      BY <1>1, <1>2, <1>4, <2>1
    <3> QED
      BY <2>1, <3>1 DEF DenseIn
  <2>2. CASE j = new /\ k \in R
    BY <1>1, <1>2, <1>4, <2>2
  <2>3. CASE j \in R /\ k = new
    BY <1>1, <1>2, <1>4, <2>3
  <2> QED
    BY <2>1, <2>2, <2>3
<1>5. ASSUME NEW j \in In(after, scene), NEW m \in 0..after[j].order
      PROVE  \E q \in In(after, scene) : after[q].order = m
  <2>1. CASE m <= p
    <3>1. PICK q \in R : rows[q].order = m
      BY <1>1, <1>3, <2>1
    <3>2. after[q].order = m
      BY <1>1, <2>1, <3>1
    <3> QED
      BY <3>1, <3>2
  <2>2. CASE m = p + 1
    BY <2>2
  <2>3. CASE m > p + 1
    <3>1. j \in R
      BY <1>1, <2>3
    <3>2. after[j].order = rows[j].order + 1 /\ rows[j].order \in Nat
      BY <1>1, <1>2, <2>3, <3>1
    <3>3. m - 1 \in 0..rows[j].order
      BY <1>1, <2>3, <3>2
    <3>4. PICK q \in R : rows[q].order = m - 1
      BY <1>3, <3>1, <3>3
    <3>5. after[q].order = m
      BY <1>1, <2>3, <3>4
    <3> QED
      BY <3>4, <3>5
  <2> QED
    BY <1>1, <2>1, <2>2, <2>3
<1> QED
  BY <1>4, <1>5 DEF DenseIn

LEMMA RemoveDense ==
  ASSUME NEW rows, NEW after, NEW scene, DenseIn(rows, scene),
         \A j \in In(rows, scene) : rows[j].order \in Nat,
         NEW i \in In(rows, scene), NEW next \in In(rows, scene), rows[next].order = rows[i].order + 1,
         In(after, scene) = In(rows, scene) \ {next},
         \A j \in In(after, scene) :
           after[j].order = IF rows[j].order > rows[next].order THEN rows[j].order - 1 ELSE rows[j].order
  PROVE  DenseIn(after, scene)
<1> DEFINE R == In(rows, scene)
<1> DEFINE p == rows[i].order
<1>1. p \in Nat /\ rows[next].order = p + 1
  OBVIOUS
<1>2. \A j \in R : rows[j].order \in Nat /\ (rows[j].order = p + 1 => j = next)
  BY DEF DenseIn
<1>3. ASSUME NEW j \in R, NEW m \in 0..rows[j].order PROVE \E q \in R : rows[q].order = m
  BY DEF DenseIn
<1>4. ASSUME NEW j \in In(after, scene), NEW k \in In(after, scene), after[j].order = after[k].order PROVE j = k
  <2>1. j \in R /\ k \in R /\ j # next /\ k # next
    OBVIOUS
  <2>2. rows[j].order = rows[k].order
    BY <1>1, <1>2, <1>4, <2>1
  <2> QED
    BY <2>1, <2>2 DEF DenseIn
<1>5. ASSUME NEW j \in In(after, scene), NEW m \in 0..after[j].order
      PROVE  \E q \in In(after, scene) : after[q].order = m
  <2>0. j \in R /\ j # next /\ rows[j].order \in Nat /\ rows[j].order # p + 1
    BY <1>2
  <2>1. CASE m <= p
    <3>1. PICK q \in R : rows[q].order = m
      BY <1>1, <1>3, <2>1
    <3>2. q # next
      BY <1>1, <2>1, <3>1
    <3>3. after[q].order = m
      BY <1>1, <2>1, <3>1, <3>2
    <3> QED
      BY <3>1, <3>2, <3>3
  <2>2. CASE m > p
    <3>1. rows[j].order > p + 1
      BY <1>1, <2>0, <2>2
    <3>2. after[j].order = rows[j].order - 1
      BY <1>1, <2>0, <3>1
    <3>3. m + 1 \in 0..rows[j].order
      BY <2>0, <3>2
    <3>4. PICK q \in R : rows[q].order = m + 1
      BY <1>3, <2>0, <3>3
    <3>5. q # next
      BY <1>1, <2>2, <3>4
    <3>6. after[q].order = m
      BY <1>1, <2>2, <3>4, <3>5
    <3> QED
      BY <3>4, <3>5, <3>6
  <2> QED
    BY <1>1, <2>1, <2>2
<1> QED
  BY <1>4, <1>5 DEF DenseIn

LEMMA OtherScenes ==
  ASSUME NEW rows, NEW after, NEW scene, DenseIn(rows, scene), In(after, scene) = In(rows, scene),
         \A j \in In(rows, scene) : after[j].order = rows[j].order
  PROVE  DenseIn(after, scene)
  BY DEF DenseIn

LEMMA ParserIdIsSpan == ASSUME NEW i \in ParserId PROVE i \in Span
<1>1. PICK s \in UNION {Range(p) : p \in Parse} : i \in Range(s)
  BY DEF ParserId
<1>2. PICK p \in Parse : s \in Range(p)
  BY <1>1
<1>3. PICK k \in DOMAIN p : s = p[k]
  BY <1>2 DEF Range
<1>4. PICK n \in DOMAIN p[k] : i = p[k][n]
  BY <1>1, <1>3 DEF Range
<1> QED
  BY <1>4, SpanFacts

\* The number of an edit names no row yet.
LEMMA NewIsFresh ==
  ASSUME IInv, Edited
  PROVE  /\ <<0, edits + 1>> \notin ParserId
         /\ <<0, edits + 1>> \notin Live
         /\ <<0, edits + 1>> \in Id
         /\ reading.on => <<0, edits + 1>> \notin DOMAIN reading.old
<1>1. <<0, edits + 1>> \notin ParserId
  BY ParserIdIsSpan DEF Span
<1>2. \A n \in 1..edits : <<0, edits + 1>> # <<0, n>>
  BY EditedFacts
<1>3. <<0, edits + 1>> \notin Live
  BY <1>1, <1>2 DEF IInv, IdsAreFresh
<1>4. <<0, edits + 1>> \in Id
  BY EditedFacts DEF Id
<1>5. reading.on => <<0, edits + 1>> \notin DOMAIN reading.old
  BY <1>1, <1>2 DEF IInv, ReadingIsSound
<1> QED
  BY <1>1, <1>3, <1>4, <1>5

\* The rows a split leaves.
LEMMA SplitRows ==
  ASSUME IInv, NEW i \in Live, NEW k \in 1..Len(segs[i].text), SplitSegment(i, k),
         NEW new, new = <<0, edits + 1>>
  PROVE  /\ new \notin Live /\ Live' = Live \cup {new}
         /\ segs'[new] \in Segment /\ segs'[new].scene = segs[i].scene
         /\ segs'[new].order = segs[i].order + 1
         /\ segs'[i] \in Segment /\ segs'[i].scene = segs[i].scene
         /\ segs'[i].order = segs[i].order /\ segs'[i].revision = segs[i].revision + 1
         /\ segs[i].text = segs'[i].text \o segs'[new].text
         /\ \A j \in Live : j # i =>
              /\ segs'[j] \in Segment /\ segs'[j].scene = segs[j].scene
              /\ segs'[j].order = IF j \in After(i) THEN segs[j].order + 1 ELSE segs[j].order
              /\ segs'[j].revision = segs[j].revision /\ segs'[j].text = segs[j].text
<1>2. /\ segs' = [j \in Live \cup {new} |->
                     IF j = new THEN RightHalf(i, k)
                     ELSE IF j = i THEN LeftHalf(i, k)
                     ELSE Shift(segs, After(i), 1)[j]]
      /\ Edited /\ k \in 1..(Len(segs[i].text) - 1)
  BY DEF SplitSegment
<1>3. new \notin Live
  BY <1>2, NewIsFresh
<1>4. \A j \in Live : segs[j] \in Segment
  BY DEF IInv, TypeOK
<1>5. PICK old \in Segment : old = segs[i]
  BY <1>4
<1>6. /\ SubSeq(old.text, 1, k) \in Seq(Token) /\ SubSeq(old.text, k + 1, Len(old.text)) \in Seq(Token)
      /\ old.text \in Seq(Token) /\ old.order \in Nat /\ old.start \in Nat /\ old.revision \in Nat \ {0}
  <2>1. old.text \in Seq(Token) /\ old.order \in Nat /\ old.start \in Nat /\ old.revision \in Nat \ {0}
    BY DEF Segment
  <2>2. k \in Nat /\ k <= Len(old.text)
    BY <1>5, <2>1
  <2>3. \A j \in 1..k : old.text[j] \in Token
    BY <2>1, <2>2
  <2>4. \A j \in (k + 1)..Len(old.text) : old.text[j] \in Token
    BY <2>1, <2>2
  <2> QED
    BY <2>1, <2>2, <2>3, <2>4, SubSeqProperties, LenProperties
<1>7. /\ RightHalf(i, k) \in Segment /\ RightHalf(i, k).scene = old.scene
      /\ RightHalf(i, k).order = old.order + 1
      /\ RightHalf(i, k).text = SubSeq(old.text, k + 1, Len(old.text))
  <2>1. PICK text \in Seq(Token) : text = SubSeq(old.text, k + 1, Len(old.text))
    BY <1>6
  <2>2. PICK order \in Nat, start \in Nat : order = old.order + 1 /\ start = old.start + k
    BY <1>6
  <2>3. PICK half : half = [old EXCEPT !.order = order, !.start = start, !.text = text, !.revision = 1, !.locked = FALSE]
    OBVIOUS
  <2>4. RightHalf(i, k) = half
    BY <1>5, <2>1, <2>2, <2>3 DEF RightHalf
  <2>5. half \in Segment
    <3>1. half = [scene |-> old.scene, order |-> order, start |-> start, text |-> text,
                  revision |-> 1, locked |-> FALSE]
      BY <2>3 DEF Segment
    <3>2. old.scene \in Scene
      BY DEF Segment
    <3> QED
      BY <2>1, <2>2, <3>1, <3>2 DEF Segment
  <2>6. half.scene = old.scene /\ half.order = old.order + 1 /\ half.text = text
    BY <2>2, <2>3 DEF Segment
  <2> QED
    BY <2>1, <2>4, <2>5, <2>6
<1>8. /\ LeftHalf(i, k) \in Segment /\ LeftHalf(i, k).scene = old.scene
      /\ LeftHalf(i, k).order = old.order /\ LeftHalf(i, k).revision = old.revision + 1
      /\ LeftHalf(i, k).text = SubSeq(old.text, 1, k)
  <2>1. PICK text \in Seq(Token) : text = SubSeq(old.text, 1, k)
    BY <1>6
  <2>2. PICK revision \in Nat \ {0} : revision = old.revision + 1
    BY <1>6
  <2>3. LeftHalf(i, k) = [old EXCEPT !.text = text, !.revision = revision]
    BY <1>5, <2>1, <2>2 DEF LeftHalf
  <2> QED
    BY <2>1, <2>2, <2>3 DEF Segment
<1>9. ASSUME NEW j \in Live, j # i
      PROVE  /\ segs'[j] \in Segment /\ segs'[j].scene = segs[j].scene
             /\ segs'[j].order = IF j \in After(i) THEN segs[j].order + 1 ELSE segs[j].order
             /\ segs'[j].revision = segs[j].revision /\ segs'[j].text = segs[j].text
  <2>1. PICK row \in Segment : row = segs[j]
    BY <1>4
  <2>2. segs'[j] = IF j \in After(i) THEN [row EXCEPT !.order = @ + 1] ELSE row
    BY <1>2, <1>3, <1>9, <2>1 DEF Shift
  <2>3. row.order + 1 \in Nat
    BY DEF Segment
  <2> QED
    BY <2>1, <2>2, <2>3 DEF Segment
<1>10. Live' = Live \cup {new} /\ segs'[new] = RightHalf(i, k) /\ segs'[i] = LeftHalf(i, k) /\ i # new
  BY <1>2, <1>3
<1>11. SubSeq(old.text, 1, k) \o SubSeq(old.text, k + 1, Len(old.text)) = old.text
  <2>1. PICK t \in Seq(Token), n \in Nat : t = old.text /\ n = Len(t)
    BY <1>6, LenProperties
  <2>2. 1 \in 1..(Len(t) + 1) /\ k \in (1 - 1)..Len(t) /\ n \in k..Len(t)
    BY <1>2, <1>5, <2>1
  <2>3. SubSeq(t, 1, k) \o SubSeq(t, k + 1, n) = SubSeq(t, 1, n)
    BY <2>2, ConcatAdjacentSubSeq
  <2>4. SubSeq(t, 1, n) = t
    BY <2>1, SubSeqFull
  <2> QED
    BY <2>1, <2>3, <2>4
<1> QED
  BY <1>3, <1>5, <1>7, <1>8, <1>9, <1>10, <1>11

LEMMA SplitIInv == ASSUME IInv, NEW i \in Live, NEW k \in 1..Len(segs[i].text), SplitSegment(i, k) PROVE IInv'
<1>1. PICK new : new = <<0, edits + 1>>
  OBVIOUS
<1>2. /\ renders' = [j \in Live \cup {new} |-> IF j = new THEN <<>> ELSE renders[j]]
      /\ Edited /\ UNCHANGED <<scenes, attributed, reading, rewound>>
  BY <1>1 DEF SplitSegment
<1>3. /\ new \notin ParserId /\ new \notin Live /\ new \in Id
      /\ reading.on => new \notin DOMAIN reading.old
  BY <1>1, <1>2, NewIsFresh
<1>4. \A j \in Live : segs[j] \in Segment
  BY DEF IInv, TypeOK
<1>5. PICK old \in Segment : old = segs[i]
  BY <1>4
<1>6. old.order \in Nat /\ old.revision \in Nat \ {0}
  BY DEF Segment
<1>7. segs'[new] \in Segment /\ segs'[new].scene = old.scene /\ segs'[new].order = old.order + 1
  BY <1>1, <1>5, SplitRows
<1>8. /\ segs'[i] \in Segment /\ segs'[i].scene = old.scene
      /\ segs'[i].order = old.order /\ segs'[i].revision = old.revision + 1
  BY <1>1, <1>5, SplitRows
<1>9. ASSUME NEW j \in Live, j # i
      PROVE  /\ segs'[j] \in Segment /\ segs'[j].scene = segs[j].scene
             /\ segs'[j].order = IF j \in After(i) THEN segs[j].order + 1 ELSE segs[j].order
             /\ segs'[j].revision = segs[j].revision /\ segs'[j].text = segs[j].text
  BY <1>1, <1>9, SplitRows
<1>10. Live' = Live \cup {new} /\ i # new
  BY <1>1, <1>3, SplitRows
<1>11. TypeOK'
  <2>1. Live' \subseteq Id /\ \A j \in Live' : segs'[j] \in Segment
    BY <1>3, <1>7, <1>8, <1>9, <1>10 DEF IInv, TypeOK
  <2>2. DOMAIN renders' = Live' /\ \A j \in Live' : renders'[j] \in Seq(Render)
    BY <1>2, <1>3, <1>10, EmptySeq DEF IInv, TypeOK
  <2> QED
    BY <1>2, <1>10, <2>1, <2>2, EditedFacts DEF IInv, TypeOK
<1>12. Dense'
  <2> SUFFICES ASSUME ~raced', NEW scene \in Scene PROVE DenseIn(segs', scene)
    BY DEF Dense
  <2>1. DenseIn(segs, scene)
    BY <1>2, EditedFacts DEF IInv, Dense
  <2>2. \A j \in Live : segs[j].order \in Nat
    BY <1>4 DEF Segment
  <2>3. CASE scene = old.scene
    <3>1. i \in In(segs, scene) /\ new \notin In(segs, scene)
      BY <1>3, <1>5, <2>3 DEF In
    <3>2. In(segs', scene) = In(segs, scene) \cup {new}
      BY <1>3, <1>5, <1>7, <1>8, <1>9, <1>10, <2>3 DEF In
    <3>3. segs'[new].order = segs[i].order + 1
      BY <1>5, <1>7, <1>10
    <3>4. \A j \in In(segs, scene) :
            segs'[j].order = IF segs[j].order > segs[i].order THEN segs[j].order + 1 ELSE segs[j].order
      BY <1>5, <1>6, <1>8, <1>9, <1>10, <2>3 DEF In, After
    <3>5. \A j \in In(segs, scene) : segs[j].order \in Nat
      BY <2>2 DEF In
    <3> QED
      BY <2>1, <3>1, <3>2, <3>3, <3>4, <3>5, InsertDense
  <2>4. CASE scene # old.scene
    <3>1. In(segs', scene) = In(segs, scene)
      BY <1>3, <1>5, <1>7, <1>8, <1>9, <1>10, <2>4 DEF In
    <3>2. \A j \in In(segs, scene) : segs'[j].order = segs[j].order
      BY <1>5, <1>9, <2>4 DEF In, After
    <3> QED
      BY <2>1, <3>1, <3>2, OtherScenes
  <2> QED
    BY <2>3, <2>4
<1>13. IdsAreFresh' /\ edits' \in Nat /\ edits <= edits'
  <2>1. IsFiniteSet(Live')
    BY <1>10, FS_AddElement DEF IInv, IdsAreFresh
  <2>2. edits' \in Nat /\ edits' <= MaxEdits /\ edits <= edits' /\ edits \in Nat /\ edits' = edits + 1
    BY <1>2, EditedFacts, BoundsAssumption
  <2>3. \A j \in Live' : j \in ParserId \/ \E n \in 1..edits' : j = <<0, n>>
    BY <1>1, <1>10, <2>2 DEF IInv, IdsAreFresh
  <2> QED
    BY <2>1, <2>2, <2>3 DEF IdsAreFresh
<1>14. ASSUME NEW j \in Live'
       PROVE  \/ /\ j \in Live /\ renders'[j] = renders[j]
                 /\ segs'[j].revision >= segs[j].revision
                 /\ segs'[j].revision = segs[j].revision => segs'[j].text = segs[j].text
              \/ /\ j \notin ParserId /\ renders'[j] = <<>>
                 /\ reading.on => j \notin DOMAIN reading.old
  <2>1. CASE j = new
    BY <1>2, <1>3, <2>1
  <2>2. CASE j = i
    BY <1>2, <1>3, <1>5, <1>6, <1>8, <1>10, <2>2
  <2>3. CASE j \in Live /\ j # i
    <3>1. segs[j].revision \in Nat
      BY <1>4, <2>3 DEF Segment
    <3> QED
      BY <1>2, <1>3, <1>9, <2>3, <3>1
  <2> QED
    BY <1>10, <2>1, <2>2, <2>3
<1>15. RowsHaveScenes'
  BY <1>2, <1>5, <1>7, <1>8, <1>9, <1>10 DEF IInv, RowsHaveScenes
<1> QED
  BY <1>2, <1>11, <1>12, <1>13, <1>14, <1>15, EditedFacts, EditStep

\* The rows a merge leaves.
LEMMA MergeRows ==
  ASSUME IInv, NEW i \in Live, NEW next \in Live, MergeSegments(i, next)
  PROVE  /\ i # next /\ Live' = Live \ {next}
         /\ segs'[i] \in Segment /\ segs'[i].scene = segs[i].scene
         /\ segs'[i].order = segs[i].order /\ segs'[i].revision = segs[i].revision + 1
         /\ segs'[i].text = segs[i].text \o segs[next].text
         /\ \A j \in Live' : j # i =>
              /\ segs'[j] \in Segment /\ segs'[j].scene = segs[j].scene
              /\ segs'[j].order = IF j \in After(next) THEN segs[j].order - 1 ELSE segs[j].order
              /\ segs'[j].revision = segs[j].revision /\ segs'[j].text = segs[j].text
<1>1. /\ segs' = Without(
           [Shift(segs, After(next), -1) EXCEPT
             ![i].text = @ \o segs[next].text, ![i].revision = @ + 1], {next})
      /\ segs[i].scene = segs[next].scene /\ segs[next].order = segs[i].order + 1
  BY DEF MergeSegments
<1>2. \A j \in Live : segs[j] \in Segment
  BY DEF IInv, TypeOK
<1>3. PICK old \in Segment, gone \in Segment : old = segs[i] /\ gone = segs[next]
  BY <1>2
<1>4. /\ old.text \o gone.text \in Seq(Token) /\ old.revision + 1 \in Nat \ {0}
      /\ old.order \in Nat /\ gone.order = old.order + 1 /\ gone.scene = old.scene
      /\ old.revision \in Nat
  BY <1>1, <1>3 DEF Segment
<1>5. i # next /\ i \notin After(next)
  BY <1>1, <1>3, <1>4 DEF After
<1>6. PICK shifted : shifted = Shift(segs, After(next), -1)
  OBVIOUS
<1>7. DOMAIN shifted = Live /\ shifted[i] = old
  BY <1>3, <1>5, <1>6 DEF Shift
<1>8. PICK half : half = [old EXCEPT !.text = old.text \o gone.text, !.revision = old.revision + 1]
  OBVIOUS
<1>9. /\ half \in Segment /\ half.scene = old.scene /\ half.order = old.order
      /\ half.revision = old.revision + 1 /\ half.text = old.text \o gone.text
  BY <1>4, <1>8 DEF Segment
<1>10. /\ Live' = Live \ {next} /\ segs'[i] = half
       /\ \A j \in Live' : j # i => segs'[j] = shifted[j]
  <2>1. segs' = Without([shifted EXCEPT ![i].text = @ \o gone.text, ![i].revision = @ + 1], {next})
    BY <1>1, <1>3, <1>6
  <2>2. segs' = Without([shifted EXCEPT ![i] = half], {next})
    BY <1>7, <1>8, <2>1
  <2> QED
    BY <1>5, <1>7, <2>2 DEF Without
<1>12. ASSUME NEW j \in Live', j # i
       PROVE  /\ segs'[j] \in Segment /\ segs'[j].scene = segs[j].scene
              /\ segs'[j].order = IF j \in After(next) THEN segs[j].order - 1 ELSE segs[j].order
              /\ segs'[j].revision = segs[j].revision /\ segs'[j].text = segs[j].text
  <2>1. PICK row \in Segment : row = segs[j]
    BY <1>2, <1>10
  <2>2. segs'[j] = IF j \in After(next) THEN [row EXCEPT !.order = @ + (-1)] ELSE row
    BY <1>6, <1>10, <1>12, <2>1 DEF Shift
  <2>3. CASE j \in After(next)
    <3>1. row.order > gone.order /\ row.order \in Nat
      BY <1>3, <2>1, <2>3 DEF After, Segment
    <3>2. row.order + (-1) \in Nat /\ row.order + (-1) = row.order - 1
      BY <1>4, <3>1
    <3> QED
      BY <2>1, <2>2, <2>3, <3>2 DEF Segment
  <2>4. CASE j \notin After(next)
    BY SMTT(30), <2>1, <2>2, <2>4
  <2> QED
    BY <2>3, <2>4
<1> QED
  BY <1>3, <1>5, <1>9, <1>10, <1>12

LEMMA MergeIInv == ASSUME IInv, NEW i \in Live, NEW next \in Live, MergeSegments(i, next) PROVE IInv'
<1>1. /\ renders' = Without(renders, {next})
      /\ segs[i].scene = segs[next].scene /\ segs[next].order = segs[i].order + 1
      /\ next \notin attributed
      /\ Edited /\ UNCHANGED <<scenes, attributed, reading, rewound>>
  BY DEF MergeSegments
<1>2. \A j \in Live : segs[j] \in Segment
  BY DEF IInv, TypeOK
<1>3. PICK old \in Segment, gone \in Segment : old = segs[i] /\ gone = segs[next]
  BY <1>2
<1>4. /\ old.order \in Nat /\ gone.order = old.order + 1 /\ gone.scene = old.scene
      /\ old.revision \in Nat
  BY <1>1, <1>3 DEF Segment
<1>9. /\ segs'[i] \in Segment /\ segs'[i].scene = old.scene
      /\ segs'[i].order = old.order /\ segs'[i].revision = old.revision + 1
  BY <1>3, MergeRows
<1>10. Live' = Live \ {next} /\ i # next
  BY MergeRows
<1>11. DOMAIN renders' = Live' /\ \A j \in Live' : renders'[j] = renders[j]
  BY <1>1, <1>10 DEF Without, IInv, TypeOK
<1>12. ASSUME NEW j \in Live', j # i
       PROVE  /\ segs'[j] \in Segment /\ segs'[j].scene = segs[j].scene
              /\ segs'[j].order = IF j \in After(next) THEN segs[j].order - 1 ELSE segs[j].order
              /\ segs'[j].revision = segs[j].revision /\ segs'[j].text = segs[j].text
  BY <1>12, MergeRows
<1>13. TypeOK'
  <2>1. Live' \subseteq Id /\ \A j \in Live' : segs'[j] \in Segment
    BY <1>9, <1>10, <1>12 DEF IInv, TypeOK
  <2>2. attributed' \subseteq Live'
    BY <1>1, <1>10 DEF IInv, TypeOK
  <2>3. \A j \in Live' : renders'[j] \in Seq(Render)
    BY <1>10, <1>11 DEF IInv, TypeOK
  <2> QED
    BY <1>1, <1>11, <2>1, <2>2, <2>3, EditedFacts DEF IInv, TypeOK
<1>14. Dense'
  <2> SUFFICES ASSUME ~raced', NEW scene \in Scene PROVE DenseIn(segs', scene)
    BY DEF Dense
  <2>1. DenseIn(segs, scene)
    BY <1>1, EditedFacts DEF IInv, Dense
  <2>2. \A j \in In(segs, scene) : segs[j].order \in Nat
    BY <1>2 DEF Segment, In
  <2>3. CASE scene = old.scene
    <3>1. i \in In(segs, scene) /\ next \in In(segs, scene)
      BY <1>3, <1>4, <2>3 DEF In
    <3>2. In(segs', scene) = In(segs, scene) \ {next}
      BY <1>3, <1>9, <1>10, <1>12, <2>3 DEF In
    <3>3. \A j \in In(segs', scene) :
            segs'[j].order = IF segs[j].order > segs[next].order THEN segs[j].order - 1 ELSE segs[j].order
      <4> SUFFICES ASSUME NEW j \in In(segs', scene)
                   PROVE  segs'[j].order = IF segs[j].order > segs[next].order THEN segs[j].order - 1
                                           ELSE segs[j].order
        OBVIOUS
      <4>1. j \in Live' /\ j \in In(segs, scene)
        BY <3>2 DEF In
      <4>2. CASE j = i
        BY <1>3, <1>4, <1>9, <1>10, <4>2
      <4>3. CASE j # i
        <5>1. j \in After(next) <=> segs[j].order > segs[next].order
          BY <1>3, <1>4, <2>3, <4>1 DEF In, After
        <5> QED
          BY <1>12, <4>1, <4>3, <5>1
      <4> QED
        BY <4>2, <4>3
    <3>4. segs[next].order = segs[i].order + 1
      BY <1>1
    <3> QED
      BY <2>1, <2>2, <3>1, <3>2, <3>3, <3>4, RemoveDense
  <2>4. CASE scene # old.scene
    <3>1. In(segs', scene) = In(segs, scene)
      BY <1>3, <1>4, <1>9, <1>10, <1>12, <2>4 DEF In
    <3>2. \A j \in In(segs, scene) : segs'[j].order = segs[j].order
      BY <1>3, <1>4, <1>10, <1>12, <2>4, <3>1 DEF In, After
    <3> QED
      BY <2>1, <3>1, <3>2, OtherScenes
  <2> QED
    BY <2>3, <2>4
<1>15. IdsAreFresh' /\ edits' \in Nat /\ edits <= edits'
  <2>1. IsFiniteSet(Live')
    BY <1>10, FS_Subset DEF IInv, IdsAreFresh
  <2>2. edits' \in Nat /\ edits' <= MaxEdits /\ edits <= edits' /\ edits \in Nat /\ edits' = edits + 1
    BY <1>1, EditedFacts, BoundsAssumption
  <2>3. \A j \in Live' : j \in ParserId \/ \E n \in 1..edits' : j = <<0, n>>
    BY <1>10, <2>2 DEF IInv, IdsAreFresh
  <2> QED
    BY <2>1, <2>2, <2>3 DEF IdsAreFresh
<1>16. ASSUME NEW j \in Live'
       PROVE  /\ j \in Live /\ renders'[j] = renders[j]
              /\ segs'[j].revision >= segs[j].revision
              /\ segs'[j].revision = segs[j].revision => segs'[j].text = segs[j].text
  <2>1. CASE j = i
    BY <1>3, <1>4, <1>9, <1>10, <1>11, <2>1
  <2>2. CASE j # i
    <3>1. segs[j].revision \in Nat
      BY <1>2, <1>10 DEF Segment
    <3> QED
      BY <1>10, <1>11, <1>12, <2>2, <3>1
  <2> QED
    BY <2>1, <2>2
<1>17. RowsHaveScenes'
  BY <1>1, <1>3, <1>9, <1>10, <1>12 DEF IInv, RowsHaveScenes
<1> QED
  BY <1>1, <1>13, <1>14, <1>15, <1>16, <1>17, EditedFacts, EditStep
-----------------------------------------------------------------------------
(* Renders, attributions and the reading half of a replace *)

LEMMA RenderIInv == ASSUME IInv, NEW i \in Live, RenderSegment(i) PROVE IInv'
<1>1. PICK row : /\ row = [text |-> segs[i].text, revision |-> segs[i].revision]
                 /\ renders' = [renders EXCEPT ![i] = Append(@, row)]
  BY DEF RenderSegment
<1>2. UNCHANGED <<segs, scenes, attributed, reading, edits, raced, rewound>>
  BY DEF RenderSegment
<1>3. segs[i] \in Segment /\ DOMAIN renders = Live /\ \A j \in Live : renders[j] \in Seq(Render)
  BY DEF IInv, TypeOK
<1>4. row \in Render /\ row.text = segs[i].text /\ row.revision = segs[i].revision /\ row.revision \in Nat
  BY <1>1, <1>3 DEF Segment, Render
<1>5. renders'[i] = Append(renders[i], row) /\ \A j \in Live : j # i => renders'[j] = renders[j]
  BY <1>1, <1>3
<1>6. renders'[i] \in Seq(Render)
  BY <1>3, <1>4, <1>5, AppendProperties
<1>7. TypeOK'
  BY <1>1, <1>2, <1>3, <1>5, <1>6 DEF IInv, TypeOK
<1>8. Dense' /\ IdsAreFresh' /\ ReadingIsSound' /\ RowsHaveScenes' /\ (~rewound' => FirstIsSource(segs)')
  BY <1>2 DEF IInv, Dense, DenseIn, In, IdsAreFresh, ReadingIsSound, RowsHaveScenes, FirstIsSource
<1>9. ASSUME ~rewound, NEW j \in Live, NEW k \in DOMAIN renders'[j]
      PROVE  /\ renders'[j][k].revision <= segs[j].revision
             /\ renders'[j][k].revision = segs[j].revision => renders'[j][k].text = segs[j].text
  <2>1. \A l \in DOMAIN renders[j] :
          /\ renders[j][l].revision <= segs[j].revision
          /\ renders[j][l].revision = segs[j].revision => renders[j][l].text = segs[j].text
    BY <1>9 DEF IInv, AudioIsOfText
  <2>2. CASE j = i
    <3>1. renders[i] \in Seq(Render) /\ Len(renders[i]) \in Nat
      BY <1>3
    <3>2. DOMAIN renders'[i] = 1..(Len(renders[i]) + 1) /\ DOMAIN renders[i] = 1..Len(renders[i])
      BY <1>4, <1>5, <3>1
    <3>3. CASE k = Len(renders[i]) + 1
      <4>1. renders'[i][k] = row
        BY <1>4, <1>5, <3>1, <3>3
      <4> QED
        BY <1>4, <2>2, <4>1
    <3>4. CASE k # Len(renders[i]) + 1
      <4>1. k \in DOMAIN renders[i] /\ renders'[i][k] = renders[i][k]
        BY <1>4, <1>5, <2>2, <3>1, <3>2, <3>4
      <4> QED
        BY <2>1, <2>2, <4>1
    <3> QED
      BY <3>3, <3>4
  <2>3. CASE j # i
    BY <1>5, <2>1, <2>3
  <2> QED
    BY <2>2, <2>3
<1>10. ~rewound' => AudioIsOfText'
  BY <1>2, <1>9 DEF AudioIsOfText
<1> QED
  BY <1>7, <1>8, <1>10 DEF IInv, FirstIsSource

LEMMA AttributeIInv == ASSUME IInv, Attribute PROVE IInv'
<1>1. attributed' = Live /\ UNCHANGED <<segs, scenes, renders, reading, edits, raced, rewound>>
  BY DEF Attribute
<1>2. TypeOK'
  BY <1>1 DEF IInv, TypeOK
<1> QED
  BY <1>1, <1>2 DEF IInv, Dense, DenseIn, In, IdsAreFresh, ReadingIsSound, RowsHaveScenes, FirstIsSource, AudioIsOfText

LEMMA ReadIInv == ASSUME IInv, NEW parse \in Parse, ReplaceRead(parse) PROVE IInv'
<1>1. /\ reading' = [on |-> TRUE, parse |-> parse, old |-> segs]
      /\ UNCHANGED <<segs, scenes, renders, attributed, edits, raced, rewound>>
  BY DEF ReplaceRead
<1>2. TypeOK'
  BY <1>1 DEF IInv, TypeOK
<1>3. ReadingIsSound'
  <2>1. \A i \in Live : segs[i] \in Segment /\ segs[i].revision >= segs[i].revision
    BY DEF IInv, TypeOK, Segment
  <2>2. IsFiniteSet(Live) /\ \A i \in Live : i \in ParserId \/ \E n \in 1..edits : i = <<0, n>>
    BY DEF IInv, IdsAreFresh
  <2>3. ~rewound => FirstIsSource(segs)
    BY DEF IInv
  <2> QED
    BY <1>1, <2>1, <2>2, <2>3 DEF ReadingIsSound, FirstIsSource
<1> QED
  BY <1>1, <1>2, <1>3 DEF IInv, Dense, DenseIn, In, IdsAreFresh, RowsHaveScenes, FirstIsSource, AudioIsOfText

LEMMA FailsIInv == ASSUME IInv, ReplaceFails PROVE IInv'
<1>1. reading' = Idle /\ UNCHANGED <<segs, scenes, renders, attributed, edits, raced, rewound>>
  BY DEF ReplaceFails
<1>2. TypeOK'
  BY <1>1 DEF IInv, TypeOK
<1>3. ReadingIsSound'
  BY <1>1 DEF ReadingIsSound, Idle
<1> QED
  BY <1>1, <1>2, <1>3 DEF IInv, Dense, DenseIn, In, IdsAreFresh, RowsHaveScenes, FirstIsSource, AudioIsOfText
-----------------------------------------------------------------------------
(* The writing half of a replace *)

LEMMA TargetIsPlace ==
  ASSUME NEW p \in Parse, NEW start
  PROVE  Target(p, start) \in DOMAIN p
<1>1. PICK around : around = {k \in 1..Len(p) : start \in SceneOf(p[k])[1]..SceneOf(p[k])[2]}
  OBVIOUS
<1>2. Target(p, start) = IF around = {} THEN 1 ELSE Min(around)
  BY <1>1 DEF Target
<1>3. around \in SUBSET Nat /\ around \subseteq DOMAIN p /\ 1 \in DOMAIN p
  BY <1>1, ParseShape
<1> QED
  BY <1>2, <1>3, MinIsLeast

\* What one row is after a replace.
LEMMA UpdatedRow ==
  ASSUME NEW p \in Parse, NEW old, NEW turn, NEW i \in DOMAIN old,
         segs[i] \in Segment, old[i] \in Segment, IsFiniteSet(DOMAIN old), i \notin Removed(p, old)
  PROVE  /\ Updated(p, old, turn, i) \in Segment
         /\ Updated(p, old, turn, i).locked = segs[i].locked
         /\ old[i].locked => /\ Updated(p, old, turn, i).text = segs[i].text
                             /\ Updated(p, old, turn, i).revision = segs[i].revision
         /\ ~old[i].locked =>
              /\ i \in IdsOf(p)
              /\ Updated(p, old, turn, i).revision = IF old[i].revision = 1 THEN segs[i].revision ELSE 1
              /\ Updated(p, old, turn, i).text = IF old[i].text = Atoms(i[1], i[2]) THEN segs[i].text
                                                 ELSE Atoms(i[1], i[2])
         /\ segs[i] = old[i] =>
              /\ Updated(p, old, turn, i).scene = NewColumns(p, old, turn, i).scene
              /\ Updated(p, old, turn, i).order = NewColumns(p, old, turn, i).order
<1>a. PICK new : new = NewColumns(p, old, turn, i)
  OBVIOUS
<1>1. PICK row \in Segment, was \in Segment :
        row = segs[i] /\ was = old[i] /\ new = NewColumns(p, old, turn, i)
  BY <1>a
<1>2. DOMAIN row = {"scene", "order", "start", "text", "revision", "locked"}
  BY DEF Segment
<1>3. PICK up : up = [f \in DOMAIN row |-> IF f \in DOMAIN new /\ new[f] # was[f] THEN new[f] ELSE row[f]]
  OBVIOUS
<1>4. Updated(p, old, turn, i) = up
  BY <1>1, <1>3 DEF Updated, Changed
<1>5. i \in Homeless(p, old) <=> was.locked /\ i \notin IdsOf(p)
  BY <1>1 DEF Homeless, LockedIn
<1>6. ~was.locked => i \in IdsOf(p)
  BY <1>1 DEF Removed, LockedIn
<1>7. CASE was.locked
  <2>1. new \in [scene : Scene, order : Nat]
    <3>1. CASE i \in Homeless(p, old)
      <4>1. PICK k \in DOMAIN p : k = Target(p, old[i].start)
        BY TargetIsPlace
      <4>2. PICK before \in SUBSET DOMAIN old : before = {j \in Homeless(p, old) : /\ Target(p, old[j].start) = k
                                                                                  /\ turn[j] < turn[i]}
        BY DEF Homeless, LockedIn
      <4>3. new = [scene |-> SceneOf(p[k]), order |-> Len(p[k]) + Cardinality(before)]
        BY <1>1, <3>1, <4>1, <4>2 DEF NewColumns, HomelessPlace
      <4>4. Cardinality(before) \in Nat
        BY <4>2, FS_Subset, FS_CardinalityType
      <4>5. SceneOf(p[k]) \in Scene /\ Len(p[k]) \in Nat
        BY SceneIsScene, ParseShape
      <4>6. Len(p[k]) + Cardinality(before) \in Nat
        BY <4>4, <4>5
      <4> QED
        BY <4>3, <4>5, <4>6
    <3>2. CASE i \in IdsOf(p)
      <4>1. PICK w \in ParsedRow : w = Wanted(p)[i]
        BY <3>2, WantedRows
      <4>2. new = [scene |-> w.scene, order |-> w.order]
        BY <1>1, <1>5, <1>7, <3>2, <4>1 DEF NewColumns
      <4> QED
        BY <4>2 DEF ParsedRow
    <3> QED
      BY <1>5, <1>7, <3>1, <3>2
  <2>2. DOMAIN new = {"scene", "order"} /\ new.scene \in Scene /\ new.order \in Nat
    BY <2>1
  <2>3. /\ up = [scene |-> up.scene, order |-> up.order, start |-> row.start, text |-> row.text,
                 revision |-> row.revision, locked |-> row.locked]
        /\ up.scene \in {new.scene, row.scene} /\ up.order \in {new.order, row.order}
        /\ row = was => up.scene = new.scene /\ up.order = new.order
    BY <1>2, <1>3, <2>2
  <2>4. up \in Segment
    BY SMTT(30), <2>2, <2>3 DEF Segment
  <2>5. up.locked = row.locked /\ up.text = row.text /\ up.revision = row.revision
    BY <1>2, <1>3, <2>2
  <2> QED
    BY <1>1, <1>4, <1>7, <2>3, <2>4, <2>5
<1>8. CASE ~was.locked
  <2>1. PICK w \in ParsedRow : w = Wanted(p)[i] /\ w.revision = 1 /\ w.text = Atoms(i[1], i[2])
    BY <1>6, <1>8, WantedRows
  <2>2. new = w
    BY <1>1, <1>5, <1>8, <2>1 DEF NewColumns
  <2>3. DOMAIN w = {"scene", "order", "start", "text", "revision"}
    BY DEF ParsedRow
  <2>4. /\ up.scene \in {w.scene, row.scene} /\ up.order \in {w.order, row.order}
        /\ up.start \in {w.start, row.start} /\ up.text \in {w.text, row.text}
        /\ up.revision \in {w.revision, row.revision} /\ up.locked = row.locked
        /\ row = was => up.scene = w.scene /\ up.order = w.order
        /\ up.revision = IF was.revision = w.revision THEN row.revision ELSE w.revision
        /\ up.text = IF was.text = w.text THEN row.text ELSE w.text
    BY <1>2, <1>3, <2>2, <2>3
  <2>5. up = [scene |-> up.scene, order |-> up.order, start |-> up.start, text |-> up.text,
              revision |-> up.revision, locked |-> row.locked]
    BY <1>2, <1>3, <2>2, <2>3
  <2>6. up \in Segment
    BY <2>4, <2>5 DEF Segment, ParsedRow
  <2> QED
    BY <1>1, <1>4, <1>6, <1>8, <2>1, <2>2, <2>4, <2>6
<1> QED
  <2>1. was.locked \in BOOLEAN
    BY DEF Segment
  <2> QED
    BY <1>7, <1>8, <2>1

\* Rows of a replace: those that were there, changed or not, and new ones.
RowsAfter(p, old, turn, new) ==
  /\ DOMAIN new = (Live \ Removed(p, old)) \cup (IdsOf(p) \ DOMAIN old)
  /\ \A i \in DOMAIN new : i \notin DOMAIN old /\ i \in IdsOf(p) =>
       i \notin Live /\ new[i] = Fresh(Wanted(p)[i])
  /\ \A i \in DOMAIN new : i \in DOMAIN old =>
       i \in Live /\ i \notin Removed(p, old) /\ new[i] = Updated(p, old, turn, i)
  /\ \A i \in DOMAIN new : i \notin DOMAIN old /\ i \notin IdsOf(p) =>
       i \in Live /\ new[i] = segs[i]

LEMMA ReplacedRows ==
  ASSUME NEW p \in Parse, NEW old, NEW turn, \A i \in Live : i \in ParserId => i \in DOMAIN old
  PROVE  RowsAfter(p, old, turn, Replaced(p, old, turn))
<1>1. PICK new : new = Replaced(p, old, turn)
  OBVIOUS
<1>2. IdsOf(p) \subseteq ParserId
  BY IdsOfParse
<1>3. DOMAIN new = (Live \ Removed(p, old)) \cup (IdsOf(p) \ DOMAIN old)
  BY <1>1 DEF Replaced
<1>4. \A i \in DOMAIN new :
        new[i] = IF i \notin DOMAIN old /\ i \in IdsOf(p) THEN Fresh(Wanted(p)[i])
                 ELSE IF i \in DOMAIN old THEN Updated(p, old, turn, i)
                 ELSE segs[i]
  BY <1>1 DEF Replaced
<1>5. RowsAfter(p, old, turn, new)
  BY <1>2, <1>3, <1>4 DEF RowsAfter
<1> QED
  BY <1>1, <1>5

\* With no edit on the way the rows are laid out scene by scene.
LEMMA ReplacedIsDense ==
  ASSUME IInv, reading.on, ~raced, NEW p, p = reading.parse, NEW old, old = reading.old,
         NEW turn \in Turn(Homeless(p, old)), NEW new, new = Replaced(p, old, turn), NEW scene
  PROVE  DenseIn(new, scene)
<1>1. /\ p \in Parse /\ old = segs /\ IsFiniteSet(DOMAIN old)
      /\ \A i \in Live : segs[i] \in Segment
  BY DEF IInv, ReadingIsSound, TypeOK
<1>a. RowsAfter(p, old, turn, new)
  BY <1>1, ReplacedRows
<1>2. PICK H : H = Homeless(p, old)
  OBVIOUS
<1>3. IsFiniteSet(H) /\ H \subseteq Live
  BY <1>1, <1>2, FS_Subset DEF Homeless, LockedIn
<1>4. turn \in [H -> Int] /\ \A i, j \in H : turn[i] = turn[j] => i = j
  <2>1. Cardinality(H) \in Nat /\ turn \in [H -> 1..Cardinality(H)] /\ IsInjective(turn)
    BY <1>2, <1>3, FS_CardinalityType DEF Turn
  <2> QED
    BY <2>1 DEF IsInjective
<1>5. PICK place : place = [i \in H |-> Target(p, old[i].start)]
  OBVIOUS
<1>6. place \in [H -> DOMAIN p]
  BY <1>1, <1>5, TargetIsPlace
<1>7. DOMAIN new = IdsOf(p) \cup H
  <2>1. DOMAIN new = (Live \ Removed(p, old)) \cup (IdsOf(p) \ Live)
    BY <1>1, <1>a DEF RowsAfter
  <2> QED
    BY <1>1, <1>2, <2>1 DEF Removed, Homeless, LockedIn
<1>8. ASSUME NEW i \in DOMAIN new, i \in Live
      PROVE  new[i].scene = NewColumns(p, old, turn, i).scene /\ new[i].order = NewColumns(p, old, turn, i).order
  <2>1. i \notin Removed(p, old) /\ new[i] = Updated(p, old, turn, i)
    BY <1>1, <1>a, <1>8 DEF RowsAfter
  <2> QED
    BY <1>1, <1>8, <2>1, UpdatedRow
<1>9. ASSUME NEW k \in DOMAIN p, NEW n \in DOMAIN p[k]
      PROVE  new[p[k][n]].scene = SceneOf(p[k]) /\ new[p[k][n]].order = n - 1
  <2>1. PICK i : i = p[k][n]
    OBVIOUS
  <2>2. /\ i \in IdsOf(p) /\ i \in DOMAIN new
        /\ Wanted(p)[i].scene = SceneOf(p[k]) /\ Wanted(p)[i].order = n - 1
    BY <1>1, <1>7, <2>1, SpanFacts, WantedRow
  <2>3. CASE i \in Live
    <3>1. i \notin Homeless(p, old)
      BY <2>2 DEF Homeless
    <3>2. NewColumns(p, old, turn, i).scene = Wanted(p)[i].scene /\ NewColumns(p, old, turn, i).order = Wanted(p)[i].order
      BY <3>1 DEF NewColumns
    <3> QED
      BY <1>8, <2>1, <2>2, <2>3, <3>2
  <2>4. CASE i \notin Live
    <3>1. new[i] = Fresh(Wanted(p)[i])
      BY <1>1, <1>a, <2>2, <2>4 DEF RowsAfter
    <3> QED
      BY <1>1, <2>1, <2>2, <3>1, FreshRow
  <2> QED
    BY <2>3, <2>4
<1>10. ASSUME NEW i \in H
       PROVE  /\ new[i].scene = SceneOf(p[place[i]])
              /\ new[i].order = Len(p[place[i]])
                   + Cardinality({j \in H : place[j] = place[i] /\ turn[j] < turn[i]})
  <2>1. NewColumns(p, old, turn, i) = HomelessPlace(p, old, turn, i)
    BY <1>2 DEF NewColumns
  <2>2. {j \in H : place[j] = place[i] /\ turn[j] < turn[i]}
          = {j \in Homeless(p, old) : Target(p, old[j].start) = Target(p, old[i].start) /\ turn[j] < turn[i]}
    BY <1>2, <1>5
  <2>3. /\ HomelessPlace(p, old, turn, i).scene = SceneOf(p[place[i]])
        /\ HomelessPlace(p, old, turn, i).order = Len(p[place[i]])
             + Cardinality({j \in H : place[j] = place[i] /\ turn[j] < turn[i]})
    BY <1>5, <2>2 DEF HomelessPlace
  <2>4. i \in DOMAIN new /\ i \in Live
    BY <1>3, <1>7
  <2> QED
    BY <1>8, <2>1, <2>3, <2>4
<1>11. LaidOut(new, p, H, place, turn)
  BY <1>1, <1>3, <1>4, <1>6, <1>7, <1>9, <1>10 DEF LaidOut
<1> QED
  BY <1>11, LaidOutIsDense

LEMMA CommitIInv == ASSUME IInv, ReplaceCommit PROVE IInv'
<1>1. PICK p, old : p = reading.parse /\ old = reading.old
  OBVIOUS
<1>2. PICK turn \in Turn(Homeless(p, old)) :
        /\ ~Conflict(p, old, turn)
        /\ segs' = Replaced(p, old, turn)
        /\ renders' = [i \in DOMAIN Replaced(p, old, turn) |-> IF i \in Live THEN renders[i] ELSE <<>>]
        /\ attributed' = Attributions(Replaced(p, old, turn))
        /\ rewound' = \/ rewound
                      \/ \E i \in Live \cap DOMAIN Replaced(p, old, turn) :
                           Replaced(p, old, turn)[i].revision < segs[i].revision
  BY <1>1, Zenon DEF ReplaceCommit
<1>3. reading.on /\ scenes' = ScenesOf(p) /\ reading' = Idle /\ UNCHANGED <<edits, raced>>
  BY <1>1 DEF ReplaceCommit
<1>a. p \in Parse /\ \A i \in Live : i \in ParserId => i \in DOMAIN old
  BY <1>1, <1>3 DEF IInv, ReadingIsSound
<1>4. /\ p \in Parse
      /\ Live' = (Live \ Removed(p, old)) \cup (IdsOf(p) \ DOMAIN old)
      /\ \A i \in Live' : i \notin DOMAIN old /\ i \in IdsOf(p) =>
           i \notin Live /\ segs'[i] = Fresh(Wanted(p)[i])
      /\ \A i \in Live' : i \in DOMAIN old =>
           i \in Live /\ i \notin Removed(p, old) /\ segs'[i] = Updated(p, old, turn, i)
      /\ \A i \in Live' : i \notin DOMAIN old /\ i \notin IdsOf(p) =>
           i \in Live /\ segs'[i] = segs[i]
  <2>1. RowsAfter(p, old, turn, segs')
    BY <1>2, <1>a, ReplacedRows
  <2> QED
    BY <1>a, <2>1 DEF RowsAfter
<1>5. /\ \A i \in Live : segs[i] \in Segment
      /\ \A i \in DOMAIN old : old[i] \in Segment
      /\ IsFiniteSet(DOMAIN old)
  BY <1>1, <1>3 DEF IInv, TypeOK, ReadingIsSound
<1>6. ASSUME NEW i \in Live', i \notin Live
      PROVE  segs'[i] \in Segment /\ segs'[i].text = Atoms(i[1], i[2]) /\ i \in IdsOf(p)
  <2>1. i \in IdsOf(p) /\ i \notin DOMAIN old
    BY <1>4, <1>6
  <2> QED
    BY <1>4, <2>1, FreshRow
<1>7. ASSUME NEW i \in Live', i \in Live PROVE segs'[i] \in Segment
  BY <1>4, <1>5, <1>7, UpdatedRow
<1>8. TypeOK'
  <2>1. Live' \subseteq Id
    BY <1>4, IdsOfParse DEF IInv, TypeOK, Id
  <2>2. \A i \in Live' : segs'[i] \in Segment
    BY <1>6, <1>7
  <2>3. DOMAIN renders' = Live' /\ \A i \in Live' : renders'[i] \in Seq(Render)
    BY <1>2, EmptySeq DEF IInv, TypeOK
  <2>4. attributed' \subseteq Live'
    BY <1>2 DEF Attributions
  <2>5. rewound' \in BOOLEAN
    BY <1>2
  <2>6. scenes' \in Seq(Scene)
    BY <1>3, <1>4, SceneIsScene
  <2> QED
    BY <1>3, <2>1, <2>2, <2>3, <2>4, <2>5, <2>6 DEF IInv, TypeOK
<1>9. RowsHaveScenes'
  BY <1>2, <1>3 DEF Conflict, RowsHaveScenes
<1>10. Dense'
  <2> SUFFICES ASSUME ~raced', NEW scene \in Scene PROVE DenseIn(segs', scene)
    BY DEF Dense
  <2> QED
    BY <1>1, <1>2, <1>3, ReplacedIsDense
<1>11. IdsAreFresh'
  <2>1. IsFiniteSet(IdsOf(p)) /\ IsFiniteSet(Live)
    BY <1>4, IdsOfParse DEF IInv, IdsAreFresh
  <2>2. IsFiniteSet(Live \cup IdsOf(p))
    BY <2>1, FS_Union
  <2>3. IsFiniteSet(Live')
    BY <1>4, <2>2, FS_Subset
  <2>4. \A i \in Live' : i \in Live \/ i \in ParserId
    BY <1>4, IdsOfParse
  <2> QED
    BY <1>3, <2>3, <2>4 DEF IInv, IdsAreFresh
<1>12. ReadingIsSound'
  BY <1>3 DEF ReadingIsSound, Idle
<1>13. ASSUME ~rewound', NEW i \in Live', i \in Live
       PROVE  segs'[i].revision = segs[i].revision /\ segs'[i].text = segs[i].text
  <2>1. segs[i].revision \in Nat \ {0} /\ segs'[i].revision >= segs[i].revision
    <3>1. segs[i].revision \in Nat \ {0} /\ segs'[i].revision \in Nat \ {0}
      BY <1>5, <1>7, <1>13 DEF Segment
    <3>2. ~(segs'[i].revision < segs[i].revision)
      BY <1>2, <1>13
    <3> QED
      BY <3>1, <3>2
  <2>2. CASE i \notin DOMAIN old
    BY <1>4, <1>13, <2>2
  <2>3. CASE i \in DOMAIN old
    <3>1. segs'[i] = Updated(p, old, turn, i) /\ i \notin Removed(p, old)
      BY <1>4, <2>3
    <3>2. CASE old[i].locked
      BY <1>4, <1>5, <1>13, <2>3, <3>1, <3>2, UpdatedRow
    <3>3. CASE ~old[i].locked
      <4>1. /\ i \in IdsOf(p)
            /\ segs'[i].revision = IF old[i].revision = 1 THEN segs[i].revision ELSE 1
            /\ segs'[i].text = IF old[i].text = Atoms(i[1], i[2]) THEN segs[i].text ELSE Atoms(i[1], i[2])
        BY <1>4, <1>5, <1>13, <2>3, <3>1, <3>3, UpdatedRow
      <4>2. segs[i].revision >= old[i].revision /\ old[i].revision \in Nat \ {0}
        BY <1>1, <1>3, <1>5, <1>13, <2>3 DEF IInv, ReadingIsSound, Segment
      <4>3. old[i].revision = 1
        BY <2>1, <4>1, <4>2
      <4>4. FirstIsSource(old) /\ i \in ParserId
        BY <1>1, <1>2, <1>3, <1>4, <1>13, <4>1, IdsOfParse DEF IInv, ReadingIsSound
      <4>5. old[i].text = Atoms(i[1], i[2])
        BY <2>3, <4>3, <4>4 DEF FirstIsSource
      <4> QED
        BY <4>1, <4>3, <4>5
    <3> QED
      BY <3>2, <3>3
  <2> QED
    BY <2>2, <2>3
<1>14. ASSUME ~rewound' PROVE FirstIsSource(segs') /\ AudioIsOfText'
  <2>1. FirstIsSource(segs) /\ AudioIsOfText
    BY <1>2, <1>14 DEF IInv
  <2>2. FirstIsSource(segs')
    BY <1>6, <1>13, <1>14, <2>1 DEF FirstIsSource
  <2>3. \A i \in Live' : renders'[i] = IF i \in Live THEN renders[i] ELSE <<>>
    BY <1>2
  <2> QED
    BY <1>13, <1>14, <2>1, <2>2, <2>3 DEF AudioIsOfText
<1> QED
  BY <1>8, <1>9, <1>10, <1>11, <1>12, <1>14 DEF IInv, FirstIsSource

LEMMA NextIInv == IInv /\ [Next]_vars => IInv'
<1> SUFFICES ASSUME IInv, [Next]_vars PROVE IInv'
  OBVIOUS
<1>1. ASSUME NEW i \in Live, UpdateSegment(i) PROVE IInv'
  BY <1>1, UpdateIInv
<1>2. ASSUME NEW i \in Live, NEW locked \in BOOLEAN, SetLock(i, locked) PROVE IInv'
  BY <1>2, SetLockIInv
<1>3. ASSUME NEW i \in Live, NEW k \in 1..Len(segs[i].text), SplitSegment(i, k) PROVE IInv'
  BY <1>3, SplitIInv
<1>4. ASSUME NEW i \in Live, NEW next \in Live, MergeSegments(i, next) PROVE IInv'
  BY <1>4, MergeIInv
<1>5. ASSUME NEW i \in Live, RenderSegment(i) PROVE IInv'
  BY <1>5, RenderIInv
<1>6. CASE Attribute
  BY <1>6, AttributeIInv
<1>7. ASSUME NEW parse \in Parse, ReplaceRead(parse) PROVE IInv'
  BY <1>7, ReadIInv
<1>8. CASE ReplaceCommit
  BY <1>8, CommitIInv
<1>9. CASE ReplaceFails
  BY <1>9, FailsIInv
<1>10. CASE UNCHANGED vars
  BY <1>10 DEF vars, IInv, TypeOK, Dense, DenseIn, In, IdsAreFresh, ReadingIsSound, RowsHaveScenes,
               FirstIsSource, AudioIsOfText
<1> QED
  BY <1>1, <1>2, <1>3, <1>4, <1>5, <1>6, <1>7, <1>8, <1>9, <1>10 DEF Next
-----------------------------------------------------------------------------
\* The rows, what hangs on them and what a replace has read fit together
\* after any sequence of edits, renders and extractions.
THEOREM Invariance == Spec => []IInv
  BY InitIInv, NextIInv, PTL DEF Spec

LEMMA IInvIsConsistent == IInv => Consistent
<1> SUFFICES ASSUME IInv, ~raced, NEW scene \in Range(scenes)
             PROVE  {segs[i].order : i \in In(segs, scene)} = 0..(Cardinality(In(segs, scene)) - 1)
  BY DEF IInv, Consistent, OrderIsDense
<1>1. scene \in Scene
  BY DEF IInv, TypeOK, Range
<1>2. DenseIn(segs, scene)
  BY <1>1 DEF IInv, Dense
<1>3. IsFiniteSet(In(segs, scene))
  BY FS_Subset DEF IInv, IdsAreFresh, In
<1>4. \A i \in In(segs, scene) : segs[i].order \in Nat
  BY DEF IInv, TypeOK, Segment, In
<1> QED
  BY <1>2, <1>3, <1>4, DenseCounts

\* Rows stay typed and in scenes of the chapter, and a scene's orders have no
\* gap unless an edit raced an extraction: insert and remove of split and
\* merge keep them so, and an extraction lays them out anew.
THEOREM RowsStayConsistent == Spec => []Consistent
  BY Invariance, IInvIsConsistent, PTL

LEMMA IInvIsChecked == IInv => CheckedAudioIsText
<1> SUFFICES ASSUME IInv, ~rewound, NEW i \in Live, renders[i] # <<>>,
                    Last(renders[i]).revision = segs[i].revision
             PROVE  Last(renders[i]).text = segs[i].text
  BY DEF CheckedAudioIsText, CurrentAudioIsText
<1>1. renders[i] \in Seq(Render)
  BY DEF IInv, TypeOK
<1>2. Len(renders[i]) \in DOMAIN renders[i]
  BY <1>1, EmptySeq, LenProperties
<1> QED
  BY <1>2 DEF Last, IInv, AudioIsOfText

\* The revision check of the assembler works as long as no extraction has
\* set a revision back: a number stands for one text.
THEOREM CheckedAudioSpeaksText == Spec => []CheckedAudioIsText
  BY Invariance, IInvIsChecked, PTL

LEMMA LockedStep ==
  ASSUME IInv, [Next]_vars, NEW i \in Live, reading.on, ~reading'.on, i \in LockedIn(reading.old), segs[i].locked
  PROVE  /\ i \in DOMAIN segs'
         /\ segs'[i].text = segs[i].text
         /\ segs'[i].revision = segs[i].revision
         /\ segs'[i].locked
<1>1. ReplaceCommit \/ ReplaceFails
  <2>1. reading' # reading
    OBVIOUS
  <2> QED
    BY <2>1 DEF Next, vars, UpdateSegment, SetLock, SplitSegment, MergeSegments, RenderSegment, Attribute, ReplaceRead
<1>2. CASE ReplaceFails
  BY <1>2 DEF ReplaceFails
<1>3. CASE ReplaceCommit
  <2>1. PICK p, old : p = reading.parse /\ old = reading.old
    OBVIOUS
  <2>2. PICK turn : segs' = Replaced(p, old, turn)
    BY <1>3, <2>1, Zenon DEF ReplaceCommit
  <2>3. /\ i \in DOMAIN old /\ old[i].locked /\ i \notin Removed(p, old)
        /\ old[i] \in Segment /\ IsFiniteSet(DOMAIN old) /\ segs[i] \in Segment
    BY <2>1 DEF LockedIn, Removed, IInv, TypeOK, ReadingIsSound
  <2>a. p \in Parse /\ \A j \in Live : j \in ParserId => j \in DOMAIN old
    BY <2>1 DEF IInv, ReadingIsSound
  <2>4. i \in DOMAIN segs' /\ segs'[i] = Updated(p, old, turn, i) /\ p \in Parse
    <3>1. RowsAfter(p, old, turn, segs')
      BY <2>2, <2>a, ReplacedRows
    <3> QED
      BY <2>3, <2>a, <3>1, <1>3 DEF RowsAfter
  <2> QED
    BY <2>3, <2>4, UpdatedRow
<1> QED
  BY <1>1, <1>2, <1>3

\* A segment that is locked when an extraction reads it and when it writes
\* comes out of it with its text, its revision and its lock.
THEOREM LocksSurvive == Spec => LockedSurvives
<1>1. IInv /\ [Next]_vars =>
        [\A i \in Live :
           reading.on /\ ~reading'.on /\ i \in LockedIn(reading.old) /\ segs[i].locked
             => /\ i \in DOMAIN segs'
                /\ segs'[i].text = segs[i].text
                /\ segs'[i].revision = segs[i].revision
                /\ segs'[i].locked]_vars
  BY LockedStep
<1> QED
  BY <1>1, Invariance, PTL DEF Spec, LockedSurvives
-----------------------------------------------------------------------------
(* Texts put end to end *)

\* What FlattenSeq's recursion asks of the first n prefixes of q.
Flattens(f, q, n) ==
  f = [i \in 1..n |-> IF i = 1 THEN q[i] ELSE f[i - 1] \o q[i]]

LEMMA FlatteningExists ==
  ASSUME NEW S, NEW N \in Nat, NEW q \in [1..N -> Seq(S)]
  PROVE  \E f : Flattens(f, q, N)
<1> SUFFICES ASSUME ~\E f : Flattens(f, q, N) PROVE FALSE
  OBVIOUS
<1> PICK bad \in SUBSET Nat : \A n \in Nat : n \in bad <=> n <= N /\ ~\E f : Flattens(f, q, n)
  <2> WITNESS {n \in Nat : n <= N /\ ~\E f : Flattens(f, q, n)} \in SUBSET Nat
  <2> QED
    OBVIOUS
<1>0. bad # {}
  OBVIOUS
<1>1. PICK m \in bad : \A k \in bad : m <= k
  BY <1>0, LeastExists
<1>2. CASE m = 0
  <2>1. Flattens([i \in 1..0 |-> 0], q, 0)
    BY DEF Flattens
  <2> QED
    BY <1>1, <1>2, <2>1
<1>3. CASE m > 0
  <2>1. m \in 1..N /\ m - 1 \in Nat /\ m - 1 \notin bad
    BY <1>1, <1>3
  <2>2. PICK f : Flattens(f, q, m - 1)
    BY <2>1
  <2>3. PICK g : g = [i \in 1..m |-> IF i = m THEN (IF m = 1 THEN q[m] ELSE f[m - 1] \o q[m])
                                     ELSE f[i]]
    OBVIOUS
  <2>4. ASSUME NEW i \in 1..m
        PROVE  g[i] = IF i = 1 THEN q[i] ELSE g[i - 1] \o q[i]
    <3>1. CASE i = m
      BY <2>1, <2>3, <3>1, <1>3
    <3>2. CASE i < m
      <4>0. i \in 1..(m - 1)
        BY <2>1, <3>2
      <4>1. f[i] = IF i = 1 THEN q[i] ELSE f[i - 1] \o q[i]
        BY <2>2, <4>0 DEF Flattens
      <4>2. g[i] = f[i] /\ (i > 1 => g[i - 1] = f[i - 1])
        BY <2>1, <2>3, <3>2
      <4> QED
        BY <4>1, <4>2
    <3> QED
      BY <3>1, <3>2, <2>1
  <2>5. Flattens(g, q, m)
    <3> PICK h : h = [i \in 1..m |-> IF i = 1 THEN q[i] ELSE g[i - 1] \o q[i]]
      OBVIOUS
    <3>1. g = h
      BY <2>3, <2>4
    <3> QED
      BY <3>1 DEF Flattens
  <2> QED
    BY <1>1, <2>5
<1> QED
  BY <1>1, <1>2, <1>3

\* The prefixes of q that FlattenSeq goes through, by the number of pieces.
Grows(f, q, n) == f[n] = f[n - 1] \o q[n]
GrowsBy(f, q, N, S) == f \in [0..N -> Seq(S)] /\ f[0] = <<>> /\ \A n \in 1..N : Grows(f, q, n)

LEMMA FlattenPrefixes ==
  ASSUME NEW S, NEW N \in Nat, NEW q \in [1..N -> Seq(S)]
  PROVE  \E f : GrowsBy(f, q, N, S) /\ FlattenSeq(q) = f[N]
<1>1. q \in Seq(Seq(S)) /\ Len(q) = N
  OBVIOUS
<1>2. CASE N = 0
  <2>1. FlattenSeq(q) = q /\ q = <<>>
    BY <1>1, <1>2 DEF FlattenSeq
  <2>2. PICK f : f = [n \in 0..0 |-> <<>>]
    OBVIOUS
  <2>3. f \in [0..N -> Seq(S)] /\ f[0] = <<>> /\ FlattenSeq(q) = f[N]
    BY <1>2, <2>1, <2>2, EmptySeq
  <2> QED
    BY <1>2, <2>3 DEF GrowsBy
<1>3. CASE N > 0
  <2>1. PICK g : g = CHOOSE h : Flattens(h, q, N)
    OBVIOUS
  <2>2. Flattens(g, q, N)
    BY <2>1, FlatteningExists
  <2>3. FlattenSeq(q) = g[N]
    BY <1>1, <1>3, <2>1 DEF FlattenSeq, Flattens
  <2>4. g[1] = q[1] /\ \A n \in 2..N : Grows(g, q, n)
    <3>1. g[1] = q[1]
      BY <1>3, <2>2 DEF Flattens
    <3>2. ASSUME NEW n \in 2..N PROVE Grows(g, q, n)
      <4>1. n \in 1..N /\ n # 1
        OBVIOUS
      <4>2. g[n] = IF n = 1 THEN q[n] ELSE g[n - 1] \o q[n]
        BY <2>2, <4>1 DEF Flattens
      <4> QED
        BY <4>1, <4>2 DEF Grows
    <3> QED
      BY <3>1, <3>2
  <2>a. g[1] \in Seq(S)
    BY <1>3, <2>4
  <2>5. \A n \in 1..N : g[n] \in Seq(S)
    <3> SUFFICES ASSUME \E n \in 1..N : g[n] \notin Seq(S) PROVE FALSE
      OBVIOUS
    <3>0. PICK bad \in SUBSET Nat : \A i \in Nat : i \in bad <=> i \in 1..N /\ g[i] \notin Seq(S)
      <4> WITNESS {i \in Nat : i \in 1..N /\ g[i] \notin Seq(S)} \in SUBSET Nat
      <4> QED
        OBVIOUS
    <3>1. bad # {}
      BY <3>0
    <3>2. PICK m \in bad : \A k \in bad : m <= k
      BY <3>1, LeastExists
    <3>3. m \in 1..N /\ q[m] \in Seq(S) /\ g[m] \notin Seq(S)
      BY <3>0, <3>2
    <3>4. m # 1
      BY <2>a, <3>3
    <3>5. m - 1 \in 1..N /\ m - 1 \notin bad /\ m \in 2..N
      BY <3>2, <3>3, <3>4
    <3>6. g[m - 1] \in Seq(S)
      BY <3>0, <3>5
    <3>7. g[m] = g[m - 1] \o q[m]
      BY <2>4, <3>5 DEF Grows
    <3> QED
      BY <3>3, <3>6, <3>7, ConcatProperties
  <2>6. PICK f : f = [n \in 0..N |-> IF n = 0 THEN <<>> ELSE g[n]]
    OBVIOUS
  <2>7. f \in [0..N -> Seq(S)] /\ f[0] = <<>> /\ f[N] = g[N]
    <3>1. ASSUME NEW n \in 0..N PROVE f[n] \in Seq(S)
      <4>1. CASE n = 0
        BY <2>6, <4>1, EmptySeq
      <4>2. CASE n # 0
        BY <2>5, <2>6, <4>2
      <4> QED
        BY <4>1, <4>2
    <3> QED
      BY <1>3, <2>6, <3>1
  <2>8. ASSUME NEW n \in 1..N PROVE Grows(f, q, n)
    <3>1. f[n] = g[n] /\ n - 1 \in 0..N
      BY <2>6
    <3>2. CASE n = 1
      <4>1. f[n - 1] = <<>> /\ f[n] = q[n] /\ q[n] \in Seq(S)
        BY <2>4, <2>7, <3>1, <3>2
      <4> QED
        BY <4>1, ConcatEmptySeq DEF Grows
    <3>3. CASE n # 1
      <4>1. n \in 2..N
        BY <3>3
      <4>2. f[n - 1] = g[n - 1]
        BY <2>6, <4>1
      <4>3. f[n] = g[n - 1] \o q[n]
        BY <2>4, <3>1, <4>1 DEF Grows
      <4> QED
        BY <4>2, <4>3 DEF Grows
    <3> QED
      BY <3>2, <3>3
  <2> QED
    BY <2>3, <2>7, <2>8 DEF GrowsBy
<1> QED
  BY <1>2, <1>3

AreTexts(S, s, t, u) == s \in Seq(S) /\ t \in Seq(S) /\ u \in Seq(S)
Joined(x, s, t) == x = s \o t

LEMMA Associates ==
  ASSUME NEW S, NEW s, NEW t, NEW u, NEW v, NEW x, NEW y, NEW z, AreTexts(S, s, t, u),
         Joined(v, t, u), Joined(x, s, v), Joined(y, s, t), Joined(z, y, u)
  PROVE  x = z
<1>1. s \in Seq(S) /\ t \in Seq(S) /\ u \in Seq(S)
  BY DEF AreTexts
<1>2. (s \o t) \o u = s \o (t \o u)
  BY ONLY <1>1, SMTT(60)
<1>3. x = s \o (t \o u) /\ z = (s \o t) \o u
  BY DEF Joined
<1> QED
  BY ONLY <1>2, <1>3

\* r is q with its piece m handed over in two.
Halved(q, r, N, m) ==
  /\ \A k \in 1..N : k < m => r[k] = q[k]
  /\ q[m] = r[m] \o r[m + 1]
  /\ \A k \in 1..N : k > m => r[k + 1] = q[k]

LEMMA FlattenHalved ==
  ASSUME NEW S, NEW N \in Nat, NEW q \in [1..N -> Seq(S)], NEW r \in [1..(N + 1) -> Seq(S)],
         NEW m \in 1..N, Halved(q, r, N, m)
  PROVE  FlattenSeq(q) = FlattenSeq(r)
<1>1. PICK f : GrowsBy(f, q, N, S) /\ FlattenSeq(q) = f[N]
  BY FlattenPrefixes
<1>a. N + 1 \in Nat
  OBVIOUS
<1>2. PICK g : GrowsBy(g, r, N + 1, S) /\ FlattenSeq(r) = g[N + 1]
  BY <1>a, FlattenPrefixes
<1>3. /\ f[0] = <<>> /\ \A n \in 1..N : Grows(f, q, n)
      /\ g[0] = <<>> /\ \A n \in 1..(N + 1) : Grows(g, r, n)
      /\ g \in [0..(N + 1) -> Seq(S)]
  BY <1>1, <1>2 DEF GrowsBy
<1>4. \A n \in 0..N : f[n] = IF n < m THEN g[n] ELSE g[n + 1]
  <2> SUFFICES ASSUME \E n \in 0..N : f[n] # IF n < m THEN g[n] ELSE g[n + 1] PROVE FALSE
    OBVIOUS
  <2>0. PICK bad \in SUBSET Nat :
        \A n \in Nat : n \in bad <=> n \in 0..N /\ f[n] # IF n < m THEN g[n] ELSE g[n + 1]
    <3> WITNESS {n \in Nat : n \in 0..N /\ f[n] # IF n < m THEN g[n] ELSE g[n + 1]} \in SUBSET Nat
    <3> QED
      OBVIOUS
  <2>1. bad # {}
    BY <2>0
  <2>2. PICK n \in bad : \A k \in bad : n <= k
    BY <2>1, LeastExists
  <2>3. n \in 1..N
    <3>1. n \in 0..N /\ f[n] # IF n < m THEN g[n] ELSE g[n + 1]
      BY <2>0, <2>2
    <3>2. n # 0
      <4>1. 0 < m /\ f[0] = g[0]
        BY <1>3
      <4> QED
        BY <3>1, <4>1
    <3> QED
      BY <3>1, <3>2
  <2>4. f[n - 1] = IF n - 1 < m THEN g[n - 1] ELSE g[n]
    <3>1. n - 1 \in 0..N /\ n - 1 \notin bad
      BY <2>2, <2>3
    <3>2. f[n - 1] = IF n - 1 < m THEN g[n - 1] ELSE g[(n - 1) + 1]
      BY <2>0, <3>1
    <3> QED
      BY <2>3, <3>2
  <2>5. f[n] = f[n - 1] \o q[n] /\ g[n] = g[n - 1] \o r[n] /\ g[n + 1] = g[n] \o r[n + 1]
    <3>1. n \in 1..(N + 1) /\ n + 1 \in 1..(N + 1) /\ (n + 1) - 1 = n
      BY <2>3
    <3>2. Grows(f, q, n) /\ Grows(g, r, n) /\ Grows(g, r, n + 1)
      BY <1>3, <2>3, <3>1
    <3> QED
      BY <3>1, <3>2 DEF Grows
  <2>6. f[n] # IF n < m THEN g[n] ELSE g[n + 1]
    BY <2>0, <2>2
  <2>7. CASE n < m
    <3>1. f[n - 1] = g[n - 1] /\ r[n] = q[n]
      BY <2>3, <2>4, <2>7 DEF Halved
    <3> QED
      BY <2>5, <2>6, <2>7, <3>1
  <2>8. CASE n = m
    <3>0. q[n] = r[n] \o r[n + 1]
      BY <2>8 DEF Halved
    <3>1. f[n - 1] = g[n - 1] /\ q[n] = r[n] \o r[n + 1]
      BY <2>3, <2>4, <2>8, <3>0
    <3>2. g[n - 1] \in Seq(S) /\ r[n] \in Seq(S) /\ r[n + 1] \in Seq(S)
      <4>1. n - 1 \in 0..(N + 1) /\ n \in 1..(N + 1) /\ n + 1 \in 1..(N + 1)
        BY <2>3
      <4>2. g \in [0..(N + 1) -> Seq(S)]
        BY <1>3
      <4> QED
        BY <4>1, <4>2
    <3>3. /\ Joined(q[n], r[n], r[n + 1]) /\ Joined(f[n], g[n - 1], q[n])
          /\ Joined(g[n], g[n - 1], r[n]) /\ Joined(g[n + 1], g[n], r[n + 1])
      BY <2>5, <3>1 DEF Joined
    <3>a. AreTexts(S, g[n - 1], r[n], r[n + 1])
      BY <3>2 DEF AreTexts
    <3>4. f[n] = g[n + 1]
      BY ONLY <3>a, <3>3, Associates, Zenon
    <3> QED
      BY <2>6, <2>8, <3>4
  <2>9. CASE n > m
    <3>0. r[n + 1] = q[n]
      BY <2>3, <2>9 DEF Halved
    <3>1. f[n - 1] = g[n]
      BY <2>3, <2>4, <2>9
    <3>2. f[n] = g[n + 1]
      BY <2>5, <3>0, <3>1
    <3> QED
      BY <2>6, <2>9, <3>2
  <2> QED
    BY <2>3, <2>7, <2>8, <2>9
<1>5. f[N] = g[N + 1]
  <2>1. N \in 0..N /\ ~(N < m)
    OBVIOUS
  <2> QED
    BY <1>4, <2>1
<1> QED
  BY <1>1, <1>2, <1>5

\* Adjacent stretches of the canonical text make one.
LEMMA AtomsJoin ==
  ASSUME NEW a \in Nat \ {0}, NEW b \in Nat, NEW c \in Nat, a <= b + 1, b <= c
  PROVE  Atoms(a, b) \o Atoms(b + 1, c) = Atoms(a, c)
<1>1. PICK x, y, z : x = Atoms(a, b) /\ y = Atoms(b + 1, c) /\ z = Atoms(a, c)
  OBVIOUS
<1>2. PICK L \in Nat, M \in Nat : L = b - a + 1 /\ M = c - b /\ L + M = c - a + 1
  OBVIOUS
<1>3. /\ x = [k \in 1..L |-> a + k - 1]
      /\ y = [k \in 1..M |-> a + (L + k) - 1]
      /\ z = [k \in 1..(L + M) |-> a + k - 1]
  <2>1. c - (b + 1) + 1 = M /\ \A k \in Int : (b + 1) + k - 1 = a + (L + k) - 1
    BY <1>2
  <2> QED
    BY <1>1, <1>2, <2>1 DEF Atoms
<1>4. /\ x \in Seq(Int) /\ Len(x) = L
      /\ y \in Seq(Int) /\ Len(y) = M
      /\ z \in Seq(Int) /\ Len(z) = L + M
  BY <1>3
<1>5. PICK w \in Seq(Int) : w = x \o y
  BY <1>4, ConcatProperties
<1>6. Len(w) = L + M /\ \A i \in 1..(L + M) : w[i] = IF i <= L THEN x[i] ELSE y[i - L]
  BY <1>4, <1>5, ConcatProperties
<1>7. \A i \in 1..(L + M) : w[i] = z[i]
  <2> SUFFICES ASSUME NEW i \in 1..(L + M) PROVE w[i] = z[i]
    OBVIOUS
  <2>1. CASE i <= L
    BY <1>3, <1>6, <2>1
  <2>2. CASE i > L
    <3>1. i - L \in 1..M /\ L + (i - L) = i
      BY <2>2
    <3>2. w[i] = y[i - L]
      BY <1>6, <2>2
    <3> QED
      BY <1>3, <3>1, <3>2
  <2> QED
    BY <2>1, <2>2
<1>8. w = z
  BY <1>4, <1>6, <1>7
<1> QED
  BY <1>1, <1>5, <1>8

\* Stretches one behind the other, end to end.
Stretches(first, last, N) ==
  /\ first \in [1..N -> Nat \ {0}] /\ last \in [1..N -> Nat]
  /\ \A n \in 1..N : first[n] <= last[n]
  /\ \A n \in 1..N : n > 1 => first[n] = last[n - 1] + 1

LEMMA FlattenAtoms ==
  ASSUME NEW N \in Nat \ {0}, NEW first, NEW last, Stretches(first, last, N),
         NEW q, q = [n \in 1..N |-> Atoms(first[n], last[n])]
  PROVE  FlattenSeq(q) = Atoms(first[1], last[N]) /\ first[1] <= last[N]
<1>0. \A n \in 1..N : /\ first[n] \in Nat \ {0} /\ last[n] \in Nat /\ first[n] <= last[n]
                      /\ q[n] = Atoms(first[n], last[n])
  BY DEF Stretches
<1>1. q \in [1..N -> Seq(Token)]
  <2>1. ASSUME NEW n \in 1..N PROVE q[n] \in Seq(Token)
    <3>1. first[n] \in Nat \ {0} /\ last[n] \in Nat \ {0} /\ q[n] = Atoms(first[n], last[n])
      BY <1>0
    <3> QED
      BY <3>1, AtomsAreTokens
  <2> QED
    BY <2>1
<1>2. PICK f : GrowsBy(f, q, N, Token) /\ FlattenSeq(q) = f[N]
  BY <1>1, FlattenPrefixes
<1>3. f[0] = <<>> /\ \A n \in 1..N : Grows(f, q, n)
  BY <1>2 DEF GrowsBy
<1> DEFINE Told(n) == f[n] = Atoms(first[1], last[n]) /\ first[1] <= last[n]
<1>4. Told(1)
  <2>1. 1 \in 1..N
    OBVIOUS
  <2>2. f[1] = <<>> \o q[1]
    <3>1. f[1] = f[1 - 1] \o q[1]
      BY <1>3, <2>1 DEF Grows
    <3>2. 1 - 1 = 0 /\ f[0] = <<>>
      BY <1>3
    <3> QED
      BY <3>1, <3>2
  <2>3. q[1] \in Seq(Token)
    BY <1>1, <2>1
  <2>4. f[1] = q[1]
    BY <2>2, <2>3, ConcatEmptySeq
  <2> QED
    BY <1>0, <2>1, <2>4
<1>5. ASSUME NEW n \in 1..N, n > 1, Told(n - 1)
      PROVE  Told(n)
  <2>1. f[n] = f[n - 1] \o q[n]
    BY <1>3 DEF Grows
  <2>2. n - 1 \in 1..N /\ 1 \in 1..N
    BY <1>5
  <2>3. PICK a \in Nat \ {0}, b \in Nat, c \in Nat : a = first[1] /\ b = last[n - 1] /\ c = last[n]
    BY <1>0, <2>2
  <2>4. first[n] = b + 1
    BY <1>5, <2>3 DEF Stretches
  <2>5. a <= b /\ b + 1 <= c
    BY <1>0, <1>5, <2>3, <2>4
  <2>6. f[n] = Atoms(a, b) \o Atoms(b + 1, c)
    BY <1>0, <1>5, <2>1, <2>3, <2>4
  <2>7. a <= b + 1 /\ b <= c /\ a <= c
    BY <2>5
  <2>8. f[n] = Atoms(a, c)
    BY <2>6, <2>7, AtomsJoin
  <2> QED
    BY <2>3, <2>7, <2>8
<1> HIDE DEF Told
<1>6. \A n \in 1..N : Told(n)
  <2> SUFFICES ASSUME \E n \in 1..N : ~Told(n) PROVE FALSE
    OBVIOUS
  <2>0. PICK bad \in SUBSET Nat : \A n \in Nat : n \in bad <=> n \in 1..N /\ ~Told(n)
    <3> WITNESS {n \in Nat : n \in 1..N /\ ~Told(n)} \in SUBSET Nat
    <3> QED
      OBVIOUS
  <2>1. bad # {}
    BY <2>0
  <2>2. PICK n \in bad : \A k \in bad : n <= k
    BY <2>1, LeastExists
  <2>3. n \in 1..N /\ ~Told(n)
    BY <2>0, <2>2
  <2>4. n > 1
    BY <1>4, <2>3
  <2>5. n - 1 \in 1..N /\ n - 1 \notin bad
    BY <2>2, <2>3, <2>4
  <2>6. Told(n - 1)
    BY <2>0, <2>5
  <2> QED
    BY <1>5, <2>3, <2>4, <2>6
<1> QED
  BY <1>2, <1>6 DEF Told

-----------------------------------------------------------------------------
(* The rows of a scene as they are read *)

AreRows(rows, scene, at, N) ==
  /\ at \in [1..N -> In(rows, scene)]
  /\ \A n \in 1..N : rows[at[n]].order = n - 1
  /\ \A i \in In(rows, scene) : \E n \in 1..N : i = at[n]

\* Numbers that rise and stay below their count are 0, 1, 2, ...
LEMMA Rising ==
  ASSUME NEW N \in Nat, NEW f \in [1..N -> 0..(N - 1)], \A m, n \in 1..N : m < n => f[m] < f[n]
  PROVE  \A n \in 1..N : f[n] = n - 1
<1>1. \A n \in 1..N : f[n] \in Int /\ f[n] >= 0 /\ f[n] <= N - 1
  OBVIOUS
<1>2. \A n \in 1..N : f[n] >= n - 1
  <2> SUFFICES ASSUME \E n \in 1..N : ~(f[n] >= n - 1) PROVE FALSE
    OBVIOUS
  <2>0. PICK bad \in SUBSET Nat : \A n \in Nat : n \in bad <=> n \in 1..N /\ ~(f[n] >= n - 1)
    <3> WITNESS {n \in Nat : n \in 1..N /\ ~(f[n] >= n - 1)} \in SUBSET Nat
    <3> QED
      OBVIOUS
  <2>1. bad # {}
    BY <2>0
  <2>2. PICK n \in bad : \A k \in bad : n <= k
    BY <2>1, LeastExists
  <2>3. n \in 1..N /\ f[n] < n - 1 /\ n > 1
    BY <1>1, <2>0, <2>2
  <2>4. n - 1 \in 1..N /\ n - 1 \notin bad
    BY <2>2, <2>3
  <2>5. f[n - 1] >= (n - 1) - 1 /\ f[n - 1] < f[n]
    BY <2>0, <2>3, <2>4
  <2> QED
    BY <1>1, <2>3, <2>4, <2>5
<1>3. \A n \in 1..N : f[n] <= n - 1
  <2> SUFFICES ASSUME \E n \in 1..N : ~(f[n] <= n - 1) PROVE FALSE
    OBVIOUS
  <2>0. PICK bad \in SUBSET Nat : \A d \in Nat : d \in bad <=> d < N /\ ~(f[N - d] <= N - d - 1)
    <3> WITNESS {d \in Nat : d < N /\ ~(f[N - d] <= N - d - 1)} \in SUBSET Nat
    <3> QED
      OBVIOUS
  <2>1. bad # {}
    <3>1. PICK n \in 1..N : ~(f[n] <= n - 1)
      OBVIOUS
    <3>2. N - n \in Nat /\ N - n < N /\ N - (N - n) = n
      OBVIOUS
    <3>3. N - n \in bad
      BY <2>0, <3>1, <3>2
    <3> QED
      BY <3>3
  <2>2. PICK d \in bad : \A k \in bad : d <= k
    BY <2>1, LeastExists
  <2>3. d \in Nat /\ d < N /\ N - d \in 1..N /\ f[N - d] > N - d - 1
    BY <1>1, <2>0, <2>2
  <2>4. d > 0
    BY <1>1, <2>3
  <2>5. d - 1 \in Nat /\ d - 1 \notin bad /\ d - 1 < N /\ N - (d - 1) \in 1..N
    BY <2>2, <2>3, <2>4
  <2>6. f[N - (d - 1)] <= N - (d - 1) - 1
    BY <2>0, <2>5
  <2>7. f[N - d] < f[N - (d - 1)]
    BY <2>3, <2>5
  <2>8. f[N - (d - 1)] \in Int /\ f[N - d] \in Int
    BY <1>1, <2>3, <2>5
  <2> QED
    BY <2>3, <2>6, <2>7, <2>8
<1> QED
  BY <1>1, <1>2, <1>3

LEMMA InReadingOrder ==
  ASSUME NEW rows, NEW scene, NEW N \in Nat, NEW at, AreRows(rows, scene, at, N)
  PROVE  ReadingOrder(rows, In(rows, scene)) = at
<1>1. PICK R : R = In(rows, scene)
  OBVIOUS
<1>2. /\ at \in [1..N -> R] /\ \A n \in 1..N : rows[at[n]].order = n - 1
      /\ \A i \in R : \E n \in 1..N : i = at[n]
  BY <1>1 DEF AreRows
<1>3. \A m, n \in 1..N : at[m] = at[n] => m = n
  BY <1>2
<1>4. Cardinality(R) = N
  <2>1. at \in Surjection(1..N, R) /\ at \in Injection(1..N, R)
    BY <1>2, <1>3 DEF Surjection, Injection, IsInjective
  <2>2. IsFiniteSet(1..N) /\ Cardinality(1..N) = N
    BY FS_Interval
  <2> QED
    BY <2>1, <2>2, FS_Surjection
<1>5. \A m, n \in 1..N : m < n => at[m] # at[n] /\ rows[at[m]].order <= rows[at[n]].order
  BY <1>2, <1>3
<1>6. PICK s : s = ReadingOrder(rows, R)
  OBVIOUS
<1>7. s \in [1..N -> R] /\ \A m, n \in 1..N : m < n => s[m] # s[n] /\ rows[s[m]].order <= rows[s[n]].order
  <2>1. \E t \in [1..N -> R] :
          \A m, n \in DOMAIN t : m < n => t[m] # t[n] /\ rows[t[m]].order <= rows[t[n]].order
    BY <1>2, <1>5
  <2>2. s = CHOOSE t \in [1..N -> R] :
              \A m, n \in DOMAIN t : m < n => t[m] # t[n] /\ rows[t[m]].order <= rows[t[n]].order
    BY <1>4, <1>6 DEF ReadingOrder
  <2>3. s \in [1..N -> R] /\ \A m, n \in DOMAIN s : m < n => s[m] # s[n] /\ rows[s[m]].order <= rows[s[n]].order
    BY <2>1, <2>2
  <2> QED
    BY <2>3
<1>8. PICK f : f = [n \in 1..N |-> rows[s[n]].order]
  OBVIOUS
<1>9. ASSUME NEW n \in 1..N
      PROVE  f[n] \in 0..(N - 1) /\ s[n] = at[f[n] + 1]
  <2>1. PICK k \in 1..N : s[n] = at[k]
    BY <1>2, <1>7
  <2>2. f[n] = k - 1
    BY <1>2, <1>8, <2>1
  <2> QED
    BY <2>1, <2>2
<1>10. \A m, n \in 1..N : m < n => f[m] < f[n]
  <2> SUFFICES ASSUME NEW m \in 1..N, NEW n \in 1..N, m < n PROVE f[m] < f[n]
    OBVIOUS
  <2>1. f[m] <= f[n]
    BY <1>7, <1>8
  <2>2. f[m] # f[n]
    BY <1>7, <1>9
  <2>3. f[m] \in Int /\ f[n] \in Int
    BY <1>9
  <2> QED
    BY <2>1, <2>2, <2>3
<1>11. \A n \in 1..N : f[n] = n - 1
  <2>1. f \in [1..N -> 0..(N - 1)]
    BY <1>8, <1>9
  <2> QED
    BY <1>10, <2>1, Rising
<1>12. \A n \in 1..N : s[n] = at[n]
  BY <1>9, <1>11
<1>13. s = at
  BY <1>2, <1>7, <1>12
<1> QED
  BY <1>1, <1>6, <1>13

LEMMA SceneReads ==
  ASSUME NEW rows, NEW scene, NEW N \in Nat, NEW at, AreRows(rows, scene, at, N),
         NEW q, q = [n \in 1..N |-> rows[at[n]].text]
  PROVE  SceneText(rows, scene) = FlattenSeq(q)
<1>1. ReadingOrder(rows, In(rows, scene)) = at
  BY InReadingOrder
<1>2. DOMAIN at = 1..N
  BY DEF AreRows
<1> QED
  BY <1>1, <1>2 DEF SceneText

LEMMA RowsInOrder ==
  ASSUME NEW rows, NEW scene, DenseIn(rows, scene), IsFiniteSet(In(rows, scene)),
         \A i \in In(rows, scene) : rows[i].order \in Nat
  PROVE  \E N \in Nat : \E at : AreRows(rows, scene, at, N)
<1>1. PICK R : R = In(rows, scene)
  OBVIOUS
<1>2. PICK N \in Nat : N = Cardinality(R)
  BY <1>1, FS_CardinalityType
<1>3. {rows[i].order : i \in R} = 0..(N - 1)
  BY <1>1, <1>2, DenseCounts
<1>4. PICK at : at = [n \in 1..N |-> CHOOSE i \in R : rows[i].order = n - 1]
  OBVIOUS
<1>5. ASSUME NEW n \in 1..N PROVE at[n] \in R /\ rows[at[n]].order = n - 1
  <2>1. n - 1 \in 0..(N - 1)
    OBVIOUS
  <2>2. \E i \in R : rows[i].order = n - 1
    BY <1>3, <2>1
  <2> QED
    BY <1>4, <2>2
<1>6. ASSUME NEW i \in R PROVE \E n \in 1..N : i = at[n]
  <2>1. rows[i].order \in 0..(N - 1)
    BY <1>3
  <2>2. PICK n \in 1..N : n = rows[i].order + 1
    BY <2>1
  <2>3. rows[at[n]].order = rows[i].order /\ at[n] \in R
    BY <1>5, <2>1, <2>2
  <2> QED
    BY <1>1, <2>3 DEF DenseIn
<1>7. at \in [1..N -> R]
  BY <1>4, <1>5
<1>8. AreRows(rows, scene, at, N)
  BY <1>1, <1>5, <1>6, <1>7 DEF AreRows
<1> QED
  BY <1>8

\* Rows of a scene that are read alike.
SameIn(rows, after, scene) ==
  /\ In(after, scene) = In(rows, scene)
  /\ \A i \in In(rows, scene) : after[i].order = rows[i].order /\ after[i].text = rows[i].text

LEMMA SameScene ==
  ASSUME NEW rows, NEW after, NEW scene, SameIn(rows, after, scene),
         DenseIn(rows, scene), IsFiniteSet(In(rows, scene)), \A i \in In(rows, scene) : rows[i].order \in Nat
  PROVE  SceneText(after, scene) = SceneText(rows, scene)
<1>1. PICK N \in Nat : \E at : AreRows(rows, scene, at, N)
  BY RowsInOrder
<1>2. PICK at : AreRows(rows, scene, at, N)
  BY <1>1
<1>3. AreRows(after, scene, at, N)
  BY <1>2 DEF AreRows, SameIn
<1>4. PICK q : q = [n \in 1..N |-> rows[at[n]].text]
  OBVIOUS
<1>5. q = [n \in 1..N |-> after[at[n]].text]
  <2>1. \A n \in 1..N : at[n] \in In(rows, scene)
    BY <1>2 DEF AreRows
  <2> QED
    BY <1>4, <2>1 DEF SameIn
<1> QED
  BY <1>2, <1>3, <1>4, <1>5, SceneReads

\* after is rows with row i handed over in two, new behind it.
HandedOver(rows, after, scene, i, new) ==
  /\ i \in In(rows, scene) /\ new \notin In(rows, scene)
  /\ In(after, scene) = In(rows, scene) \cup {new}
  /\ after[new].order = rows[i].order + 1
  /\ \A j \in In(rows, scene) :
       after[j].order = IF rows[j].order > rows[i].order THEN rows[j].order + 1 ELSE rows[j].order
  /\ \A j \in In(rows, scene) : j # i => after[j].text = rows[j].text
  /\ rows[i].text = after[i].text \o after[new].text
  /\ \A j \in In(rows, scene) : rows[j].text \in Seq(Token) /\ after[j].text \in Seq(Token)
  /\ after[new].text \in Seq(Token)

LEMMA HandedOverReads ==
  ASSUME NEW rows, NEW after, NEW scene, NEW i, NEW new, HandedOver(rows, after, scene, i, new),
         DenseIn(rows, scene), IsFiniteSet(In(rows, scene)), \A j \in In(rows, scene) : rows[j].order \in Nat
  PROVE  SceneText(after, scene) = SceneText(rows, scene)
<1>1. PICK N \in Nat : \E at : AreRows(rows, scene, at, N)
  BY RowsInOrder
<1>2. PICK at : AreRows(rows, scene, at, N)
  BY <1>1
<1>3. PICK R : R = In(rows, scene)
  OBVIOUS
<1>4. /\ at \in [1..N -> R] /\ \A n \in 1..N : rows[at[n]].order = n - 1
      /\ \A j \in R : \E n \in 1..N : j = at[n]
  BY <1>2, <1>3 DEF AreRows
<1>5. PICK m \in 1..N : i = at[m]
  BY <1>3, <1>4 DEF HandedOver
<1>6. PICK bt : bt = [n \in 1..(N + 1) |-> IF n <= m THEN at[n] ELSE IF n = m + 1 THEN new ELSE at[n - 1]]
  OBVIOUS
<1>7. /\ new \notin R /\ In(after, scene) = R \cup {new} /\ after[new].order = m
      /\ \A n \in 1..N : after[at[n]].order = IF n > m THEN n ELSE n - 1
  <2>1. rows[i].order = m - 1
    BY <1>4, <1>5
  <2>2. after[new].order = m
    <3>1. after[new].order = rows[i].order + 1
      BY DEF HandedOver
    <3> QED
      BY <2>1, <3>1
  <2>3. ASSUME NEW n \in 1..N PROVE after[at[n]].order = IF n > m THEN n ELSE n - 1
    <3>1. at[n] \in R /\ rows[at[n]].order = n - 1
      BY <1>4
    <3>2. after[at[n]].order = IF n - 1 > m - 1 THEN (n - 1) + 1 ELSE n - 1
      BY <1>3, <2>1, <3>1 DEF HandedOver
    <3> QED
      BY <3>2
  <2> QED
    BY <1>3, <2>2, <2>3 DEF HandedOver
<1>8. ASSUME NEW n \in 1..(N + 1)
      PROVE  bt[n] \in In(after, scene) /\ after[bt[n]].order = n - 1
  <2>1. CASE n <= m
    <3>1. n \in 1..N /\ bt[n] = at[n]
      BY <1>6, <2>1
    <3> QED
      BY <1>4, <1>7, <2>1, <3>1
  <2>2. CASE n = m + 1
    <3>1. bt[n] = new
      BY <1>6, <2>2
    <3> QED
      BY <1>7, <2>2, <3>1
  <2>3. CASE n > m + 1
    <3>1. n - 1 \in 1..N /\ bt[n] = at[n - 1]
      BY <1>6, <2>3
    <3> QED
      BY <1>4, <1>7, <2>3, <3>1
  <2> QED
    BY <2>1, <2>2, <2>3
<1>9. ASSUME NEW j \in In(after, scene) PROVE \E n \in 1..(N + 1) : j = bt[n]
  <2>1. CASE j = new
    <3>1. m + 1 \in 1..(N + 1) /\ bt[m + 1] = new
      BY <1>6
    <3> QED
      BY <2>1, <3>1
  <2>2. CASE j \in R
    <3>1. PICK n \in 1..N : j = at[n]
      BY <1>4, <2>2
    <3>2. CASE n <= m
      <4>1. n \in 1..(N + 1) /\ bt[n] = at[n]
        BY <1>6, <3>2
      <4> QED
        BY <3>1, <4>1
    <3>3. CASE n > m
      <4>1. n + 1 \in 1..(N + 1) /\ bt[n + 1] = at[n]
        BY <1>6, <3>3
      <4> QED
        BY <3>1, <4>1
    <3> QED
      BY <3>2, <3>3
  <2> QED
    BY <1>7, <2>1, <2>2
<1>10. AreRows(after, scene, bt, N + 1)
  <2>1. bt \in [1..(N + 1) -> In(after, scene)]
    BY <1>6, <1>8
  <2> QED
    BY <1>8, <1>9, <2>1 DEF AreRows
<1>11. PICK q, r : q = [n \in 1..N |-> rows[at[n]].text] /\ r = [n \in 1..(N + 1) |-> after[bt[n]].text]
  OBVIOUS
<1>12. q \in [1..N -> Seq(Token)]
  <2>1. \A n \in 1..N : rows[at[n]].text \in Seq(Token)
    BY <1>3, <1>4 DEF HandedOver
  <2> QED
    BY <1>11, <2>1
<1>13. r \in [1..(N + 1) -> Seq(Token)]
  <2>1. \A j \in In(after, scene) : after[j].text \in Seq(Token)
    BY DEF HandedOver
  <2>2. \A n \in 1..(N + 1) : after[bt[n]].text \in Seq(Token)
    BY <1>8, <2>1
  <2> QED
    BY <1>11, <2>2
<1>14. Halved(q, r, N, m)
  <2>0. \A j \in R : j # i => after[j].text = rows[j].text
    BY <1>3 DEF HandedOver
  <2>a. \A n \in 1..N : n # m => at[n] # i /\ at[n] \in R
    BY <1>4, <1>5
  <2>1. ASSUME NEW n \in 1..N, n < m PROVE r[n] = q[n]
    <3>1. n \in 1..(N + 1) /\ bt[n] = at[n]
      BY <1>6, <2>1
    <3> QED
      BY <1>11, <2>0, <2>a, <2>1, <3>1
  <2>2. q[m] = r[m] \o r[m + 1]
    <3>1. m \in 1..(N + 1) /\ m + 1 \in 1..(N + 1) /\ bt[m] = i /\ bt[m + 1] = new
      BY <1>5, <1>6
    <3>2. q[m] = rows[i].text /\ r[m] = after[i].text /\ r[m + 1] = after[new].text
      BY <1>5, <1>11, <3>1
    <3>3. rows[i].text = after[i].text \o after[new].text
      BY DEF HandedOver
    <3> QED
      BY <3>2, <3>3
  <2>3. ASSUME NEW n \in 1..N, n > m PROVE r[n + 1] = q[n]
    <3>1. n + 1 \in 1..(N + 1) /\ bt[n + 1] = at[n]
      BY <1>6, <2>3
    <3> QED
      BY <1>11, <2>0, <2>a, <2>3, <3>1
  <2> QED
    BY <2>1, <2>2, <2>3 DEF Halved
<1>15. FlattenSeq(q) = FlattenSeq(r)
  BY <1>12, <1>13, <1>14, FlattenHalved
<1>16. SceneText(rows, scene) = FlattenSeq(q)
  BY <1>2, <1>11, SceneReads
<1>17. SceneText(after, scene) = FlattenSeq(r)
  <2>1. N + 1 \in Nat
    OBVIOUS
  <2> QED
    BY <1>10, <1>11, <2>1, SceneReads
<1> QED
  BY <1>15, <1>16, <1>17
-----------------------------------------------------------------------------
(* What a step does to the words *)

\* A scene that can be read: numbered without gaps.
Readable(rows, scene) ==
  /\ DenseIn(rows, scene) /\ IsFiniteSet(In(rows, scene))
  /\ \A i \in In(rows, scene) : rows[i].order \in Nat /\ rows[i].text \in Seq(Token)

LEMMA SceneIsReadable ==
  ASSUME IInv, ~raced, NEW scene \in Scene
  PROVE  Readable(segs, scene)
<1>1. DenseIn(segs, scene)
  BY DEF IInv, Dense
<1>2. IsFiniteSet(In(segs, scene))
  BY FS_Subset DEF IInv, IdsAreFresh, In
<1>3. \A i \in In(segs, scene) : segs[i].order \in Nat /\ segs[i].text \in Seq(Token)
  BY DEF IInv, TypeOK, Segment, In
<1> QED
  BY <1>1, <1>2, <1>3 DEF Readable

LEMMA NextSceneIsReadable ==
  ASSUME IInv', ~raced', NEW scene \in Scene
  PROVE  Readable(segs', scene)
<1>1. DenseIn(segs', scene)
  BY DEF IInv, Dense
<1>2. IsFiniteSet(In(segs', scene))
  BY FS_Subset DEF IInv, IdsAreFresh, In
<1>3. \A i \in In(segs', scene) : segs'[i].order \in Nat /\ segs'[i].text \in Seq(Token)
  BY DEF IInv, TypeOK, Segment, In
<1> QED
  BY <1>1, <1>2, <1>3 DEF Readable

LEMMA ChapterReads ==
  ASSUME NEW rows, NEW after, NEW order \in Seq(Scene),
         \A scene \in Scene : SceneText(after, scene) = SceneText(rows, scene)
  PROVE  Text(after, order) = Text(rows, order)
<1>1. \A k \in 1..Len(order) : order[k] \in Scene
  OBVIOUS
<1>2. [k \in 1..Len(order) |-> SceneText(after, order[k])] = [k \in 1..Len(order) |-> SceneText(rows, order[k])]
  BY <1>1
<1> QED
  BY <1>2 DEF Text

LEMMA LockReads ==
  ASSUME IInv, ~raced', NEW i \in Live, NEW locked \in BOOLEAN, SetLock(i, locked), NEW scene \in Scene
  PROVE  SceneText(segs', scene) = SceneText(segs, scene)
<1>1. segs' = [segs EXCEPT ![i].locked = locked] /\ Edited
  BY DEF SetLock
<1>2. Readable(segs, scene)
  BY <1>1, EditedFacts, SceneIsReadable
<1>3. \A j \in Live : segs[j] \in Segment
  BY DEF IInv, TypeOK
<1>4. Live' = Live
  BY <1>1
<1>5. ASSUME NEW j \in Live
      PROVE  segs'[j].scene = segs[j].scene /\ segs'[j].order = segs[j].order /\ segs'[j].text = segs[j].text
  <2>1. PICK row \in Segment : row = segs[j]
    BY <1>3
  <2>2. segs'[j] = IF j = i THEN [row EXCEPT !.locked = locked] ELSE row
    BY <1>1, <2>1
  <2> QED
    BY <2>1, <2>2 DEF Segment
<1>6. SameIn(segs, segs', scene)
  BY <1>4, <1>5 DEF SameIn, In
<1> QED
  BY <1>2, <1>6, SameScene DEF Readable

LEMMA SplitReads ==
  ASSUME IInv, IInv', ~raced', NEW i \in Live, NEW k \in 1..Len(segs[i].text), SplitSegment(i, k), NEW scene \in Scene
  PROVE  SceneText(segs', scene) = SceneText(segs, scene)
<1>1. ~raced
  BY EditedFacts DEF SplitSegment
<1>2. Readable(segs, scene) /\ Readable(segs', scene)
  BY <1>1, SceneIsReadable, NextSceneIsReadable
<1>3. PICK new : new = <<0, edits + 1>>
  OBVIOUS
<1>4. /\ new \notin Live /\ Live' = Live \cup {new}
      /\ segs'[new].scene = segs[i].scene /\ segs'[new].order = segs[i].order + 1
      /\ segs'[i].scene = segs[i].scene /\ segs'[i].order = segs[i].order
      /\ segs[i].text = segs'[i].text \o segs'[new].text
  BY <1>3, SplitRows
<1>5. ASSUME NEW j \in Live, j # i
      PROVE  /\ segs'[j].scene = segs[j].scene /\ segs'[j].text = segs[j].text
             /\ segs'[j].order = IF j \in After(i) THEN segs[j].order + 1 ELSE segs[j].order
  BY <1>3, <1>5, SplitRows
<1>6. CASE scene = segs[i].scene
  <2>1. i \in In(segs, scene) /\ new \notin In(segs, scene)
    BY <1>4, <1>6 DEF In
  <2>2. In(segs', scene) = In(segs, scene) \cup {new}
    BY <1>4, <1>5, <1>6 DEF In
  <2>3. ASSUME NEW j \in In(segs, scene)
        PROVE  segs'[j].order = IF segs[j].order > segs[i].order THEN segs[j].order + 1 ELSE segs[j].order
    <3>1. j \in Live /\ segs[j].order \in Nat
      BY <1>2 DEF In, Readable
    <3>2. CASE j = i
      BY <1>4, <3>1, <3>2
    <3>3. CASE j # i
      <4>1. j \in After(i) <=> segs[j].order > segs[i].order
        BY <1>6 DEF After, In
      <4> QED
        BY <1>5, <3>1, <3>3, <4>1
    <3> QED
      BY <3>2, <3>3
  <2>4. \A j \in In(segs, scene) : j # i => segs'[j].text = segs[j].text
    BY <1>5 DEF In
  <2>5. /\ \A j \in In(segs, scene) : segs[j].text \in Seq(Token) /\ segs'[j].text \in Seq(Token)
        /\ segs'[new].text \in Seq(Token)
    BY <1>2, <2>2 DEF Readable
  <2>6. HandedOver(segs, segs', scene, i, new)
    BY <1>4, <2>1, <2>2, <2>3, <2>4, <2>5 DEF HandedOver
  <2> QED
    BY <1>2, <2>6, HandedOverReads DEF Readable
<1>7. CASE scene # segs[i].scene
  <2>1. In(segs', scene) = In(segs, scene)
    BY <1>4, <1>5, <1>7 DEF In
  <2>2. \A j \in In(segs, scene) : segs'[j].order = segs[j].order /\ segs'[j].text = segs[j].text
    BY <1>5, <1>7 DEF In, After
  <2>3. SameIn(segs, segs', scene)
    BY <2>1, <2>2 DEF SameIn
  <2> QED
    BY <1>2, <2>3, SameScene DEF Readable
<1> QED
  BY <1>6, <1>7

\* A merge is a split seen from behind.
LEMMA MergeReads ==
  ASSUME IInv, IInv', ~raced', NEW i \in Live, NEW next \in Live, MergeSegments(i, next), NEW scene \in Scene
  PROVE  SceneText(segs', scene) = SceneText(segs, scene)
<1>1. ~raced
  BY EditedFacts DEF MergeSegments
<1>2. Readable(segs, scene) /\ Readable(segs', scene)
  BY <1>1, SceneIsReadable, NextSceneIsReadable
<1>3. segs[i].scene = segs[next].scene /\ segs[next].order = segs[i].order + 1
  BY DEF MergeSegments
<1>4. /\ i # next /\ Live' = Live \ {next}
      /\ segs'[i].scene = segs[i].scene /\ segs'[i].order = segs[i].order
      /\ segs'[i].text = segs[i].text \o segs[next].text
  BY MergeRows
<1>5. ASSUME NEW j \in Live, j # i, j # next
      PROVE  /\ segs'[j].scene = segs[j].scene /\ segs'[j].text = segs[j].text
             /\ segs'[j].order = IF j \in After(next) THEN segs[j].order - 1 ELSE segs[j].order
  <2>1. j \in Live'
    BY <1>4, <1>5
  <2> QED
    BY <1>5, <2>1, MergeRows
<1>6. CASE scene = segs[i].scene
  <2>1. In(segs, scene) = In(segs', scene) \cup {next} /\ next \notin In(segs', scene) /\ i \in In(segs', scene)
    BY <1>3, <1>4, <1>5, <1>6 DEF In
  <2>2. ASSUME NEW j \in In(segs', scene)
        PROVE  segs[j].order = IF segs'[j].order > segs'[i].order THEN segs'[j].order + 1 ELSE segs'[j].order
    <3>1. /\ j \in Live /\ j # next /\ j \in In(segs, scene) /\ i \in In(segs, scene) /\ next \in In(segs, scene)
          /\ segs[j].order \in Nat /\ segs[i].order \in Nat
      BY <1>2, <1>4, <2>1 DEF In, Readable
    <3>2. CASE j = i
      BY <1>4, <3>1, <3>2
    <3>3. CASE j # i
      <4>1. j \in After(next) <=> segs[j].order > segs[next].order
        BY <1>3, <1>6, <3>1 DEF After, In
      <4>2. segs'[j].order = IF segs[j].order > segs[next].order THEN segs[j].order - 1 ELSE segs[j].order
        BY <1>5, <3>1, <3>3, <4>1
      <4>3. segs[j].order # segs[next].order
        BY <1>2, <3>1 DEF Readable, DenseIn
      <4> QED
        BY <1>3, <1>4, <3>1, <4>2, <4>3
    <3> QED
      BY <3>2, <3>3
  <2>3. \A j \in In(segs', scene) : j # i => segs[j].text = segs'[j].text
    BY <1>4, <1>5, <2>1 DEF In
  <2>4. /\ \A j \in In(segs', scene) : segs[j].text \in Seq(Token) /\ segs'[j].text \in Seq(Token)
        /\ segs[next].text \in Seq(Token)
    BY <1>2, <2>1 DEF Readable
  <2>5. HandedOver(segs', segs, scene, i, next)
    BY <1>3, <1>4, <2>1, <2>2, <2>3, <2>4 DEF HandedOver
  <2> QED
    BY <1>2, <2>5, HandedOverReads DEF Readable
<1>7. CASE scene # segs[i].scene
  <2>1. In(segs', scene) = In(segs, scene) /\ next \notin In(segs, scene)
    BY <1>3, <1>4, <1>5, <1>7 DEF In
  <2>2. \A j \in In(segs, scene) : segs'[j].order = segs[j].order /\ segs'[j].text = segs[j].text
    BY <1>3, <1>5, <1>7, <2>1 DEF In, After
  <2>3. SameIn(segs, segs', scene)
    BY <2>1, <2>2 DEF SameIn
  <2> QED
    BY <1>2, <2>3, SameScene DEF Readable
<1> QED
  BY <1>6, <1>7

LEMMA EditReads ==
  ASSUME IInv, [Next]_vars, ~raced', reading' = reading, ~(\E i \in Live : UpdateSegment(i))
  PROVE  Text(segs', scenes') = Text(segs, scenes)
<1>0. IInv' /\ scenes \in Seq(Scene)
  BY NextIInv DEF IInv, TypeOK
<1>1. CASE segs' = segs /\ scenes' = scenes
  BY <1>1
<1>2. CASE scenes' = scenes /\ \A scene \in Scene : SceneText(segs', scene) = SceneText(segs, scene)
  BY <1>0, <1>2, ChapterReads
<1>3. ASSUME NEW i \in Live, NEW locked \in BOOLEAN, SetLock(i, locked)
      PROVE  Text(segs', scenes') = Text(segs, scenes)
  <2>1. scenes' = scenes
    BY <1>3 DEF SetLock
  <2> QED
    BY <1>2, <1>3, <2>1, LockReads
<1>4. ASSUME NEW i \in Live, NEW k \in 1..Len(segs[i].text), SplitSegment(i, k)
      PROVE  Text(segs', scenes') = Text(segs, scenes)
  <2>1. scenes' = scenes
    BY <1>4 DEF SplitSegment
  <2> QED
    BY <1>0, <1>2, <1>4, <2>1, SplitReads
<1>5. ASSUME NEW i \in Live, NEW next \in Live, MergeSegments(i, next)
      PROVE  Text(segs', scenes') = Text(segs, scenes)
  <2>1. scenes' = scenes
    BY <1>5 DEF MergeSegments
  <2> QED
    BY <1>0, <1>2, <1>5, <2>1, MergeReads
<1>6. ASSUME NEW i \in Live, RenderSegment(i) PROVE Text(segs', scenes') = Text(segs, scenes)
  BY <1>1, <1>6 DEF RenderSegment
<1>7. CASE Attribute
  BY <1>1, <1>7 DEF Attribute
<1>8. ASSUME NEW parse \in Parse, ReplaceRead(parse) PROVE Text(segs', scenes') = Text(segs, scenes)
  BY <1>1, <1>8 DEF ReplaceRead
<1>9. ~ReplaceCommit
  <2>1. ReplaceCommit => reading.on /\ reading' = Idle
    BY DEF ReplaceCommit
  <2> QED
    BY <2>1 DEF Idle
<1>10. CASE ReplaceFails
  BY <1>1, <1>10 DEF ReplaceFails
<1>11. CASE UNCHANGED vars
  BY <1>1, <1>11 DEF vars
<1> QED
  BY <1>3, <1>4, <1>5, <1>6, <1>7, <1>8, <1>9, <1>10, <1>11 DEF Next

\* An extraction that finds no lock leaves the rows of the parse.
LEMMA ExtractedRows ==
  ASSUME IInv, reading.on, segs = reading.old, LockedIn(segs) = {},
         NEW p, p = reading.parse, NEW turn, NEW new, new = Replaced(p, segs, turn)
  PROVE  /\ p \in Parse /\ DOMAIN new = IdsOf(p)
         /\ \A k \in DOMAIN p : \A n \in DOMAIN p[k] :
              /\ new[p[k][n]].scene = SceneOf(p[k]) /\ new[p[k][n]].order = n - 1
              /\ new[p[k][n]].text = Atoms(p[k][n][1], p[k][n][2])
<1>1. /\ p \in Parse /\ IsFiniteSet(DOMAIN segs)
      /\ \A i \in Live : segs[i] \in Segment
  BY DEF IInv, ReadingIsSound, TypeOK
<1>2. RowsAfter(p, segs, turn, new)
  BY <1>1, ReplacedRows
<1>3. Homeless(p, segs) = {} /\ \A i \in Live : ~segs[i].locked
  BY DEF Homeless, LockedIn
<1>4. DOMAIN new = IdsOf(p)
  <2>1. DOMAIN new = (Live \ Removed(p, segs)) \cup (IdsOf(p) \ Live)
    BY <1>2 DEF RowsAfter
  <2> QED
    BY <2>1 DEF Removed
<1>5. ASSUME NEW k \in DOMAIN p, NEW n \in DOMAIN p[k]
      PROVE  /\ new[p[k][n]].scene = SceneOf(p[k]) /\ new[p[k][n]].order = n - 1
             /\ new[p[k][n]].text = Atoms(p[k][n][1], p[k][n][2])
  <2>1. PICK i : i = p[k][n]
    OBVIOUS
  <2>2. /\ i \in IdsOf(p) /\ i \in DOMAIN new
        /\ Wanted(p)[i].scene = SceneOf(p[k]) /\ Wanted(p)[i].order = n - 1
    BY <1>1, <1>4, <2>1, SpanFacts, WantedRow
  <2>3. CASE i \in Live
    <3>1. NewColumns(p, segs, turn, i) = Wanted(p)[i]
      BY <1>3, <2>3 DEF NewColumns
    <3>2. new[i] = Updated(p, segs, turn, i) /\ i \notin Removed(p, segs)
      BY <1>2, <2>2, <2>3 DEF RowsAfter
    <3>3. /\ new[i].scene = NewColumns(p, segs, turn, i).scene
          /\ new[i].order = NewColumns(p, segs, turn, i).order
          /\ new[i].text = Atoms(i[1], i[2])
      BY <1>1, <1>3, <2>3, <3>2, UpdatedRow
    <3> QED
      BY <2>1, <2>2, <3>1, <3>3
  <2>4. CASE i \notin Live
    <3>1. new[i] = Fresh(Wanted(p)[i])
      BY <1>2, <2>2, <2>4 DEF RowsAfter
    <3> QED
      BY <1>1, <2>1, <2>2, <3>1, FreshRow
  <2> QED
    BY <2>3, <2>4
<1> QED
  BY <1>1, <1>4, <1>5

\* new has the rows of p, each with the source's text.
RowsOf(new, p) ==
  /\ DOMAIN new = IdsOf(p)
  /\ \A k \in DOMAIN p : \A n \in DOMAIN p[k] :
       /\ new[p[k][n]].scene = SceneOf(p[k]) /\ new[p[k][n]].order = n - 1
       /\ new[p[k][n]].text = Atoms(p[k][n][1], p[k][n][2])

LEMMA ExtractedSceneReads ==
  ASSUME NEW p \in Parse, NEW new, RowsOf(new, p), NEW k \in DOMAIN p
  PROVE  /\ SceneText(new, SceneOf(p[k])) = Atoms(SceneOf(p[k])[1], SceneOf(p[k])[2])
         /\ SceneOf(p[k])[1] \in Nat \ {0} /\ SceneOf(p[k])[2] \in Nat
         /\ SceneOf(p[k])[1] <= SceneOf(p[k])[2]
<1>1. PICK N \in Nat \ {0} : N = Len(p[k])
  BY ParseShape
<1>2. PICK at : at = p[k]
  OBVIOUS
<1>3. at \in Seq(Span) /\ DOMAIN at = 1..N /\ at = [n \in 1..N |-> at[n]]
  BY <1>1, <1>2, ParseShape
<1>4. PICK scene : scene = SceneOf(p[k])
  OBVIOUS
<1>5. ASSUME NEW n \in 1..N
      PROVE  /\ at[n] \in In(new, scene) /\ new[at[n]].order = n - 1
             /\ new[at[n]].text = Atoms(at[n][1], at[n][2])
  <2>1. n \in DOMAIN p[k] /\ at[n] = p[k][n] /\ at[n] \in IdsOf(p)
    BY <1>2, <1>3, SpanFacts
  <2> QED
    BY <1>4, <2>1 DEF RowsOf, In
<1>6. ASSUME NEW i \in In(new, scene) PROVE \E n \in 1..N : i = at[n]
  <2>1. i \in IdsOf(p) /\ new[i].scene = scene
    BY DEF RowsOf, In
  <2>2. PICK l \in DOMAIN p : \E m \in DOMAIN p[l] : i = p[l][m]
    BY <2>1, IdsOfParse
  <2>3. PICK m \in DOMAIN p[l] : i = p[l][m]
    BY <2>2
  <2>4. SceneOf(p[l]) = SceneOf(p[k])
    BY <1>4, <2>1, <2>3 DEF RowsOf
  <2>5. l = k
    BY <2>4, ScenesDiffer
  <2> QED
    BY <1>2, <1>3, <2>3, <2>5
<1>7. AreRows(new, scene, at, N)
  BY <1>3, <1>5, <1>6 DEF AreRows
<1>8. PICK first : first = [n \in 1..N |-> at[n][1]]
  OBVIOUS
<1>9. PICK last : last = [n \in 1..N |-> at[n][2]]
  OBVIOUS
<1>10. PICK q : q = [n \in 1..N |-> Atoms(first[n], last[n])]
  OBVIOUS
<1>11. q = [n \in 1..N |-> new[at[n]].text]
  BY <1>5, <1>8, <1>9, <1>10
<1>12. Stretches(first, last, N)
  <2>1. ASSUME NEW n \in 1..N
        PROVE  first[n] \in Nat \ {0} /\ last[n] \in Nat /\ first[n] <= last[n]
    <3>1. n \in DOMAIN p[k]
      BY <1>2, <1>3
    <3>2. at[n] \in Span /\ at[n][1] <= at[n][2]
      BY <1>2, <3>1, SpanFacts
    <3> QED
      BY <1>8, <1>9, <3>2 DEF Span
  <2>2. ASSUME NEW n \in 1..N, n > 1 PROVE first[n] = last[n - 1] + 1
    <3>1. n \in DOMAIN p[k] /\ n - 1 \in 1..N
      BY <1>2, <1>3, <2>2
    <3>2. p[k][n][1] = p[k][n - 1][2] + 1
      BY <2>2, <3>1, CoverAssumption
    <3> QED
      BY <1>2, <1>8, <1>9, <3>1, <3>2
  <2> QED
    BY <1>8, <1>9, <2>1, <2>2 DEF Stretches
<1>13. FlattenSeq(q) = Atoms(first[1], last[N]) /\ first[1] <= last[N]
  BY <1>10, <1>12, FlattenAtoms
<1>14. SceneText(new, scene) = FlattenSeq(q)
  BY <1>7, <1>11, SceneReads
<1>15. scene[1] = first[1] /\ scene[2] = last[N]
  <2>1. first[1] = at[1][1] /\ last[N] = at[N][2]
    BY <1>8, <1>9
  <2> QED
    BY <1>1, <1>2, <1>4, <2>1 DEF SceneOf, Last
<1>16. first[1] \in Nat \ {0} /\ last[N] \in Nat
  BY <1>12 DEF Stretches
<1> QED
  BY <1>4, <1>13, <1>14, <1>15, <1>16

LEMMA ExtractedReads ==
  ASSUME NEW p \in Parse, NEW new, RowsOf(new, p)
  PROVE  Text(new, ScenesOf(p)) = Atoms(SceneOf(Head(p))[1], SceneOf(Last(p))[2])
<1>1. PICK N \in Nat \ {0} : N = Len(p) /\ DOMAIN p = 1..N
  BY ParseShape
<1>2. PICK first : first = [k \in 1..N |-> SceneOf(p[k])[1]]
  OBVIOUS
<1>3. PICK last : last = [k \in 1..N |-> SceneOf(p[k])[2]]
  OBVIOUS
<1>4. PICK q : q = [k \in 1..N |-> Atoms(first[k], last[k])]
  OBVIOUS
<1>5. Stretches(first, last, N)
  <2>1. ASSUME NEW k \in 1..N
        PROVE  first[k] \in Nat \ {0} /\ last[k] \in Nat /\ first[k] <= last[k]
    BY <1>1, <1>2, <1>3, ExtractedSceneReads
  <2>2. ASSUME NEW k \in 1..N, k > 1 PROVE first[k] = last[k - 1] + 1
    <3>1. k \in DOMAIN p /\ k - 1 \in 1..N
      BY <1>1, <2>2
    <3>2. p[k][1][1] = Last(p[k - 1])[2] + 1
      BY <2>2, <3>1, CoverAssumption
    <3>3. SceneOf(p[k])[1] = p[k][1][1] /\ SceneOf(p[k - 1])[2] = Last(p[k - 1])[2]
      BY DEF SceneOf
    <3> QED
      BY <1>2, <1>3, <3>1, <3>2, <3>3
  <2> QED
    BY <1>2, <1>3, <2>1, <2>2 DEF Stretches
<1>6. FlattenSeq(q) = Atoms(first[1], last[N])
  BY <1>4, <1>5, FlattenAtoms
<1>7. Text(new, ScenesOf(p)) = FlattenSeq(q)
  <2>1. PICK order : order = ScenesOf(p)
    OBVIOUS
  <2>2. order = [k \in 1..N |-> SceneOf(p[k])]
    BY <1>1, <2>1 DEF ScenesOf
  <2>3. Len(order) = N /\ \A k \in 1..N : order[k] = SceneOf(p[k])
    BY <2>2
  <2>4. \A k \in 1..N : SceneText(new, order[k]) = Atoms(first[k], last[k])
    BY <1>1, <1>2, <1>3, <2>3, ExtractedSceneReads
  <2>5. [k \in 1..Len(order) |-> SceneText(new, order[k])] = q
    BY <1>4, <2>3, <2>4
  <2> QED
    BY <2>1, <2>5 DEF Text
<1>8. Head(p) = p[1] /\ Last(p) = p[N]
  BY <1>1, ParseShape, HeadTailProperties DEF Last
<1> QED
  BY <1>2, <1>3, <1>6, <1>7, <1>8

LEMMA ExtractionReads ==
  ASSUME IInv, [Next]_vars, reading.on, ~reading'.on, segs = reading.old, LockedIn(segs) = {}
  PROVE  Text(segs', scenes')
           = Atoms(SceneOf(Head(reading.parse))[1], SceneOf(Last(reading.parse))[2])
<1>1. ReplaceCommit \/ ReplaceFails
  <2>1. reading' # reading
    OBVIOUS
  <2> QED
    BY <2>1 DEF Next, vars, UpdateSegment, SetLock, SplitSegment, MergeSegments, RenderSegment, Attribute, ReplaceRead
<1>2. PICK p : p = reading.parse
  OBVIOUS
<1>3. ASSUME NEW turn, NEW new, new = Replaced(p, segs, turn) PROVE p \in Parse /\ RowsOf(new, p)
  BY <1>2, <1>3, ExtractedRows DEF RowsOf
<1>4. CASE ReplaceFails
  <2>1. Homeless(p, segs) = {}
    BY DEF Homeless
  <2>2. PICK turn : turn \in Turn({})
    <3>1. PICK f : f = [i \in {} |-> 1]
      OBVIOUS
    <3>2. f \in [{} -> 1..Cardinality({})] /\ IsInjective(f)
      BY <3>1 DEF IsInjective
    <3>3. f \in Turn({})
      BY <3>2 DEF Turn
    <3> QED
      BY <3>3
  <2>3. Conflict(p, segs, turn)
    BY <1>2, <1>4, <2>1, <2>2 DEF ReplaceFails
  <2>4. PICK new : new = Replaced(p, segs, turn)
    OBVIOUS
  <2>5. p \in Parse /\ RowsOf(new, p)
    BY <1>3, <2>4
  <2>6. Kept(p, segs) \subseteq Live
    BY DEF Kept
  <2>7. PICK i \in DOMAIN new : new[i].scene \notin Range(ScenesOf(p))
    BY <2>3, <2>4, <2>6 DEF Conflict
  <2>8. PICK k \in DOMAIN p : \E n \in DOMAIN p[k] : i = p[k][n]
    BY <2>5, <2>7, IdsOfParse DEF RowsOf
  <2>9. new[i].scene = SceneOf(p[k])
    BY <2>5, <2>8 DEF RowsOf
  <2> QED
    BY <2>5, <2>7, <2>9, SceneIsScene
<1>5. CASE ReplaceCommit
  <2>1. PICK turn : segs' = Replaced(p, segs, turn)
    BY <1>2, <1>5, Zenon DEF ReplaceCommit
  <2>2. scenes' = ScenesOf(p)
    BY <1>2, <1>5 DEF ReplaceCommit
  <2>3. PICK new : new = segs'
    OBVIOUS
  <2>4. p \in Parse /\ RowsOf(new, p)
    BY <1>3, <2>1, <2>3
  <2>5. Text(new, ScenesOf(p)) = Atoms(SceneOf(Head(p))[1], SceneOf(Last(p))[2])
    BY <2>4, ExtractedReads
  <2> QED
    BY <1>2, <2>2, <2>3, <2>5
<1> QED
  BY <1>1, <1>4, <1>5

\* The words of the book: no operation but a text edit changes what the
\* chapter says, and an extraction that finds no lock and met no edit reads
\* the source from its first atom to its last, whatever came before.
THEOREM TextStays == Spec => TextIsKept
<1>1. IInv /\ [Next]_vars =>
        [~raced' /\ reading' = reading /\ ~(\E i \in Live : UpdateSegment(i))
           => Text(segs', scenes') = Text(segs, scenes)]_vars
  BY EditReads
<1>2. IInv /\ [Next]_vars =>
        [reading.on /\ ~reading'.on /\ segs = reading.old /\ LockedIn(segs) = {}
           => Text(segs', scenes')
                = Atoms(SceneOf(Head(reading.parse))[1], SceneOf(Last(reading.parse))[2])]_vars
  BY ExtractionReads
<1> QED
  BY <1>1, <1>2, Invariance, PTL DEF Spec, TextIsKept, OnlyEditsChangeText, ExtractionReadsSource
=============================================================================
