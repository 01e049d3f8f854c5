------------------------- MODULE AccessRulesProofs -------------------------
(***************************************************************************)
(* Proofs about AccessRules, for any rules files, conditions, documents,   *)
(* users, admin calls and requests, and any number of faults.              *)
(***************************************************************************)
EXTENDS AccessRules, SequenceTheorems, FiniteSetTheorems, TLAPS

-----------------------------------------------------------------------------
(* Patterns and paths                                                      *)

\* What the blocks of a file become: literals at the collection positions, and
\* no recursive wildcard left.
WellFormed(t) ==
    /\ t.segs \in Seq(Segments)
    /\ t.rec \in BOOLEAN
    /\ \A i \in 1 .. Len(t.segs) : t.segs[i] # Rec /\ (i % 2 = 1 => ~IsVar(t.segs[i]))

\* All segments but the last one.
LEMMA FrontOf ==
    ASSUME NEW S, NEW s \in Seq(S), s # << >>
    PROVE  /\ Front(s) \in Seq(S) /\ Len(Front(s)) = Len(s) - 1
           /\ \A i \in 1 .. Len(s) - 1 : Front(s)[i] = s[i]
<1> DEFINE n == Len(s) - 1
<1>1. Len(s) \in Nat /\ Len(s) >= 1 /\ DOMAIN s = 1 .. Len(s)
  BY EmptySeq, LenProperties
<1>2. \A i \in 1 .. n : s[i] \in S
  BY <1>1
<1>3. n \in Int /\ n >= 0
  BY <1>1
<1> HIDE DEF n
<1>4. /\ SubSeq(s, 1, n) \in Seq(S)
      /\ Len(SubSeq(s, 1, n)) = IF 1 <= n THEN n - 1 + 1 ELSE 0
      /\ \A i \in 1 .. n - 1 + 1 : SubSeq(s, 1, n)[i] = s[1 + i - 1]
  BY <1>2, <1>3, SubSeqProperties
<1>5. n - 1 + 1 = n /\ \A i \in 1 .. n : 1 + i - 1 = i
  BY <1>3
<1>6. Len(SubSeq(s, 1, n)) = n
  BY <1>3, <1>4, <1>5
<1>7. \A i \in 1 .. n : SubSeq(s, 1, n)[i] = s[i]
  BY <1>4, <1>5
<1> QED
  BY <1>4, <1>6, <1>7 DEF Front, n

\* decompose_block makes well-formed targets of the blocks it accepts.
LEMMA DecomposedWellFormed ==
    ASSUME NEW b \in Blocks, BlockAccepted(b)
    PROVE  WellFormed(DecomposeBlock(b))
<1> DEFINE s == b.segs
           a == Ancestor(b)
           t == DecomposeBlock(b)
<1>1. /\ s \in Seq(Segments) /\ s # << >>
      /\ \A i \in DOMAIN s : /\ s[i] = Rec => i = Len(s) /\ i % 2 = 1
                             /\ i % 2 = 1 => ~IsVar(s[i])
  BY DEF Blocks, BlockAccepted, ValidateSegmentShape
<1>2. t.segs = a /\ t.rec = Recursive(b)
  BY DEF DecomposeBlock
<1>3. t.rec \in BOOLEAN
  BY <1>2 DEF Recursive
<1>4. Len(s) \in Nat /\ Len(s) >= 1 /\ DOMAIN s = 1 .. Len(s)
  BY <1>1, EmptySeq, LenProperties
<1>5. CASE Recursive(b) \/ Len(s) % 2 = 0
  <2>1. a = Front(s)
    BY <1>5 DEF Ancestor
  <2>2. /\ a \in Seq(Segments) /\ Len(a) = Len(s) - 1
        /\ \A i \in 1 .. Len(s) - 1 : a[i] = s[i]
    BY <1>1, <2>1, FrontOf
  <2>3. ASSUME NEW i \in 1 .. Len(a) PROVE a[i] # Rec /\ (i % 2 = 1 => ~IsVar(a[i]))
    <3>1. i \in 1 .. Len(s) - 1 /\ i \in DOMAIN s /\ i # Len(s)
      BY <1>4, <2>2
    <3>2. a[i] = s[i]
      BY <2>2, <3>1
    <3> QED
      BY <1>1, <3>1, <3>2
  <2> QED
    BY <1>2, <1>3, <2>2, <2>3 DEF WellFormed
<1>6. CASE ~Recursive(b) /\ Len(s) % 2 # 0
  <2>1. a = s
    BY <1>6 DEF Ancestor
  <2>2. s[Len(s)] # Rec
    BY <1>1, <1>6 DEF Recursive, Last
  <2>3. ASSUME NEW i \in 1 .. Len(a) PROVE a[i] # Rec /\ (i % 2 = 1 => ~IsVar(a[i]))
    BY <1>1, <1>4, <2>1, <2>2
  <2> QED
    BY <1>1, <1>2, <1>3, <2>1, <2>3 DEF WellFormed
<1> QED
  BY <1>5, <1>6

\* A path as a pattern: the same positions, all of them literals.
LEMMA ConcretePath ==
    ASSUME NEW p \in Seq(STRING)
    PROVE  /\ Concrete(p) \in Seq(Segments) /\ Len(Concrete(p)) = Len(p)
           /\ \A i \in 1 .. Len(p) : Concrete(p)[i] = Lit(p[i]) /\ ~IsVar(Concrete(p)[i])
<1>1. Len(p) \in Nat /\ DOMAIN p = 1 .. Len(p)
  BY LenProperties
<1>2. \A i \in 1 .. Len(p) : Lit(p[i]) \in Segments /\ ~IsVar(Lit(p[i]))
  BY DEF Lit, IsVar, Segments
<1>3. Concrete(p) = [i \in 1 .. Len(p) |-> Lit(p[i])]
  BY <1>1 DEF Concrete
<1>4. Concrete(p) \in [1 .. Len(p) -> Segments]
  BY <1>2, <1>3
<1> QED
  BY <1>1, <1>2, <1>3, <1>4, LenProperties

\* Two patterns that match the same positions of a path agree with each other.
LEMMA MatchesAgree ==
    ASSUME NEW a \in Seq(Segments), NEW b \in Seq(Segments), NEW p \in Seq(STRING),
           Len(a) = Len(b), Len(a) <= Len(p),
           Compatible(a, Concrete(p)), Compatible(b, Concrete(p))
    PROVE  StructurallyOverlap(a, b)
<1> DEFINE c == Concrete(p)
<1>1. /\ c \in Seq(Segments) /\ Len(c) = Len(p) /\ \A i \in 1 .. Len(p) : ~IsVar(c[i])
  BY ConcretePath
<1>2. /\ Len(a) \in Nat /\ Len(p) \in Nat
      /\ DOMAIN a = 1 .. Len(a) /\ DOMAIN b = 1 .. Len(a) /\ DOMAIN c = 1 .. Len(p)
  BY <1>1, LenProperties
<1> HIDE DEF c
<1>3. \A i \in DOMAIN a : PositionsCompatible(a[i], c[i]) /\ PositionsCompatible(b[i], c[i])
  BY <1>2 DEF Compatible, c
<1>4. ASSUME NEW i \in DOMAIN a PROVE PositionsCompatible(a[i], b[i])
  <2>1. ~IsVar(c[i]) /\ PositionsCompatible(a[i], c[i]) /\ PositionsCompatible(b[i], c[i])
    BY <1>1, <1>2, <1>3
  <2> QED
    BY <2>1 DEF PositionsCompatible
<1> QED
  BY <1>2, <1>4 DEF StructurallyOverlap, Compatible

\* Two patterns of the same length with the same segments at the collection
\* positions have the same skeleton, by which the database finds them.
LEMMA SameSkeleton ==
    ASSUME NEW a \in Seq(Segments), NEW b \in Seq(Segments), Len(a) = Len(b),
           \A i \in 1 .. Len(a) : i % 2 = 1 => a[i] = b[i]
    PROVE  LiteralSkeleton(a) = LiteralSkeleton(b)
<1> DEFINE N == (Len(a) + 1) \div 2
<1>1. Len(a) \in Nat
  BY LenProperties
<1>2. \A i \in 1 .. N : 2 * i - 1 \in 1 .. Len(a) /\ (2 * i - 1) % 2 = 1
  BY <1>1
<1>3. \A i \in 1 .. N : a[2 * i - 1] = b[2 * i - 1]
  BY <1>2
<1>4. [i \in 1 .. N |-> a[2 * i - 1]] = [i \in 1 .. N |-> b[2 * i - 1]]
  BY <1>3
<1> QED
  BY <1>4 DEF LiteralSkeleton

\* What a query by skeleton leaves out does not overlap.
LEMMA OverlapSkeleton ==
    ASSUME NEW a, NEW b, WellFormed(a), WellFormed(b), StructurallyOverlap(a.segs, b.segs)
    PROVE  LiteralSkeleton(a.segs) = LiteralSkeleton(b.segs)
<1>1. /\ a.segs \in Seq(Segments) /\ b.segs \in Seq(Segments) /\ Len(a.segs) = Len(b.segs)
      /\ Len(a.segs) \in Nat /\ DOMAIN a.segs = 1 .. Len(a.segs) /\ DOMAIN b.segs = 1 .. Len(a.segs)
  BY LenProperties DEF WellFormed, StructurallyOverlap
<1>2. ASSUME NEW i \in 1 .. Len(a.segs), i % 2 = 1 PROVE a.segs[i] = b.segs[i]
  <2>1. PositionsCompatible(a.segs[i], b.segs[i])
    BY <1>1 DEF StructurallyOverlap, Compatible
  <2>2. ~IsVar(a.segs[i]) /\ ~IsVar(b.segs[i])
    BY <1>1, <1>2 DEF WellFormed
  <2> QED
    BY <2>1, <2>2 DEF PositionsCompatible
<1> QED
  BY <1>1, <1>2, SameSkeleton

\* A pattern that matches a collection has its skeleton.
LEMMA MatchSkeleton ==
    ASSUME NEW t, WellFormed(t), NEW c \in Seq(STRING), BindAncestor(t.segs, c)
    PROVE  Len(t.segs) = Len(Concrete(c)) /\ LiteralSkeleton(t.segs) = LiteralSkeleton(Concrete(c))
<1>1. /\ Concrete(c) \in Seq(Segments) /\ Len(Concrete(c)) = Len(c)
      /\ \A i \in 1 .. Len(c) : ~IsVar(Concrete(c)[i])
  BY ConcretePath
<1>2. t.segs \in Seq(Segments) /\ Len(t.segs) = Len(c)
  BY DEF WellFormed, BindAncestor
<1>3. DOMAIN t.segs = 1 .. Len(c) /\ DOMAIN Concrete(c) = 1 .. Len(c)
  BY <1>1, <1>2, LenProperties
<1>4. ASSUME NEW i \in 1 .. Len(t.segs), i % 2 = 1 PROVE t.segs[i] = Concrete(c)[i]
  <2>1. PositionsCompatible(t.segs[i], Concrete(c)[i])
    BY <1>2, <1>3 DEF BindAncestor, Compatible
  <2>2. ~IsVar(t.segs[i]) /\ ~IsVar(Concrete(c)[i])
    BY <1>1, <1>2, <1>4 DEF WellFormed
  <2> QED
    BY <2>1, <2>2 DEF PositionsCompatible
<1> QED
  BY <1>1, <1>2, <1>4, SameSkeleton

\* Segments are compatible whichever pattern comes first.
LEMMA CompatibleSym ==
    ASSUME NEW a, NEW b
    PROVE  Compatible(a, b) <=> Compatible(b, a)
BY DEF Compatible, PositionsCompatible

\* The relation of two prefixes is ambiguous whichever comes first,
LEMMA ClassifySym ==
    ASSUME NEW a, NEW b, Len(a) \in Nat, Len(b) \in Nat
    PROVE  (ClassifyPrefixRelation(a, b) = "ambiguous") <=> (ClassifyPrefixRelation(b, a) = "ambiguous")
<1>2. Compatible(a, b) <=> Compatible(b, a)
  BY CompatibleSym
<1>3. CASE Len(a) = Len(b)
  BY <1>2, <1>3 DEF ClassifyPrefixRelation, StructurallyOverlap
<1>4. CASE Len(a) < Len(b)
  BY <1>4 DEF ClassifyPrefixRelation
<1>5. CASE Len(b) < Len(a)
  BY <1>5 DEF ClassifyPrefixRelation
<1> QED
  BY <1>3, <1>4, <1>5

\* and with it the clash of two patterns.
LEMMA ClashSym ==
    ASSUME NEW a, NEW b, WellFormed(a), WellFormed(b)
    PROVE  PatternsClash(a, b) <=> PatternsClash(b, a)
<1> DEFINE Reach(t) == IF t.rec THEN t.segs ELSE FixedDepthFullReach(t.segs)
<1>1. ASSUME NEW t, WellFormed(t) PROVE Len(Reach(t)) \in Nat
  <2> DEFINE S == Segments \cup {Var("")}
  <2>1. t.segs \in Seq(S) /\ Var("") \in S
    <3>1. Len(t.segs) \in Nat /\ t.segs \in [1 .. Len(t.segs) -> Segments]
      BY <1>1, LenProperties DEF WellFormed
    <3>2. t.segs \in [1 .. Len(t.segs) -> S]
      BY <3>1
    <3> QED
      BY <3>1, <3>2, SeqDef
  <2> HIDE DEF S
  <2>2. Append(t.segs, Var("")) \in Seq(S)
    BY <2>1, AppendProperties
  <2> QED
    BY <2>1, <2>2, LenProperties DEF FixedDepthFullReach
<1>2. Len(Reach(a)) \in Nat /\ Len(Reach(b)) \in Nat
  BY <1>1
<1>3. (ClassifyPrefixRelation(Reach(a), Reach(b)) = "ambiguous")
        <=> (ClassifyPrefixRelation(Reach(b), Reach(a)) = "ambiguous")
  BY <1>2, ClassifySym
<1>4. StructurallyOverlap(a.segs, b.segs) <=> StructurallyOverlap(b.segs, a.segs)
  BY CompatibleSym DEF StructurallyOverlap
<1> QED
  BY <1>3, <1>4 DEF PatternsClash

\* Two fixed patterns that match a collection clash,
LEMMA FixedMatchesClash ==
    ASSUME NEW a, NEW b, WellFormed(a), WellFormed(b), ~a.rec, ~b.rec, NEW c \in Seq(STRING),
           BindAncestor(a.segs, c), BindAncestor(b.segs, c)
    PROVE  PatternsClash(a, b)
<1>1. /\ a.segs \in Seq(Segments) /\ b.segs \in Seq(Segments)
      /\ Len(a.segs) = Len(b.segs) /\ Len(a.segs) <= Len(c)
      /\ Compatible(a.segs, Concrete(c)) /\ Compatible(b.segs, Concrete(c))
  BY LenProperties DEF WellFormed, BindAncestor
<1>2. StructurallyOverlap(a.segs, b.segs)
  BY <1>1, MatchesAgree
<1> QED
  BY <1>2 DEF PatternsClash

\* and so do two recursive patterns of the same depth that match a path.
LEMMA RecursiveMatchesClash ==
    ASSUME NEW a, NEW b, WellFormed(a), WellFormed(b), a.rec, b.rec, NEW p \in Seq(STRING),
           Len(a.segs) = Len(b.segs),
           BindRecursivePrefix(a.segs, p), BindRecursivePrefix(b.segs, p)
    PROVE  PatternsClash(a, b)
<1>1. /\ a.segs \in Seq(Segments) /\ b.segs \in Seq(Segments)
      /\ Len(a.segs) = Len(b.segs) /\ Len(a.segs) <= Len(p)
      /\ Compatible(a.segs, Concrete(p)) /\ Compatible(b.segs, Concrete(p))
  BY DEF WellFormed, BindRecursivePrefix
<1>2. StructurallyOverlap(a.segs, b.segs)
  BY <1>1, MatchesAgree
<1>3. ClassifyPrefixRelation(a.segs, b.segs) = "ambiguous"
  BY <1>2 DEF ClassifyPrefixRelation
<1> QED
  BY <1>3 DEF PatternsClash

\* Patterns that do not clash never leave a path with two that rule it.
LEMMA AtMostOneRules ==
    ASSUME NEW rows, \A row \in rows : WellFormed(row),
           \A a, b \in rows : a # b => ~PatternsClash(a, b),
           NEW p \in Seq(STRING), p # << >>
    PROVE  Cardinality(Ruling(rows, p)) <= 1
<1> DEFINE S == Ruling(rows, p)
           c == Collection(p)
           F == {row \in rows : ~row.rec /\ BindAncestor(row.segs, c)}
           R == {row \in rows : row.rec /\ BindRecursivePrefix(row.segs, p)}
<1>1. c \in Seq(STRING)
  BY FrontOf DEF Collection
<1>2. S = IF F # {} THEN F ELSE Longest(R)
  BY DEF Ruling
<1> HIDE DEF S, c
<1>3. ASSUME NEW a \in F, NEW b \in F PROVE a = b
  BY <1>1, FixedMatchesClash
<1>4. ASSUME NEW a \in Longest(R), NEW b \in Longest(R) PROVE a = b
  <2>1. a \in R /\ b \in R /\ Len(a.segs) <= Len(b.segs) /\ Len(b.segs) <= Len(a.segs)
    BY DEF Longest
  <2>2. Len(a.segs) \in Nat /\ Len(b.segs) \in Nat
    BY <2>1, LenProperties DEF WellFormed
  <2>3. Len(a.segs) = Len(b.segs)
    BY <2>1, <2>2
  <2>4. PatternsClash(a, b)
    <3>1. /\ WellFormed(a) /\ WellFormed(b) /\ a.rec /\ b.rec
          /\ BindRecursivePrefix(a.segs, p) /\ BindRecursivePrefix(b.segs, p)
      BY <2>1
    <3> QED
      BY <2>3, <3>1, RecursiveMatchesClash
  <2> QED
    BY <2>1, <2>4
<1>5. \A a, b \in S : a = b
  BY <1>2, <1>3, <1>4
<1>6. CASE S = {}
  BY <1>6, FS_EmptySet DEF S
<1>7. CASE S # {}
  <2>1. PICK x \in S : TRUE
    BY <1>7
  <2>2. S = {x}
    BY <1>5, <2>1
  <2> QED
    <3>1. Cardinality(S) = 1
      BY <2>2, FS_Singleton
    <3> QED
      BY <3>1 DEF S
<1> QED
  BY <1>6, <1>7

-----------------------------------------------------------------------------
(* What the tables and the imports hold                                    *)

\* What import_rules_file goes through: what the blocks of a file become, and
\* the rows it writes.
GoodRows == {DecomposeBlock(b) : b \in {x \in Blocks : BlockAccepted(x)}}

TargetsOf(file) == [k \in DOMAIN file |-> DecomposeBlock(file[k])]

Values == {{}} \cup {{c} : c \in Conds} \cup {t.read : t \in GoodRows} \cup {t.write : t \in GoodRows}

IsPut(put) ==
    /\ put.table \in {"read", "write", "pattern"}
    /\ put.table = "pattern" => /\ put.value \subseteq GoodRows /\ IsFiniteSet(put.value)
                                /\ \A t \in put.value : t.segs = put.key
    /\ put.table # "pattern" => put.key \in RuleKeys /\ put.value \in Values

Accepted(file) ==
    /\ file \in Files
    /\ \A k \in DOMAIN file : BlockAccepted(file[k])
    /\ ~IntraFileOverlap(TargetsOf(file))

\* Every row that an import can store is well-formed.
LEMMA GoodRowsWellFormed ==
    ASSUME NEW t \in GoodRows
    PROVE  WellFormed(t)
BY DecomposedWellFormed DEF GoodRows

\* The targets of a file that decompose accepts.
LEMMA TargetsFit ==
    ASSUME NEW file, Accepted(file)
    PROVE  /\ TargetsOf(file) \in Seq(GoodRows)
           /\ Len(TargetsOf(file)) = Len(file) /\ DOMAIN TargetsOf(file) = 1 .. Len(file)
           /\ \A k \in 1 .. Len(file) : TargetsOf(file)[k] = DecomposeBlock(file[k])
<1>1. file \in Seq(Blocks)
  BY FilesAssumption DEF Accepted
<1>2. /\ Len(file) \in Nat /\ DOMAIN file = 1 .. Len(file)
      /\ \A k \in 1 .. Len(file) : file[k] \in Blocks
  BY <1>1, LenProperties, ElementOfSeq
<1>3. \A k \in 1 .. Len(file) : DecomposeBlock(file[k]) \in GoodRows
  BY <1>2 DEF Accepted, GoodRows
<1>4. TargetsOf(file) = [k \in 1 .. Len(file) |-> DecomposeBlock(file[k])]
  BY <1>2 DEF TargetsOf
<1>5. TargetsOf(file) \in [1 .. Len(file) -> GoodRows]
  BY <1>3, <1>4
<1>6. TargetsOf(file) \in Seq(GoodRows)
  BY <1>2, <1>5, SeqDef
<1> QED
  BY <1>2, <1>4, <1>6, LenProperties

\* A block that becomes the rule of a collection names it in its first segment.
LEMMA NamedCollection ==
    ASSUME NEW file, Accepted(file), NEW k \in 1 .. Len(file),
           SingleCollection(DecomposeBlock(file[k]))
    PROVE  <<DecomposeBlock(file[k]).segs[1][2]>> \in RuleKeys
<1> DEFINE b == file[k]
           s == b.segs
           t == DecomposeBlock(b)
<1>1. file \in Seq(Blocks) /\ file \in Files
  BY FilesAssumption DEF Accepted
<1>2. b \in Blocks /\ BlockAccepted(b) /\ b \in Range(file)
  BY <1>1, LenProperties, ElementOfSeq DEF Accepted, Range
<1>3. b \in UNION {Range(f) : f \in Files}
  BY <1>1, <1>2
<1>4. s \in Seq(Segments) /\ s # << >> /\ Len(s) \in Nat /\ Len(s) >= 1
  BY <1>2, EmptySeq DEF Blocks, BlockAccepted
<1>5. t.segs = Ancestor(b) /\ Len(t.segs) = 1 /\ WellFormed(t)
  BY <1>2, DecomposedWellFormed DEF SingleCollection, DecomposeBlock
<1>6. t.segs[1] = s[1]
  <2>1. CASE Ancestor(b) = s
    BY <1>5, <2>1
  <2>2. CASE Ancestor(b) = Front(s)
    BY <1>4, <1>5, <2>2, FrontOf
  <2> QED
    BY <2>1, <2>2 DEF Ancestor
<1>7. t.segs[1] # Rec /\ ~IsVar(t.segs[1]) /\ t.segs[1] \in Segments
  <2>1. 1 \in 1 .. Len(t.segs) /\ 1 % 2 = 1
    BY <1>5
  <2> QED
    BY <1>5, <2>1, ElementOfSeq DEF WellFormed
<1>8. s[1][1] = "lit"
  BY <1>6, <1>7 DEF Segments, IsVar
<1>9. <<s[1][2]>> \in Named
  BY <1>3, <1>4, <1>8 DEF Named
<1> QED
  BY <1>6, <1>9 DEF RuleKeys

\* The rows that an import writes, in order.
LEMMA PutsFit ==
    ASSUME NEW file, Accepted(file), NEW targets, targets = TargetsOf(file)
    PROVE  /\ Len(PutsOf(targets)) = 2 * Len(targets) /\ DOMAIN PutsOf(targets) = 1 .. 2 * Len(targets)
           /\ Len(targets) \in Nat
           /\ \A n \in 1 .. 2 * Len(targets) : IsPut(PutsOf(targets)[n])
           /\ \A n \in 1 .. 2 * Len(targets) :
                 PutsOf(targets)[n].table = "pattern" /\ PutsOf(targets)[n].value # {} =>
                    \E j \in 1 .. Len(targets) : /\ ~SingleCollection(targets[j])
                                                 /\ PutsOf(targets)[n].value = {targets[j]}
<1> DEFINE N == Len(targets)
           puts == PutsOf(targets)
<1>1. /\ targets \in Seq(GoodRows) /\ N = Len(file) /\ N \in Nat
      /\ \A k \in 1 .. N : targets[k] = DecomposeBlock(file[k]) /\ targets[k] \in GoodRows
  BY TargetsFit, LenProperties, ElementOfSeq
<1>2. DOMAIN puts = 1 .. 2 * N /\ Len(puts) = 2 * N
  <2>1. DOMAIN puts = 1 .. 2 * N /\ 2 * N \in Nat
    BY <1>1 DEF PutsOf
  <2>2. puts = [n \in 1 .. 2 * N |-> puts[n]]
    BY DEF PutsOf
  <2>3. puts \in [1 .. 2 * N -> {puts[n] : n \in 1 .. 2 * N}]
    BY <2>2
  <2>4. puts \in Seq({puts[n] : n \in 1 .. 2 * N})
    BY <2>1, <2>3, SeqDef
  <2> QED
    BY <2>1, <2>4, LenProperties
<1>3. ASSUME NEW n \in 1 .. 2 * N
      PROVE  /\ IsPut(puts[n])
             /\ puts[n].table = "pattern" /\ puts[n].value # {} =>
                   \E j \in 1 .. N : ~SingleCollection(targets[j]) /\ puts[n].value = {targets[j]}
  <2> DEFINE j == (n + 1) \div 2
             t == targets[j]
             first == n % 2 = 1
  <2>1. j \in 1 .. N
    BY <1>1
  <2> HIDE DEF j
  <2>2. t \in GoodRows /\ t = DecomposeBlock(file[j])
    BY <1>1, <2>1
  <2> HIDE DEF t
  <2>3. CASE SingleCollection(t)
    <3>1. puts[n] = [table |-> IF first THEN "read" ELSE "write", key |-> <<t.segs[1][2]>>,
                     value |-> IF first THEN t.read ELSE t.write]
      BY <2>3 DEF PutsOf, t, j
    <3>2. <<t.segs[1][2]>> \in RuleKeys
      BY <1>1, <2>1, <2>2, <2>3, NamedCollection
    <3>3. t.read \in Values /\ t.write \in Values
      BY <2>2 DEF Values
    <3> QED
      BY <3>1, <3>2, <3>3 DEF IsPut
  <2>4. CASE ~SingleCollection(t)
    <3>1. puts[n] = [table |-> "pattern", key |-> t.segs, value |-> IF first THEN {t} ELSE {}]
      BY <2>4 DEF PutsOf, t, j
    <3>2. IsFiniteSet({}) /\ IsFiniteSet({t})
      BY FS_EmptySet, FS_Singleton
    <3>3. IsPut(puts[n])
      BY <2>2, <3>1, <3>2 DEF IsPut
    <3>4. puts[n].value # {} => puts[n].value = {t}
      BY <3>1
    <3> QED
      BY <2>1, <2>4, <3>3, <3>4 DEF t
  <2> QED
    BY <2>3, <2>4
<1> QED
  BY <1>1, <1>2, <1>3

-----------------------------------------------------------------------------
(* What steps leave alone                                                  *)

Owners == Users \cup {Absent}

\* A request does one of these things.
LEMMA ServeCases ==
    ASSUME NEW r \in Requests, Serve(r)
    PROVE  \/ \E kind \in Handlers, P \in SUBSET Docs, u \in Owners, o \in Owners, f \in SUBSET Users :
                 Enter(r, kind, P, u, o, f)
           \/ \E P \in SUBSET Docs, o \in Owners : WriteMessage(r, P, o)
           \/ StreamEnds(r) \/ Scan(r) \/ FilterList(r) \/ \E p \in Docs : Lookup(r, p)
           \/ RouteFixed(r) \/ RouteRecursive(r) \/ Fetch(r) \/ Check(r) \/ CheckQuery(r)
           \/ Answer(r) \/ ApplyCreate(r) \/ ApplyUpdate(r) \/ ApplyDelete(r)
           \/ ApplyCommit(r) \/ ApplyBatch(r) \/ ApplyNext(r) \/ NothingToCheck(r)
<1> DEFINE Enters == \E kind \in Handlers, P \in SUBSET Docs, u \in Owners, o \in Owners, f \in SUBSET Users :
                        Enter(r, kind, P, u, o, f)
<1>0. /\ \A p \in Docs : {p} \in SUBSET Docs
      /\ \A c : {p \in Docs : Collection(p) = c} \in SUBSET Docs
      /\ \A c : {p \in Docs : Last(Collection(p)) = c[1]} \in SUBSET Docs
      /\ Absent \in Owners /\ Users \subseteq Owners /\ {} \in SUBSET Users
      /\ Batches \subseteq SUBSET Docs
      /\ {{}} \cup {{o} : o \in Users} \subseteq SUBSET Users
  BY DocsAssumption DEF Owners
<1>h. /\ \A k \in {"get", "create", "update", "delete", "list", "batchGet", "query", "aggregate",
                   "group", "commit", "batchWrite", "stream"} : k \in Handlers
  BY DEF Handlers
<1> HIDE DEF Enters
<1>e. ASSUME NEW kind \in Handlers, NEW P \in SUBSET Docs, NEW u \in Owners, NEW o \in Owners,
             NEW f \in SUBSET Users, Enter(r, kind, P, u, o, f)
      PROVE  Enters
  BY <1>e DEF Enters
<1>1. ASSUME NEW p \in Docs, NEW u \in Users \cup {Absent},
             \/ GetDocument(r, p, u) \/ DeleteDocument(r, p, u)
             \/ \E o \in Users : CreateDocument(r, p, u, o) \/ UpdateDocument(r, p, u, o)
      PROVE  Enters
  BY <1>0, <1>h, <1>e, <1>1 DEF GetDocument, DeleteDocument, CreateDocument, UpdateDocument, Owners
<1>2. ASSUME NEW P \in Batches, NEW u \in Users \cup {Absent},
             \/ BatchGetDocuments(r, P, u)
             \/ \E o \in Users \cup {Absent} : Commit(r, P, u, o) \/ BatchWrite(r, P, u, o)
      PROVE  Enters
  BY <1>0, <1>h, <1>e, <1>2 DEF BatchGetDocuments, Commit, BatchWrite, Owners
<1>3. ASSUME NEW u \in Users \cup {Absent}, Write(r, u) PROVE Enters
  BY <1>0, <1>h, <1>e, <1>3 DEF Write, Owners
<1>4. ASSUME NEW c, NEW u \in Users \cup {Absent},
             \/ ListDocuments(r, c, u)
             \/ \E f \in {{}} \cup {{o} : o \in Users} :
                   RunQuery(r, c, u, f) \/ RunAggregationQuery(r, c, u, f)
      PROVE  Enters
  BY <1>0, <1>h, <1>e, <1>4 DEF ListDocuments, RunQuery, RunAggregationQuery, Owners
<1>5. ASSUME NEW c, NEW u \in Users \cup {Absent}, NEW f \in {{}} \cup {{o} : o \in Users},
             RunGroupQuery(r, c, u, f)
      PROVE  Enters
  BY <1>0, <1>h, <1>e, <1>5 DEF RunGroupQuery, Owners
<1>6. AnswerRead(r) \/ AnswerQuery(r) => Answer(r)
  BY DEF AnswerRead, AnswerQuery
<1>7. (\E P \in Batches, o \in Users \cup {Absent} : WriteMessage(r, P, o))
        => \E P \in SUBSET Docs, o \in Owners : WriteMessage(r, P, o)
  BY <1>0 DEF Owners
<1> QED
  BY <1>1, <1>2, <1>3, <1>4, <1>5, <1>6, <1>7 DEF Serve, Enters

Binds == {<< >>} \cup {Bindings(t.segs, p) : t \in GoodRows, p \in Docs}
Caches == UNION {[D -> Values] : D \in SUBSET Collections}
Seen == UNION {[D -> Owners] : D \in SUBSET Docs}

Reqs == [kind : Handlers \cup {"none"}, user : Owners, owner : Owners, todo : SUBSET Docs,
         path : Docs \cup {<< >>}, rule : Values, routed : BOOLEAN, bind : Binds, doc : Owners,
         cache : Caches, seen : Seen, granted : SUBSET Docs, filter : SUBSET Users, sent : Nat]

Jobs == [file : Seq(Blocks), targets : Seq(GoodRows), n : Nat]

Places == {"idle", "fixed", "get", "put", "open", "scan", "filter", "lookup", "route", "recursive",
           "fetch", "check", "act", "done"}

\* An import at work is about an accepted file, and knows where it is in it.
CallFits(i) ==
    /\ at[i] \in {"idle", "fixed", "get", "put", "done"}
    /\ at[i] \in {"fixed", "get", "put"} =>
          Accepted(job[i].file) /\ job[i].targets = TargetsOf(job[i].file)
    /\ at[i] = "fixed" => job[i].n \in 1 .. Len(job[i].targets) + 1
    /\ at[i] \in {"get", "put"} => job[i].n \in 1 .. Len(Puts(i)) /\ Puts(i)[job[i].n].value # {}

\* A request that looks at a document knows which.
RequestFits(r) ==
    /\ at[r] \in {"idle", "open", "scan", "filter", "lookup", "act", "done"} \cup Looking
    /\ at[r] \in Looking => req[r].path \in req[r].todo /\ req[r].kind \notin QueryKinds

TypeOK ==
    /\ exact \in [Tables -> [RuleKeys -> Values]]
    /\ patterns \subseteq GoodRows /\ IsFiniteSet(patterns)
    /\ docs \in [Docs -> Owners]
    /\ at \in [Procs -> Places]
    /\ job \in [Importers -> Jobs]
    /\ req \in [Requests -> Reqs]
    /\ faults \in Nat /\ raced \subseteq Procs
    /\ \A i \in Importers : CallFits(i)
    /\ \A r \in Requests : RequestFits(r)

\* Request r takes a step: the locals of the others, and the rules, stay.
Moves(r) ==
    /\ UNCHANGED <<exact, patterns, job, faults, overlapped>>
    /\ at' \in [Procs -> Places] /\ \A x \in Procs \ {r} : at'[x] = at[x]
    /\ req' \in [Requests -> Reqs] /\ \A x \in Requests \ {r} : req'[x] = req[x]

\* The initial locals of a request.
LEMMA NoReqType == NoReq \in Reqs
<1>1. {} \in Values /\ << >> \in Binds
  BY DEF Values, Binds
<1>2. << >> \in Caches
  <2>1. << >> \in [{} -> Values] /\ {} \in SUBSET Collections
    OBVIOUS
  <2> QED
    BY <2>1 DEF Caches
<1>3. << >> \in Seen
  <2>1. << >> \in [{} -> Owners] /\ {} \in SUBSET Docs
    OBVIOUS
  <2> QED
    BY <2>1 DEF Seen
<1> QED
  BY <1>1, <1>2, <1>3 DEF NoReq, Reqs, Owners

\* A step that sets a request's place and locals.
LEMMA SetRequest ==
    ASSUME TypeOK, NEW r \in Requests, NEW s \in Places, NEW q \in Reqs,
           at' = [at EXCEPT ![r] = s], req' = [req EXCEPT ![r] = q],
           UNCHANGED <<exact, patterns, job, faults, overlapped>>
    PROVE  Moves(r) /\ at'[r] = s /\ req'[r] = q
<1>1. at \in [Procs -> Places] /\ req \in [Requests -> Reqs] /\ r \in Procs
  BY DEF TypeOK, Procs
<1> QED
  BY <1>1 DEF Moves

\* A request that ends.
LEMMA EndRequestStep ==
    ASSUME TypeOK, NEW r \in Requests, EndRequest(r), UNCHANGED <<exact, patterns, job, faults, overlapped>>
    PROVE  Moves(r) /\ at'[r] = "done" /\ req'[r] = NoReq
<1>1. at' = [at EXCEPT ![r] = "done"] /\ req' = [req EXCEPT ![r] = NoReq]
  BY DEF EndRequest
<1>2. "done" \in Places
  BY DEF Places
<1> QED
  BY <1>1, <1>2, NoReqType, SetRequest

Quiet == docs' = docs /\ raced' = raced

\* What a request was called with does not change.
SameCall(r) ==
    /\ req'[r].kind = req[r].kind /\ req'[r].user = req[r].user
    /\ req'[r].owner = req[r].owner /\ req'[r].filter = req[r].filter

\* A request arrives.
LEMMA EnterStep ==
    ASSUME TypeOK, NEW r \in Requests, NEW kind \in Handlers, NEW P \in SUBSET Docs, NEW u \in Owners,
           NEW o \in Owners, NEW f \in SUBSET Users, Enter(r, kind, P, u, o, f)
    PROVE  /\ Moves(r) /\ Quiet
           /\ at[r] = "idle" /\ at'[r] \in {"open", "scan", "lookup"}
           /\ at'[r] = "scan" => kind = "list"
           /\ at'[r] = "open" => kind = "stream"
           /\ at'[r] = "lookup" => kind # "list"
           /\ req'[r].kind = kind /\ req'[r].granted = {} /\ req'[r].cache = << >> /\ req'[r].todo = P
<1> DEFINE q == [NoReq EXCEPT !.kind = kind, !.user = u, !.owner = o, !.todo = P, !.filter = f]
           s == CASE kind = "stream" -> "open" [] kind = "list" -> "scan" [] OTHER -> "lookup"
<1>1. q \in Reqs
  BY NoReqType DEF Reqs
<1>2. q.kind = kind /\ q.granted = {} /\ q.cache = << >> /\ q.todo = P
  BY DEF NoReq
<1>3. /\ s \in {"open", "scan", "lookup"} /\ (s = "scan" => kind = "list")
      /\ s = "open" => kind = "stream"
      /\ s = "lookup" => kind # "list"
  OBVIOUS
<1>4. /\ at' = [at EXCEPT ![r] = s] /\ req' = [req EXCEPT ![r] = q] /\ at[r] = "idle" /\ Quiet
      /\ UNCHANGED <<exact, patterns, job, faults, overlapped>>
  BY DEF Enter, stores, Quiet
<1> HIDE DEF q, s
<1>5. s \in Places
  BY <1>3 DEF Places
<1>6. Moves(r) /\ at'[r] = s /\ req'[r] = q
  BY <1>1, <1>4, <1>5, SetRequest
<1> QED
  BY <1>2, <1>3, <1>4, <1>6

\* A message of a Write stream arrives.
LEMMA WriteMessageStep ==
    ASSUME TypeOK, NEW r \in Requests, NEW P \in SUBSET Docs, NEW o \in Owners, WriteMessage(r, P, o)
    PROVE  /\ Moves(r) /\ Quiet /\ at[r] = "open" /\ at'[r] = "lookup"
           /\ req'[r].kind = req[r].kind /\ req'[r].granted = {} /\ req'[r].todo = P
           /\ req'[r].cache = req[r].cache
<1> DEFINE q == [req[r] EXCEPT !.todo = P, !.owner = o, !.sent = @ + 1, !.granted = {}]
<1>0. req[r] \in Reqs /\ req \in [Requests -> Reqs]
  BY DEF TypeOK
<1>1. q \in Reqs
  <2>1. req[r].sent + 1 \in Nat /\ {} \in SUBSET Docs
    BY <1>0 DEF Reqs
  <2> QED
    BY <1>0, <2>1 DEF Reqs
<1>2. q.kind = req[r].kind /\ q.granted = {} /\ q.todo = P /\ q.cache = req[r].cache
  BY <1>0 DEF Reqs
<1>3. /\ at' = [at EXCEPT ![r] = "lookup"] /\ req' = [req EXCEPT ![r] = q] /\ at[r] = "open" /\ Quiet
      /\ UNCHANGED <<exact, patterns, job, faults, overlapped>>
  BY <1>0 DEF WriteMessage, stores, Quiet
<1> HIDE DEF q
<1>5. Moves(r) /\ at'[r] = "lookup" /\ req'[r] = q
  BY <1>1, <1>3, SetRequest DEF Places
<1> QED
  BY <1>2, <1>3, <1>5

\* ListDocuments reads its documents,
LEMMA ScanStep ==
    ASSUME TypeOK, NEW r \in Requests, Scan(r)
    PROVE  /\ Moves(r) /\ Quiet /\ SameCall(r) /\ at[r] = "scan" /\ at'[r] = "filter"
           /\ req'[r].seen = [p \in req[r].todo |-> docs[p]] /\ req'[r].todo = req[r].todo
<1> DEFINE S == [p \in req[r].todo |-> docs[p]]
           q == [req[r] EXCEPT !.seen = S]
<1>0. req[r] \in Reqs /\ req \in [Requests -> Reqs]
  BY DEF TypeOK
<1>1. S \in Seen
  <2>1. req[r].todo \in SUBSET Docs
    BY <1>0 DEF Reqs
  <2>2. S \in [req[r].todo -> Owners]
    BY <2>1 DEF TypeOK
  <2> QED
    BY <2>1, <2>2 DEF Seen
<1> HIDE DEF S
<1>2. q \in Reqs
  BY <1>0, <1>1 DEF Reqs
<1>3. /\ q.kind = req[r].kind /\ q.user = req[r].user /\ q.owner = req[r].owner
      /\ q.filter = req[r].filter /\ q.seen = S /\ q.todo = req[r].todo
  BY <1>0 DEF Reqs
<1>4. /\ at' = [at EXCEPT ![r] = "filter"] /\ req' = [req EXCEPT ![r] = q] /\ at[r] = "scan" /\ Quiet
      /\ UNCHANGED <<exact, patterns, job, faults, overlapped>>
  BY <1>0 DEF Scan, stores, Quiet, S
<1> HIDE DEF q
<1>5. Moves(r) /\ at'[r] = "filter" /\ req'[r] = q
  BY <1>2, <1>4, SetRequest DEF Places
<1> QED
  BY <1>3, <1>4, <1>5 DEF SameCall, S

\* and filters them.
LEMMA FilterStep ==
    ASSUME TypeOK, NEW r \in Requests, FilterList(r)
    PROVE  /\ Moves(r) /\ Quiet /\ SameCall(r) /\ at[r] = "filter" /\ at'[r] = "act"
           /\ req'[r].granted \subseteq req[r].todo
           /\ \A p \in req'[r].granted : \A c \in RuleOf(r, p) :
                 Evaluate(c, [user |-> req[r].user, doc |-> req[r].seen[p], owner |-> Absent,
                              bind |-> << >>, leaf |-> Absent, member |-> FALSE])
<1> DEFINE x(p) == [user |-> req[r].user, doc |-> req[r].seen[p], owner |-> Absent,
                    bind |-> << >>, leaf |-> Absent, member |-> FALSE]
           G == {p \in req[r].todo : /\ req[r].seen[p] # Absent
                                     /\ \A c \in RuleOf(r, p) : Evaluate(c, x(p))}
           q == [req[r] EXCEPT !.granted = G]
<1>0. req[r] \in Reqs /\ req \in [Requests -> Reqs]
  BY DEF TypeOK
<1>1. G \in SUBSET Docs /\ G \subseteq req[r].todo
  BY <1>0 DEF Reqs
<1>g. \A p \in G : \A c \in RuleOf(r, p) : Evaluate(c, x(p))
  OBVIOUS
<1>4. /\ at' = [at EXCEPT ![r] = "act"] /\ req' = [req EXCEPT ![r] = q] /\ at[r] = "filter" /\ Quiet
      /\ UNCHANGED <<exact, patterns, job, faults, overlapped>>
  BY <1>0 DEF FilterList, stores, Quiet
<1> HIDE DEF G
<1>2. q \in Reqs
  BY <1>0, <1>1 DEF Reqs
<1>3. /\ q.kind = req[r].kind /\ q.user = req[r].user /\ q.owner = req[r].owner
      /\ q.filter = req[r].filter /\ q.granted = G
  BY <1>0 DEF Reqs
<1> HIDE DEF q
<1>5. Moves(r) /\ at'[r] = "act" /\ req'[r] = q
  BY <1>2, <1>4, SetRequest DEF Places
<1> QED
  BY <1>1, <1>g, <1>3, <1>4, <1>5 DEF SameCall

\* The rule that a handler looks up is one that is stored.
LEMMA RuleOfType ==
    ASSUME TypeOK, NEW r \in Requests, NEW p \in Docs
    PROVE  RuleOf(r, p) \in Values
<1>1. Collection(p) \in RuleKeys /\ <<Last(Collection(p))>> \in RuleKeys
  BY DEF RuleKeys, Collections, Groups
<1>2. \A t \in Tables : \A c \in RuleKeys : exact[t][c] \in Values
  BY DEF TypeOK
<1>3. {"read", "write", "group"} \subseteq Tables
  BY DEF Tables
<1> QED
  BY <1>1, <1>2, <1>3 DEF RuleOf, GetAccessRule, GetWriteAccessRule, GetGroupAccessRule

\* What a lookup finds: the stored rule, or the one in batchGet's cache.
Found(r, p) ==
    IF req[r].kind = "batchGet" /\ Collection(p) \in DOMAIN req[r].cache
    THEN req[r].cache[Collection(p)] ELSE RuleOf(r, p)

\* A request looks up the rule of a document.
LEMMA LookupStep ==
    ASSUME TypeOK, NEW r \in Requests, NEW p \in Docs, Lookup(r, p)
    PROVE  /\ Moves(r) /\ Quiet /\ SameCall(r) /\ at[r] = "lookup"
           /\ req[r].kind \notin QueryKinds /\ p \in req[r].todo
           /\ req'[r].path = p /\ req'[r].rule = Found(r, p) /\ ~req'[r].routed /\ req'[r].bind = << >>
           /\ req'[r].todo = req[r].todo /\ req'[r].granted = req[r].granted
           /\ req[r].kind # "batchGet" => req'[r].cache = req[r].cache
           /\ req[r].kind = "batchGet" =>
                \A d \in DOMAIN req'[r].cache :
                   \/ d \in DOMAIN req[r].cache /\ req'[r].cache[d] = req[r].cache[d]
                   \/ d = Collection(p) /\ req'[r].cache[d] = Found(r, p)
           /\ at'[r] = CASE req[r].kind = "get" -> "fetch"
                         [] Found(r, p) = {} /\ req[r].kind \in {"create", "update", "delete"} -> "route"
                         [] OTHER -> RuleKnown(r, Found(r, p))
<1> DEFINE c == Collection(p)
           F == Found(r, p)
           old == req[r].cache
           new == [d \in DOMAIN old \cup {c} |-> IF d = c THEN F ELSE old[d]]
           K == IF req[r].kind = "batchGet" THEN new ELSE old
           s == CASE req[r].kind = "get" -> "fetch"
                  [] F = {} /\ req[r].kind \in {"create", "update", "delete"} -> "route"
                  [] OTHER -> RuleKnown(r, F)
           q == [req[r] EXCEPT !.path = p, !.rule = F, !.routed = FALSE, !.bind = << >>, !.cache = K]
<1>0. req[r] \in Reqs /\ req \in [Requests -> Reqs]
  BY DEF TypeOK
<1>1. PICK D \in SUBSET Collections : old \in [D -> Values]
  BY <1>0 DEF Reqs, Caches
<1>2. F \in Values
  BY <1>1, RuleOfType DEF Found
<1>3. c \in Collections
  BY DEF Collections
<1>4. at[r] = "lookup" /\ p \in req[r].todo /\ req[r].kind \notin QueryKinds /\ Quiet
  BY DEF Lookup, stores, Quiet
<1>5. /\ at' = [at EXCEPT ![r] = s] /\ req' = [req EXCEPT ![r] = q]
      /\ UNCHANGED <<exact, patterns, job, faults, overlapped>>
  BY <1>0 DEF Lookup, stores, Found
<1> HIDE DEF F, old
<1>6. K \in Caches
  <2>1. new \in [D \cup {c} -> Values]
    BY <1>1, <1>2
  <2>2. D \cup {c} \in SUBSET Collections
    BY <1>3
  <2>3. new \in Caches
    BY <2>1, <2>2 DEF Caches
  <2>4. old \in Caches
    BY <1>1 DEF Caches
  <2> QED
    BY <2>3, <2>4
<1>7. /\ req[r].kind # "batchGet" => K = old
      /\ req[r].kind = "batchGet" =>
           \A d \in DOMAIN K : \/ d \in DOMAIN old /\ K[d] = old[d]
                               \/ d = c /\ K[d] = F
  OBVIOUS
<1> HIDE DEF K
<1>8. q \in Reqs
  <2>1. << >> \in Binds
    BY DEF Binds
  <2> QED
    BY <1>0, <1>2, <1>6, <2>1 DEF Reqs
<1>9. /\ q.kind = req[r].kind /\ q.user = req[r].user /\ q.owner = req[r].owner
      /\ q.filter = req[r].filter /\ q.path = p /\ q.rule = F /\ ~q.routed /\ q.bind = << >>
      /\ q.todo = req[r].todo /\ q.granted = req[r].granted /\ q.cache = K
  BY <1>0 DEF Reqs
<1>10. s \in Places
  BY DEF RuleKnown, Places
<1> HIDE DEF q, s
<1>11. Moves(r) /\ at'[r] = s /\ req'[r] = q
  BY <1>5, <1>8, <1>10, SetRequest
<1> QED
  BY <1>4, <1>7, <1>9, <1>11 DEF SameCall, s, F, old

\* A set of stored patterns of which routing takes the only element.
LEMMA OnlyRow ==
    ASSUME TypeOK, NEW rows, rows \subseteq patterns, Cardinality(rows) = 1
    PROVE  rows = {TheRow(rows)} /\ TheRow(rows) \in GoodRows
<1>1. IsFiniteSet(rows)
  BY FS_Subset DEF TypeOK
<1>2. PICK x : rows = {x}
  BY <1>1, FS_Singleton
<1>3. TheRow(rows) \in rows
  BY <1>2 DEF TheRow
<1> QED
  BY <1>2, <1>3 DEF TypeOK

\* What a request finds out about its rule leaves the rest of its locals alone.
SameSearch(r) ==
    /\ SameCall(r)
    /\ req'[r].path = req[r].path /\ req'[r].todo = req[r].todo
    /\ req'[r].granted = req[r].granted /\ req'[r].cache = req[r].cache

\* Routing takes a row for the document of request r.
RowTaken(r, row) ==
    LET rule == IF req[r].kind = "get" THEN row.read ELSE row.write IN
    /\ SameSearch(r) /\ req'[r].doc = req[r].doc
    /\ req'[r].rule = rule /\ req'[r].routed
    /\ req'[r].bind = Bindings(row.segs, req[r].path)
    /\ at'[r] = IF req[r].kind = "get" THEN "check" ELSE RuleKnown(r, rule)

\* Routing has found the pattern that rules a document.
LEMMA RowedStep ==
    ASSUME TypeOK, NEW r \in Requests, NEW rows, rows \subseteq patterns, Cardinality(rows) = 1,
           req[r].path \in Docs, Rowed(r, rows), UNCHANGED <<exact, patterns, job, faults, overlapped>>
    PROVE  Moves(r) /\ RowTaken(r, TheRow(rows))
<1> DEFINE row == TheRow(rows)
           rule == IF req[r].kind = "get" THEN row.read ELSE row.write
           B == Bindings(row.segs, req[r].path)
           s == IF req[r].kind = "get" THEN "check" ELSE RuleKnown(r, rule)
           q == [req[r] EXCEPT !.rule = rule, !.routed = TRUE, !.bind = B]
<1>0. req[r] \in Reqs /\ req \in [Requests -> Reqs]
  BY DEF TypeOK
<1>1. row \in GoodRows
  BY OnlyRow
<1>2. rule \in Values
  BY <1>1 DEF Values
<1>3. B \in Binds
  BY <1>1 DEF Binds
<1>4. at' = [at EXCEPT ![r] = s] /\ req' = [req EXCEPT ![r] = q]
  BY <1>0 DEF Rowed
<1> HIDE DEF rule, B
<1>5. q \in Reqs
  BY <1>0, <1>2, <1>3 DEF Reqs
<1>6. /\ q.kind = req[r].kind /\ q.user = req[r].user /\ q.owner = req[r].owner
      /\ q.filter = req[r].filter /\ q.path = req[r].path /\ q.rule = rule /\ q.routed /\ q.bind = B
      /\ q.todo = req[r].todo /\ q.granted = req[r].granted /\ q.cache = req[r].cache /\ q.doc = req[r].doc
  BY <1>0 DEF Reqs
<1>7. s \in Places
  BY DEF RuleKnown, Places
<1> HIDE DEF q, s
<1>8. Moves(r) /\ at'[r] = s /\ req'[r] = q
  BY <1>4, <1>5, <1>7, SetRequest
<1> QED
  BY <1>6, <1>8 DEF RowTaken, SameSearch, SameCall, s, rule, B

\* A step that changes nothing of a request but its place.
LEMMA PlaceStep ==
    ASSUME TypeOK, NEW r \in Requests, NEW s \in Places, at' = [at EXCEPT ![r] = s], req' = req,
           UNCHANGED <<exact, patterns, job, faults, overlapped>>
    PROVE  Moves(r) /\ at'[r] = s /\ req'[r] = req[r] /\ SameSearch(r)
<1>1. at \in [Procs -> Places] /\ req \in [Requests -> Reqs] /\ r \in Procs
  BY DEF TypeOK, Procs
<1> QED
  BY <1>1 DEF Moves, SameSearch, SameCall

\* A document is read for the evaluation.
LEMMA FetchStep ==
    ASSUME TypeOK, NEW r \in Requests, Fetch(r)
    PROVE  /\ Moves(r) /\ Quiet /\ SameSearch(r) /\ at[r] = "fetch"
           /\ at'[r] = IF req[r].kind = "get" /\ req[r].rule = {} THEN "route" ELSE "check"
           /\ req'[r].doc = docs[req[r].path] /\ req'[r].rule = req[r].rule
           /\ req'[r].routed = req[r].routed /\ req'[r].bind = req[r].bind
<1> DEFINE d == docs[req[r].path]
           s == IF req[r].kind = "get" /\ req[r].rule = {} THEN "route" ELSE "check"
           q == [req[r] EXCEPT !.doc = d]
<1>0. req[r] \in Reqs /\ req \in [Requests -> Reqs]
  BY DEF TypeOK
<1>1. at[r] = "fetch" /\ Quiet
  BY DEF Fetch, stores, Quiet
<1>2. d \in Owners
  <2>1. req[r].path \in req[r].todo
    BY <1>1 DEF TypeOK, RequestFits, Looking
  <2> QED
    BY <1>0, <2>1 DEF TypeOK, Reqs
<1>3. /\ at' = [at EXCEPT ![r] = s] /\ req' = [req EXCEPT ![r] = q]
      /\ UNCHANGED <<exact, patterns, job, faults, overlapped>>
  BY <1>0 DEF Fetch, stores
<1> HIDE DEF d
<1>4. q \in Reqs
  BY <1>0, <1>2 DEF Reqs
<1>5. /\ q.kind = req[r].kind /\ q.user = req[r].user /\ q.owner = req[r].owner
      /\ q.filter = req[r].filter /\ q.path = req[r].path /\ q.rule = req[r].rule
      /\ q.routed = req[r].routed /\ q.bind = req[r].bind /\ q.doc = d
      /\ q.todo = req[r].todo /\ q.granted = req[r].granted /\ q.cache = req[r].cache
  BY <1>0 DEF Reqs
<1>6. s \in Places
  BY DEF Places
<1> HIDE DEF q, s
<1>7. Moves(r) /\ at'[r] = s /\ req'[r] = q
  BY <1>3, <1>4, <1>6, SetRequest
<1> QED
  BY <1>1, <1>5, <1>7 DEF SameSearch, SameCall, s, d

\* The condition of a document is evaluated.
LEMMA CheckStep ==
    ASSUME TypeOK, NEW r \in Requests, Check(r)
    PROVE  /\ Moves(r) /\ Quiet /\ at[r] = "check"
           /\ \/ at'[r] = "done" /\ req'[r] = NoReq
              \/ /\ SameCall(r) /\ req'[r].cache = req[r].cache /\ req'[r].todo = req[r].todo \ {req[r].path}
                 /\ at'[r] = IF req'[r].todo = {} THEN "act" ELSE "lookup"
                 /\ \/ req'[r].granted = req[r].granted
                    \/ /\ req'[r].granted = req[r].granted \cup {req[r].path}
                       /\ \A c \in req[r].rule : Evaluate(c, Context(r))
<1> DEFINE ok == \A c \in req[r].rule : Evaluate(c, Context(r))
           rest == req[r].todo \ {req[r].path}
           G == IF ok THEN req[r].granted \cup {req[r].path} ELSE req[r].granted
           s == IF rest = {} THEN "act" ELSE "lookup"
           q == [req[r] EXCEPT !.todo = rest, !.granted = G]
<1>0. req[r] \in Reqs /\ req \in [Requests -> Reqs]
  BY DEF TypeOK
<1>1. at[r] = "check" /\ Quiet /\ UNCHANGED <<exact, patterns, job, faults, overlapped>>
  BY DEF Check, stores, Quiet
<1>2. \/ EndRequest(r)
      \/ at' = [at EXCEPT ![r] = s] /\ req' = [req EXCEPT ![r] = q]
  BY <1>0 DEF Check
<1>3. G = req[r].granted \/ (ok /\ G = req[r].granted \cup {req[r].path})
  OBVIOUS
<1>4. rest \in SUBSET Docs /\ G \in SUBSET Docs
  <2>1. req[r].path \in req[r].todo
    BY <1>1 DEF TypeOK, RequestFits, Looking
  <2> QED
    BY <1>0, <2>1 DEF Reqs
<1> HIDE DEF ok, G, rest
<1>5. q \in Reqs
  BY <1>0, <1>4 DEF Reqs
<1>6. /\ q.kind = req[r].kind /\ q.user = req[r].user /\ q.owner = req[r].owner
      /\ q.filter = req[r].filter /\ q.todo = rest /\ q.granted = G /\ q.cache = req[r].cache
  BY <1>0 DEF Reqs
<1>7. s \in Places
  BY DEF Places
<1> HIDE DEF q, s
<1>8. CASE EndRequest(r)
  BY <1>1, <1>8, EndRequestStep
<1>9. CASE at' = [at EXCEPT ![r] = s] /\ req' = [req EXCEPT ![r] = q]
  <2>1. Moves(r) /\ at'[r] = s /\ req'[r] = q
    BY <1>1, <1>5, <1>7, <1>9, SetRequest
  <2> QED
    BY <1>1, <1>3, <1>6, <2>1 DEF SameCall, s, rest, ok
<1> QED
  BY <1>2, <1>8, <1>9

\* The static check of a query admits a document.
Admitted(r, p) ==
    /\ req[r].kind = "group" => RuleOf(r, p) # {}
    /\ \A c \in RuleOf(r, p) : Complies(c, req[r].filter, req[r].user)

\* A query is checked.
LEMMA CheckQueryStep ==
    ASSUME TypeOK, NEW r \in Requests, CheckQuery(r)
    PROVE  /\ Moves(r) /\ Quiet /\ SameCall(r) /\ at[r] = "lookup" /\ at'[r] = "act"
           /\ req[r].kind \in QueryKinds
           /\ \A p \in req'[r].granted : Admitted(r, p)
<1> DEFINE G == {p \in req[r].todo : Admitted(r, p)}
           q == [req[r] EXCEPT !.granted = G]
<1>0. req[r] \in Reqs /\ req \in [Requests -> Reqs]
  BY DEF TypeOK
<1>1. G \in SUBSET Docs /\ \A p \in G : Admitted(r, p)
  BY <1>0 DEF Reqs
<1>2. /\ at' = [at EXCEPT ![r] = "act"] /\ req' = [req EXCEPT ![r] = q] /\ at[r] = "lookup" /\ Quiet
      /\ req[r].kind \in QueryKinds /\ UNCHANGED <<exact, patterns, job, faults, overlapped>>
  BY <1>0 DEF CheckQuery, stores, Quiet, Admitted
<1> HIDE DEF G
<1>3. q \in Reqs
  BY <1>0, <1>1 DEF Reqs
<1>4. /\ q.kind = req[r].kind /\ q.user = req[r].user /\ q.owner = req[r].owner
      /\ q.filter = req[r].filter /\ q.granted = G
  BY <1>0 DEF Reqs
<1> HIDE DEF q
<1>5. Moves(r) /\ at'[r] = "act" /\ req'[r] = q
  BY <1>2, <1>3, SetRequest DEF Places
<1> QED
  BY <1>1, <1>2, <1>4, <1>5 DEF SameCall

\* A request of which something it has read changes counts as raced.
Written(r) ==
    /\ docs' \in [Docs -> Owners] /\ raced \subseteq raced' /\ raced' \subseteq Procs
    /\ docs' # docs => \A x \in Requests \ {r} : Overtaken(x) => x \in raced'

\* A step that writes nothing,
LEMMA QuietStep ==
    ASSUME TypeOK, NEW r, Quiet
    PROVE  Written(r)
BY DEF Written, Quiet, TypeOK

\* and one that writes.
LEMMA StoreStep ==
    ASSUME TypeOK, NEW r \in Requests, NEW P, Store(r, P)
    PROVE  Written(r) /\ \A p \in Docs \ P : docs'[p] = docs[p]
<1>1. req[r].owner \in Owners
  BY DEF TypeOK, Reqs
<1>2. docs' = [p \in Docs |-> IF p \in P THEN req[r].owner ELSE docs[p]]
  BY DEF Store
<1>3. docs' \in [Docs -> Owners] /\ \A p \in Docs \ P : docs'[p] = docs[p]
  BY <1>1, <1>2 DEF TypeOK
<1>4. raced' = raced \cup {x \in Requests \ {r} : Overtaken(x)}
  BY DEF Store, Overtakes
<1> QED
  BY <1>3, <1>4 DEF Written, TypeOK, Procs

\* A request acts: it ends, or it is a stream that goes on, or a BatchWrite
\* with documents left.
LEMMA ActStep ==
    ASSUME TypeOK, NEW r \in Requests,
           \/ Answer(r) \/ ApplyCreate(r) \/ ApplyUpdate(r) \/ ApplyDelete(r)
           \/ ApplyCommit(r) \/ ApplyBatch(r) \/ ApplyNext(r)
    PROVE  /\ Moves(r) /\ Written(r) /\ at[r] = "act"
           /\ \/ at'[r] = "done" /\ req'[r] = NoReq
              \/ at'[r] = "open" /\ req[r].kind = "stream" /\ req'[r].kind = "stream"
                    /\ req'[r].cache = << >>
              \/ /\ at'[r] = "act" /\ SameCall(r) /\ req[r].kind = "batchWrite"
                 /\ \E p \in req[r].granted :
                      /\ req'[r].granted = req[r].granted \ {p}
                      /\ \A d \in Docs \ {p} : docs'[d] = docs[d]
<1>0. req[r] \in Reqs /\ req \in [Requests -> Reqs]
  BY DEF TypeOK
<1>1. CASE Answer(r)
  <2>1. at[r] = "act" /\ EndRequest(r) /\ Quiet /\ UNCHANGED <<exact, patterns, job, faults, overlapped>>
    BY <1>1 DEF Answer, stores, Quiet
  <2> QED
    BY <2>1, EndRequestStep, QuietStep
<1>2. CASE ApplyCreate(r) \/ ApplyUpdate(r) \/ ApplyDelete(r) \/ ApplyCommit(r)
  <2>1. /\ at[r] = "act" /\ EndRequest(r) /\ UNCHANGED <<exact, patterns, job, faults, overlapped>>
        /\ Quiet \/ Store(r, req[r].granted)
    BY <1>2 DEF ApplyCreate, ApplyUpdate, ApplyDelete, ApplyCommit, Quiet, Store, stores
  <2>2. Written(r)
    BY <2>1, QuietStep, StoreStep
  <2> QED
    BY <2>1, <2>2, EndRequestStep
<1>3. CASE ApplyBatch(r)
  <2> DEFINE q == [NoReq EXCEPT !.kind = "stream", !.user = req[r].user, !.sent = req[r].sent]
  <2>1. /\ req[r].kind = "stream" /\ at[r] = "act" /\ at' = [at EXCEPT ![r] = "open"]
        /\ req' = [req EXCEPT ![r] = q] /\ Store(r, req[r].granted)
        /\ UNCHANGED <<exact, patterns, job, faults, overlapped>>
    BY <1>3 DEF ApplyBatch, Store
  <2>2. q \in Reqs
    <3>1. req[r].user \in Owners /\ req[r].sent \in Nat /\ "stream" \in Handlers
      BY <1>0 DEF Reqs, Handlers
    <3> QED
      BY <3>1, NoReqType DEF Reqs
  <2>3. q.kind = "stream" /\ q.cache = << >>
    BY DEF NoReq
  <2> HIDE DEF q
  <2>4. Moves(r) /\ at'[r] = "open" /\ req'[r] = q
    BY <2>1, <2>2, SetRequest DEF Places
  <2>5. Written(r)
    BY <2>1, StoreStep
  <2> QED
    BY <2>1, <2>3, <2>4, <2>5
<1>4. CASE ApplyNext(r)
  <2>1. /\ req[r].kind = "batchWrite" /\ at[r] = "act"
        /\ UNCHANGED <<exact, patterns, job, faults, overlapped>>
    BY <1>4 DEF ApplyNext, Store, stores
  <2>2. CASE EndRequest(r) /\ UNCHANGED <<docs, raced>>
    BY <2>1, <2>2, EndRequestStep, QuietStep DEF Quiet
  <2>3. ASSUME NEW p \in req[r].granted, Store(r, {p}),
               req' = [req EXCEPT ![r].granted = @ \ {p}], at' = at
        PROVE  /\ Moves(r) /\ Written(r) /\ at[r] = "act" /\ at'[r] = "act" /\ SameCall(r)
               /\ req'[r].granted = req[r].granted \ {p}
               /\ \A d \in Docs \ {p} : docs'[d] = docs[d]
    <3> DEFINE G == req[r].granted \ {p}
               q == [req[r] EXCEPT !.granted = G]
    <3>1. G \in SUBSET Docs
      BY <1>0 DEF Reqs
    <3>2. req' = [req EXCEPT ![r] = q] /\ at' = [at EXCEPT ![r] = "act"]
      BY <1>0, <2>1, <2>3 DEF TypeOK, Procs
    <3> HIDE DEF G
    <3>3. q \in Reqs
      BY <1>0, <3>1 DEF Reqs
    <3>4. /\ q.kind = req[r].kind /\ q.user = req[r].user /\ q.owner = req[r].owner
          /\ q.filter = req[r].filter /\ q.granted = G
      BY <1>0 DEF Reqs
    <3> HIDE DEF q
    <3>5. Moves(r) /\ at'[r] = "act" /\ req'[r] = q
      BY <2>1, <3>2, <3>3, SetRequest DEF Places
    <3>6. Written(r) /\ \A d \in Docs \ {p} : docs'[d] = docs[d]
      BY <2>3, StoreStep
    <3> QED
      BY <2>1, <3>4, <3>5, <3>6 DEF SameCall, G
  <2>4. \/ EndRequest(r) /\ UNCHANGED <<docs, raced>>
        \/ \E p \in req[r].granted :
              Store(r, {p}) /\ req' = [req EXCEPT ![r].granted = @ \ {p}] /\ at' = at
    BY <1>4 DEF ApplyNext, stores
  <2> QED
    BY <2>1, <2>2, <2>3, <2>4
<1> QED
  BY <1>1, <1>2, <1>3, <1>4

\* A request that looks at a document has one of the documents in hand.
LEMMA PathInHand ==
    ASSUME TypeOK, NEW r \in Requests, at[r] \in Looking
    PROVE  req[r].path \in req[r].todo /\ req[r].path \in Docs /\ req[r].kind \notin QueryKinds
<1>1. req[r].path \in req[r].todo /\ req[r].kind \notin QueryKinds
  BY DEF TypeOK, RequestFits
<1>2. req[r].todo \in SUBSET Docs
  BY DEF TypeOK, Reqs
<1> QED
  BY <1>1, <1>2

\* Routing among the fixed patterns: none, the only one, or a refusal.
LEMMA RouteFixedStep ==
    ASSUME TypeOK, NEW r \in Requests, RouteFixed(r)
    PROVE  /\ Moves(r) /\ Quiet /\ at[r] = "route"
           /\ \/ /\ FixedMatches(Collection(req[r].path)) = {}
                 /\ req'[r] = req[r] /\ SameSearch(r) /\ at'[r] = "recursive"
              \/ /\ Cardinality(FixedMatches(Collection(req[r].path))) = 1
                 /\ RowTaken(r, TheRow(FixedMatches(Collection(req[r].path))))
              \/ at'[r] = "done" /\ req'[r] = NoReq
<1> DEFINE rows == FixedMatches(Collection(req[r].path))
<1>1. /\ at[r] = "route" /\ Quiet /\ UNCHANGED <<exact, patterns, job, faults, overlapped>>
      /\ \/ rows = {} /\ req' = req /\ at' = [at EXCEPT ![r] = "recursive"]
         \/ Cardinality(rows) = 1 /\ Rowed(r, rows)
         \/ EndRequest(r)
  BY DEF RouteFixed, stores, Quiet
<1>2. rows \subseteq patterns
  BY DEF FixedMatches, BySkeleton
<1>3. req[r].path \in Docs
  BY <1>1, PathInHand DEF Looking
<1> HIDE DEF rows
<1>4. CASE rows = {} /\ req' = req /\ at' = [at EXCEPT ![r] = "recursive"]
  <2>1. Moves(r) /\ at'[r] = "recursive" /\ req'[r] = req[r] /\ SameSearch(r)
    BY <1>1, <1>4, PlaceStep DEF Places
  <2> QED
    BY <1>1, <1>4, <2>1 DEF rows
<1>5. CASE Cardinality(rows) = 1 /\ Rowed(r, rows)
  <2>1. Moves(r) /\ RowTaken(r, TheRow(rows))
    BY <1>1, <1>2, <1>3, <1>5, RowedStep
  <2> QED
    BY <1>1, <1>5, <2>1 DEF rows
<1>6. CASE EndRequest(r)
  BY <1>1, <1>6, EndRequestStep
<1> QED
  BY <1>1, <1>4, <1>5, <1>6

\* Routing among the recursive patterns: none, the deepest one, or a refusal.
LEMMA RouteRecursiveStep ==
    ASSUME TypeOK, NEW r \in Requests, RouteRecursive(r)
    PROVE  /\ Moves(r) /\ Quiet /\ at[r] = "recursive"
           /\ \/ /\ Longest(RecursiveMatches(req[r].path)) = {}
                 /\ req'[r] = req[r] /\ SameSearch(r) /\ at'[r] = "check"
              \/ /\ Cardinality(Longest(RecursiveMatches(req[r].path))) = 1
                 /\ RowTaken(r, TheRow(Longest(RecursiveMatches(req[r].path))))
              \/ at'[r] = "done" /\ req'[r] = NoReq
<1> DEFINE all == RecursiveMatches(req[r].path)
           best == Longest(all)
<1>1. /\ at[r] = "recursive" /\ Quiet /\ UNCHANGED <<exact, patterns, job, faults, overlapped>>
      /\ \E rows \in RecursiveOutcomes(all) :
           \/ rows = {} /\ req' = req /\ at' = [at EXCEPT ![r] = "check"]
           \/ Cardinality(rows) = 1 /\ Rowed(r, rows)
           \/ EndRequest(r)
  BY DEF RouteRecursive, stores, Quiet
<1>2. all \subseteq patterns /\ best \subseteq patterns /\ best \subseteq all
  BY DEF RecursiveMatches, Longest
<1>3. req[r].path \in Docs
  BY <1>1, PathInHand DEF Looking
<1>o. \A rows \in RecursiveOutcomes(all) :
        rows = best \/ rows \in {{a, b} : a \in all, b \in all} \ {{a} : a \in all}
  BY DEF RecursiveOutcomes
<1> HIDE DEF all, best
<1>4. PICK rows \in RecursiveOutcomes(all) :
        \/ rows = {} /\ req' = req /\ at' = [at EXCEPT ![r] = "check"]
        \/ Cardinality(rows) = 1 /\ Rowed(r, rows)
        \/ EndRequest(r)
  BY <1>1
<1>5. rows = {} => rows = best
  BY <1>o
<1>6. Cardinality(rows) = 1 => rows = best
  <2>1. SUFFICES ASSUME Cardinality(rows) = 1, rows # best PROVE FALSE
    OBVIOUS
  <2>2. rows \subseteq all /\ \A a \in all : rows # {a}
    BY <1>o, <2>1
  <2>3. IsFiniteSet(rows)
    BY <1>2, <2>2, FS_Subset DEF TypeOK
  <2>4. PICK x : rows = {x}
    BY <2>1, <2>3, FS_Singleton
  <2> QED
    BY <2>2, <2>4
<1>7. CASE rows = {} /\ req' = req /\ at' = [at EXCEPT ![r] = "check"]
  <2>1. Moves(r) /\ at'[r] = "check" /\ req'[r] = req[r] /\ SameSearch(r)
    BY <1>1, <1>7, PlaceStep DEF Places
  <2> QED
    BY <1>1, <1>5, <1>7, <2>1 DEF best, all
<1>8. CASE Cardinality(rows) = 1 /\ Rowed(r, rows)
  <2>1. rows = best
    BY <1>6, <1>8
  <2>2. Moves(r) /\ RowTaken(r, TheRow(best))
    BY <1>1, <1>2, <1>3, <1>8, <2>1, RowedStep
  <2> QED
    BY <1>1, <1>8, <2>1, <2>2 DEF best, all
<1>9. CASE EndRequest(r)
  BY <1>1, <1>9, EndRequestStep
<1> QED
  BY <1>4, <1>7, <1>8, <1>9

\* Nothing is left to look up.
LEMMA NothingStep ==
    ASSUME TypeOK, NEW r \in Requests, NothingToCheck(r)
    PROVE  /\ Moves(r) /\ Quiet /\ at[r] = "lookup" /\ at'[r] = "act"
           /\ req[r].kind \notin QueryKinds /\ req'[r] = req[r] /\ SameSearch(r)
<1>1. /\ at[r] = "lookup" /\ Quiet /\ UNCHANGED <<exact, patterns, job, faults, overlapped>>
      /\ at' = [at EXCEPT ![r] = "act"] /\ req' = req /\ req[r].kind \notin QueryKinds
  BY DEF NothingToCheck, stores, Quiet
<1> QED
  BY <1>1, PlaceStep DEF Places

\* A Write stream ends.
LEMMA StreamEndsStep ==
    ASSUME TypeOK, NEW r \in Requests, StreamEnds(r)
    PROVE  Moves(r) /\ Quiet /\ at[r] = "open" /\ at'[r] = "done" /\ req'[r] = NoReq
<1>1. at[r] = "open" /\ EndRequest(r) /\ Quiet /\ UNCHANGED <<exact, patterns, job, faults, overlapped>>
  BY DEF StreamEnds, stores, Quiet
<1> QED
  BY <1>1, EndRequestStep

\* Whatever a request does, it knows which document it looks at.
LEMMA ServeFits ==
    ASSUME TypeOK, NEW r \in Requests, Serve(r)
    PROVE  Moves(r) /\ Written(r) /\ RequestFits(r)'
<1> DEFINE Free == {"idle", "open", "scan", "filter", "lookup", "act", "done"}
<1>1. ASSUME at'[r] \in Free PROVE RequestFits(r)'
  BY <1>1 DEF RequestFits, Looking
<1>2. ASSUME at'[r] \in Looking, req'[r].path \in req'[r].todo, req'[r].kind \notin QueryKinds
      PROVE  RequestFits(r)'
  BY <1>2 DEF RequestFits
<1>k. \A rule : RuleKnown(r, rule) \in Looking
  BY DEF RuleKnown, Looking
<1>t. ASSUME NEW row, RowTaken(r, row), at[r] \in Looking PROVE RequestFits(r)'
  <2>1. /\ req[r].path \in req[r].todo /\ req[r].kind \notin QueryKinds
    BY <1>t, PathInHand
  <2>2. at'[r] \in Looking
    BY <1>t, <1>k DEF RowTaken, Looking
  <2> QED
    BY <1>2, <1>t, <2>1, <2>2 DEF RowTaken, SameSearch, SameCall
<1>3. ASSUME NEW kind \in Handlers, NEW P \in SUBSET Docs, NEW u \in Owners, NEW o \in Owners,
             NEW f \in SUBSET Users, Enter(r, kind, P, u, o, f)
      PROVE  Moves(r) /\ Quiet /\ RequestFits(r)'
  BY <1>1, <1>3, EnterStep
<1>4. ASSUME NEW P \in SUBSET Docs, NEW o \in Owners, WriteMessage(r, P, o)
      PROVE  Moves(r) /\ Quiet /\ RequestFits(r)'
  BY <1>1, <1>4, WriteMessageStep
<1>5. ASSUME StreamEnds(r) \/ Scan(r) \/ FilterList(r) \/ CheckQuery(r) \/ NothingToCheck(r) \/ Check(r)
      PROVE  Moves(r) /\ Quiet /\ RequestFits(r)'
  BY <1>1, <1>5, StreamEndsStep, ScanStep, FilterStep, CheckQueryStep, NothingStep, CheckStep
<1>6. ASSUME NEW p \in Docs, Lookup(r, p) PROVE Moves(r) /\ Quiet /\ RequestFits(r)'
  <2>1. at'[r] \in Looking
    BY <1>6, <1>k, LookupStep DEF Looking
  <2> QED
    BY <1>2, <1>6, <2>1, LookupStep DEF SameCall
<1>7. ASSUME RouteFixed(r) PROVE Moves(r) /\ Quiet /\ RequestFits(r)'
  <2>1. at[r] \in Looking
    BY <1>7, RouteFixedStep DEF Looking
  <2>2. ASSUME req'[r] = req[r], at'[r] = "recursive" PROVE RequestFits(r)'
    BY <1>2, <2>1, <2>2, PathInHand DEF Looking
  <2> QED
    BY <1>1, <1>7, <1>t, <2>1, <2>2, RouteFixedStep
<1>8. ASSUME RouteRecursive(r) PROVE Moves(r) /\ Quiet /\ RequestFits(r)'
  <2>1. at[r] \in Looking
    BY <1>8, RouteRecursiveStep DEF Looking
  <2>2. ASSUME req'[r] = req[r], at'[r] = "check" PROVE RequestFits(r)'
    BY <1>2, <2>1, <2>2, PathInHand DEF Looking
  <2> QED
    BY <1>1, <1>8, <1>t, <2>1, <2>2, RouteRecursiveStep
<1>9. ASSUME Fetch(r) PROVE Moves(r) /\ Quiet /\ RequestFits(r)'
  <2>1. at[r] \in Looking /\ at'[r] \in Looking
    BY <1>9, FetchStep DEF Looking
  <2> QED
    BY <1>2, <1>9, <2>1, FetchStep, PathInHand DEF SameSearch, SameCall
<1>10. ASSUME \/ Answer(r) \/ ApplyCreate(r) \/ ApplyUpdate(r) \/ ApplyDelete(r)
              \/ ApplyCommit(r) \/ ApplyBatch(r) \/ ApplyNext(r)
       PROVE  Moves(r) /\ Written(r) /\ RequestFits(r)'
  <2>1. Moves(r) /\ Written(r) /\ at'[r] \in Free
    BY <1>10, ActStep
  <2> QED
    BY <1>1, <2>1
<1> QED
  BY <1>3, <1>4, <1>5, <1>6, <1>7, <1>8, <1>9, <1>10, ServeCases, QuietStep

-----------------------------------------------------------------------------
(* The steps of an admin call                                              *)

\* Admin call i takes a step: the requests, the other calls and the documents stay.
Advances(i) ==
    /\ at' \in [Procs -> Places] /\ \A x \in Procs \ {i} : at'[x] = at[x]
    /\ job' \in [Importers -> Jobs] /\ \A x \in Importers \ {i} : job'[x] = job[x]
    /\ UNCHANGED <<docs, req>>

\* When rules change, the other calls at work count as raced, and the requests of
\* which something they have read changes.
Ruled(i) ==
    /\ exact' \in [Tables -> [RuleKeys -> Values]]
    /\ patterns' \subseteq GoodRows /\ IsFiniteSet(patterns')
    /\ raced \subseteq raced' /\ raced' \subseteq Procs
    /\ exact' # exact \/ patterns' # patterns =>
          /\ \A x \in Importers \ {i} : UnderWay(x) => x \in raced'
          /\ \A x \in Requests \ {i} : Overtaken(x) => x \in raced'

SameRules == UNCHANGED <<exact, patterns, raced>>

\* A step that changes no rules.
LEMMA SameRulesStep ==
    ASSUME TypeOK, NEW i, SameRules
    PROVE  Ruled(i)
BY DEF Ruled, SameRules, TypeOK

\* The locals of a call that has not begun, or is over.
LEMMA NoJobType == NoJob \in Jobs
<1>1. << >> \in Seq(Blocks) /\ << >> \in Seq(GoodRows)
  OBVIOUS
<1> QED
  BY <1>1 DEF NoJob, Jobs

\* A step that sets a call's place and locals.
LEMMA SetCall ==
    ASSUME TypeOK, NEW i \in Importers, NEW s \in Places, NEW j \in Jobs,
           at' = [at EXCEPT ![i] = s], job' = [job EXCEPT ![i] = j], UNCHANGED <<docs, req>>
    PROVE  Advances(i) /\ at'[i] = s /\ job'[i] = j
<1>1. at \in [Procs -> Places] /\ job \in [Importers -> Jobs] /\ i \in Procs
  BY DEF TypeOK, Procs
<1> QED
  BY <1>1 DEF Advances

\* A call that ends.
LEMMA EndCallStep ==
    ASSUME TypeOK, NEW i \in Importers, EndCall(i), UNCHANGED <<docs, req>>
    PROVE  Advances(i) /\ at'[i] = "done" /\ job'[i] = NoJob /\ CallFits(i)'
<1>1. at' = [at EXCEPT ![i] = "done"] /\ job' = [job EXCEPT ![i] = NoJob]
  BY DEF EndCall
<1>2. "done" \in Places
  BY DEF Places
<1>3. Advances(i) /\ at'[i] = "done" /\ job'[i] = NoJob
  BY <1>1, <1>2, NoJobType, SetCall
<1> QED
  BY <1>3 DEF CallFits

\* The file of an import at work.
LEMMA AtWork ==
    ASSUME TypeOK, NEW i \in Importers, at[i] \in {"fixed", "get", "put"}
    PROVE  /\ Accepted(job[i].file) /\ job[i].targets = TargetsOf(job[i].file)
           /\ Len(job[i].targets) \in Nat /\ Len(Puts(i)) = 2 * Len(job[i].targets)
           /\ DOMAIN Puts(i) = 1 .. 2 * Len(job[i].targets)
           /\ \A n \in 1 .. Len(Puts(i)) : IsPut(Puts(i)[n])
           /\ \A k \in 1 .. Len(job[i].targets) : job[i].targets[k] \in GoodRows
           /\ \A n \in 1 .. Len(Puts(i)) :
                 Puts(i)[n].table = "pattern" /\ Puts(i)[n].value # {} =>
                    \E j \in 1 .. Len(job[i].targets) : /\ ~SingleCollection(job[i].targets[j])
                                                        /\ Puts(i)[n].value = {job[i].targets[j]}
<1>1. Accepted(job[i].file) /\ job[i].targets = TargetsOf(job[i].file)
  BY DEF TypeOK, CallFits
<1>2. /\ job[i].targets \in Seq(GoodRows)
  BY <1>1, TargetsFit
<1>3. \A k \in 1 .. Len(job[i].targets) : job[i].targets[k] \in GoodRows
  BY <1>2, ElementOfSeq
<1> QED
  BY <1>1, <1>3, PutsFit DEF Puts

\* The next row from n on is taken up, or there is none.
TakesUp(i, n) ==
    \/ /\ at'[i] = "done" /\ job'[i] = NoJob
       /\ \A k \in n .. Len(Puts(i)) : Puts(i)[k].value = {}
    \/ /\ at'[i] = "get" /\ job'[i].n \in n .. Len(Puts(i))
       /\ job'[i].file = job[i].file /\ job'[i].targets = job[i].targets
       /\ \A j \in n .. job'[i].n - 1 : Puts(i)[j].value = {}

\* An import moves to its next row, or ends.
LEMMA PutFromStep ==
    ASSUME TypeOK, NEW i \in Importers, at[i] \in {"fixed", "get", "put"}, NEW n \in Nat, n >= 1,
           PutFrom(i, n), UNCHANGED <<docs, req>>
    PROVE  Advances(i) /\ CallFits(i)' /\ TakesUp(i, n)
<1>0. job[i] \in Jobs /\ job \in [Importers -> Jobs]
  BY DEF TypeOK
<1>1. CASE EndCall(i) /\ \A k \in n .. Len(Puts(i)) : Puts(i)[k].value = {}
  BY <1>1, EndCallStep DEF TakesUp
<1>2. ASSUME NEW k \in n .. Len(Puts(i)), Puts(i)[k].value # {},
             \A j \in n .. k - 1 : Puts(i)[j].value = {},
             at' = [at EXCEPT ![i] = "get"], job' = [job EXCEPT ![i].n = k]
      PROVE  /\ Advances(i) /\ CallFits(i)'
             /\ at'[i] = "get" /\ job'[i].n = k
             /\ job'[i].file = job[i].file /\ job'[i].targets = job[i].targets
  <2> DEFINE j == [job[i] EXCEPT !.n = k]
  <2>1. k \in Nat /\ k >= 1 /\ k \in 1 .. Len(Puts(i))
    BY AtWork
  <2>2. j \in Jobs /\ j.n = k /\ j.file = job[i].file /\ j.targets = job[i].targets
    BY <1>0, <2>1 DEF Jobs
  <2>3. job' = [job EXCEPT ![i] = j]
    BY <1>0, <1>2
  <2> HIDE DEF j
  <2>4. Advances(i) /\ at'[i] = "get" /\ job'[i] = j
    BY <1>2, <2>2, <2>3, SetCall DEF Places
  <2>5. Accepted(job[i].file) /\ job[i].targets = TargetsOf(job[i].file)
    BY AtWork
  <2>6. Puts(i)' = Puts(i)
    BY <2>2, <2>4 DEF Puts
  <2> QED
    BY <1>2, <2>1, <2>2, <2>4, <2>5, <2>6 DEF CallFits
<1> QED
  BY <1>1, <1>2 DEF PutFrom, TakesUp

\* One rule of one table is set.
LEMMA RuleSet ==
    ASSUME NEW rules \in [Tables -> [RuleKeys -> Values]], NEW t \in Tables, NEW c \in RuleKeys,
           NEW v \in Values
    PROVE  /\ [rules EXCEPT ![t][c] = v] \in [Tables -> [RuleKeys -> Values]]
           /\ [rules EXCEPT ![t][c] = v][t][c] = v
           /\ \A u \in Tables, d \in RuleKeys :
                 u # t \/ d # c => [rules EXCEPT ![t][c] = v][u][d] = rules[u][d]
OBVIOUS

\* A rule is defined.
LEMMA DefineStep ==
    ASSUME TypeOK, NEW i \in Importers, NEW t \in Tables, NEW c \in RuleKeys, NEW cond \in Conds,
           DefineRule(i, t, c, cond)
    PROVE  /\ Advances(i) /\ Ruled(i) /\ CallFits(i)' /\ UNCHANGED <<patterns, faults, overlapped>>
           /\ at[i] = "idle" /\ at'[i] = "done"
<1>1. /\ at[i] = "idle" /\ at' = [at EXCEPT ![i] = "done"] /\ Disturb(i)
      /\ exact' = [exact EXCEPT ![t][c] = {cond}] /\ UNCHANGED <<patterns, docs, job, req, faults, overlapped>>
  BY DEF DefineRule
<1>2. job[i] \in Jobs /\ job' = [job EXCEPT ![i] = job[i]]
  BY <1>1 DEF TypeOK
<1>3. Advances(i) /\ at'[i] = "done"
  BY <1>1, <1>2, SetCall DEF Places
<1>4. exact' \in [Tables -> [RuleKeys -> Values]]
  <2>1. {cond} \in Values
    BY DEF Values
  <2> QED
    BY <1>1, <2>1 DEF TypeOK
<1>5. raced' = raced \cup {y \in Requests \ {i} : Overtaken(y)} \cup {y \in Importers \ {i} : UnderWay(y)}
  BY <1>1 DEF Disturb, Overtakes
<1>6. /\ raced \subseteq raced' /\ raced' \subseteq Procs
      /\ \A x \in Importers \ {i} : UnderWay(x) => x \in raced'
      /\ \A x \in Requests \ {i} : Overtaken(x) => x \in raced'
  BY <1>5 DEF TypeOK, Procs
<1>7. Ruled(i)
  BY <1>1, <1>4, <1>6 DEF Ruled, TypeOK
<1> QED
  BY <1>1, <1>3, <1>6, <1>7 DEF CallFits

\* A rules file is taken up, or refused.
LEMMA ImportStep ==
    ASSUME TypeOK, NEW i \in Importers, NEW file \in Files, ImportRulesFile(i, file)
    PROVE  /\ Advances(i) /\ SameRules /\ CallFits(i)' /\ faults' = faults /\ at[i] = "idle"
           /\ overlapped' = (overlapped \/ \E k \in Importers \ {i} : UnderWay(k))
           /\ \/ at'[i] = "done"
              \/ at'[i] = "fixed" /\ job'[i].n = 1
<1> DEFINE d == Decompose(file)
           j == [NoJob EXCEPT !.file = file, !.targets = d.targets]
<1>1. /\ at[i] = "idle" /\ SameRules /\ UNCHANGED <<docs, req>> /\ faults' = faults
      /\ overlapped' = (overlapped \/ \E k \in Importers \ {i} : UnderWay(k))
  BY DEF ImportRulesFile, stores, SameRules
<1>2. \/ EndCall(i)
      \/ /\ d.ok /\ ~IntraFileOverlap(d.targets)
         /\ at' = [at EXCEPT ![i] = "fixed"] /\ job' = [job EXCEPT ![i] = j]
  BY DEF ImportRulesFile
<1>3. CASE EndCall(i)
  BY <1>1, <1>3, EndCallStep
<1>4. CASE /\ d.ok /\ ~IntraFileOverlap(d.targets)
           /\ at' = [at EXCEPT ![i] = "fixed"] /\ job' = [job EXCEPT ![i] = j]
  <2>1. d.targets = TargetsOf(file) /\ \A k \in DOMAIN file : BlockAccepted(file[k])
    BY <1>4 DEF Decompose, TargetsOf
  <2>2. Accepted(file)
    BY <1>4, <2>1 DEF Accepted
  <2>3. TargetsOf(file) \in Seq(GoodRows) /\ file \in Seq(Blocks)
    BY <2>2, TargetsFit, FilesAssumption
  <2>4. j \in Jobs /\ j.file = file /\ j.targets = TargetsOf(file) /\ j.n = 1
    <3>1. NoJob \in Jobs /\ NoJob.n = 1
      BY NoJobType DEF NoJob
    <3> HIDE DEF d
    <3> QED
      BY <2>1, <2>3, <3>1 DEF Jobs
  <2> HIDE DEF j
  <2>5. Advances(i) /\ at'[i] = "fixed" /\ job'[i] = j
    BY <1>1, <1>4, <2>4, SetCall DEF Places
  <2>6. 1 \in 1 .. Len(TargetsOf(file)) + 1
    BY <2>3, LenProperties
  <2> QED
    BY <1>1, <2>2, <2>4, <2>5, <2>6 DEF CallFits
<1> QED
  BY <1>2, <1>3, <1>4

\* A fixed pattern of the file is compared with the stored ones.
LEMMA CheckFixedStep ==
    ASSUME TypeOK, NEW i \in Importers, CheckFixed(i)
    PROVE  /\ Advances(i) /\ SameRules /\ CallFits(i)' /\ UNCHANGED <<faults, overlapped>> /\ at[i] = "fixed"
           /\ \/ at'[i] = "done"
              \/ \E k \in job[i].n .. Len(job[i].targets) :
                   /\ at'[i] = "fixed" /\ job'[i].n = k + 1
                   /\ job'[i].file = job[i].file /\ job'[i].targets = job[i].targets
                   /\ \A j \in job[i].n .. k - 1 : ~FixedTarget(job[i].targets[j])
                   /\ FixedTarget(job[i].targets[k])
                   /\ ~ClashesWithStored(job[i].targets[k], BySkeleton(job[i].targets[k].segs))
<1>0. job[i] \in Jobs /\ job \in [Importers -> Jobs] /\ at \in [Procs -> Places]
  BY DEF TypeOK
<1>1. /\ at[i] = "fixed" /\ SameRules /\ UNCHANGED <<docs, req, faults, overlapped>>
  BY DEF CheckFixed, stores, SameRules
<1>2. PICK k \in job[i].n .. Len(job[i].targets) :
         /\ FixedTarget(job[i].targets[k])
         /\ \A j \in job[i].n .. k - 1 : ~FixedTarget(job[i].targets[j])
         /\ \/ EndCall(i)
            \/ /\ ~ClashesWithStored(job[i].targets[k], BySkeleton(job[i].targets[k].segs))
               /\ at' = at /\ job' = [job EXCEPT ![i].n = k + 1]
  BY DEF CheckFixed
<1>3. CASE EndCall(i)
  BY <1>1, <1>3, EndCallStep
<1>4. CASE /\ ~ClashesWithStored(job[i].targets[k], BySkeleton(job[i].targets[k].segs))
           /\ at' = at /\ job' = [job EXCEPT ![i].n = k + 1]
  <2> DEFINE j == [job[i] EXCEPT !.n = k + 1]
  <2>1. /\ Accepted(job[i].file) /\ job[i].targets = TargetsOf(job[i].file)
        /\ Len(job[i].targets) \in Nat
    BY <1>1, AtWork
  <2>2. k + 1 \in 1 .. Len(job[i].targets) + 1 /\ k + 1 \in Nat
    BY <1>1, <1>2, <2>1 DEF TypeOK, CallFits
  <2>3. j \in Jobs /\ j.n = k + 1 /\ j.file = job[i].file /\ j.targets = job[i].targets
    BY <1>0, <2>2 DEF Jobs
  <2>4. job' = [job EXCEPT ![i] = j] /\ at' = [at EXCEPT ![i] = "fixed"]
    BY <1>0, <1>1, <1>4 DEF Procs
  <2> HIDE DEF j
  <2>5. Advances(i) /\ at'[i] = "fixed" /\ job'[i] = j
    BY <1>1, <2>3, <2>4, SetCall DEF Places
  <2>6. CallFits(i)'
    BY <2>1, <2>2, <2>3, <2>5 DEF CallFits
  <2> QED
    BY <1>1, <1>2, <1>4, <2>3, <2>5, <2>6
<1> QED
  BY <1>2, <1>3, <1>4

\* The recursive patterns of the file, and the stored ones, are compared.
LEMMA CheckRecursiveStep ==
    ASSUME TypeOK, NEW i \in Importers, CheckRecursive(i)
    PROVE  /\ Advances(i) /\ SameRules /\ CallFits(i)' /\ UNCHANGED <<faults, overlapped>> /\ at[i] = "fixed"
           /\ \A k \in job[i].n .. Len(job[i].targets) : ~FixedTarget(job[i].targets[k])
           /\ \/ at'[i] = "done"
              \/ /\ TakesUp(i, 1)
                 /\ \A k \in 1 .. Len(job[i].targets) :
                      ~SingleCollection(job[i].targets[k]) =>
                        ~ClashesWithStored(job[i].targets[k],
                                           {row \in patterns : job[i].targets[k].rec \/ row.rec})
<1> DEFINE targets == job[i].targets
           new == {k \in DOMAIN targets : ~SingleCollection(targets[k])}
           clash == \E k \in new :
                       ClashesWithStored(targets[k], {row \in patterns : targets[k].rec \/ row.rec})
<1>1. /\ at[i] = "fixed" /\ SameRules /\ UNCHANGED <<docs, req, faults, overlapped>>
      /\ \A k \in job[i].n .. Len(job[i].targets) : ~FixedTarget(job[i].targets[k])
  BY DEF CheckRecursive, stores, SameRules
<1>2. EndCall(i) \/ (~clash /\ PutFrom(i, 1))
  BY DEF CheckRecursive
<1>3. DOMAIN targets = 1 .. Len(targets)
  BY DEF TypeOK, Jobs
<1>4. CASE EndCall(i)
  BY <1>1, <1>4, EndCallStep
<1>5. CASE ~clash /\ PutFrom(i, 1)
  <2>1. Advances(i) /\ CallFits(i)' /\ TakesUp(i, 1)
    BY <1>1, <1>5, PutFromStep
  <2>2. \A k \in 1 .. Len(targets) :
          ~SingleCollection(targets[k]) =>
             ~ClashesWithStored(targets[k], {row \in patterns : targets[k].rec \/ row.rec})
    BY <1>3, <1>5
  <2> QED
    BY <1>1, <2>1, <2>2
<1> QED
  BY <1>2, <1>4, <1>5

\* The stored row is read.
LEMMA ImportGetStep ==
    ASSUME TypeOK, NEW i \in Importers, ImportGet(i)
    PROVE  /\ Advances(i) /\ SameRules /\ CallFits(i)' /\ UNCHANGED <<faults, overlapped>> /\ at[i] = "get"
           /\ \/ AlreadyCurrent(Puts(i)[job[i].n]) /\ TakesUp(i, job[i].n + 1)
              \/ at'[i] = "put" /\ job'[i] = job[i]
<1>0. job[i] \in Jobs /\ job \in [Importers -> Jobs]
  BY DEF TypeOK
<1>1. /\ at[i] = "get" /\ SameRules /\ UNCHANGED <<docs, req, faults, overlapped>>
      /\ \/ AlreadyCurrent(Puts(i)[job[i].n]) /\ PutFrom(i, job[i].n + 1)
         \/ at' = [at EXCEPT ![i] = "put"] /\ job' = job
  BY DEF ImportGet, stores, SameRules, NextPut
<1>2. job[i].n + 1 \in Nat /\ job[i].n + 1 >= 1
  BY <1>0 DEF Jobs
<1>3. CASE AlreadyCurrent(Puts(i)[job[i].n]) /\ PutFrom(i, job[i].n + 1)
  <2>1. Advances(i) /\ CallFits(i)' /\ TakesUp(i, job[i].n + 1)
    BY <1>1, <1>2, <1>3, PutFromStep
  <2> QED
    BY <1>1, <1>3, <2>1
<1>4. CASE at' = [at EXCEPT ![i] = "put"] /\ job' = job
  <2>1. job' = [job EXCEPT ![i] = job[i]]
    BY <1>0, <1>4
  <2>2. Advances(i) /\ at'[i] = "put" /\ job'[i] = job[i]
    BY <1>0, <1>1, <1>4, <2>1, SetCall DEF Places
  <2>3. CallFits(i)'
    BY <1>1, <2>2 DEF TypeOK, CallFits, Puts
  <2> QED
    BY <1>1, <2>2, <2>3
<1> QED
  BY <1>1, <1>3, <1>4

\* What the upsert of a row leaves in the tables.
Upserted(put) ==
    /\ put.table = "pattern" =>
          /\ patterns' = {row \in patterns : \A t \in put.value : ~SameText(row, t)} \cup put.value
          /\ exact' = exact
    /\ put.table # "pattern" =>
          exact' = [exact EXCEPT ![put.table][put.key] = put.value] /\ patterns' = patterns

\* A row is written.
LEMMA ImportPutStep ==
    ASSUME TypeOK, NEW i \in Importers, ImportPut(i)
    PROVE  /\ Advances(i) /\ Ruled(i) /\ CallFits(i)' /\ UNCHANGED <<faults, overlapped>> /\ at[i] = "put"
           /\ Upserted(Puts(i)[job[i].n]) /\ TakesUp(i, job[i].n + 1)
<1> DEFINE put == Puts(i)[job[i].n]
<1>0. job[i] \in Jobs /\ job \in [Importers -> Jobs]
  BY DEF TypeOK
<1>1. /\ at[i] = "put" /\ UNCHANGED <<docs, req, faults, overlapped>> /\ Upserted(put)
      /\ PutFrom(i, job[i].n + 1)
      /\ raced' = raced \cup {y \in Requests \ {i} : Overtaken(y)} \cup {y \in Importers \ {i} : UnderWay(y)}
  BY DEF ImportPut, NextPut, Disturb, Overtakes, Upserted
<1>2. job[i].n + 1 \in Nat /\ job[i].n + 1 >= 1
  BY <1>0 DEF Jobs
<1>3. Advances(i) /\ CallFits(i)' /\ TakesUp(i, job[i].n + 1)
  BY <1>1, <1>2, PutFromStep
<1>4. IsPut(put)
  <2>1. job[i].n \in 1 .. Len(Puts(i))
    BY <1>1 DEF TypeOK, CallFits
  <2> QED
    BY <1>1, <2>1, AtWork
<1> HIDE DEF put
<1>5. exact' \in [Tables -> [RuleKeys -> Values]]
  <2>1. CASE put.table = "pattern"
    BY <1>1, <2>1 DEF Upserted, TypeOK
  <2>2. CASE put.table # "pattern"
    <3>1. put.table \in Tables /\ put.key \in RuleKeys /\ put.value \in Values
      BY <1>4, <2>2 DEF IsPut, Tables
    <3>2. exact \in [Tables -> [RuleKeys -> Values]]
      BY DEF TypeOK
    <3>3. exact' = [exact EXCEPT ![put.table][put.key] = put.value]
      BY <1>1, <2>2 DEF Upserted
    <3> QED
      BY <3>1, <3>2, <3>3, RuleSet
  <2> QED
    BY <2>1, <2>2
<1>6. patterns' \subseteq GoodRows /\ IsFiniteSet(patterns')
  <2>1. CASE put.table = "pattern"
    <3> DEFINE kept == {row \in patterns : \A t \in put.value : ~SameText(row, t)}
    <3>1. kept \subseteq patterns
      OBVIOUS
    <3>2. IsFiniteSet(kept) /\ IsFiniteSet(put.value)
      BY <1>4, <2>1, <3>1, FS_Subset DEF TypeOK, IsPut
    <3>3. patterns' = kept \cup put.value
      BY <1>1, <2>1 DEF Upserted
    <3> HIDE DEF kept
    <3>4. IsFiniteSet(kept \cup put.value)
      BY <3>2, FS_Union
    <3> QED
      BY <1>4, <2>1, <3>1, <3>3, <3>4 DEF TypeOK, IsPut
  <2>2. CASE put.table # "pattern"
    BY <1>1, <2>2 DEF Upserted, TypeOK
  <2> QED
    BY <2>1, <2>2
<1>7. /\ raced \subseteq raced' /\ raced' \subseteq Procs
      /\ \A x \in Importers \ {i} : UnderWay(x) => x \in raced'
      /\ \A x \in Requests \ {i} : Overtaken(x) => x \in raced'
  BY <1>1 DEF TypeOK, Procs
<1>8. Ruled(i)
  BY <1>5, <1>6, <1>7 DEF Ruled
<1> QED
  BY <1>1, <1>3, <1>7, <1>8 DEF put

\* A statement fails.
LEMMA ImportFailsStep ==
    ASSUME TypeOK, NEW i \in Importers, ImportFails(i)
    PROVE  /\ Advances(i) /\ SameRules /\ CallFits(i)' /\ overlapped' = overlapped
           /\ at'[i] = "done" /\ faults' # faults /\ faults' \in Nat
<1>1. /\ EndCall(i) /\ SameRules /\ UNCHANGED <<docs, req, overlapped>> /\ faults' = faults + 1
  BY DEF ImportFails, stores, SameRules
<1>2. faults' # faults /\ faults' \in Nat
  BY <1>1 DEF TypeOK
<1>3. Advances(i) /\ at'[i] = "done" /\ CallFits(i)'
  BY <1>1, EndCallStep
<1> QED
  BY <1>1, <1>2, <1>3

\* Whatever an admin call does, it knows where it is in its file.
LEMMA CallFitsStep ==
    ASSUME TypeOK, NEW i \in Importers, Call(i) \/ ImportFails(i)
    PROVE  Advances(i) /\ Ruled(i) /\ CallFits(i)' /\ faults' \in Nat
<1>f. faults \in Nat
  BY DEF TypeOK
<1>1. ASSUME NEW c \in Collections \cup Groups, NEW cond \in Conds,
             \/ DefineAccessRule(i, c, cond) \/ DefineWriteAccessRule(i, c, cond)
             \/ DefineGroupAccessRule(i, c, cond)
      PROVE  Advances(i) /\ Ruled(i) /\ CallFits(i)' /\ faults' = faults
  <2>1. c \in RuleKeys /\ {"read", "write", "group"} \subseteq Tables
    BY DEF RuleKeys, Tables
  <2>2. PICK t \in Tables : DefineRule(i, t, c, cond)
    BY <1>1, <2>1 DEF DefineAccessRule, DefineWriteAccessRule, DefineGroupAccessRule
  <2> QED
    BY <2>1, <2>2, DefineStep
<1>2. ASSUME NEW file \in Files, ImportRulesFile(i, file)
      PROVE  Advances(i) /\ Ruled(i) /\ CallFits(i)' /\ faults' = faults
  BY <1>2, ImportStep, SameRulesStep
<1>3. ASSUME CheckFixed(i) \/ CheckRecursive(i) \/ ImportGet(i) \/ ImportPut(i)
      PROVE  Advances(i) /\ Ruled(i) /\ CallFits(i)' /\ faults' = faults
  BY <1>3, CheckFixedStep, CheckRecursiveStep, ImportGetStep, ImportPutStep, SameRulesStep
<1>4. ASSUME ImportFails(i) PROVE Advances(i) /\ Ruled(i) /\ CallFits(i)' /\ faults' \in Nat
  BY <1>4, ImportFailsStep, SameRulesStep
<1> QED
  BY <1>f, <1>1, <1>2, <1>3, <1>4 DEF Call

\* The tables hold accepted rows only, and every call and request fits.
LEMMA TypeStep == TypeOK /\ [Next]_vars => TypeOK'
<1> SUFFICES ASSUME TypeOK, [Next]_vars PROVE TypeOK'
  OBVIOUS
<1>1. ASSUME NEW i \in Importers, Call(i) \/ ImportFails(i) PROVE TypeOK'
  <2>1. Advances(i) /\ Ruled(i) /\ CallFits(i)' /\ faults' \in Nat
    BY <1>1, CallFitsStep
  <2>2. ASSUME NEW x \in Importers PROVE CallFits(x)'
    <3>1. CASE x = i
      BY <2>1, <3>1
    <3>2. CASE x # i
      <4>1. at'[x] = at[x] /\ job'[x] = job[x] /\ CallFits(x)
        BY <2>1, <3>2 DEF Advances, TypeOK, Procs
      <4> QED
        BY <4>1 DEF CallFits, Puts
    <3> QED
      BY <3>1, <3>2
  <2>3. ASSUME NEW r \in Requests PROVE RequestFits(r)'
    <3>1. r # i /\ r \in Procs
      BY ProcsAssumption DEF Procs
    <3>2. at'[r] = at[r] /\ req'[r] = req[r] /\ RequestFits(r)
      BY <2>1, <3>1 DEF Advances, TypeOK
    <3> QED
      BY <3>2 DEF RequestFits
  <2> QED
    BY <2>1, <2>2, <2>3 DEF TypeOK, Advances, Ruled
<1>2. ASSUME NEW r \in Requests, Serve(r) PROVE TypeOK'
  <2>1. Moves(r) /\ Written(r) /\ RequestFits(r)'
    BY <1>2, ServeFits
  <2>2. ASSUME NEW x \in Importers PROVE CallFits(x)'
    <3>1. x # r /\ x \in Procs
      BY ProcsAssumption DEF Procs
    <3>2. at'[x] = at[x] /\ job'[x] = job[x] /\ CallFits(x)
      BY <2>1, <3>1 DEF Moves, TypeOK
    <3> QED
      BY <3>2 DEF CallFits, Puts
  <2>3. ASSUME NEW x \in Requests PROVE RequestFits(x)'
    <3>1. CASE x = r
      BY <2>1, <3>1
    <3>2. CASE x # r
      <4>1. at'[x] = at[x] /\ req'[x] = req[x] /\ RequestFits(x)
        BY <2>1, <3>2 DEF Moves, TypeOK, Procs
      <4> QED
        BY <4>1 DEF RequestFits
    <3> QED
      BY <3>1, <3>2
  <2> QED
    BY <2>1, <2>2, <2>3 DEF TypeOK, Moves, Written
<1>3. ASSUME UNCHANGED vars PROVE TypeOK'
  BY <1>3 DEF TypeOK, vars, CallFits, RequestFits, Puts
<1> QED
  BY <1>1, <1>2, <1>3 DEF Next

\* The initial state fits.
LEMMA TypeInit == Init => TypeOK
<1> SUFFICES ASSUME Init PROVE TypeOK
  OBVIOUS
<1>1. {} \in Values
  BY DEF Values
<1>2. exact \in [Tables -> [RuleKeys -> Values]]
  BY <1>1 DEF Init
<1>3. patterns \subseteq GoodRows /\ IsFiniteSet(patterns)
  BY FS_EmptySet DEF Init
<1>4. docs \in [Docs -> Owners]
  BY DocsAssumption DEF Init, Owners
<1>5. at \in [Procs -> Places] /\ \A x \in Procs : at[x] = "idle"
  BY DEF Init, Places
<1>6. job \in [Importers -> Jobs] /\ req \in [Requests -> Reqs]
  BY NoJobType, NoReqType DEF Init
<1>7. faults \in Nat /\ raced \subseteq Procs
  BY DEF Init
<1>8. \A i \in Importers : CallFits(i)
  BY <1>5 DEF CallFits, Procs
<1>9. \A r \in Requests : RequestFits(r)
  BY <1>5 DEF RequestFits, Procs, Looking
<1> QED
  BY <1>2, <1>3, <1>4, <1>6, <1>7, <1>8, <1>9, <1>5 DEF TypeOK

\* Every stored pattern is what decompose_block made of an accepted block, and
\* every call and request is where its handler can be, with the locals it has there.
THEOREM TypesHold == Spec => []TypeOK
BY TypeInit, TypeStep, PTL DEF Spec

-----------------------------------------------------------------------------
(* Routing finds the patterns that rule a path                             *)

\* A path that a request or a property is about.
LEMMA PathOf ==
    ASSUME NEW p \in Docs \cup Probes
    PROVE  p \in Seq(STRING) /\ p # << >> /\ Collection(p) \in Seq(STRING)
BY PathsAssumption, FrontOf DEF Collection

\* The query by skeleton finds every fixed pattern that matches a collection.
LEMMA FixedFound ==
    ASSUME TypeOK, NEW c \in Seq(STRING)
    PROVE  FixedMatches(c) = {row \in patterns : ~row.rec /\ BindAncestor(row.segs, c)}
<1>1. ASSUME NEW row \in patterns, ~row.rec, BindAncestor(row.segs, c)
      PROVE  row \in FixedMatches(c)
  <2>1. WellFormed(row)
    BY GoodRowsWellFormed DEF TypeOK
  <2>2. /\ Len(row.segs) = Len(Concrete(c))
        /\ LiteralSkeleton(row.segs) = LiteralSkeleton(Concrete(c))
    BY <1>1, <2>1, MatchSkeleton
  <2> QED
    BY <1>1, <2>2 DEF FixedMatches, BySkeleton
<1>2. ASSUME NEW row \in FixedMatches(c)
      PROVE  row \in patterns /\ ~row.rec /\ BindAncestor(row.segs, c)
  BY <1>2 DEF FixedMatches, BySkeleton
<1> QED
  BY <1>1, <1>2

\* The rows that rule a path are those that routing finds.
LEMMA RulingFound ==
    ASSUME TypeOK, NEW p \in Docs \cup Probes
    PROVE  Ruling(patterns, p) =
              IF FixedMatches(Collection(p)) # {} THEN FixedMatches(Collection(p))
              ELSE Longest(RecursiveMatches(p))
<1>1. FixedMatches(Collection(p)) = {row \in patterns : ~row.rec /\ BindAncestor(row.segs, Collection(p))}
  BY PathOf, FixedFound
<1> QED
  BY <1>1 DEF Ruling, RecursiveMatches

\* What the simulation says of a stored pattern's segments.
Says(t, p) ==
    IF t.rec THEN SimulatedRecursive(t.segs, p)
    ELSE IF BindAncestor(t.segs, Collection(p)) THEN "candidate" ELSE "none"

\* The segments that it splits a block into are those the import stores, unless
\* the block has no leaf.
LEMMA AsStored ==
    ASSUME NEW b \in Blocks, BlockAccepted(b), NEW p, ~(Len(b.segs) % 2 = 1 /\ ~Recursive(b))
    PROVE  SimulatedWinner(b.segs, p) = Says(DecomposeBlock(b), p)
<1>1. b.segs \in Seq(Segments) /\ b.segs # << >>
  BY DEF Blocks, BlockAccepted
<1>2. Len(b.segs) \in Nat /\ Len(b.segs) >= 1
  BY <1>1, EmptySeq, LenProperties
<1>3. DecomposeBlock(b).rec = Recursive(b) /\ DecomposeBlock(b).segs = Ancestor(b)
  BY DEF DecomposeBlock
<1>4. Recursive(b) <=> Last(b.segs) = Rec
  BY <1>1 DEF Recursive
<1>5. CASE Recursive(b)
  <2>1. Ancestor(b) = Front(b.segs)
    BY <1>5 DEF Ancestor
  <2> QED
    BY <1>3, <1>4, <1>5, <2>1 DEF SimulatedWinner, Says
<1>6. CASE ~Recursive(b)
  <2>1. Len(b.segs) % 2 = 0 /\ ~(Len(b.segs) < 2)
    <3>1. \A n \in Nat : n >= 1 /\ n % 2 # 1 => n % 2 = 0 /\ ~(n < 2)
      OBVIOUS
    <3>2. Len(b.segs) % 2 # 1
      BY <1>6
    <3> QED
      BY <1>2, <3>1, <3>2
  <2>2. Ancestor(b) = Front(b.segs)
    BY <2>1 DEF Ancestor
  <2> QED
    BY <1>3, <1>4, <1>6, <2>1, <2>2 DEF SimulatedWinner, SimulatedFixed, Says
<1> QED
  BY <1>5, <1>6

\* What the simulation says of one candidate and one path.
LEMMA SimulatedRight ==
    ASSUME TypeOK, NEW t \in GoodRows, ~ClashesWithStored(t, patterns),
           \A row \in patterns : ~SameText(row, t), NEW p \in Probes
    PROVE  Says(t, p) =
              IF t \in Ruling(patterns \cup {t}, p) THEN "candidate"
              ELSE IF t.rec /\ BindRecursivePrefix(t.segs, p) THEN "stored" ELSE "none"
<1> DEFINE c == Collection(p)
           all == patterns \cup {t}
           F == {row \in all : ~row.rec /\ BindAncestor(row.segs, c)}
           R == {row \in all : row.rec /\ BindRecursivePrefix(row.segs, p)}
<1>1. Ruling(all, p) = IF F # {} THEN F ELSE Longest(R)
  BY DEF Ruling
<1>2. p \in Seq(STRING) /\ c \in Seq(STRING)
  BY PathOf
<1>3. \A row \in all : WellFormed(row) /\ row.rec \in BOOLEAN /\ Len(row.segs) \in Nat
  BY GoodRowsWellFormed, LenProperties DEF TypeOK, WellFormed
<1>4. FixedMatches(c) = {row \in patterns : ~row.rec /\ BindAncestor(row.segs, c)}
  BY <1>2, FixedFound
<1> HIDE DEF c
<1>5. CASE ~t.rec
  <2>1. Says(t, p) = IF BindAncestor(t.segs, c) THEN "candidate" ELSE "none"
    BY <1>5 DEF Says, c
  <2>2. t \notin Longest(R)
    BY <1>5 DEF Longest
  <2>3. (t \in Ruling(all, p)) <=> BindAncestor(t.segs, c)
    <3>1. BindAncestor(t.segs, c) => t \in F
      BY <1>5
    <3> QED
      BY <1>1, <2>2, <3>1
  <2> QED
    BY <1>5, <2>1, <2>3
<1>6. CASE t.rec /\ ~BindRecursivePrefix(t.segs, p)
  <2>1. Says(t, p) = "none"
    BY <1>6 DEF Says, SimulatedRecursive
  <2>2. t \notin Ruling(all, p)
    BY <1>1, <1>6 DEF Longest
  <2> QED
    BY <1>6, <2>1, <2>2
<1>7. CASE t.rec /\ BindRecursivePrefix(t.segs, p)
  <2> DEFINE deep == \E row \in RecursiveMatches(p) : Len(row.segs) >= Len(t.segs)
  <2>1. F = FixedMatches(c) /\ t \notin F /\ t \in R /\ R = RecursiveMatches(p) \cup {t}
    BY <1>4, <1>7 DEF RecursiveMatches
  <2>2. CASE FixedMatches(c) # {} \/ deep
    <3>1. Says(t, p) = "stored"
      BY <1>7, <2>2 DEF Says, SimulatedRecursive, c
    <3>2. t \notin Ruling(all, p)
      <4>1. CASE FixedMatches(c) # {}
        BY <1>1, <2>1, <4>1
      <4>2. CASE FixedMatches(c) = {} /\ deep
        <5>1. PICK row \in RecursiveMatches(p) : Len(row.segs) >= Len(t.segs)
          BY <4>2
        <5>2. /\ row \in patterns /\ row.rec /\ BindRecursivePrefix(row.segs, p)
              /\ WellFormed(row) /\ WellFormed(t) /\ Len(row.segs) \in Nat /\ Len(t.segs) \in Nat
          BY <1>3, <5>1 DEF RecursiveMatches
        <5>3. Len(row.segs) # Len(t.segs)
          <6>1. Len(t.segs) = Len(row.segs) => PatternsClash(t, row)
            BY <1>2, <1>7, <5>2, RecursiveMatchesClash
          <6>2. ~PatternsClash(t, row)
            BY <5>2 DEF ClashesWithStored
          <6> QED
            BY <6>1, <6>2
        <5>4. ~(Len(row.segs) <= Len(t.segs))
          BY <5>1, <5>2, <5>3
        <5>5. t \notin Longest(R)
          BY <2>1, <5>4 DEF Longest
        <5> QED
          BY <1>1, <2>1, <4>2, <5>5
      <4> QED
        BY <2>2, <4>1, <4>2
    <3> QED
      BY <1>7, <3>1, <3>2
  <2>3. CASE FixedMatches(c) = {} /\ ~deep
    <3>1. Says(t, p) = "candidate"
      BY <1>7, <2>3 DEF Says, SimulatedRecursive, c
    <3>2. ASSUME NEW row \in R PROVE Len(row.segs) <= Len(t.segs)
      <4>1. CASE row = t
        BY <1>3, <4>1
      <4>2. CASE row # t
        <5>1. row \in RecursiveMatches(p) /\ Len(row.segs) \in Nat /\ Len(t.segs) \in Nat
          BY <1>3, <2>1, <4>2
        <5>2. ~(Len(row.segs) >= Len(t.segs))
          BY <2>3, <5>1
        <5> QED
          BY <5>1, <5>2
      <4> QED
        BY <4>1, <4>2
    <3>3. t \in Longest(R)
      BY <2>1, <3>2 DEF Longest
    <3> QED
      BY <1>1, <2>1, <2>3, <3>1, <3>3
  <2> QED
    BY <2>2, <2>3
<1> QED
  BY <1>3, <1>5, <1>6, <1>7

\* What simulate_routed_access_rule says of a pattern that could be imported is
\* what routing does once it is stored, for every block with a leaf or a recursive
\* wildcard and every path whose collection has no rule of its own.
THEOREM SimulationRight == Spec => []SimulationForetells
<1>1. TypeOK => SimulationForetells
  <2> SUFFICES ASSUME TypeOK, NEW file \in Files, NEW k \in DOMAIN Decompose(file).targets,
                      ~ClashesWithStored(Decompose(file).targets[k], patterns),
                      \A row \in patterns : ~SameText(row, Decompose(file).targets[k]),
                      NEW p \in Probes, ~Unforeseen(file[k], p)
               PROVE  SimulatedWinner(file[k].segs, p) = RoutedTo(Decompose(file).targets[k], p)
    BY DEF SimulationForetells
  <2> DEFINE t == Decompose(file).targets[k]
  <2>1. file[k] \in Blocks /\ BlockAccepted(file[k]) /\ t = DecomposeBlock(file[k])
    <3>1. CASE file # << >> /\ \A i \in DOMAIN file : BlockAccepted(file[i])
      <4>1. Decompose(file).targets = [i \in DOMAIN file |-> DecomposeBlock(file[i])]
        BY <3>1 DEF Decompose
      <4>2. k \in DOMAIN file /\ t = DecomposeBlock(file[k])
        BY <4>1
      <4>3. file[k] \in Blocks
        BY <4>2, FilesAssumption, ElementOfSeq, LenProperties
      <4> QED
        BY <3>1, <4>2, <4>3
    <3>2. CASE ~(file # << >> /\ \A i \in DOMAIN file : BlockAccepted(file[i]))
      <4>1. Decompose(file).targets = << >>
        BY <3>2 DEF Decompose
      <4> QED
        BY <4>1
    <3> QED
      BY <3>1, <3>2
  <2>2. t \in GoodRows
    BY <2>1 DEF GoodRows
  <2> HIDE DEF t
  <2>3. ExactRule(p) = {} /\ ~(Len(file[k].segs) % 2 = 1 /\ ~Recursive(file[k]))
    BY DEF Unforeseen
  <2>4. SimulatedWinner(file[k].segs, p) = Says(t, p)
    BY <2>1, <2>3, AsStored
  <2>5. RoutedTo(t, p) = IF t \in Ruling(patterns \cup {t}, p) THEN "candidate"
                         ELSE IF t.rec /\ BindRecursivePrefix(t.segs, p) THEN "stored" ELSE "none"
    BY <2>3 DEF RoutedTo
  <2>6. ~ClashesWithStored(t, patterns) /\ \A row \in patterns : ~SameText(row, t)
    BY DEF t
  <2>7. Says(t, p) = RoutedTo(t, p)
    BY <2>2, <2>5, <2>6, SimulatedRight
  <2> QED
    BY <2>4, <2>7 DEF t
<1> QED
  BY <1>1, TypesHold, PTL

-----------------------------------------------------------------------------
(* An import stores what its file says                                     *)

\* Row k of import i is stored, or a later row of the import takes its place.
Kept(i, k) ==
    \/ Holds(Puts(i)[k], patterns, exact)
    \/ \E l \in DOMAIN Puts(i) : /\ l > k /\ Puts(i)[l].value # {}
                                 /\ Puts(i)[l].table = Puts(i)[k].table
                                 /\ Puts(i)[l].key = Puts(i)[k].key

\* Nobody else having changed rules, the rows that an import is done with are kept.
KeptSoFar(i) ==
    i \notin raced /\ at[i] \in {"get", "put"} => \A k \in 1 .. job[i].n - 1 : Kept(i, k)

\* An import's own upsert keeps the rows before it, and the row itself.
LEMMA UpsertKeeps ==
    ASSUME TypeOK, NEW i \in Importers, at[i] = "put", Upserted(Puts(i)[job[i].n]),
           NEW k \in 1 .. job[i].n,
           \/ k = job[i].n
           \/ Holds(Puts(i)[k], patterns, exact)
    PROVE  \/ Holds(Puts(i)[k], patterns', exact')
           \/ /\ k # job[i].n
              /\ Puts(i)[job[i].n].table = Puts(i)[k].table
              /\ Puts(i)[job[i].n].key = Puts(i)[k].key
<1> DEFINE put == Puts(i)[job[i].n]
           old == Puts(i)[k]
<1>1. job[i].n \in 1 .. Len(Puts(i)) /\ k \in 1 .. Len(Puts(i))
  <2>1. job[i].n \in 1 .. Len(Puts(i))
    BY DEF TypeOK, CallFits
  <2> QED
    BY <2>1, AtWork
<1>2. IsPut(put) /\ IsPut(old)
  BY <1>1, AtWork
<1>3. k = job[i].n => old = put
  OBVIOUS
<1> HIDE DEF put, old
<1>4. SUFFICES ASSUME k # job[i].n => (put.table # old.table \/ put.key # old.key)
               PROVE  Holds(old, patterns', exact')
  BY DEF put, old
<1>5. old = put \/ (Holds(old, patterns, exact) /\ (put.table # old.table \/ put.key # old.key))
  BY <1>3, <1>4 DEF put, old
<1>6. CASE put.table = "pattern"
  <2>1. /\ patterns' = {row \in patterns : \A t \in put.value : ~SameText(row, t)} \cup put.value
        /\ exact' = exact
    BY <1>6 DEF Upserted, put
  <2>2. CASE old = put
    BY <1>6, <2>1, <2>2 DEF Holds
  <2>3. CASE Holds(old, patterns, exact) /\ old.table # "pattern"
    BY <2>1, <2>3 DEF Holds
  <2>4. CASE Holds(old, patterns, exact) /\ old.table = "pattern" /\ put.key # old.key
    <3>1. ASSUME NEW row \in old.value PROVE row \in patterns'
      <4>1. row \in patterns /\ row.segs = old.key
        BY <1>2, <2>4 DEF Holds, IsPut
      <4>2. \A t \in put.value : t.segs = put.key
        BY <1>2, <1>6 DEF IsPut
      <4>3. \A t \in put.value : ~SameText(row, t)
        BY <2>4, <4>1, <4>2 DEF SameText
      <4> QED
        BY <2>1, <4>1, <4>3
    <3> QED
      BY <2>4, <3>1 DEF Holds
  <2> QED
    BY <1>5, <1>6, <2>2, <2>3, <2>4
<1>7. CASE put.table # "pattern"
  <2>1. exact' = [exact EXCEPT ![put.table][put.key] = put.value] /\ patterns' = patterns
    BY <1>7 DEF Upserted, put
  <2>2. put.table \in Tables /\ put.key \in RuleKeys /\ put.value \in Values
    BY <1>2, <1>7 DEF IsPut, Tables
  <2>3. exact \in [Tables -> [RuleKeys -> Values]]
    BY DEF TypeOK
  <2>4. /\ exact'[put.table][put.key] = put.value
        /\ \A u \in Tables, d \in RuleKeys :
              u # put.table \/ d # put.key => exact'[u][d] = exact[u][d]
    BY <2>1, <2>2, <2>3, RuleSet
  <2>5. CASE old = put
    BY <1>7, <2>4, <2>5 DEF Holds
  <2>6. CASE old.table = "pattern" /\ Holds(old, patterns, exact)
    BY <2>1, <2>6 DEF Holds
  <2>7. CASE /\ old.table # "pattern" /\ Holds(old, patterns, exact)
             /\ put.table # old.table \/ put.key # old.key
    <3>1. old.table \in Tables /\ old.key \in RuleKeys
      BY <1>2, <2>7 DEF IsPut, Tables
    <3>2. exact'[old.table][old.key] = exact[old.table][old.key]
      BY <2>4, <2>7, <3>1
    <3> QED
      BY <2>7, <3>2 DEF Holds
  <2> QED
    BY <1>5, <2>5, <2>6, <2>7
<1> QED
  BY <1>6, <1>7

\* A row without a value says nothing.
LEMMA NothingToKeep ==
    ASSUME NEW put, put.value = {}, NEW rows, NEW rules
    PROVE  Holds(put, rows, rules)
BY DEF Holds

\* The same after a step.
KeptAfter(i, k) ==
    \/ Holds(Puts(i)[k], patterns', exact')
    \/ \E l \in DOMAIN Puts(i) : /\ l > k /\ Puts(i)[l].value # {}
                                 /\ Puts(i)[l].table = Puts(i)[k].table
                                 /\ Puts(i)[l].key = Puts(i)[k].key

\* A step that takes up a row after n, every row up to n being kept by then,
\* keeps all rows before the new one.
LEMMA TakesUpKeeps ==
    ASSUME TypeOK, NEW i \in Importers, at[i] \in {"fixed", "get", "put"}, NEW n \in Nat, n <= Len(Puts(i)),
           TakesUp(i, n + 1), \A k \in 1 .. n : KeptAfter(i, k)
    PROVE  KeptSoFar(i)' /\ (at'[i] = "done" => \A k \in DOMAIN Puts(i) : KeptAfter(i, k))
<1>0. /\ Len(Puts(i)) \in Nat /\ DOMAIN Puts(i) = 1 .. Len(Puts(i))
  BY AtWork
<1>1. ASSUME NEW k \in Nat, Puts(i)[k].value = {} PROVE KeptAfter(i, k)
  BY <1>1, NothingToKeep DEF KeptAfter
<1>a. \A k \in 1 .. n : KeptAfter(i, k)
  OBVIOUS
<1>2. CASE at'[i] = "done" /\ \A k \in n + 1 .. Len(Puts(i)) : Puts(i)[k].value = {}
  <2>1. ASSUME NEW k \in 1 .. Len(Puts(i)) PROVE KeptAfter(i, k)
    <3>1. CASE k \in 1 .. n
      BY <1>a, <3>1
    <3>2. CASE k \notin 1 .. n
      <4>1. k \in n + 1 .. Len(Puts(i)) /\ k \in Nat
        BY <1>0, <3>2
      <4> QED
        BY <1>1, <1>2, <4>1
    <3> QED
      BY <3>1, <3>2
  <2> QED
    BY <1>0, <1>2, <2>1 DEF KeptSoFar
<1>3. CASE /\ at'[i] = "get" /\ job'[i].n \in n + 1 .. Len(Puts(i))
           /\ job'[i].file = job[i].file /\ job'[i].targets = job[i].targets
           /\ \A j \in n + 1 .. job'[i].n - 1 : Puts(i)[j].value = {}
  <2>1. Puts(i)' = Puts(i)
    BY <1>3 DEF Puts
  <2>2. ASSUME NEW k \in 1 .. job'[i].n - 1 PROVE KeptAfter(i, k)
    <3>1. CASE k \in 1 .. n
      BY <1>a, <3>1
    <3>2. CASE k \notin 1 .. n
      <4>1. k \in n + 1 .. job'[i].n - 1 /\ k \in Nat
        BY <1>0, <1>3, <3>2
      <4> QED
        BY <1>1, <1>3, <4>1
    <3> QED
      BY <3>1, <3>2
  <2>3. \A k \in 1 .. job'[i].n - 1 : Kept(i, k)'
    BY <2>1, <2>2 DEF Kept, KeptAfter
  <2> QED
    BY <1>3, <2>3 DEF KeptSoFar
<1> QED
  BY <1>2, <1>3 DEF TakesUp

\* A step of somebody else: rules that change make the import a raced one.
LEMMA OthersKeep ==
    ASSUME TypeOK, NEW i \in Importers, KeptSoFar(i), at'[i] = at[i], job'[i] = job[i],
           raced \subseteq raced',
           UNCHANGED <<exact, patterns>> \/ (UnderWay(i) => i \in raced')
    PROVE  KeptSoFar(i)'
<1> SUFFICES ASSUME i \notin raced', at'[i] \in {"get", "put"}, NEW k \in 1 .. job'[i].n - 1
             PROVE  Kept(i, k)'
  BY DEF KeptSoFar
<1>1. UNCHANGED <<exact, patterns>>
  BY DEF UnderWay
<1>2. k \in 1 .. job[i].n - 1 /\ Kept(i, k)
  BY DEF KeptSoFar
<1>3. Puts(i)' = Puts(i)
  BY DEF Puts
<1> QED
  BY <1>1, <1>2, <1>3 DEF Kept

\* A step of the import itself, unless a statement fails.
LEMMA OwnKeep ==
    ASSUME TypeOK, NEW i \in Importers, KeptSoFar(i), Call(i), i \notin raced
    PROVE  /\ KeptSoFar(i)'
           /\ at[i] \in {"get", "put"} /\ at'[i] = "done" => \A k \in DOMAIN Puts(i) : KeptAfter(i, k)
<1>1. ASSUME NEW c \in Collections \cup Groups, NEW cond \in Conds,
             \/ DefineAccessRule(i, c, cond) \/ DefineWriteAccessRule(i, c, cond)
             \/ DefineGroupAccessRule(i, c, cond)
      PROVE  at[i] = "idle" /\ at'[i] = "done"
  <2>1. at[i] = "idle" /\ at' = [at EXCEPT ![i] = "done"]
    BY <1>1 DEF DefineAccessRule, DefineWriteAccessRule, DefineGroupAccessRule, DefineRule
  <2> QED
    BY <2>1 DEF TypeOK, Procs
<1>2. ASSUME NEW file \in Files, ImportRulesFile(i, file)
      PROVE  at[i] = "idle" /\ at'[i] \in {"fixed", "done"}
  BY <1>2, ImportStep
<1>3. ASSUME CheckFixed(i) PROVE at[i] = "fixed" /\ at'[i] \in {"fixed", "done"}
  BY <1>3, CheckFixedStep
<1>4. ASSUME CheckRecursive(i) PROVE at[i] = "fixed" /\ KeptSoFar(i)'
  <2>1. at[i] = "fixed" /\ (at'[i] = "done" \/ TakesUp(i, 1))
    BY <1>4, CheckRecursiveStep
  <2>2. CASE at'[i] = "done"
    BY <2>1, <2>2 DEF KeptSoFar
  <2>3. CASE TakesUp(i, 1)
    <3>1. 0 \in Nat /\ 0 <= Len(Puts(i)) /\ 0 + 1 = 1 /\ 1 .. 0 = {}
      BY <2>1, AtWork
    <3>2. TakesUp(i, 0 + 1) /\ \A k \in 1 .. 0 : KeptAfter(i, k)
      BY <2>3, <3>1
    <3> QED
      BY <2>1, <3>1, <3>2, TakesUpKeeps
  <2> QED
    BY <2>1, <2>2, <2>3
<1>w. ASSUME at[i] \in {"get", "put"}
      PROVE  /\ job[i].n \in 1 .. Len(Puts(i)) /\ Puts(i)[job[i].n].value # {}
             /\ job[i].n \in Nat /\ job[i].n <= Len(Puts(i)) /\ DOMAIN Puts(i) = 1 .. Len(Puts(i))
             /\ \A k \in 1 .. job[i].n - 1 : Kept(i, k)
             /\ \A k \in 1 .. job[i].n : k = job[i].n \/ k \in 1 .. job[i].n - 1
  <2>1. job[i].n \in 1 .. Len(Puts(i)) /\ Puts(i)[job[i].n].value # {}
    BY <1>w DEF TypeOK, CallFits
  <2> QED
    BY <1>w, <2>1, AtWork DEF KeptSoFar
<1>5. ASSUME ImportGet(i)
      PROVE  KeptSoFar(i)' /\ (at'[i] = "done" => \A k \in DOMAIN Puts(i) : KeptAfter(i, k))
  <2>1. /\ at[i] = "get" /\ SameRules
        /\ \/ AlreadyCurrent(Puts(i)[job[i].n]) /\ TakesUp(i, job[i].n + 1)
           \/ at'[i] = "put" /\ job'[i] = job[i]
    BY <1>5, ImportGetStep
  <2>2. CASE AlreadyCurrent(Puts(i)[job[i].n]) /\ TakesUp(i, job[i].n + 1)
    <3>1. Holds(Puts(i)[job[i].n], patterns', exact')
      BY <2>1, <2>2 DEF AlreadyCurrent, Holds, SameRules
    <3>2. \A k \in 1 .. job[i].n - 1 : KeptAfter(i, k)
      BY <1>w, <2>1 DEF Kept, KeptAfter, SameRules
    <3>3. \A k \in 1 .. job[i].n : KeptAfter(i, k)
      BY <1>w, <2>1, <3>1, <3>2 DEF KeptAfter
    <3> QED
      BY <1>w, <2>1, <2>2, <3>3, TakesUpKeeps
  <2>3. CASE at'[i] = "put" /\ job'[i] = job[i]
    <3>1. Puts(i)' = Puts(i)
      BY <2>3 DEF Puts
    <3> QED
      BY <1>w, <2>1, <2>3, <3>1 DEF KeptSoFar, Kept, SameRules
  <2> QED
    BY <2>1, <2>2, <2>3
<1>6. ASSUME ImportPut(i)
      PROVE  KeptSoFar(i)' /\ (at'[i] = "done" => \A k \in DOMAIN Puts(i) : KeptAfter(i, k))
  <2>1. at[i] = "put" /\ Upserted(Puts(i)[job[i].n]) /\ TakesUp(i, job[i].n + 1)
    BY <1>6, ImportPutStep
  <2>2. ASSUME NEW k \in 1 .. job[i].n PROVE KeptAfter(i, k)
    <3>1. CASE k = job[i].n \/ Holds(Puts(i)[k], patterns, exact)
      <4>1. \/ Holds(Puts(i)[k], patterns', exact')
            \/ /\ k # job[i].n
               /\ Puts(i)[job[i].n].table = Puts(i)[k].table
               /\ Puts(i)[job[i].n].key = Puts(i)[k].key
        BY <2>1, <3>1, UpsertKeeps
      <4>2. job[i].n \in DOMAIN Puts(i) /\ Puts(i)[job[i].n].value # {} /\ (k # job[i].n => job[i].n > k)
        BY <1>w, <2>1
      <4> QED
        BY <4>1, <4>2 DEF KeptAfter
    <3>2. CASE k # job[i].n /\ ~Holds(Puts(i)[k], patterns, exact)
      <4>1. Kept(i, k)
        BY <1>w, <2>1, <3>2
      <4> QED
        BY <3>2, <4>1 DEF Kept, KeptAfter
    <3> QED
      BY <3>1, <3>2
  <2> QED
    BY <1>w, <2>1, <2>2, TakesUpKeeps
<1>7. ASSUME at'[i] \notin {"get", "put"} PROVE KeptSoFar(i)'
  BY <1>7 DEF KeptSoFar
<1> QED
  BY <1>1, <1>2, <1>3, <1>4, <1>5, <1>6, <1>7 DEF Call

\* What an import that reports success has stored.
StoredAsSaid(i) ==
    i \notin raced /\ at[i] \in {"get", "put"} /\ at'[i] = "done" /\ faults' = faults =>
        \A k \in DOMAIN Puts(i) : KeptAfter(i, k)

\* Every step keeps what the imports have stored.
LEMMA KeptStep ==
    ASSUME TypeOK, [Next]_vars, \A x \in Importers : KeptSoFar(x), NEW i \in Importers
    PROVE  KeptSoFar(i)' /\ StoredAsSaid(i)
<1>0. i \in Procs /\ KeptSoFar(i)
  BY DEF Procs
<1>s. ASSUME at'[i] = at[i] PROVE StoredAsSaid(i)
  BY <1>s DEF StoredAsSaid
<1>1. ASSUME NEW x \in Importers \ {i}, Call(x) \/ ImportFails(x) PROVE KeptSoFar(i)' /\ StoredAsSaid(i)
  <2>1. Advances(x) /\ Ruled(x)
    BY <1>1, CallFitsStep
  <2>2. at'[i] = at[i] /\ job'[i] = job[i] /\ raced \subseteq raced'
    BY <1>0, <2>1 DEF Advances, Ruled
  <2>3. UNCHANGED <<exact, patterns>> \/ (UnderWay(i) => i \in raced')
    BY <1>0, <1>1, <2>1 DEF Ruled
  <2> QED
    BY <1>0, <1>s, <2>2, <2>3, OthersKeep
<1>2. ASSUME Call(i) PROVE KeptSoFar(i)' /\ StoredAsSaid(i)
  <2>1. CASE i \notin raced
    BY <1>0, <1>2, <2>1, OwnKeep DEF StoredAsSaid
  <2>2. CASE i \in raced
    <3>1. i \in raced'
      BY <1>2, <2>2, CallFitsStep DEF Ruled
    <3> QED
      BY <2>2, <3>1 DEF KeptSoFar, StoredAsSaid
  <2> QED
    BY <2>1, <2>2
<1>3. ASSUME ImportFails(i) PROVE KeptSoFar(i)' /\ StoredAsSaid(i)
  <2>1. at'[i] = "done" /\ faults' # faults
    BY <1>3, ImportFailsStep
  <2> QED
    BY <2>1 DEF KeptSoFar, StoredAsSaid
<1>4. ASSUME NEW r \in Requests, Serve(r) PROVE KeptSoFar(i)' /\ StoredAsSaid(i)
  <2>1. Moves(r) /\ Written(r) /\ i # r
    BY <1>4, ServeFits, ProcsAssumption
  <2>2. at'[i] = at[i] /\ job'[i] = job[i] /\ raced \subseteq raced' /\ UNCHANGED <<exact, patterns>>
    BY <1>0, <2>1 DEF Moves, Written
  <2> QED
    BY <1>0, <1>s, <2>2, OthersKeep
<1>5. ASSUME UNCHANGED vars PROVE KeptSoFar(i)' /\ StoredAsSaid(i)
  <2>1. at'[i] = at[i] /\ job'[i] = job[i] /\ raced \subseteq raced' /\ UNCHANGED <<exact, patterns>>
    BY <1>5 DEF vars
  <2> QED
    BY <1>0, <1>s, <2>1, OthersKeep
<1> QED
  BY <1>1, <1>2, <1>3, <1>4, <1>5 DEF Next

\* An import that reports success has stored what every block of its file says,
\* or a later block for the same key, the rules that it found unchanged and did
\* not store included, unless another admin changed rules meanwhile.
THEOREM ImportsStoreTheirFile == Spec => ImportedAsWritten
<1> DEFINE K == \A x \in Importers : KeptSoFar(x)
<1>1. Init => K
  <2> SUFFICES ASSUME Init PROVE K
    OBVIOUS
  <2>1. \A x \in Importers : at[x] = "idle"
    BY DEF Init, Procs
  <2> QED
    BY <2>1 DEF KeptSoFar
<1>2. TypeOK /\ K /\ [Next]_vars => K'
  BY KeptStep
<1>3. ASSUME TypeOK, K, [Next]_vars
      PROVE  [\A i \in Importers \ raced :
                at[i] \in {"get", "put"} /\ at'[i] = "done" /\ faults' = faults =>
                  LET blocks == job[i].file
                      puts == PutsOf([k \in DOMAIN blocks |-> DecomposeBlock(blocks[k])]) IN
                  \A k \in DOMAIN puts :
                      \/ Holds(puts[k], patterns', exact')
                      \/ \E l \in DOMAIN puts : /\ l > k /\ puts[l].value # {}
                                               /\ puts[l].table = puts[k].table
                                               /\ puts[l].key = puts[k].key]_vars
  <2> SUFFICES ASSUME NEW i \in Importers \ raced, at[i] \in {"get", "put"}, at'[i] = "done",
                      faults' = faults
               PROVE  LET blocks == job[i].file
                          puts == PutsOf([k \in DOMAIN blocks |-> DecomposeBlock(blocks[k])]) IN
                      \A k \in DOMAIN puts :
                          \/ Holds(puts[k], patterns', exact')
                          \/ \E l \in DOMAIN puts : /\ l > k /\ puts[l].value # {}
                                                   /\ puts[l].table = puts[k].table
                                                   /\ puts[l].key = puts[k].key
    OBVIOUS
  <2>1. StoredAsSaid(i)
    BY <1>3, KeptStep
  <2>2. \A k \in DOMAIN Puts(i) : KeptAfter(i, k)
    BY <2>1 DEF StoredAsSaid
  <2>3. Puts(i) = PutsOf([k \in DOMAIN job[i].file |-> DecomposeBlock(job[i].file[k])])
    BY <1>3, AtWork DEF Puts, TargetsOf
  <2> QED
    BY <2>2, <2>3 DEF KeptAfter
<1> QED
  BY <1>1, <1>2, <1>3, TypesHold, PTL DEF Spec, ImportedAsWritten

-----------------------------------------------------------------------------
(* No path is ruled by two patterns                                        *)

\* A pattern clashes with none of the rows but the one that it replaces.
Apart(t, rows) == \A row \in rows : SameText(row, t) \/ ~PatternsClash(t, row)

Disjoint(rows) == \A a, b \in rows : a # b => ~PatternsClash(a, b)

\* The fixed patterns that import i has compared are apart from the stored ones,
FixedApart(i) ==
    at[i] = "fixed" => \A k \in 1 .. job[i].n - 1 :
        FixedTarget(job[i].targets[k]) => Apart(job[i].targets[k], {row \in patterns : ~row.rec})

\* and once it writes, all of its patterns are apart from all rows.
AllApart(i) ==
    at[i] \in {"get", "put"} => \A k \in 1 .. Len(job[i].targets) :
        ~SingleCollection(job[i].targets[k]) => Apart(job[i].targets[k], patterns)

\* With one import at a time, stored patterns are apart from each other and
\* from those about to be stored.
KeptApart ==
    ~overlapped =>
        /\ \A i, j \in Importers : UnderWay(i) /\ UnderWay(j) => i = j
        /\ Disjoint(patterns)
        /\ \A i \in Importers : FixedApart(i) /\ AllApart(i)

\* The stored rows that a query by skeleton leaves out do not clash.
LEMMA ApartBySkeleton ==
    ASSUME TypeOK, NEW t \in GoodRows, ~t.rec, ~ClashesWithStored(t, BySkeleton(t.segs))
    PROVE  Apart(t, {row \in patterns : ~row.rec})
<1> SUFFICES ASSUME NEW row \in patterns, ~row.rec, ~SameText(row, t), PatternsClash(t, row)
             PROVE  FALSE
  BY DEF Apart
<1>1. WellFormed(t) /\ WellFormed(row)
  BY GoodRowsWellFormed DEF TypeOK
<1>2. StructurallyOverlap(t.segs, row.segs)
  BY DEF PatternsClash
<1>3. LiteralSkeleton(t.segs) = LiteralSkeleton(row.segs) /\ Len(row.segs) = Len(t.segs)
  BY <1>1, <1>2, OverlapSkeleton DEF StructurallyOverlap
<1>4. row \in BySkeleton(t.segs)
  BY <1>3 DEF BySkeleton
<1> QED
  BY <1>4 DEF ClashesWithStored

\* The two queries of check_pattern_overlap together see every stored row.
LEMMA ChecksComplete ==
    ASSUME TypeOK, NEW i \in Importers, at[i] = "fixed", FixedApart(i),
           \A k \in job[i].n .. Len(job[i].targets) : ~FixedTarget(job[i].targets[k]),
           NEW k \in 1 .. Len(job[i].targets), ~SingleCollection(job[i].targets[k]),
           ~ClashesWithStored(job[i].targets[k], {row \in patterns : job[i].targets[k].rec \/ row.rec})
    PROVE  Apart(job[i].targets[k], patterns)
<1> DEFINE t == job[i].targets[k]
<1>1. ASSUME NEW row \in patterns, t.rec \/ row.rec PROVE SameText(row, t) \/ ~PatternsClash(t, row)
  BY <1>1 DEF ClashesWithStored
<1>2. ASSUME NEW row \in patterns, ~t.rec, ~row.rec PROVE SameText(row, t) \/ ~PatternsClash(t, row)
  <2>1. FixedTarget(t)
    BY <1>2 DEF FixedTarget
  <2>2. Len(job[i].targets) \in Nat /\ job[i].n \in 1 .. Len(job[i].targets) + 1
    BY AtWork DEF TypeOK, CallFits
  <2>3. ~(k \in job[i].n .. Len(job[i].targets))
    BY <2>1
  <2>4. k \in 1 .. job[i].n - 1
    BY <2>2, <2>3
  <2>5. Apart(t, {x \in patterns : ~x.rec})
    BY <2>1, <2>4 DEF FixedApart
  <2> QED
    BY <1>2, <2>5 DEF Apart
<1> QED
  BY <1>1, <1>2 DEF Apart

\* Any two patterns of the file of an import at work are apart.
LEMMA FileApart ==
    ASSUME TypeOK, NEW i \in Importers, at[i] \in {"fixed", "get", "put"},
           NEW j \in 1 .. Len(job[i].targets), NEW k \in 1 .. Len(job[i].targets), j # k,
           ~SingleCollection(job[i].targets[j]), ~SingleCollection(job[i].targets[k])
    PROVE  ~PatternsClash(job[i].targets[j], job[i].targets[k])
<1> DEFINE a == job[i].targets[j]
           b == job[i].targets[k]
<1>1. /\ ~IntraFileOverlap(job[i].targets) /\ a \in GoodRows /\ b \in GoodRows
      /\ Len(job[i].targets) \in Nat
  BY AtWork DEF Accepted
<1>2. DOMAIN job[i].targets = 1 .. Len(job[i].targets)
  BY DEF TypeOK, Jobs
<1>3. WellFormed(a) /\ WellFormed(b)
  BY <1>1, GoodRowsWellFormed
<1>4. CASE j < k
  BY <1>1, <1>2, <1>4 DEF IntraFileOverlap
<1>5. CASE k < j
  <2>1. ~PatternsClash(b, a)
    BY <1>1, <1>2, <1>5 DEF IntraFileOverlap
  <2> QED
    BY <1>3, <2>1, ClashSym
<1> QED
  BY <1>1, <1>4, <1>5

\* An upsert of a pattern that is apart from the stored ones.
LEMMA UpsertApart ==
    ASSUME NEW rows, \A row \in rows : WellFormed(row), Disjoint(rows), NEW t, WellFormed(t), Apart(t, rows)
    PROVE  Disjoint({row \in rows : ~SameText(row, t)} \cup {t})
<1> DEFINE kept == {row \in rows : ~SameText(row, t)}
<1> SUFFICES ASSUME NEW a \in kept \cup {t}, NEW b \in kept \cup {t}, a # b
             PROVE  ~PatternsClash(a, b)
  BY DEF Disjoint
<1>1. CASE a \in kept /\ b \in kept
  BY <1>1 DEF Disjoint
<1>2. CASE a = t /\ b \in kept
  BY <1>2 DEF Apart
<1>3. CASE b = t /\ a \in kept
  <2>1. ~PatternsClash(t, a) /\ WellFormed(a)
    BY <1>3 DEF Apart
  <2> QED
    BY <1>3, <2>1, ClashSym
<1> QED
  BY <1>1, <1>2, <1>3

\* What an import at work changes about being apart, one statement at a time.
LEMMA OwnApart ==
    ASSUME TypeOK, NEW i \in Importers, FixedApart(i), AllApart(i),
           \/ CheckFixed(i) \/ CheckRecursive(i) \/ ImportGet(i)
    PROVE  /\ Advances(i) /\ UNCHANGED <<patterns, overlapped>> /\ UnderWay(i)
           /\ FixedApart(i)' /\ AllApart(i)'
<1>u. \A s \in {"fixed", "get", "put"} : at[i] = s => UnderWay(i)
  BY DEF UnderWay
<1>1. CASE CheckFixed(i)
  <2>1. Advances(i) /\ SameRules /\ overlapped' = overlapped /\ at[i] = "fixed"
    BY <1>1, CheckFixedStep
  <2>2. CASE at'[i] = "done"
    BY <1>u, <2>1, <2>2 DEF FixedApart, AllApart, SameRules
  <2>3. ASSUME NEW k \in job[i].n .. Len(job[i].targets),
               at'[i] = "fixed", job'[i].n = k + 1, job'[i].targets = job[i].targets,
               \A j \in job[i].n .. k - 1 : ~FixedTarget(job[i].targets[j]),
               FixedTarget(job[i].targets[k]),
               ~ClashesWithStored(job[i].targets[k], BySkeleton(job[i].targets[k].segs))
        PROVE  FixedApart(i)' /\ AllApart(i)'
    <3>1. Len(job[i].targets) \in Nat /\ job[i].n \in 1 .. Len(job[i].targets) + 1
      BY <2>1, AtWork DEF TypeOK, CallFits
    <3>2. ASSUME NEW j \in 1 .. k, FixedTarget(job[i].targets[j])
          PROVE  Apart(job[i].targets[j], {row \in patterns : ~row.rec})
      <4>1. CASE j \in 1 .. job[i].n - 1
        BY <2>1, <3>2, <4>1 DEF FixedApart
      <4>2. CASE j = k
        <5>1. job[i].targets[k] \in GoodRows
          BY <2>1, <3>1, AtWork
        <5> QED
          BY <2>3, <4>2, <5>1, ApartBySkeleton DEF FixedTarget
      <4>3. CASE j \notin 1 .. job[i].n - 1 /\ j # k
        <5>1. j \in job[i].n .. k - 1
          BY <3>1, <4>3
        <5> QED
          BY <2>3, <3>2, <5>1
      <4> QED
        BY <4>1, <4>2, <4>3
    <3>3. job'[i].n - 1 = k
      BY <2>3, <3>1
    <3>4. patterns' = patterns
      BY <2>1 DEF SameRules
    <3>5. \A j \in 1 .. job'[i].n - 1 :
            FixedTarget(job'[i].targets[j]) => Apart(job'[i].targets[j], {row \in patterns' : ~row.rec})
      BY <2>3, <3>2, <3>3, <3>4
    <3> QED
      BY <2>3, <3>5 DEF FixedApart, AllApart
  <2> QED
    BY <1>1, <1>u, <2>1, <2>2, <2>3, CheckFixedStep DEF SameRules
<1>2. CASE CheckRecursive(i)
  <2>1. /\ Advances(i) /\ SameRules /\ overlapped' = overlapped /\ at[i] = "fixed"
        /\ \A k \in job[i].n .. Len(job[i].targets) : ~FixedTarget(job[i].targets[k])
    BY <1>2, CheckRecursiveStep
  <2>2. CASE at'[i] = "done"
    BY <1>u, <2>1, <2>2 DEF FixedApart, AllApart, SameRules
  <2>3. CASE /\ TakesUp(i, 1)
             /\ \A k \in 1 .. Len(job[i].targets) :
                  ~SingleCollection(job[i].targets[k]) =>
                    ~ClashesWithStored(job[i].targets[k],
                                       {row \in patterns : job[i].targets[k].rec \/ row.rec})
    <3>1. \A k \in 1 .. Len(job[i].targets) :
             ~SingleCollection(job[i].targets[k]) => Apart(job[i].targets[k], patterns)
      BY <2>1, <2>3, ChecksComplete
    <3>2. at'[i] = "done" \/ (at'[i] = "get" /\ job'[i].targets = job[i].targets)
      BY <2>3 DEF TakesUp
    <3> QED
      BY <1>u, <2>1, <3>1, <3>2 DEF FixedApart, AllApart, SameRules
  <2> QED
    BY <1>2, <2>2, <2>3, CheckRecursiveStep
<1>3. CASE ImportGet(i)
  <2>1. /\ Advances(i) /\ SameRules /\ overlapped' = overlapped /\ at[i] = "get"
        /\ \/ TakesUp(i, job[i].n + 1)
           \/ at'[i] = "put" /\ job'[i] = job[i]
    BY <1>3, ImportGetStep
  <2>2. at'[i] = "done" \/ (at'[i] \in {"get", "put"} /\ job'[i].targets = job[i].targets)
    BY <2>1 DEF TakesUp
  <2> QED
    BY <1>u, <2>1, <2>2 DEF FixedApart, AllApart, SameRules
<1> QED
  BY <1>1, <1>2, <1>3

\* The upsert of a pattern that is apart from the others keeps them so.
LEMMA PutApart ==
    ASSUME TypeOK, NEW i \in Importers, AllApart(i), Disjoint(patterns), ImportPut(i)
    PROVE  Disjoint(patterns') /\ AllApart(i)' /\ FixedApart(i)'
<1> DEFINE put == Puts(i)[job[i].n]
           targets == job[i].targets
<1>1. at[i] = "put" /\ Upserted(put) /\ TakesUp(i, job[i].n + 1)
  BY ImportPutStep
<1>2. job[i].n \in 1 .. Len(Puts(i)) /\ put.value # {}
  BY <1>1 DEF TypeOK, CallFits
<1>3. at'[i] = "done" \/ (at'[i] = "get" /\ job'[i].targets = targets)
  BY <1>1 DEF TakesUp
<1>4. /\ \A k \in 1 .. Len(targets) : ~SingleCollection(targets[k]) => Apart(targets[k], patterns)
      /\ \A k \in 1 .. Len(targets) : targets[k] \in GoodRows
  BY <1>1, AtWork DEF AllApart
<1>5. put.table = "pattern" =>
        \E j \in 1 .. Len(targets) : ~SingleCollection(targets[j]) /\ put.value = {targets[j]}
  BY <1>1, <1>2, AtWork
<1>6. SUFFICES Disjoint(patterns') /\ \A k \in 1 .. Len(targets) :
                  ~SingleCollection(targets[k]) => Apart(targets[k], patterns')
  BY <1>3 DEF AllApart, FixedApart
<1> HIDE DEF put
<1>7. CASE put.table # "pattern"
  BY <1>1, <1>4, <1>7 DEF Upserted
<1>8. CASE put.table = "pattern"
  <2>1. PICK j \in 1 .. Len(targets) : ~SingleCollection(targets[j]) /\ put.value = {targets[j]}
    BY <1>5, <1>8
  <2> DEFINE t == targets[j]
             kept == {row \in patterns : ~SameText(row, t)}
  <2>2. patterns' = kept \cup {t}
    <3>1. patterns' = {row \in patterns : \A x \in put.value : ~SameText(row, x)} \cup put.value
      BY <1>1, <1>8 DEF Upserted
    <3> QED
      BY <2>1, <3>1
  <2>3. t \in GoodRows /\ WellFormed(t) /\ Apart(t, patterns) /\ \A row \in patterns : WellFormed(row)
    BY <1>4, <2>1, GoodRowsWellFormed DEF TypeOK
  <2>4. Disjoint(patterns')
    BY <2>2, <2>3, UpsertApart
  <2>5. ASSUME NEW k \in 1 .. Len(targets), ~SingleCollection(targets[k]), NEW row \in kept \cup {t}
        PROVE  SameText(row, targets[k]) \/ ~PatternsClash(targets[k], row)
    <3>1. CASE row \in kept
      BY <1>4, <2>5, <3>1 DEF Apart
    <3>2. CASE row = t /\ k = j
      BY <3>2 DEF SameText
    <3>3. CASE row = t /\ k # j
      BY <1>1, <2>1, <2>5, <3>3, FileApart
    <3> QED
      BY <3>1, <3>2, <3>3
  <2> QED
    BY <2>2, <2>4, <2>5 DEF Apart
<1> QED
  BY <1>7, <1>8

\* The imports that step i leaves alone.
LEMMA OthersApart ==
    ASSUME NEW x, FixedApart(x), AllApart(x), at'[x] = at[x], job'[x] = job[x], patterns' = patterns
    PROVE  FixedApart(x)' /\ AllApart(x)'
BY DEF FixedApart, AllApart

\* A step of one call that changes no patterns.
LEMMA CallApart ==
    ASSUME TypeOK, KeptApart, ~overlapped, NEW i \in Importers, Advances(i), patterns' = patterns,
           FixedApart(i)', AllApart(i)',
           \/ UnderWay(i) \/ ~UnderWay(i)'
           \/ \A x \in Importers \ {i} : ~UnderWay(x)
    PROVE  KeptApart'
<1>1. /\ \A x, y \in Importers : UnderWay(x) /\ UnderWay(y) => x = y
      /\ Disjoint(patterns)
      /\ \A x \in Importers : FixedApart(x) /\ AllApart(x)
  BY DEF KeptApart
<1>2. \A x \in Importers \ {i} : at'[x] = at[x] /\ job'[x] = job[x] /\ (UnderWay(x)' <=> UnderWay(x))
  BY DEF Advances, Procs, UnderWay
<1>3. ASSUME NEW x \in Importers, NEW y \in Importers, UnderWay(x)', UnderWay(y)' PROVE x = y
  <2>1. CASE UnderWay(i) \/ ~UnderWay(i)'
    <3>1. UnderWay(x) /\ UnderWay(y)
      BY <1>2, <1>3, <2>1
    <3> QED
      BY <1>1, <3>1
  <2>2. CASE \A z \in Importers \ {i} : ~UnderWay(z)
    BY <1>2, <1>3, <2>2
  <2> QED
    BY <2>1, <2>2
<1>4. \A x \in Importers : FixedApart(x)' /\ AllApart(x)'
  BY <1>1, <1>2, OthersApart
<1> QED
  BY <1>1, <1>3, <1>4 DEF KeptApart

\* Every step keeps the patterns apart.
LEMMA ApartStep == TypeOK /\ KeptApart /\ [Next]_vars => KeptApart'
<1> SUFFICES ASSUME TypeOK, KeptApart, [Next]_vars, ~overlapped' PROVE KeptApart'
  BY DEF KeptApart
<1>0. ~overlapped =>
        /\ \A x, y \in Importers : UnderWay(x) /\ UnderWay(y) => x = y
        /\ Disjoint(patterns)
        /\ \A x \in Importers : FixedApart(x) /\ AllApart(x)
  BY DEF KeptApart
<1>q. ASSUME UNCHANGED <<patterns, overlapped>>, \A x \in Importers : at'[x] = at[x] /\ job'[x] = job[x]
      PROVE  KeptApart'
  <2>1. \A x \in Importers : FixedApart(x)' /\ AllApart(x)'
    BY <1>0, <1>q, OthersApart
  <2>2. \A x \in Importers : UnderWay(x)' <=> UnderWay(x)
    BY <1>q DEF UnderWay
  <2> QED
    BY <1>0, <1>q, <2>1, <2>2 DEF KeptApart
<1>d. ASSUME NEW i \in Importers, at'[i] = "done"
      PROVE  FixedApart(i)' /\ AllApart(i)' /\ ~UnderWay(i)'
  BY <1>d DEF FixedApart, AllApart, UnderWay
<1>1. ASSUME NEW i \in Importers, NEW c \in Collections \cup Groups, NEW cond \in Conds,
             \/ DefineAccessRule(i, c, cond) \/ DefineWriteAccessRule(i, c, cond)
             \/ DefineGroupAccessRule(i, c, cond)
      PROVE  KeptApart'
  <2>1. c \in RuleKeys /\ {"read", "write", "group"} \subseteq Tables
    BY DEF RuleKeys, Tables
  <2>2. PICK t \in Tables : DefineRule(i, t, c, cond)
    BY <1>1, <2>1 DEF DefineAccessRule, DefineWriteAccessRule, DefineGroupAccessRule
  <2>3. Advances(i) /\ UNCHANGED <<patterns, overlapped>> /\ at'[i] = "done"
    BY <2>1, <2>2, DefineStep
  <2> QED
    BY <1>d, <2>3, CallApart
<1>2. ASSUME NEW i \in Importers, NEW file \in Files, ImportRulesFile(i, file) PROVE KeptApart'
  <2>1. /\ Advances(i) /\ SameRules /\ overlapped' = (overlapped \/ \E k \in Importers \ {i} : UnderWay(k))
        /\ \/ at'[i] = "done"
           \/ at'[i] = "fixed" /\ job'[i].n = 1
    BY <1>2, ImportStep
  <2>2. ~overlapped /\ \A x \in Importers \ {i} : ~UnderWay(x)
    BY <2>1
  <2>3. FixedApart(i)' /\ AllApart(i)'
    <3>1. CASE at'[i] = "done"
      BY <1>d, <3>1
    <3>2. CASE at'[i] = "fixed" /\ job'[i].n = 1
      <4>1. 1 .. job'[i].n - 1 = {}
        BY <3>2
      <4> QED
        BY <3>2, <4>1 DEF FixedApart, AllApart
    <3> QED
      BY <2>1, <3>1, <3>2
  <2> QED
    BY <2>1, <2>2, <2>3, CallApart DEF SameRules
<1>3. ASSUME NEW i \in Importers, CheckFixed(i) \/ CheckRecursive(i) \/ ImportGet(i) PROVE KeptApart'
  <2>1. overlapped' = overlapped
    BY <1>3, CheckFixedStep, CheckRecursiveStep, ImportGetStep
  <2>2. FixedApart(i) /\ AllApart(i)
    BY <1>0, <2>1
  <2>3. /\ Advances(i) /\ patterns' = patterns /\ UnderWay(i) /\ FixedApart(i)' /\ AllApart(i)'
    BY <1>3, <2>2, OwnApart
  <2> QED
    BY <2>1, <2>3, CallApart
<1>4. ASSUME NEW i \in Importers, ImportPut(i) PROVE KeptApart'
  <2>1. Advances(i) /\ overlapped' = overlapped /\ at[i] = "put"
    BY <1>4, ImportPutStep
  <2>2. UnderWay(i) /\ AllApart(i) /\ Disjoint(patterns)
    BY <1>0, <2>1 DEF UnderWay
  <2>3. Disjoint(patterns') /\ AllApart(i)' /\ FixedApart(i)'
    BY <1>4, <2>2, PutApart
  <2>4. \A x \in Importers \ {i} : ~UnderWay(x) /\ ~UnderWay(x)' /\ at'[x] = at[x]
    BY <1>0, <2>1, <2>2 DEF Advances, Procs, UnderWay
  <2>5. \A x \in Importers \ {i} : FixedApart(x)' /\ AllApart(x)'
    BY <2>4 DEF FixedApart, AllApart, UnderWay
  <2> QED
    BY <2>3, <2>4, <2>5 DEF KeptApart
<1>5. ASSUME NEW i \in Importers, ImportFails(i) PROVE KeptApart'
  <2>1. Advances(i) /\ SameRules /\ overlapped' = overlapped /\ at'[i] = "done"
    BY <1>5, ImportFailsStep
  <2> QED
    BY <1>d, <2>1, CallApart DEF SameRules
<1>6. ASSUME NEW r \in Requests, Serve(r) PROVE KeptApart'
  <2>1. Moves(r) /\ \A x \in Importers : x # r /\ x \in Procs
    BY <1>6, ServeFits, ProcsAssumption DEF Procs
  <2> QED
    BY <1>q, <2>1 DEF Moves
<1>7. ASSUME UNCHANGED vars PROVE KeptApart'
  BY <1>7, <1>q DEF vars
<1> QED
  BY <1>1, <1>2, <1>3, <1>4, <1>5, <1>6, <1>7 DEF Next, Call

\* Whatever is imported, in part or twice, no path is ever ruled by two patterns
\* while imports come one at a time: check_pattern_overlap sees every clash that
\* routing could meet.
THEOREM RoutingUnambiguous == Spec => []Unambiguous
<1>1. Init => KeptApart
  <2> SUFFICES ASSUME Init PROVE KeptApart
    OBVIOUS
  <2>1. patterns = {} /\ \A x \in Importers : at[x] = "idle"
    BY DEF Init, Procs
  <2>2. Disjoint(patterns)
    BY <2>1 DEF Disjoint
  <2> QED
    BY <2>1, <2>2 DEF KeptApart, FixedApart, AllApart, UnderWay
<1>2. TypeOK /\ KeptApart => Unambiguous
  <2> SUFFICES ASSUME TypeOK, KeptApart, ~overlapped, NEW p \in Probes
               PROVE  Cardinality(Ruling(patterns, p)) <= 1
    BY DEF Unambiguous
  <2>1. \A row \in patterns : WellFormed(row)
    BY GoodRowsWellFormed DEF TypeOK
  <2>2. \A a, b \in patterns : a # b => ~PatternsClash(a, b)
    BY DEF KeptApart, Disjoint
  <2>3. p \in Seq(STRING) /\ p # << >>
    BY PathOf
  <2> QED
    BY <2>1, <2>2, <2>3, AtMostOneRules
<1> QED
  BY <1>1, <1>2, ApartStep, TypesHold, PTL DEF Spec

-----------------------------------------------------------------------------
(* A request does what the governing rule allows                           *)

\* The condition that the handlers go by: those that leave patterns out have the
\* rule of the collection only.
Followed(r, p) ==
    LET rows == Ruling(patterns, p) IN
    IF RuleOf(r, p) # {} \/ req[r].kind \notin RoutedKinds \/ rows = {} THEN RuleOf(r, p)
    ELSE IF req[r].kind = "get" THEN TheRow(rows).read ELSE TheRow(rows).write

BindOf(r, p) ==
    IF RuleOf(r, p) = {} /\ Ruling(patterns, p) # {}
    THEN Bindings(TheRow(Ruling(patterns, p)).segs, p) ELSE << >>

\* What Permitted evaluates the governing rule on, m being whether the user's
\* document is there.
ContextOf(r, p, m) ==
    [user |-> req[r].user, doc |-> IF req[r].kind = "create" THEN Absent ELSE docs[p],
     owner |-> req[r].owner, leaf |-> Last(p), member |-> m, bind |-> BindOf(r, p)]

PermittedIf(r, p, m) ==
    /\ req[r].kind = "group" => RuleOf(r, p) # {}
    /\ \A c \in Followed(r, p) : Evaluate(c, ContextOf(r, p, m))

\* Only these handlers read the documents that a condition asks for; no rule of
\* the others does.
CrossReading == {"get", "create", "update"}
Allowed(r, p) == PermittedIf(r, p, req[r].kind \in CrossReading /\ IsMember(req[r].user))

\* The request has the governing rule of its document, and the bindings.
RuleRight(r) ==
    /\ req[r].rule = Followed(r, req[r].path)
    /\ req[r].rule # {} => req[r].bind = BindOf(r, req[r].path)

\* What is granted is allowed.
Granting(r) ==
    /\ at[r] \in {"lookup", "act"} \cup Looking /\ req[r].kind \notin QueryKinds =>
          \A p \in req[r].granted : Allowed(r, p)
    /\ at[r] = "act" /\ req[r].kind \in QueryKinds => \A p \in req[r].granted : Admitted(r, p)

\* What a request knows, at each place, is so.
Informed(r) ==
    /\ at[r] = "open" => req[r].kind = "stream"
    /\ at[r] \in {"scan", "filter"} => req[r].kind = "list"
    /\ at[r] = "filter" => \A p \in req[r].todo : req[r].seen[p] = docs[p]
    /\ at[r] \in {"lookup"} \cup Looking /\ req[r].kind = "batchGet" =>
          \A c \in DOMAIN req[r].cache : req[r].cache[c] = exact["read"][c]
    /\ at[r] \in {"route", "recursive"} =>
          /\ req[r].kind \in RoutedKinds /\ req[r].rule = {} /\ RuleOf(r, req[r].path) = {}
          /\ req[r].kind = "get" => req[r].doc = docs[req[r].path]
    /\ at[r] = "recursive" => FixedMatches(Collection(req[r].path)) = {}
    /\ at[r] = "fetch" /\ req[r].kind = "get" =>
          req[r].rule = RuleOf(r, req[r].path) /\ req[r].bind = << >>
    /\ at[r] = "fetch" /\ req[r].kind # "get" => RuleRight(r)
    /\ at[r] = "check" =>
          /\ RuleRight(r)
          /\ req[r].rule # {} /\ req[r].kind # "create" => req[r].doc = docs[req[r].path]

Trusted(r) == r \notin raced => Granting(r) /\ Informed(r)

\* What the condition that a handler goes by permits, the governing one does,
\* unless the handler left the pattern out.
LEMMA PermittedAs ==
    ASSUME NEW r, NEW p, PermittedIf(r, p, IsMember(req[r].user))
    PROVE  Permitted(r, p) \/ Unrouted(r, p)
<1> SUFFICES ASSUME ~Unrouted(r, p) PROVE Permitted(r, p)
  OBVIOUS
<1>1. /\ req[r].kind = "group" => RuleOf(r, p) # {}
      /\ \A c \in Followed(r, p) : Evaluate(c, ContextOf(r, p, IsMember(req[r].user)))
  BY DEF PermittedIf
<1>2. RuleOf(r, p) # {} \/ Ruling(patterns, p) = {} \/ req[r].kind \in RoutedKinds
  BY <1>1 DEF Unrouted
<1>3. req[r].kind \in RoutedKinds => (req[r].kind \in WriteKinds <=> req[r].kind # "get")
  BY DEF RoutedKinds, WriteKinds
<1>4. Governing(r, p) = Followed(r, p)
  BY <1>2, <1>3 DEF Governing, Followed
<1> QED
  BY <1>1, <1>4 DEF Permitted, ContextOf, BindOf

\* A condition that holds of less holds of more: Absent values and documents
\* that were not asked for fail every test.
LEMMA EvaluateMore ==
    ASSUME NEW c, NEW x, NEW y, Evaluate(c, x), x.user = y.user, x.doc = y.doc, x.bind = y.bind,
           x.owner = y.owner \/ x.owner = Absent, x.leaf = y.leaf \/ x.leaf = Absent,
           x.member => y.member
    PROVE  Evaluate(c, y)
<1> SUFFICES ASSUME NEW t \in c PROVE Test(t, y)
  BY DEF Evaluate
<1>1. Test(t, x)
  BY DEF Evaluate
<1> QED
  BY <1>1 DEF Test

\* What is permitted without the user's document is permitted with it.
LEMMA PermittedMore ==
    ASSUME NEW r, NEW p, NEW m, NEW n, m => n, PermittedIf(r, p, m)
    PROVE  PermittedIf(r, p, n)
<1> SUFFICES ASSUME NEW c \in Followed(r, p) PROVE Evaluate(c, ContextOf(r, p, n))
  BY DEF PermittedIf
<1>1. Evaluate(c, ContextOf(r, p, m))
  BY DEF PermittedIf
<1>2. /\ ContextOf(r, p, m).user = ContextOf(r, p, n).user
      /\ ContextOf(r, p, m).doc = ContextOf(r, p, n).doc
      /\ ContextOf(r, p, m).bind = ContextOf(r, p, n).bind
      /\ ContextOf(r, p, m).owner = ContextOf(r, p, n).owner
      /\ ContextOf(r, p, m).leaf = ContextOf(r, p, n).leaf
      /\ ContextOf(r, p, m).member => ContextOf(r, p, n).member
  BY DEF ContextOf
<1> QED
  BY <1>1, <1>2, EvaluateMore

\* A step leaves alone what request r goes by for document p: the rule of its
\* collection, or else the pattern that rules it.
SameBasis(r, p) ==
    /\ RuleOf(r, p)' = RuleOf(r, p)
    /\ RuleOf(r, p) = {} /\ req[r].kind \in RoutedKinds =>
          Ruling(patterns, p)' = Ruling(patterns, p)

\* What governs a document depends on that and on the call only.
LEMMA SameFollowed ==
    ASSUME NEW r, NEW p, SameCall(r), SameBasis(r, p)
    PROVE  /\ RuleOf(r, p)' = RuleOf(r, p) /\ Followed(r, p)' = Followed(r, p)
           /\ Followed(r, p) # {} => BindOf(r, p)' = BindOf(r, p)
<1>1. RuleOf(r, p)' = RuleOf(r, p) /\ req'[r].kind = req[r].kind
  BY DEF SameBasis, SameCall
<1>2. CASE RuleOf(r, p) # {} \/ req[r].kind \notin RoutedKinds
  BY <1>1, <1>2 DEF Followed, BindOf
<1>3. CASE RuleOf(r, p) = {} /\ req[r].kind \in RoutedKinds
  <2>1. Ruling(patterns, p)' = Ruling(patterns, p)
    BY <1>3 DEF SameBasis
  <2> QED
    BY <1>1, <2>1 DEF Followed, BindOf
<1> QED
  BY <1>2, <1>3

\* The rules and the patterns are all of it.
LEMMA SameGoverning ==
    ASSUME NEW r, NEW p, SameCall(r), UNCHANGED <<exact, patterns>>
    PROVE  /\ RuleOf(r, p)' = RuleOf(r, p) /\ Followed(r, p)' = Followed(r, p)
           /\ BindOf(r, p)' = BindOf(r, p) /\ SameBasis(r, p)
<1>1. RuleOf(r, p)' = RuleOf(r, p)
  BY DEF RuleOf, GetAccessRule, GetWriteAccessRule, GetGroupAccessRule, SameCall
<1> QED
  BY <1>1 DEF Followed, BindOf, SameCall, SameBasis

\* What is permitted stays so while rules, document and call do.
LEMMA SamePermitted ==
    ASSUME NEW r, NEW p, NEW m, SameCall(r), SameBasis(r, p), docs'[p] = docs[p],
           PermittedIf(r, p, m)
    PROVE  PermittedIf(r, p, m)'
<1>1. /\ RuleOf(r, p)' = RuleOf(r, p) /\ Followed(r, p)' = Followed(r, p)
      /\ Followed(r, p) # {} => BindOf(r, p)' = BindOf(r, p)
  BY SameFollowed
<1>2. Followed(r, p) # {} => ContextOf(r, p, m)' = ContextOf(r, p, m)
  BY <1>1 DEF ContextOf, SameCall
<1> QED
  BY <1>1, <1>2 DEF PermittedIf, SameCall

\* What is granted stays allowed while all that was read stays as it is,
LEMMA StaysAllowed ==
    ASSUME NEW r, NEW p, SameCall(r), SameBasis(r, p), docs'[p] = docs[p], Allowed(r, p),
           req[r].kind \in CrossReading => IsMember(req[r].user)' = IsMember(req[r].user)
    PROVE  Allowed(r, p)'
<1> DEFINE m == req[r].kind \in CrossReading /\ IsMember(req[r].user)
<1>1. m' = m
  BY DEF SameCall
<1>2. PermittedIf(r, p, m)
  BY DEF Allowed
<1> HIDE DEF m
<1>3. PICK b : b = m
  OBVIOUS
<1>4. PermittedIf(r, p, b)'
  BY <1>2, <1>3, SamePermitted
<1> QED
  BY <1>1, <1>3, <1>4 DEF Allowed, m

\* in particular while rules and documents do,
LEMMA SameAllowed ==
    ASSUME NEW r, NEW p, SameCall(r), UNCHANGED <<exact, patterns, docs>>, Allowed(r, p)
    PROVE  Allowed(r, p)'
<1>1. SameBasis(r, p) /\ IsMember(req[r].user)' = IsMember(req[r].user)
  BY SameGoverning DEF IsMember, SameCall
<1> QED
  BY <1>1, StaysAllowed

\* and in a BatchWrite while its own document does.
LEMMA StillAllowed ==
    ASSUME NEW r, NEW p, SameCall(r), req[r].kind = "batchWrite", UNCHANGED <<exact, patterns>>,
           docs'[p] = docs[p], Allowed(r, p)
    PROVE  Allowed(r, p)'
<1>1. PermittedIf(r, p, FALSE)
  BY DEF Allowed, CrossReading
<1>2. PermittedIf(r, p, FALSE)'
  BY <1>1, SameGoverning, SamePermitted
<1> QED
  BY <1>2 DEF Allowed, SameCall, CrossReading

\* Without further grants, what is granted stays allowed.
LEMMA GrantingKept ==
    ASSUME NEW r, Granting(r), SameCall(r), UNCHANGED <<exact, patterns, docs>>,
           at[r] \in {"lookup", "act"} \cup Looking, req[r].kind \notin QueryKinds,
           req'[r].granted \subseteq req[r].granted
    PROVE  Granting(r)'
<1>1. \A p \in req'[r].granted : Allowed(r, p)
  BY DEF Granting
<1>2. \A p \in req'[r].granted : Allowed(r, p)'
  BY <1>1, SameAllowed
<1>3. req'[r].kind \notin QueryKinds
  BY DEF SameCall
<1> QED
  BY <1>2, <1>3 DEF Granting, QueryKinds

\* The rule that a handler has, right before and after a step.
LEMMA SameRight ==
    ASSUME NEW r, RuleRight(r), SameCall(r), SameBasis(r, req[r].path),
           req'[r].path = req[r].path, req'[r].rule = req[r].rule, req'[r].bind = req[r].bind
    PROVE  RuleRight(r)'
<1> DEFINE p == req[r].path
<1>1. PICK d : d = p
  OBVIOUS
<1>2. /\ Followed(r, d)' = Followed(r, d)
      /\ Followed(r, d) # {} => BindOf(r, d)' = BindOf(r, d)
  BY <1>1, SameFollowed
<1>3. /\ Followed(r, req[r].path)' = Followed(r, req[r].path)
      /\ Followed(r, req[r].path) # {} => BindOf(r, req[r].path)' = BindOf(r, req[r].path)
  BY <1>1, <1>2
<1> QED
  BY <1>3 DEF RuleRight

\* A condition that the handler's own evaluation finds true is permitted.
LEMMA CheckAllows ==
    ASSUME TypeOK, NEW r \in Requests, at[r] = "check", Informed(r),
           \A c \in req[r].rule : Evaluate(c, Context(r))
    PROVE  Allowed(r, req[r].path)
<1> DEFINE p == req[r].path
           m == req[r].kind \in CrossReading /\ IsMember(req[r].user)
           x == Context(r)
           y == ContextOf(r, p, m)
<1>1. req[r].kind \notin QueryKinds
  BY PathInHand DEF Looking
<1>2. /\ req[r].rule = Followed(r, p)
      /\ req[r].rule # {} => req[r].bind = BindOf(r, p)
      /\ req[r].rule # {} /\ req[r].kind # "create" => req[r].doc = docs[p]
  BY DEF Informed, RuleRight
<1>3. SUFFICES ASSUME NEW c \in Followed(r, p) PROVE Evaluate(c, y)
  BY <1>1 DEF Allowed, PermittedIf, QueryKinds
<1>4. req[r].bind = BindOf(r, p) /\ (req[r].kind # "create" => req[r].doc = docs[p])
  BY <1>2, <1>3
<1>5. Evaluate(c, x)
  BY <1>2, <1>3
<1>6. /\ x.user = req[r].user /\ x.bind = req[r].bind /\ x.owner = req[r].owner
      /\ x.leaf = Last(p) \/ x.leaf = Absent
      /\ x.doc = IF req[r].kind = "create" THEN Absent ELSE req[r].doc
      /\ x.member => m
  BY DEF Context, GetContext, CreateContext, UpdateContext, DeleteContext, BatchGetContext,
         CommitContext, PlainContext, CrossReading
<1>7. /\ y.user = req[r].user /\ y.bind = BindOf(r, p) /\ y.owner = req[r].owner /\ y.leaf = Last(p)
      /\ y.doc = IF req[r].kind = "create" THEN Absent ELSE docs[p]
      /\ y.member = m
  BY DEF ContextOf
<1> HIDE DEF x, y, m
<1> QED
  BY <1>4, <1>5, <1>6, <1>7, EvaluateMore

\* The condition of a list, on the documents it has read.
LEMMA FilterAllows ==
    ASSUME NEW r, NEW p, req[r].kind = "list",
           \A c \in RuleOf(r, p) : Evaluate(c, [user |-> req[r].user, doc |-> docs[p], owner |-> Absent,
                                                bind |-> << >>, leaf |-> Absent, member |-> FALSE])
    PROVE  Allowed(r, p)
<1> DEFINE m == req[r].kind \in CrossReading /\ IsMember(req[r].user)
           x == [user |-> req[r].user, doc |-> docs[p], owner |-> Absent,
                 bind |-> << >>, leaf |-> Absent, member |-> FALSE]
           y == ContextOf(r, p, m)
<1>1. SUFFICES ASSUME NEW c \in Followed(r, p) PROVE Evaluate(c, y)
  BY DEF Allowed, PermittedIf
<1>2. c \in RuleOf(r, p)
  BY <1>1 DEF Followed, RoutedKinds
<1>3. Evaluate(c, x)
  BY <1>2
<1>4. /\ y.user = req[r].user /\ y.bind = << >> /\ y.doc = docs[p]
  BY <1>2 DEF ContextOf, BindOf
<1>5. x.user = req[r].user /\ x.doc = docs[p] /\ x.owner = Absent /\ x.bind = << >> /\ x.leaf = Absent
      /\ ~x.member
  OBVIOUS
<1> HIDE DEF x, y
<1> QED
  BY <1>3, <1>4, <1>5, EvaluateMore

\* A query that its static check admits shows permitted documents.
LEMMA QueryAllows ==
    ASSUME NEW r, NEW p, req[r].kind \in QueryKinds, Admitted(r, p),
           \A o \in req[r].filter : docs[p] = o
    PROVE  PermittedIf(r, p, IsMember(req[r].user))
<1> DEFINE m == IsMember(req[r].user)
           y == ContextOf(r, p, m)
<1>1. SUFFICES ASSUME NEW c \in Followed(r, p) PROVE Evaluate(c, y)
  BY DEF PermittedIf, Admitted
<1>2. c \in RuleOf(r, p)
  BY <1>1 DEF Followed, QueryKinds, RoutedKinds
<1>3. Complies(c, req[r].filter, req[r].user)
  BY <1>2 DEF Admitted
<1>4. y.user = req[r].user /\ y.doc = docs[p]
  BY DEF ContextOf, QueryKinds
<1> HIDE DEF y
<1>5. ASSUME NEW t \in c PROVE Test(t, y)
  <2>1. /\ req[r].user # Absent
        /\ \/ t[1] = "auth"
           \/ t[1] = "owner" /\ req[r].filter = {req[r].user}
    BY <1>3 DEF Complies
  <2>2. CASE t[1] = "auth"
    BY <1>4, <2>1, <2>2 DEF Test
  <2>3. CASE t[1] = "owner" /\ req[r].filter = {req[r].user}
    <3>1. docs[p] = req[r].user
      BY <2>3
    <3> QED
      BY <1>4, <2>1, <2>3, <3>1 DEF Test
  <2> QED
    BY <2>1, <2>2, <2>3
<1> QED
  BY <1>5 DEF Evaluate

\* Places where a request has nothing to be wrong about.
LEMMA NothingKnown ==
    ASSUME NEW r, at'[r] \in {"idle", "act", "done"}
    PROVE  Informed(r)'
BY DEF Informed, Looking

\* A collection that has a rule of its own is governed by it.
LEMMA LookedUp ==
    ASSUME NEW r, NEW p, RuleOf(r, p) # {} \/ req[r].kind \notin RoutedKinds
    PROVE  Followed(r, p) = RuleOf(r, p) /\ (RuleOf(r, p) # {} => BindOf(r, p) = << >>)
BY DEF Followed, BindOf, RoutedKinds

\* A request that has just arrived has been granted nothing.
LEMMA EntersTrusted ==
    ASSUME TypeOK, NEW r \in Requests, NEW kind \in Handlers, NEW P \in SUBSET Docs, NEW u \in Owners,
           NEW o \in Owners, NEW f \in SUBSET Users, Enter(r, kind, P, u, o, f)
    PROVE  Granting(r)' /\ Informed(r)'
<1>1. /\ at'[r] \in {"open", "scan", "lookup"}
      /\ at'[r] = "scan" => kind = "list"
      /\ at'[r] = "open" => kind = "stream"
      /\ req'[r].kind = kind /\ req'[r].granted = {} /\ req'[r].cache = << >>
  BY EnterStep
<1>2. Granting(r)'
  BY <1>1 DEF Granting
<1>3. DOMAIN << >> = {}
  OBVIOUS
<1> QED
  BY <1>1, <1>2, <1>3 DEF Informed, Looking

\* A message of a Write stream begins a new batch.
LEMMA MessageTrusted ==
    ASSUME TypeOK, NEW r \in Requests, NEW P \in SUBSET Docs, NEW o \in Owners, WriteMessage(r, P, o),
           Informed(r)
    PROVE  Granting(r)' /\ Informed(r)'
<1>1. /\ at[r] = "open" /\ at'[r] = "lookup" /\ req'[r].kind = req[r].kind /\ req'[r].granted = {}
  BY WriteMessageStep
<1>2. req[r].kind = "stream"
  BY <1>1 DEF Informed
<1> QED
  BY <1>1, <1>2 DEF Granting, Informed, Looking

\* A list has the documents that are there, and shows the allowed ones.
LEMMA ListTrusted ==
    ASSUME TypeOK, NEW r \in Requests, Scan(r) \/ FilterList(r), Informed(r)
    PROVE  Granting(r)' /\ Informed(r)'
<1>1. CASE Scan(r)
  <2>1. /\ Quiet /\ SameCall(r) /\ at[r] = "scan" /\ at'[r] = "filter"
        /\ req'[r].seen = [p \in req[r].todo |-> docs[p]] /\ req'[r].todo = req[r].todo
    BY <1>1, ScanStep
  <2>2. req'[r].kind = "list" /\ \A p \in req'[r].todo : req'[r].seen[p] = docs'[p]
    BY <2>1 DEF Informed, SameCall, Quiet
  <2> QED
    BY <2>1, <2>2 DEF Granting, Informed, Looking
<1>2. CASE FilterList(r)
  <2>1. /\ Moves(r) /\ Quiet /\ SameCall(r) /\ at[r] = "filter" /\ at'[r] = "act"
        /\ req'[r].granted \subseteq req[r].todo
        /\ \A p \in req'[r].granted : \A c \in RuleOf(r, p) :
              Evaluate(c, [user |-> req[r].user, doc |-> req[r].seen[p], owner |-> Absent,
                           bind |-> << >>, leaf |-> Absent, member |-> FALSE])
    BY <1>2, FilterStep
  <2>2. req[r].kind = "list" /\ \A p \in req[r].todo : req[r].seen[p] = docs[p]
    BY <2>1 DEF Informed
  <2>3. ASSUME NEW p \in req'[r].granted PROVE Allowed(r, p)'
    <3>1. req[r].seen[p] = docs[p]
      BY <2>1, <2>2
    <3>2. \A c \in RuleOf(r, p) :
             Evaluate(c, [user |-> req[r].user, doc |-> docs[p], owner |-> Absent,
                          bind |-> << >>, leaf |-> Absent, member |-> FALSE])
      BY <2>1, <3>1
    <3>3. Allowed(r, p)
      BY <2>2, <3>2, FilterAllows
    <3> QED
      BY <2>1, <3>3, SameAllowed DEF Moves, Quiet
  <2>4. req'[r].kind = "list"
    BY <2>1, <2>2 DEF SameCall
  <2>5. Granting(r)'
    BY <2>3, <2>4 DEF Granting, QueryKinds
  <2> QED
    BY <2>1, <2>5, NothingKnown
<1> QED
  BY <1>1, <1>2

\* A lookup finds the stored rule, in batchGet's cache as in the table.
LEMMA LookupTrusted ==
    ASSUME TypeOK, NEW r \in Requests, NEW p \in Docs, Lookup(r, p), Granting(r), Informed(r)
    PROVE  Granting(r)' /\ Informed(r)'
<1> DEFINE F == RuleOf(r, p)
<1>1. /\ Moves(r) /\ Quiet /\ SameCall(r) /\ at[r] = "lookup" /\ req[r].kind \notin QueryKinds
      /\ req'[r].granted = req[r].granted /\ req'[r].path = p
      /\ req'[r].rule = Found(r, p) /\ req'[r].bind = << >>
  BY LookupStep
<1>2. UNCHANGED <<exact, patterns, docs>>
  BY <1>1 DEF Moves, Quiet
<1>3. Granting(r)'
  BY <1>1, <1>2, GrantingKept
<1>4. Found(r, p) = F
  <2>1. req[r].kind = "batchGet" => RuleOf(r, p) = exact["read"][Collection(p)]
    BY DEF RuleOf, WriteKinds, GetAccessRule
  <2>2. req[r].kind = "batchGet" => \A c \in DOMAIN req[r].cache : req[r].cache[c] = exact["read"][c]
    BY <1>1 DEF Informed, Looking
  <2> QED
    BY <2>1, <2>2 DEF Found
<1>5. /\ RuleOf(r, p)' = F /\ Followed(r, p)' = Followed(r, p) /\ BindOf(r, p)' = BindOf(r, p)
  BY <1>1, <1>2, SameGoverning
<1>6. /\ RuleOf(r, req[r].path)' = F /\ Followed(r, req[r].path)' = Followed(r, p)
      /\ BindOf(r, req[r].path)' = BindOf(r, p)
  BY <1>1, <1>5
<1>7. req'[r].kind = req[r].kind /\ req'[r].rule = F
  BY <1>1, <1>4 DEF SameCall
<1>8. ASSUME req'[r].kind = "batchGet", NEW c \in DOMAIN req'[r].cache
      PROVE  req'[r].cache[c] = exact'["read"][c]
  <2>1. \/ c \in DOMAIN req[r].cache /\ req'[r].cache[c] = req[r].cache[c]
        \/ c = Collection(p) /\ req'[r].cache[c] = F
    BY <1>4, <1>7, <1>8, LookupStep
  <2>2. F = exact["read"][Collection(p)]
    BY <1>7, <1>8 DEF RuleOf, WriteKinds, GetAccessRule
  <2>3. \A d \in DOMAIN req[r].cache : req[r].cache[d] = exact["read"][d]
    BY <1>1, <1>7, <1>8 DEF Informed
  <2> QED
    BY <1>2, <2>1, <2>2, <2>3
<1>9. at'[r] = CASE req[r].kind = "get" -> "fetch"
                 [] F = {} /\ req[r].kind \in {"create", "update", "delete"} -> "route"
                 [] OTHER -> RuleKnown(r, F)
  BY <1>4, LookupStep
<1> HIDE DEF F
<1>10. CASE req[r].kind = "get"
  <2>1. at'[r] = "fetch" /\ req'[r].kind = "get"
    BY <1>7, <1>9, <1>10
  <2> QED
    BY <1>1, <1>3, <1>6, <1>7, <2>1 DEF Informed
<1>11. CASE F = {} /\ req[r].kind \in {"create", "update", "delete"}
  <2>1. at'[r] = "route" /\ req'[r].kind \in {"create", "update", "delete"}
    BY <1>7, <1>9, <1>11
  <2> QED
    BY <1>3, <1>6, <1>7, <1>11, <2>1 DEF Informed, RoutedKinds
<1>12. CASE /\ req[r].kind # "get"
            /\ ~(F = {} /\ req[r].kind \in {"create", "update", "delete"})
  <2>1. at'[r] = RuleKnown(r, F)
    BY <1>9, <1>12
  <2>2. /\ at'[r] \in {"fetch", "check"}
        /\ at'[r] = "check" => F = {} \/ req[r].kind = "create"
    BY <2>1 DEF RuleKnown
  <2>3. Followed(r, p) = F /\ (F # {} => BindOf(r, p) = << >>)
    BY <1>12, LookedUp DEF F, RoutedKinds
  <2>4. RuleRight(r)'
    BY <1>1, <1>6, <1>7, <2>3 DEF RuleRight
  <2> QED
    BY <1>3, <1>7, <1>8, <1>12, <2>2, <2>4 DEF Informed
<1> QED
  BY <1>10, <1>11, <1>12

\* The row that routing takes is the one that rules the document.
LEMMA RowTrusted ==
    ASSUME TypeOK, NEW r \in Requests, at[r] \in {"route", "recursive"}, Granting(r), Informed(r),
           UNCHANGED <<exact, patterns, docs>>, RowTaken(r, TheRow(Ruling(patterns, req[r].path))),
           Ruling(patterns, req[r].path) # {}
    PROVE  Granting(r)' /\ Informed(r)'
<1>1. PICK p : p = req[r].path
  OBVIOUS
<1> DEFINE row == TheRow(Ruling(patterns, p))
           rule == IF req[r].kind = "get" THEN row.read ELSE row.write
<1>2. /\ req[r].kind \in RoutedKinds /\ RuleOf(r, p) = {}
      /\ req[r].kind = "get" => req[r].doc = docs[p]
  BY <1>1 DEF Informed
<1>3. req[r].kind \notin QueryKinds
  BY <1>2 DEF RoutedKinds, QueryKinds
<1>4. /\ SameSearch(r) /\ req'[r].doc = req[r].doc /\ req'[r].rule = rule
      /\ req'[r].bind = Bindings(row.segs, p)
      /\ at'[r] = IF req[r].kind = "get" THEN "check" ELSE RuleKnown(r, rule)
  BY <1>1 DEF RowTaken
<1>5. SameCall(r) /\ req'[r].path = p /\ req'[r].granted = req[r].granted /\ req'[r].kind = req[r].kind
  BY <1>1, <1>4 DEF SameSearch, SameCall
<1>6. Granting(r)'
  <2>1. at[r] \in {"lookup", "act"} \cup Looking
    BY DEF Looking
  <2> QED
    BY <1>3, <1>5, <2>1, GrantingKept
<1>7. Followed(r, p) = rule /\ BindOf(r, p) = Bindings(row.segs, p)
  BY <1>1, <1>2 DEF Followed, BindOf, RoutedKinds
<1>8. Followed(r, p)' = Followed(r, p) /\ BindOf(r, p)' = BindOf(r, p)
  BY <1>5, SameGoverning
<1>9. RuleRight(r)'
  BY <1>4, <1>5, <1>7, <1>8 DEF RuleRight
<1>10. CASE req[r].kind = "get"
  <2>1. at'[r] = "check" /\ req'[r].kind = "get" /\ req'[r].doc = docs'[req'[r].path]
    BY <1>2, <1>4, <1>5, <1>10
  <2> QED
    BY <1>6, <1>9, <2>1 DEF Informed
<1>11. CASE req[r].kind # "get"
  <2>1. /\ at'[r] \in {"fetch", "check"}
        /\ at'[r] = "check" => req'[r].rule = {} \/ req[r].kind = "create"
    BY <1>4, <1>11 DEF RuleKnown
  <2>2. req'[r].kind # "get" /\ req'[r].kind # "batchGet"
    BY <1>2, <1>5, <1>11 DEF RoutedKinds
  <2> QED
    BY <1>5, <1>6, <1>9, <2>1, <2>2 DEF Informed
<1> QED
  BY <1>10, <1>11

\* Routing: the fixed patterns first, and the recursive ones when there is none.
LEMMA RouteTrusted ==
    ASSUME TypeOK, NEW r \in Requests, RouteFixed(r) \/ RouteRecursive(r), Granting(r), Informed(r)
    PROVE  Granting(r)' /\ Informed(r)'
<1>1. PICK p : p = req[r].path
  OBVIOUS
<1> DEFINE F == FixedMatches(Collection(p))
           L == Longest(RecursiveMatches(p))
           S == Ruling(patterns, p)
<1>s. \A rows : Cardinality(rows) = 1 => rows # {}
  BY FS_EmptySet
<1>e. ASSUME at'[r] = "done", req'[r] = NoReq PROVE Granting(r)' /\ Informed(r)'
  BY <1>e, NothingKnown DEF Granting, Looking
<1>2. CASE RouteFixed(r)
  <2>1. Moves(r) /\ Quiet /\ at[r] = "route"
    BY <1>2, RouteFixedStep
  <2>2. UNCHANGED <<exact, patterns, docs>> /\ p \in Docs /\ at[r] \in Looking /\ req[r].kind \notin QueryKinds
    BY <1>1, <2>1, PathInHand DEF Moves, Quiet, Looking
  <2>3. S = IF F # {} THEN F ELSE L
    BY <2>2, RulingFound
  <2>4. \/ F = {} /\ req'[r] = req[r] /\ SameSearch(r) /\ at'[r] = "recursive"
        \/ Cardinality(F) = 1 /\ RowTaken(r, TheRow(F))
        \/ at'[r] = "done" /\ req'[r] = NoReq
    BY <1>1, <1>2, RouteFixedStep
  <2>5. CASE F = {} /\ req'[r] = req[r] /\ SameSearch(r) /\ at'[r] = "recursive"
    <3>1. SameCall(r) /\ req'[r].granted = req[r].granted
      BY <2>5 DEF SameSearch
    <3>2. Granting(r)'
      BY <2>2, <3>1, GrantingKept
    <3>3. /\ req[r].kind \in RoutedKinds /\ req[r].rule = {} /\ RuleOf(r, p) = {}
          /\ req[r].kind = "get" => req[r].doc = docs[p]
      BY <1>1, <2>1 DEF Informed
    <3>4. RuleOf(r, p)' = {}
      BY <2>2, <3>1, <3>3, SameGoverning
    <3>5. F' = {}
      BY <2>2, <2>5 DEF FixedMatches, BySkeleton
    <3>6. req'[r].kind # "batchGet" /\ req'[r].path = p
      BY <1>1, <2>5, <3>3 DEF RoutedKinds
    <3>7. /\ req'[r].kind \in RoutedKinds /\ req'[r].rule = {} /\ RuleOf(r, req[r].path)' = {}
          /\ req'[r].kind = "get" => req'[r].doc = docs'[req'[r].path]
          /\ FixedMatches(Collection(req[r].path))' = {}
      BY <2>2, <2>5, <3>3, <3>4, <3>5, <3>6
    <3> QED
      BY <2>5, <3>2, <3>6, <3>7 DEF Informed
  <2>6. CASE Cardinality(F) = 1 /\ RowTaken(r, TheRow(F))
    <3>1. F # {} /\ S = F
      BY <1>s, <2>3, <2>6
    <3> QED
      BY <1>1, <2>1, <2>2, <2>6, <3>1, RowTrusted
  <2> QED
    BY <1>e, <2>4, <2>5, <2>6
<1>3. CASE RouteRecursive(r)
  <2>1. Moves(r) /\ Quiet /\ at[r] = "recursive"
    BY <1>3, RouteRecursiveStep
  <2>2. UNCHANGED <<exact, patterns, docs>> /\ p \in Docs /\ at[r] \in Looking /\ req[r].kind \notin QueryKinds
    BY <1>1, <2>1, PathInHand DEF Moves, Quiet, Looking
  <2>3. S = L
    <3>1. F = {}
      BY <1>1, <2>1 DEF Informed
    <3> QED
      BY <2>2, <3>1, RulingFound
  <2>4. \/ L = {} /\ req'[r] = req[r] /\ SameSearch(r) /\ at'[r] = "check"
        \/ Cardinality(L) = 1 /\ RowTaken(r, TheRow(L))
        \/ at'[r] = "done" /\ req'[r] = NoReq
    BY <1>1, <1>3, RouteRecursiveStep
  <2>5. CASE L = {} /\ req'[r] = req[r] /\ SameSearch(r) /\ at'[r] = "check"
    <3>1. SameCall(r) /\ req'[r].granted = req[r].granted
      BY <2>5 DEF SameSearch
    <3>2. Granting(r)'
      BY <2>2, <3>1, GrantingKept
    <3>3. req[r].kind \in RoutedKinds /\ req[r].rule = {} /\ RuleOf(r, p) = {}
      BY <1>1, <2>1 DEF Informed
    <3>4. Followed(r, p) = {}
      BY <2>3, <2>5, <3>3 DEF Followed
    <3>5. Followed(r, p)' = {}
      BY <2>2, <3>1, <3>4, SameGoverning
    <3>6. req'[r].kind # "batchGet" /\ req'[r].path = p /\ req'[r].rule = {}
      BY <1>1, <2>5, <3>3 DEF RoutedKinds
    <3>7. RuleRight(r)'
      BY <3>5, <3>6 DEF RuleRight
    <3> QED
      BY <2>5, <3>2, <3>6, <3>7 DEF Informed
  <2>6. CASE Cardinality(L) = 1 /\ RowTaken(r, TheRow(L))
    <3>1. S # {} /\ S = L
      BY <1>s, <2>3, <2>6
    <3> QED
      BY <1>1, <2>1, <2>2, <2>6, <3>1, RowTrusted
  <2> QED
    BY <1>e, <2>4, <2>5, <2>6
<1> QED
  BY <1>2, <1>3

\* The document that is read is the one there is.
LEMMA FetchTrusted ==
    ASSUME TypeOK, NEW r \in Requests, Fetch(r), Granting(r), Informed(r)
    PROVE  Granting(r)' /\ Informed(r)'
<1>1. PICK p : p = req[r].path
  OBVIOUS
<1>2. /\ Moves(r) /\ Quiet /\ SameSearch(r) /\ at[r] = "fetch"
      /\ at'[r] = IF req[r].kind = "get" /\ req[r].rule = {} THEN "route" ELSE "check"
      /\ req'[r].doc = docs[p] /\ req'[r].rule = req[r].rule /\ req'[r].bind = req[r].bind
  BY <1>1, FetchStep
<1>3. /\ UNCHANGED <<exact, patterns, docs>> /\ SameCall(r)
      /\ req'[r].path = p /\ req'[r].granted = req[r].granted /\ req'[r].cache = req[r].cache
      /\ at[r] \in Looking /\ req[r].kind \notin QueryKinds /\ req'[r].kind = req[r].kind
  BY <1>1, <1>2, PathInHand DEF Moves, Quiet, SameSearch, SameCall, Looking
<1>4. Granting(r)'
  BY <1>3, GrantingKept
<1>5. RuleOf(r, p)' = RuleOf(r, p)
  BY <1>3, SameGoverning
<1>6. req'[r].kind = "batchGet" => \A c \in DOMAIN req'[r].cache : req'[r].cache[c] = exact'["read"][c]
  BY <1>2, <1>3 DEF Informed
<1>7. CASE req[r].kind = "get" /\ req[r].rule = {}
  <2>1. RuleOf(r, p) = {}
    BY <1>1, <1>2, <1>7 DEF Informed
  <2>2. /\ at'[r] = "route" /\ req'[r].kind = "get" /\ req'[r].rule = {} /\ RuleOf(r, req[r].path)' = {}
        /\ req'[r].doc = docs'[req'[r].path]
    BY <1>2, <1>3, <1>5, <1>7, <2>1
  <2> QED
    BY <1>4, <2>2 DEF Informed, RoutedKinds
<1>8. CASE ~(req[r].kind = "get" /\ req[r].rule = {})
  <2>1. RuleRight(r)
    <3>1. CASE req[r].kind = "get"
      <4>1. req[r].rule = RuleOf(r, p) /\ req[r].bind = << >> /\ RuleOf(r, p) # {}
        BY <1>1, <1>2, <1>8, <3>1 DEF Informed
      <4>2. Followed(r, p) = RuleOf(r, p) /\ BindOf(r, p) = << >>
        BY <4>1, LookedUp
      <4> QED
        BY <1>1, <4>1, <4>2 DEF RuleRight
    <3>2. CASE req[r].kind # "get"
      BY <1>2, <3>2 DEF Informed
    <3> QED
      BY <3>1, <3>2
  <2>2. RuleRight(r)'
    BY <1>1, <1>2, <1>3, <2>1, SameRight, SameGoverning
  <2>3. at'[r] = "check" /\ req'[r].doc = docs'[req'[r].path]
    BY <1>2, <1>3, <1>8
  <2> QED
    BY <1>4, <1>6, <2>2, <2>3 DEF Informed
<1> QED
  BY <1>7, <1>8

\* A document is granted when its governing rule allows it.
LEMMA CheckTrusted ==
    ASSUME TypeOK, NEW r \in Requests, Check(r), Granting(r), Informed(r)
    PROVE  Granting(r)' /\ Informed(r)'
<1>1. Moves(r) /\ Quiet /\ at[r] = "check"
  BY CheckStep
<1>2. UNCHANGED <<exact, patterns, docs>> /\ at[r] \in Looking /\ req[r].kind \notin QueryKinds
  BY <1>1, PathInHand DEF Moves, Quiet, Looking
<1>3. CASE at'[r] = "done" /\ req'[r] = NoReq
  BY <1>3, NothingKnown DEF Granting, Looking
<1>4. CASE /\ SameCall(r) /\ req'[r].cache = req[r].cache
           /\ at'[r] = IF req'[r].todo = {} THEN "act" ELSE "lookup"
           /\ \/ req'[r].granted = req[r].granted
              \/ /\ req'[r].granted = req[r].granted \cup {req[r].path}
                 /\ \A c \in req[r].rule : Evaluate(c, Context(r))
  <2>1. \A p \in req[r].granted : Allowed(r, p)
    BY <1>2 DEF Granting
  <2>2. \A p \in req'[r].granted : Allowed(r, p)
    <3>1. CASE req'[r].granted = req[r].granted
      BY <2>1, <3>1
    <3>2. CASE /\ req'[r].granted = req[r].granted \cup {req[r].path}
               /\ \A c \in req[r].rule : Evaluate(c, Context(r))
      <4>1. Allowed(r, req[r].path)
        BY <1>1, <3>2, CheckAllows
      <4> QED
        BY <2>1, <3>2, <4>1
    <3> QED
      BY <1>4, <3>1, <3>2
  <2>3. \A p \in req'[r].granted : Allowed(r, p)'
    BY <1>2, <1>4, <2>2, SameAllowed
  <2>4. Granting(r)'
    <3>1. req'[r].kind \notin QueryKinds
      BY <1>2, <1>4 DEF SameCall
    <3> QED
      BY <2>3, <3>1 DEF Granting, QueryKinds
  <2>5. req'[r].kind = "batchGet" => \A c \in DOMAIN req'[r].cache : req'[r].cache[c] = exact'["read"][c]
    BY <1>2, <1>4 DEF Informed, SameCall
  <2> QED
    BY <1>4, <2>4, <2>5 DEF Informed, Looking
<1> QED
  BY <1>3, <1>4, CheckStep

\* A query is admitted by its static check.
LEMMA QueryTrusted ==
    ASSUME TypeOK, NEW r \in Requests, CheckQuery(r)
    PROVE  Granting(r)' /\ Informed(r)'
<1>1. /\ Moves(r) /\ SameCall(r) /\ at'[r] = "act" /\ req[r].kind \in QueryKinds
      /\ \A p \in req'[r].granted : Admitted(r, p)
  BY CheckQueryStep
<1>2. ASSUME NEW p \in req'[r].granted PROVE Admitted(r, p)'
  <2>1. Admitted(r, p) /\ RuleOf(r, p)' = RuleOf(r, p)
    BY <1>1, SameGoverning DEF Moves
  <2> QED
    BY <1>1, <2>1 DEF Admitted, SameCall
<1>3. req'[r].kind \in QueryKinds
  BY <1>1 DEF SameCall
<1> QED
  BY <1>1, <1>2, <1>3, NothingKnown DEF Granting

\* A request acts; what a BatchWrite has left to write stays allowed.
LEMMA ActTrusted ==
    ASSUME TypeOK, NEW r \in Requests, Granting(r),
           \/ Answer(r) \/ ApplyCreate(r) \/ ApplyUpdate(r) \/ ApplyDelete(r)
           \/ ApplyCommit(r) \/ ApplyBatch(r) \/ ApplyNext(r)
    PROVE  Granting(r)' /\ Informed(r)'
<1>1. Moves(r) /\ at[r] = "act"
  BY ActStep
<1>2. CASE at'[r] = "done" /\ req'[r] = NoReq
  BY <1>2, NothingKnown DEF Granting, Looking
<1>3. CASE at'[r] = "open" /\ req'[r].kind = "stream"
  BY <1>3 DEF Granting, Informed, Looking
<1>4. ASSUME at'[r] = "act", SameCall(r), req[r].kind = "batchWrite", NEW p \in req[r].granted,
             req'[r].granted = req[r].granted \ {p}, \A d \in Docs \ {p} : docs'[d] = docs[d]
      PROVE  Granting(r)' /\ Informed(r)'
  <2>1. req[r].granted \subseteq Docs
    BY DEF TypeOK, Reqs
  <2>2. \A d \in req'[r].granted : Allowed(r, d) /\ docs'[d] = docs[d]
    BY <1>1, <1>4, <2>1 DEF Granting, QueryKinds
  <2>3. UNCHANGED <<exact, patterns>>
    BY <1>1 DEF Moves
  <2>4. \A d \in req'[r].granted : Allowed(r, d)'
    BY <1>4, <2>2, <2>3, StillAllowed
  <2>5. req'[r].kind = "batchWrite"
    BY <1>4 DEF SameCall
  <2>6. Granting(r)'
    BY <2>4, <2>5 DEF Granting, QueryKinds
  <2> QED
    BY <1>4, <2>6, NothingKnown
<1> QED
  BY <1>2, <1>3, <1>4, ActStep

\* A request's own step.
LEMMA OwnTrusted ==
    ASSUME TypeOK, NEW r \in Requests, Serve(r), Trusted(r)
    PROVE  Trusted(r)'
<1>1. Moves(r) /\ Written(r)
  BY ServeFits
<1> SUFFICES ASSUME r \notin raced' PROVE Granting(r)' /\ Informed(r)'
  BY DEF Trusted
<1>2. Granting(r) /\ Informed(r)
  BY <1>1 DEF Trusted, Written
<1>3. ASSUME StreamEnds(r) PROVE Granting(r)' /\ Informed(r)'
  <2>1. at'[r] = "done"
    BY <1>3, StreamEndsStep
  <2> QED
    BY <2>1, NothingKnown DEF Granting, Looking
<1>4. ASSUME NothingToCheck(r) PROVE Granting(r)' /\ Informed(r)'
  <2>1. /\ Moves(r) /\ Quiet /\ at[r] = "lookup" /\ at'[r] = "act" /\ req[r].kind \notin QueryKinds
        /\ SameCall(r) /\ req'[r].granted = req[r].granted
    BY <1>4, NothingStep DEF SameSearch
  <2>2. Granting(r)'
    BY <1>2, <2>1, GrantingKept DEF Moves, Quiet
  <2> QED
    BY <2>1, <2>2, NothingKnown
<1>5. ASSUME \E kind \in Handlers, P \in SUBSET Docs, u \in Owners, o \in Owners, f \in SUBSET Users :
                Enter(r, kind, P, u, o, f)
      PROVE  Granting(r)' /\ Informed(r)'
  BY <1>5, EntersTrusted
<1>6. ASSUME \E P \in SUBSET Docs, o \in Owners : WriteMessage(r, P, o)
      PROVE  Granting(r)' /\ Informed(r)'
  BY <1>2, <1>6, MessageTrusted
<1>7. ASSUME \E p \in Docs : Lookup(r, p) PROVE Granting(r)' /\ Informed(r)'
  BY <1>2, <1>7, LookupTrusted
<1>8. ASSUME Scan(r) \/ FilterList(r) PROVE Granting(r)' /\ Informed(r)'
  BY <1>2, <1>8, ListTrusted
<1>9. ASSUME RouteFixed(r) \/ RouteRecursive(r) PROVE Granting(r)' /\ Informed(r)'
  BY <1>2, <1>9, RouteTrusted
<1>10. ASSUME Fetch(r) PROVE Granting(r)' /\ Informed(r)'
  BY <1>2, <1>10, FetchTrusted
<1>11. ASSUME Check(r) PROVE Granting(r)' /\ Informed(r)'
  BY <1>2, <1>11, CheckTrusted
<1>12. ASSUME CheckQuery(r) PROVE Granting(r)' /\ Informed(r)'
  BY <1>12, QueryTrusted
<1>13. ASSUME \/ Answer(r) \/ ApplyCreate(r) \/ ApplyUpdate(r) \/ ApplyDelete(r)
              \/ ApplyCommit(r) \/ ApplyBatch(r) \/ ApplyNext(r)
       PROVE  Granting(r)' /\ Informed(r)'
  BY <1>2, <1>13, ActTrusted
<1> QED
  BY <1>3, <1>4, <1>5, <1>6, <1>7, <1>8, <1>9, <1>10, <1>11, <1>12, <1>13, ServeCases

\* A step of somebody else that leaves alone what the request has read.
LEMMA NotOvertaken ==
    ASSUME NEW r \in Requests, at'[r] = at[r], req'[r] = req[r],
           UNCHANGED <<exact, patterns, docs>> \/ ~Overtaken(r)
    PROVE  /\ \A p \in RulesRead(r) : RuleOf(r, p)' = RuleOf(r, p)
           /\ \A c \in DOMAIN req[r].cache : exact'["read"][c] = exact["read"][c]
           /\ \A p \in PatternsRead(r) : RuleOf(r, p) = {} =>
                 Ruling(patterns, p)' = Ruling(patterns, p)
           /\ \A p \in DocsRead(r) : docs'[p] = docs[p]
<1>1. CASE ~Overtaken(r)
  BY <1>1 DEF Overtaken
<1>2. CASE UNCHANGED <<exact, patterns, docs>>
  <2>1. SameCall(r)
    BY DEF SameCall
  <2>2. \A p : RuleOf(r, p)' = RuleOf(r, p)
    BY <1>2, <2>1, SameGoverning
  <2>3. \A p : Ruling(patterns, p)' = Ruling(patterns, p)
    BY <1>2
  <2> QED
    BY <1>2, <2>2, <2>3
<1> QED
  BY <1>1, <1>2

\* When the rows that rule a path stay the same, no fixed one comes up.
LEMMA NoFixedYet ==
    ASSUME TypeOK, NEW p \in Docs, FixedMatches(Collection(p)) = {},
           Ruling(patterns, p)' = Ruling(patterns, p)
    PROVE  FixedMatches(Collection(p))' = {}
<1> SUFFICES ASSUME NEW row \in FixedMatches(Collection(p))' PROVE FALSE
  OBVIOUS
<1>1. row \in patterns' /\ ~row.rec /\ BindAncestor(row.segs, Collection(p))
  BY DEF FixedMatches, BySkeleton
<1>2. row \in Ruling(patterns, p)'
  BY <1>1 DEF Ruling
<1>3. Ruling(patterns, p) = Longest(RecursiveMatches(p))
  BY RulingFound
<1>4. row.rec
  BY <1>2, <1>3 DEF Longest, RecursiveMatches
<1> QED
  BY <1>1, <1>4

\* A step of somebody else: what changes something that the request has read
\* makes it a raced one.
LEMMA OthersTrusted ==
    ASSUME TypeOK, NEW r \in Requests, Trusted(r), at'[r] = at[r], req'[r] = req[r],
           raced \subseteq raced',
           UNCHANGED <<exact, patterns, docs>> \/ ~Overtaken(r) \/ r \in raced'
    PROVE  Trusted(r)'
<1> SUFFICES ASSUME r \notin raced' PROVE Granting(r)' /\ Informed(r)'
  BY DEF Trusted
<1>1. Granting(r) /\ Informed(r) /\ SameCall(r)
  BY DEF Trusted, SameCall
<1>2. PICK p : p = req[r].path
  OBVIOUS
<1>3. /\ \A d \in RulesRead(r) : RuleOf(r, d)' = RuleOf(r, d)
      /\ \A c \in DOMAIN req[r].cache : exact'["read"][c] = exact["read"][c]
      /\ \A d \in PatternsRead(r) : RuleOf(r, d) = {} => Ruling(patterns, d)' = Ruling(patterns, d)
      /\ \A d \in DocsRead(r) : docs'[d] = docs[d]
  BY NotOvertaken
<1>4. at[r] \in Looking => p \in Docs /\ req[r].kind \notin QueryKinds
  BY <1>2, PathInHand
<1>5. at[r] \in Looking => RuleOf(r, p)' = RuleOf(r, p)
  BY <1>2, <1>3 DEF RulesRead
<1>6. ASSUME at[r] \in {"recursive", "check"} \/ (at[r] = "fetch" /\ req[r].kind # "get")
      PROVE  SameBasis(r, p)
  <2>1. req[r].kind \in RoutedKinds => p \in PatternsRead(r)
    BY <1>2, <1>6 DEF PatternsRead
  <2> QED
    BY <1>3, <1>5, <1>6, <2>1 DEF SameBasis, Looking
<1>7. ASSUME at[r] = "check" \/ (at[r] \in {"route", "recursive"} /\ req[r].kind = "get")
      PROVE  docs'[p] = docs[p]
  <2>1. p \in DocsRead(r)
    BY <1>2, <1>7 DEF DocsRead, Looking
  <2> QED
    BY <1>3, <2>1
<1>8. Granting(r)'
  <2>1. ASSUME NEW d \in req[r].granted, at[r] \in {"lookup", "act"} \cup Looking,
               req[r].kind \notin QueryKinds
        PROVE  Allowed(r, d)'
    <3>1. /\ d \in RulesRead(r) /\ d \in DocsRead(r)
          /\ req[r].kind \in RoutedKinds => d \in PatternsRead(r)
      BY <2>1 DEF RulesRead, DocsRead, PatternsRead
    <3>2. SameBasis(r, d) /\ docs'[d] = docs[d]
      BY <1>3, <3>1 DEF SameBasis
    <3>3. req[r].kind \in CrossReading => IsMember(req[r].user)' = IsMember(req[r].user)
      <4>1. CASE req[r].kind \in CrossReading /\ MemberDoc(req[r].user) \in Docs
        <5>1. PICK e : e = MemberDoc(req[r].user)
          OBVIOUS
        <5>2. e \in DocsRead(r)
          BY <2>1, <4>1, <5>1 DEF DocsRead, CrossReading
        <5>3. docs'[e] = docs[e]
          BY <1>3, <5>2
        <5>4. MemberDoc(req[r].user)' = MemberDoc(req[r].user)
          BY DEF MemberDoc
        <5> QED
          BY <5>1, <5>3, <5>4 DEF IsMember
      <4>2. CASE MemberDoc(req[r].user) \notin Docs
        BY <4>2 DEF IsMember, MemberDoc
      <4> QED
        BY <4>1, <4>2
    <3>4. Allowed(r, d)
      BY <1>1, <2>1 DEF Granting
    <3> QED
      BY <1>1, <3>2, <3>3, <3>4, StaysAllowed
  <2>2. ASSUME NEW d \in req[r].granted, at[r] = "act", req[r].kind \in QueryKinds
        PROVE  Admitted(r, d)'
    <3>1. RuleOf(r, d)' = RuleOf(r, d)
      BY <1>3, <2>2 DEF RulesRead
    <3>2. Admitted(r, d)
      BY <1>1, <2>2 DEF Granting
    <3> QED
      BY <3>1, <3>2 DEF Admitted
  <2> QED
    BY <2>1, <2>2 DEF Granting
<1>9. RuleRight(r) /\ SameBasis(r, p) => RuleRight(r)'
  BY <1>1, <1>2, SameRight
<1>10. RuleOf(r, req[r].path)' = RuleOf(r, p)'
  BY <1>2
<1>11. at[r] = "recursive" => FixedMatches(Collection(req[r].path))' = {}
  <2> SUFFICES ASSUME at[r] = "recursive" PROVE FixedMatches(Collection(req[r].path))' = {}
    OBVIOUS
  <2>1. /\ p \in Docs /\ FixedMatches(Collection(p)) = {} /\ RuleOf(r, p) = {}
        /\ req[r].kind \in RoutedKinds
    BY <1>1, <1>2, <1>4 DEF Informed, Looking
  <2>2. Ruling(patterns, p)' = Ruling(patterns, p)
    BY <1>6, <2>1 DEF SameBasis
  <2>3. FixedMatches(Collection(p))' = {}
    BY <2>1, <2>2, NoFixedYet
  <2> QED
    BY <1>2, <2>3
<1>12. at[r] = "filter" => \A d \in req[r].todo : docs'[d] = docs[d]
  <2>1. at[r] = "filter" => req[r].todo \subseteq DocsRead(r)
    BY DEF DocsRead, Looking
  <2> QED
    BY <1>3, <2>1
<1>13. Informed(r)'
  <2>1. /\ at'[r] = "open" => req'[r].kind = "stream"
        /\ at'[r] \in {"scan", "filter"} => req'[r].kind = "list"
        /\ at'[r] = "filter" => \A d \in req'[r].todo : req'[r].seen[d] = docs'[d]
        /\ at'[r] \in {"lookup"} \cup Looking /\ req'[r].kind = "batchGet" =>
              \A c \in DOMAIN req'[r].cache : req'[r].cache[c] = exact'["read"][c]
    BY <1>1, <1>3, <1>12 DEF Informed
  <2>2. at'[r] \in {"route", "recursive"} =>
           /\ req'[r].kind \in RoutedKinds /\ req'[r].rule = {} /\ RuleOf(r, req[r].path)' = {}
           /\ req'[r].kind = "get" => req'[r].doc = docs'[req'[r].path]
    BY <1>1, <1>2, <1>5, <1>7, <1>10 DEF Informed, Looking
  <2>3. at'[r] = "fetch" /\ req'[r].kind = "get" =>
           req'[r].rule = RuleOf(r, req[r].path)' /\ req'[r].bind = << >>
    BY <1>1, <1>2, <1>5, <1>10 DEF Informed, Looking
  <2>4. at'[r] = "fetch" /\ req'[r].kind # "get" => RuleRight(r)'
    BY <1>1, <1>6, <1>9 DEF Informed
  <2>5. at'[r] = "check" =>
          /\ RuleRight(r)'
          /\ req'[r].rule # {} /\ req'[r].kind # "create" => req'[r].doc = docs'[req'[r].path]
    BY <1>1, <1>2, <1>6, <1>7, <1>9 DEF Informed
  <2> QED
    BY <1>11, <2>1, <2>2, <2>3, <2>4, <2>5 DEF Informed
<1> QED
  BY <1>8, <1>13

\* Every step.
LEMMA TrustedStep ==
    ASSUME TypeOK, [Next]_vars, \A x \in Requests : Trusted(x), NEW r \in Requests
    PROVE  Trusted(r)'
<1>0. r \in Procs /\ Trusted(r)
  BY DEF Procs
<1>1. ASSUME NEW i \in Importers, Call(i) \/ ImportFails(i) PROVE Trusted(r)'
  <2>1. Advances(i) /\ Ruled(i) /\ r # i
    BY <1>1, CallFitsStep, ProcsAssumption
  <2>2. at'[r] = at[r] /\ req'[r] = req[r] /\ raced \subseteq raced'
    BY <1>0, <2>1 DEF Advances, Ruled
  <2>3. UNCHANGED <<exact, patterns, docs>> \/ ~Overtaken(r) \/ r \in raced'
    BY <1>0, <2>1 DEF Advances, Ruled
  <2> QED
    BY <1>0, <2>2, <2>3, OthersTrusted
<1>2. ASSUME NEW x \in Requests \ {r}, Serve(x) PROVE Trusted(r)'
  <2>1. Moves(x) /\ Written(x)
    BY <1>2, ServeFits
  <2>2. at'[r] = at[r] /\ req'[r] = req[r] /\ raced \subseteq raced'
    BY <1>0, <1>2, <2>1 DEF Moves, Written
  <2>3. UNCHANGED <<exact, patterns, docs>> \/ ~Overtaken(r) \/ r \in raced'
    BY <1>2, <2>1 DEF Moves, Written
  <2> QED
    BY <1>0, <2>2, <2>3, OthersTrusted
<1>3. ASSUME Serve(r) PROVE Trusted(r)'
  BY <1>0, <1>3, OwnTrusted
<1>4. ASSUME UNCHANGED vars PROVE Trusted(r)'
  <2>1. /\ at'[r] = at[r] /\ req'[r] = req[r] /\ raced \subseteq raced'
        /\ UNCHANGED <<exact, patterns, docs>>
    BY <1>4 DEF vars
  <2> QED
    BY <1>0, <2>1, OthersTrusted
<1> QED
  BY <1>1, <1>2, <1>3, <1>4 DEF Next

\* What a request is about to show or write is permitted.
LEMMA ConcernedPermitted ==
    ASSUME NEW r, Granting(r), at[r] = "act", NEW p \in Concerned(r)
    PROVE  Permitted(r, p) \/ Unrouted(r, p)
<1>1. CASE req[r].kind \notin QueryKinds
  <2>1. Allowed(r, p)
    BY <1>1 DEF Concerned, Granting
  <2>2. PICK m : m = (req[r].kind \in CrossReading /\ IsMember(req[r].user))
    OBVIOUS
  <2>3. PermittedIf(r, p, m) /\ (m => IsMember(req[r].user))
    BY <2>1, <2>2 DEF Allowed
  <2>4. PermittedIf(r, p, IsMember(req[r].user))
    BY <2>3, PermittedMore
  <2> QED
    BY <2>4, PermittedAs
<1>2. CASE req[r].kind \in QueryKinds
  <2>1. Admitted(r, p) /\ \A o \in req[r].filter : docs[p] = o
    BY <1>2 DEF Concerned, Granting
  <2> QED
    BY <1>2, <2>1, QueryAllows, PermittedAs
<1> QED
  BY <1>1, <1>2

\* Unless something that a request had read was changed under it, every document
\* that it shows or writes is one that the governing rule allows, evaluated on
\* the present documents, for every handler; only the handlers that leave
\* patterns out go unchecked where nothing but a pattern governs.
THEOREM RequestsPermitted == Spec => ActsAsPermitted
<1> DEFINE T == \A x \in Requests : Trusted(x)
<1>1. Init => T
  <2> SUFFICES ASSUME Init, NEW x \in Requests PROVE Granting(x) /\ Informed(x)
    BY DEF Trusted
  <2>1. at[x] = "idle"
    BY DEF Init, Procs
  <2> QED
    BY <2>1 DEF Granting, Informed, Looking
<1>2. TypeOK /\ T /\ [Next]_vars => T'
  BY TrustedStep
<1>3. T => [\A r \in Requests \ raced :
              at[r] = "act" /\ (at'[r] # "act" \/ docs' # docs) =>
                 \A p \in Concerned(r) : Permitted(r, p) \/ Unrouted(r, p)]_vars
  <2> SUFFICES ASSUME T, NEW r \in Requests \ raced, at[r] = "act", NEW p \in Concerned(r)
               PROVE  Permitted(r, p) \/ Unrouted(r, p)
    OBVIOUS
  <2>1. Granting(r)
    BY DEF Trusted
  <2> QED
    BY <2>1, ConcernedPermitted
<1> QED
  BY <1>1, <1>2, <1>3, TypesHold, PTL DEF Spec, ActsAsPermitted
=============================================================================
