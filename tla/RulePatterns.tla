---------------------------- MODULE RulePatterns ----------------------------
(***************************************************************************)
(* The pure half of rules-file import and of path routing (embyr-core/src/ *)
(* access_control/rules_file.rs and path_routing.rs).  A path segment is a *)
(* literal, a wildcard or the recursive wildcard; a block of a rules file  *)
(* is its segments, those of the blocks around it included, and its allow  *)
(* clauses, in order (the module RulesFiles reads them from the file); no  *)
(* segments stand for a path that does not parse.  A condition is a set    *)
(* of tests, all of which must hold (the module Conditions has the whole   *)
(* language); a missing condition is {} and a present one {c}.             *)
(***************************************************************************)
EXTENDS Naturals, Sequences, FiniteSets, FiniteSetsExt, SequencesExt

CONSTANTS Absent    \* no value

Lit(s) == <<"lit", s>>
Var(s) == <<"var", s>>
Rec == <<"rec">>

Segments == ({"lit", "var"} \X STRING) \cup {Rec}

IsVar(seg) == seg[1] = "var"
Names(segs) == {segs[i][2] : i \in {j \in DOMAIN segs : IsVar(segs[j])}}
Concrete(path) == [i \in DOMAIN path |-> Lit(path[i])]

-----------------------------------------------------------------------------
(* path_routing.rs                                                         *)

\* The literals at the collection positions, the key by which patterns are found.
LiteralSkeleton(segs) ==
    SelectSeq([i \in 1..(Len(segs) + 1) \div 2 |-> segs[2 * i - 1]], LAMBDA s : s[1] = "lit")

PositionsCompatible(a, b) ==
    /\ Rec \notin {a, b}
    /\ IsVar(a) \/ IsVar(b) \/ a = b

\* Every position of the shorter of a and b is compatible with the longer's.
Compatible(a, b) == \A i \in DOMAIN a \cap DOMAIN b : PositionsCompatible(a[i], b[i])

StructurallyOverlap(a, b) == Len(a) = Len(b) /\ Compatible(a, b)

\* What the wildcards of a pattern stand for in a path; of two wildcards with
\* the same name the last one counts.
Bindings(segs, path) ==
    [v \in Names(segs) |-> path[Max({i \in DOMAIN segs : segs[i] = Var(v)})]]

BindAncestor(segs, path) ==
    Len(segs) = Len(path) /\ Compatible(segs, Concrete(path))

BindRecursivePrefix(segs, path) ==
    Len(segs) <= Len(path) /\ Compatible(segs, Concrete(path))

Generalizes(g, s) == Rec \notin {g, s} /\ (IsVar(g) \/ g = s)

\* Every position of the shorter pattern takes in the longer's.
Covers(short, long) == \A i \in DOMAIN short \cap DOMAIN long : Generalizes(short[i], long[i])

\* Mutant of ClassifyPrefixRelation: compatible positions are taken for containment.
ClassifyPrefixRelationLoose(a, b) ==
    CASE Len(a) = Len(b) /\ StructurallyOverlap(a, b) /\ a = b -> "ambiguous"
      [] Len(a) # Len(b) /\ Compatible(a, b) -> "contains"
      [] OTHER -> "disjoint"

FixedDepthFullReach(segs) == Append(segs, Var(""))

ClassifyPrefixRelation(a, b) ==
    LET short == IF Len(a) < Len(b) THEN a ELSE b
        long == IF Len(a) < Len(b) THEN b ELSE a IN
    CASE Len(a) = Len(b) ->
            IF StructurallyOverlap(a, b) THEN "ambiguous" ELSE "disjoint"
      [] Len(a) # Len(b) /\ Covers(short, long) -> "contains"
      [] Len(a) # Len(b) /\ ~Covers(short, long)
                         /\ Compatible(short, long) -> "ambiguous"
      [] OTHER -> "disjoint"

-----------------------------------------------------------------------------
(* rules_file.rs: from a block to what is stored                           *)

\* Collection positions are literals, and a recursive wildcard is the last
\* segment and stands at a collection position.
ValidateSegmentShape(segs) ==
    \A i \in DOMAIN segs :
        /\ segs[i] = Rec => i = Len(segs) /\ i % 2 = 1
        /\ i % 2 = 1 => ~IsVar(segs[i])

\* rewrite_path_variable, for every wildcard of the pattern.
RewriteCondition(c, vars) ==
    {IF t[1] = "word" /\ t[2] \in vars THEN <<"path", t[2]>> ELSE t : t \in c}

\* A bare word that no wildcard explains is no condition.
ParseCondition(c) == \A t \in c : t[1] # "word"

ReadVerbs == {"read", "get", "list"}
WriteVerbs == {"write", "create", "update", "delete"}

Blocks == [segs : Seq(Segments),
           allow : Seq([verbs : SUBSET (ReadVerbs \cup WriteVerbs), cond : SUBSET Seq(STRING)])]

\* The conditions of the clauses that name a verb of a bucket.
Bucket(block, vars, verbs) ==
    {RewriteCondition(block.allow[i].cond, vars) :
        i \in {j \in DOMAIN block.allow : block.allow[j].verbs \cap verbs # {}}}

Recursive(block) == block.segs # << >> /\ Last(block.segs) = Rec

\* The segments that are matched: all but the leaf, or all but the recursive wildcard.
Ancestor(block) ==
    IF Recursive(block) \/ Len(block.segs) % 2 = 0 THEN Front(block.segs) ELSE block.segs

LeafVariable(block) ==
    IF Len(block.segs) % 2 = 0 /\ ~Recursive(block) /\ IsVar(Last(block.segs))
    THEN Last(block.segs)[2] ELSE Absent

Variables(block) == Names(Ancestor(block)) \cup ({LeafVariable(block)} \ {Absent})

\* decompose_block accepts a block (one with no segments or no clauses did not
\* parse at all).
BlockAccepted(block) ==
    LET vars == Variables(block) IN
    /\ block.segs # << >> /\ block.allow # << >>
    /\ ValidateSegmentShape(block.segs)
    /\ \A i \in DOMAIN block.allow : ParseCondition(RewriteCondition(block.allow[i].cond, vars))
    /\ Cardinality(Bucket(block, vars, ReadVerbs)) <= 1
    /\ Cardinality(Bucket(block, vars, WriteVerbs)) <= 1

\* What a block becomes: the rules of a collection, or a stored pattern.
DecomposeBlock(block) ==
    LET vars == Variables(block) IN
    [segs |-> Ancestor(block), rec |-> Recursive(block), leaf |-> LeafVariable(block),
     read |-> Bucket(block, vars, ReadVerbs), write |-> Bucket(block, vars, WriteVerbs)]

SingleCollection(t) == ~t.rec /\ Len(t.segs) = 1

\* All blocks or none.
Decompose(blocks) ==
    IF blocks # << >> /\ \A i \in DOMAIN blocks : BlockAccepted(blocks[i])
    THEN [ok |-> TRUE, targets |-> [i \in DOMAIN blocks |-> DecomposeBlock(blocks[i])]]
    ELSE [ok |-> FALSE, targets |-> << >>]

-----------------------------------------------------------------------------
(* access_rules.rs: check_pattern_overlap                                  *)

\* Two patterns, stored or about to be, that some path would match with
\* nothing to choose between them.
PatternsClash(a, b) ==
    LET Reach(t) == IF t.rec THEN t.segs ELSE FixedDepthFullReach(t.segs) IN
    IF a.rec \/ b.rec
    THEN ClassifyPrefixRelation(Reach(a), Reach(b)) = "ambiguous"
    ELSE StructurallyOverlap(a.segs, b.segs)

SameText(a, b) == a.segs = b.segs /\ a.rec = b.rec

\* The patterns of one file against each other.
IntraFileOverlap(targets) ==
    \E i, j \in DOMAIN targets :
        /\ i < j
        /\ ~SingleCollection(targets[i]) /\ ~SingleCollection(targets[j])
        /\ PatternsClash(targets[i], targets[j])

\* A new pattern against stored ones; the same text is a re-import.
ClashesWithStored(t, rows) ==
    \E row \in rows : ~SameText(row, t) /\ PatternsClash(t, row)
=============================================================================
