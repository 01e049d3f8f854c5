--------------------------- MODULE MCAccessRules ---------------------------
(* Instances of AccessRules: two collections, one inside the other, two users
   whose names are document ids too, and files whose patterns contain, equal
   or clash with one another. *)
EXTENDS AccessRules, RulesFiles, TLC

Allow(verbs, cond) == [verbs |-> verbs, cond |-> cond]
Owner == {<<"owner">>}
Block(segs, allow) == [segs |-> segs, allow |-> allow, inner |-> << >>]
Outer(segs, inner) == [segs |-> segs, allow |-> << >>, inner |-> inner]

Nested == <<Lit("a"), Var("u"), Lit("b"), Var("id")>>
\* A block that ends in a collection.
NestedLit == <<Lit("a"), Lit("u1"), Lit("b")>>

RulesTexts ==
    {<<Block(<<Lit("a"), Var("u")>>,
             <<Allow({"read"}, {<<"word", "u">>}), Allow({"write"}, {<<"member">>})>>),
       Outer(<<Lit("a"), Var("u")>>,
             <<Block(<<Lit("b"), Var("id")>>, <<Allow({"get", "create"}, {<<"word", "u">>})>>)>>)>>,
     <<Block(NestedLit, <<Allow({"read"}, Owner)>>)>>,
     <<Block(Nested, <<Allow({"get"}, {<<"word", "u">>}), Allow({"create", "update"}, Owner)>>)>>,
     <<Block(<<Rec>>, <<Allow({"read", "write"}, Owner)>>),
       Block(<<Lit("a"), Lit("u1"), Rec>>, <<Allow({"read"}, {<<"auth">>})>>)>>,
     <<Block(<<Lit("a"), Var("u"), Rec>>, <<Allow({"write"}, {<<"req">>})>>)>>,
     <<Block(<<Lit("a")>>, <<Allow({"read"}, Owner)>>),
       Block(<<Lit("b"), Var("id")>>, <<Allow({"read"}, {<<"word", "x">>})>>)>>}

MCFiles == {ParseMatchBlocks(text, << >>) : text \in RulesTexts}

MCKinds == [r \in Requests |-> Handlers]
Symmetric == Permutations(Importers)
MCConds == {Owner}
MCDocs == {<<"a", "u1">>, <<"a", "u1", "b", "u2">>}
MCInitDocs ==
    {[d \in MCDocs |-> IF d = <<"a", "u1">> THEN Absent ELSE "u1"],
     [d \in MCDocs |-> IF d = <<"a", "u1">> THEN "u1" ELSE Absent]}
MCBatches == {{}, MCDocs}
MCProbes == MCDocs \cup {<<"a", "u2">>, <<"a", "u2", "b", "u1">>, <<"a", "u1", "b", "u1", "c", "d">>}
=============================================================================
