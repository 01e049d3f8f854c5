------------------------------ MODULE MCAgent ------------------------------
(* Three documents: one is subscribed to, the name of another contains the
   subscribed path by accident, the third has nothing to do with it. *)
EXTENDS AgentQueries, TLC

MCInitDocs ==
    {[p \in Docs |-> Absent], [p \in Docs |-> IF p = 3 THEN Absent ELSE [x \in Fields |-> 0]]}

Put(p, fields, pre, inc) == [op |-> "update", doc |-> p, fields |-> fields, pre |-> pre, inc |-> inc]
Touch(p) == [op |-> "transform", doc |-> p, fields |-> Absent, pre |-> <<"none">>, inc |-> {"f"}]
Erase(p, pre) == [op |-> "delete", doc |-> p, fields |-> Absent, pre |-> pre, inc |-> {}]

Both(f, g) == [x \in Fields |-> IF x = "f" THEN f ELSE g]

MCCommits ==
    {{Put(1, Both(2, Absent), <<"none">>, {"f", "g"}), Erase(2, <<"exists">>)},
     {Put(1, Both(0, 0), <<"absent">>, {}), Touch(2)}}

Update(p, mask, pre) == [NoCall EXCEPT !.kind = "update", !.doc = p, !.mask = mask, !.pre = pre,
                                       !.fields = Both(0, Absent)]
Create(p) == [NoCall EXCEPT !.kind = "create", !.doc = p, !.fields = Both(0, 0), !.pre = <<"absent">>]
Delete(p, pre) == [NoCall EXCEPT !.kind = "delete", !.doc = p, !.pre = pre]
List(limit, offset) == [NoCall EXCEPT !.kind = "list", !.limit = limit, !.offset = offset]

First == {Update(1, {"g"}, <<"none">>), Update(1, {}, <<"time", 1>>), [NoCall EXCEPT !.kind = "begin"]}
Second == {Delete(1, <<"none">>), Delete(3, <<"exists">>), Create(1), Update(3, {}, <<"exists">>),
           Update(2, {}, <<"absent">>), List(1, 0), List(2, 0), List(2, 1)}
Plain == {Update(1, {}, <<"none">>)}
MCMenu == <<First, Second, Plain, Plain, Plain>>

MCPathOf == <<<<"c">>, <<"a", "d", "c">>, <<"e">>>>

Is(op, v) == <<"field", op, "f", v>>
G(op, v) == <<"field", op, "g", v>>
MCFilters ==
    {Is(op, 0) : op \in {"lessThan", "lessThanOrEqual", "greaterThan", "greaterThanOrEqual", "equal",
                         "notEqual", "arrayContains", "isNull", "isNotNull", "isNan", "isNotNan"}}
      \cup {Is(op, {0, 2}) : op \in {"in", "notIn", "arrayContainsAny"}}
      \cup {<<"and", {Is("equal", 0), G("greaterThan", 0)}>>, <<"or", {Is("equal", 0), Is("equal", 3)}>>,
            <<"and", {Is("lessThan", 3), <<"and", {G("notEqual", 1)}>>}>>,
            <<"and", {Is("equal", 0), G("isNull", 0)}>>}
MCQueries == [path : {<<"c">>}, group : {FALSE}, filter : MCFilters]
               \cup [path : {<<"c">>}, group : {TRUE}, filter : {Is("equal", 0), G("notIn", {1})}]
=============================================================================
