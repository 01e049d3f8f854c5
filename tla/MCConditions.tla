---------------------------- MODULE MCConditions ----------------------------
(* Instances of Conditions: a few words, one user, small contexts. *)
EXTENDS Conditions

W(w) == <<"word", w>>
Str(s) == <<"str", <<s>>>>
Owner == <<"owner">>
Template(var) == [prefix |-> TRUE, segs |-> <<<<"lit", Str("orgs")>>, <<"$", var>>>>]
OrgTemplate == Template(<<"request", "auth", "uid">>)
DocTemplate == Template(<<"doc">>)
BadTemplate == Template(<<"other">>)

MCTokens ==
    {W(<<"request", "auth", "uid">>), W(<<"request", "auth">>), W(<<"null">>),
     W(<<"true">>), W(<<"in">>), W(<<"resource", "data", "owner">>),
     W(<<"request", "resource", "data", "owner">>), W(<<"doc">>), W(<<"unknown">>),
     <<"int", 1>>, <<"dur", 1, "s">>, <<"call", "f">>, <<"call", "g">>, W(<<"request", "time">>),
     <<"exists", OrgTemplate>>, <<"get", OrgTemplate, Owner>>, <<"exists", BadTemplate>>,
     <<"exists", DocTemplate>>}
    \cup {<<"sym", x>> : x \in {"(", ")", "&&", "||", "!", "==", "!=", "<", "[", "]", "+"}}

\* f() is request.auth == null || resource.data.owner == request.auth.uid
MCFunctions ==
    [x \in {"f"} |->
        <<W(<<"request", "auth">>), <<"sym", "==">>, W(<<"null">>), <<"sym", "||">>,
          W(<<"resource", "data", "owner">>), <<"sym", "==">>, W(<<"request", "auth", "uid">>)>>]

Partial(vals) == {[x \in {} |-> 0]} \cup {[x \in {Owner} |-> v] : v \in vals}

MCContexts ==
    {c \in [auth : {Missing, Str("u1")}, claims : {[x \in {} |-> 0]},
            res : Partial({Str("u1"), Str("u2"), <<"int", 1>>}),
            req : Partial({Str("u1")}),
            leaf : {Missing, Str("u1")}, bind : {[x \in {} |-> 0]},
            time : {<<"ts", 1>>},
            reads : {[x \in {<<Str("orgs"), Str("u1")>>} |-> d] :
                        d \in {Absent, <<"doc", [x \in {Owner} |-> Str("u1")]>>}}] : TRUE}

Binding == <<"field", Owner, "==", Str("u1")>>
Other == <<"field", Owner, "!=", Str("u2")>>
MCFilters ==
    {<<"none">>, Binding, Other, <<"all", <<Other, Binding>>>>,
     <<"any", <<Other, Binding>>>>, <<"any", <<Binding, Binding>>>>}
=============================================================================
