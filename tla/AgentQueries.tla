---------------------------- MODULE AgentQueries ----------------------------
(***************************************************************************)
(* Queries through the agent: run_query of the adapter turns the query     *)
(* into the agent's messages, the agent turns it back and runs it on its   *)
(* documents.  A query changes nothing, so it is an answer that every      *)
(* state has.                                                              *)
(***************************************************************************)
EXTENDS Agent

CONSTANTS
    PathOf,   \* the path of the collection that a document is in
    Queries   \* a collection path, whether all collections of its last id are meant, a filter

ASSUME QueriesAssumption ==
    /\ DOMAIN PathOf = Docs /\ \A p \in Docs : Len(PathOf[p]) > 0
    /\ \A q \in Queries : Len(q.path) > 0 /\ q.group \in BOOLEAN

\* domain_filter_op_to_agent: the numbers that FieldFilterOp has for the
\* operators; the four unary ones have none.
AgentOp == [lessThan |-> 1, lessThanOrEqual |-> 2, greaterThan |-> 3, greaterThanOrEqual |-> 4,
            equal |-> 5, notEqual |-> 6, arrayContains |-> 7, in |-> 8, notIn |-> 9,
            arrayContainsAny |-> 10]

\* proto_filter_op_to_domain
DomainOp == <<"lessThan", "lessThanOrEqual", "greaterThan", "greaterThanOrEqual", "equal", "notEqual",
              "arrayContains", "in", "notIn", "arrayContainsAny">>

\* append_field_filter: what an operator asks of a field.  Fields are integers, so
\* none is an array, NaN or null; one that is missing passes IS_NOT_NAN alone.
Compares(op, field, value) ==
    \/ op = "isNotNan"
    \/ field # Absent /\ CASE op = "lessThan" -> field < value
                           [] op = "lessThanOrEqual" -> field <= value
                           [] op = "greaterThan" -> field > value
                           [] op = "greaterThanOrEqual" -> field >= value
                           [] op = "equal" -> field = value
                           [] op = "notEqual" -> field # value
                           [] op = "in" -> field \in value
                           [] op = "notIn" -> field \notin value
                           [] OTHER -> op = "isNotNull"

RECURSIVE Matches(_, _), ToAgentFilter(_), ToDomainFilter(_), ToAgentFilterAny(_)

\* What a filter means for the fields of a document.
Matches(filter, f) ==
    CASE filter[1] = "field" -> Compares(filter[2], f[filter[3]], filter[4])
      [] filter[1] = "and" -> \A part \in filter[2] : Matches(part, f)
      [] filter[1] = "or" -> \E part \in filter[2] : Matches(part, f)

\* Mutant of ToAgentFilter: the agent's only composite stands for OR as well.
ToAgentFilterAny(filter) ==
    IF filter[1] = "field"
    THEN IF filter[2] \in DOMAIN AgentOp THEN [filter EXCEPT ![2] = AgentOp[@]] ELSE <<"refused">>
    ELSE LET parts == {ToAgentFilterAny(part) : part \in filter[2]} IN
         IF <<"refused">> \in parts THEN <<"refused">> ELSE <<"composite", "and", parts>>

\* domain_filter_to_agent_filter: a unary operator or an OR is refused, and with
\* it the whole filter.
ToAgentFilter(filter) ==
    IF filter[1] = "field"
    THEN IF filter[2] \in DOMAIN AgentOp THEN [filter EXCEPT ![2] = AgentOp[@]] ELSE <<"refused">>
    ELSE LET parts == {ToAgentFilter(part) : part \in filter[2]} IN
         IF filter[1] = "or" \/ <<"refused">> \in parts THEN <<"refused">> ELSE <<"composite", "and", parts>>

\* proto_filter_to_domain: a composite is an AND, whatever its operator says.
ToDomainFilter(a) ==
    IF a[1] = "field" THEN [a EXCEPT ![2] = DomainOp[@]]
    ELSE <<"and", {ToDomainFilter(part) : part \in a[3]}>>

\* The collections of a query: the one at its path, or with all_descendants every
\* one whose path ends in it.
InScope(path, group, p) == IF group THEN IsSuffix(path, PathOf[p]) ELSE PathOf[p] = path

\* The agent's run_query: the documents that its Postgres finds.
Found(sent) ==
    {p \in Docs : /\ docs[p] # Absent /\ InScope(sent.path, sent.group, p)
                  /\ Matches(ToDomainFilter(sent.filter), docs[p])}

\* run_query of the adapter: what the agent streams back, or a refusal.  The agent
\* gets the collection and the filter: no order, limit or cursor, and
\* all_descendants is always false.
QueryAnswer(q) ==
    LET filter == ToAgentFilter(q.filter) IN
    IF filter = <<"refused">> THEN filter
    ELSE <<"found", Found([path |-> q.path, group |-> FALSE, filter |-> filter])>>

-----------------------------------------------------------------------------
(* Properties                                                              *)

\* What a query asks for, as the Postgres adapter would answer it.
Asked(q) == {p \in Docs : docs[p] # Absent /\ InScope(q.path, q.group, p) /\ Matches(q.filter, docs[p])}

\* The documents that a collection-group query through the agent cannot find: those
\* in another collection than the one at its path.
Unreached(q) == {p \in Docs : q.group /\ PathOf[p] # q.path}

\* A query that the adapter does not refuse finds what it asks for, whatever was
\* written, deleted and committed before: for every operator and conjunction the
\* filter that reaches Postgres means the same.  A collection-group query finds
\* only the part in the collection at its path.
QueriesAsAsked ==
    \A q \in Queries :
        LET answer == QueryAnswer(q) IN
        answer # <<"refused">> => answer[2] = Asked(q) \ Unreached(q)
=============================================================================
