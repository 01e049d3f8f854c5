----------------------------- MODULE Conditions -----------------------------
(***************************************************************************)
(* The condition language of access rules (embyr-core/src/access_control/  *)
(* mod.rs): the recursive-descent parser from tokens to a condition, the   *)
(* evaluator, the discovery of the documents a condition reads, the static *)
(* check of queries against a rule, and the expansion of functions and the *)
(* rewriting of path variables done by the rules-file importer.  All of it *)
(* is pure; the state is the source typed so far, one token per step, as   *)
(* long as the parser does not refuse it.                                  *)
(*                                                                         *)
(* A word is the sequence of its dot-separated parts.  A string literal is *)
(* a word too, because the importer rewrites inside it.  Field values are  *)
(* tagged pairs.  duration.value(n, 'u') is one token.                     *)
(***************************************************************************)
EXTENDS Integers, Sequences, FiniteSets, SequencesExt

CONSTANTS
    Tokens,         \* the tokens a source is made of
    MaxTokens,      \* bound on the length of a source, closing brackets not counted
    IntWidth,       \* integers are of this many bits (64 in the code)
    Contexts,       \* the evaluation contexts the properties range over
    Filters,        \* the query filters the properties range over
    Variable,       \* the path variable the importer rewrites
    Functions       \* the functions the rules file defines: name -> body, as tokens

VARIABLES
    src,     \* the source typed so far
    parsed   \* what the parser makes of it

Error == [ok |-> FALSE, pos |-> 0, ast |-> << >>]
Absent == <<"absent">>

Sym(t, s) == t = <<"sym", s>>

(***************************************************************************)
(* The parser.  Each operator takes a position and returns the condition   *)
(* and the position after it; a failure keeps the position of the token    *)
(* that was refused.                                                       *)
(***************************************************************************)
Got(p, a) == [ok |-> TRUE, pos |-> p, ast |-> a]
Refused(p) == [Error EXCEPT !.pos = p]
\* The ? operator: a failure is returned as it is.
Try(result, Rest(_)) == IF result.ok THEN Rest(result) ELSE result
Peek(ts, p) == IF p <= Len(ts) THEN ts[p] ELSE <<"end">>

\* Call syntax of unknown functions and wildcard paths, anywhere outside of quotes.
DetectUnsupported(ts) ==
    \E i \in DOMAIN ts : ts[i][1] = "call" \/ Sym(ts[i], "**")

\* word_to_operand: the fixed words and the prefixes with a non-empty rest.
WordToOperand(w) ==
    LET Rest(n) == SubSeq(w, n + 1, Len(w))
        Has(prefix) == Len(w) > Len(prefix) /\ IsPrefix(prefix, w)
    IN  CASE w = <<"request", "auth", "uid">> -> <<"uid">>
          [] w = <<"request", "auth">> -> <<"auth">>
          [] w = <<"null">> -> <<"null">>
          [] w = <<"request", "time">> -> <<"time">>
          [] w = <<"true">> -> <<"bool", TRUE>>
          [] w = <<"false">> -> <<"bool", FALSE>>
          [] Has(<<"request", "auth", "token">>) -> <<"claim", Rest(3)>>
          [] Has(<<"request", "path">>) -> <<"path", Rest(2)>>
          [] Has(<<"request", "resource", "data">>) -> <<"req", Rest(3)>>
          [] Has(<<"resource", "data">>) -> <<"res", Rest(2)>>
          [] OTHER -> Absent

\* parse_path_template: the fixed prefix, at least one segment, and of the
\* substitutions $(...) only the two that the grammar has.
TemplateSegment(seg) ==
    LET w == seg[2]
    IN  CASE seg[1] = "lit" -> seg
          [] seg[1] = "$" /\ WordToOperand(w)[1] \in {"uid", "path"} -> WordToOperand(w)
          [] OTHER -> Absent

PathTemplate(raw) == [i \in DOMAIN raw.segs |-> TemplateSegment(raw.segs[i])]

TemplateOK(raw) ==
    /\ raw.prefix
    /\ raw.segs # << >>
    /\ Absent \notin Range(PathTemplate(raw))

\* parse_base_operand
ParseBase(ts, p) ==
    LET t == Peek(ts, p)
    IN  CASE t[1] = "word" /\ WordToOperand(t[2]) # Absent ->
                 Got(p + 1, WordToOperand(t[2]))
          [] t[1] \in {"str", "int", "dbl"} -> Got(p + 1, t)
          [] t[1] = "exists" /\ TemplateOK(t[2]) ->
                 Got(p + 1, <<"exists", PathTemplate(t[2])>>)
          [] t[1] = "get" /\ TemplateOK(t[2]) ->
                 Got(p + 1, <<"get", PathTemplate(t[2]), t[3]>>)
          [] OTHER -> Refused(p)

AddOps == {<<"sym", "+">>, <<"sym", "-">>}

\* parse_operand and parse_arithmetic_rhs: at most one + or -, whose right side
\* may also be a duration.
ParseOperand(ts, p) ==
    LET Arith(base) ==
            LET op == Peek(ts, base.pos)
                next == Peek(ts, base.pos + 1)
                Combine(rhs) ==
                    IF Peek(ts, rhs.pos) \in AddOps THEN Refused(rhs.pos)
                    ELSE Got(rhs.pos, <<"arith", base.ast, op[2], rhs.ast>>)
            IN  IF op \notin AddOps THEN base
                ELSE IF next[1] = "dur" THEN Combine(Got(base.pos + 2, next))
                ELSE Try(ParseBase(ts, base.pos + 1), Combine)
    IN  Try(ParseBase(ts, p), Arith)

RECURSIVE ParseItems(_, _, _)
\* parse_list_literal, after the opening bracket and the first item or not
ParseItems(ts, p, items) ==
    LET More(item) ==
            LET sep == Peek(ts, item.pos)
            IN  CASE Sym(sep, "]") -> Got(item.pos + 1, Append(items, item.ast))
                  [] Sym(sep, ",") -> ParseItems(ts, item.pos + 1, Append(items, item.ast))
                  [] OTHER -> Refused(item.pos)
    IN  Try(ParseOperand(ts, p), More)

CompareOps == {"==", "!=", "<", "<=", ">", ">="}

\* The list after `in`, from the opening bracket on.
ParseList(ts, p) ==
    IF ~Sym(Peek(ts, p), "[") THEN Refused(p)
    ELSE IF Sym(Peek(ts, p + 1), "]") THEN Got(p + 2, << >>)
    ELSE ParseItems(ts, p + 1, << >>)

ParseComparison(ts, p) ==
    LET Compare(left) ==
            LET op == Peek(ts, left.pos)
                In(list) == Got(list.pos, <<"in", left.ast, list.ast>>)
                Cmp(right) == Got(right.pos, <<"cmp", left.ast, op[2], right.ast>>)
            IN  CASE op = <<"word", <<"in">>>> -> Try(ParseList(ts, left.pos + 1), In)
                  [] op[1] = "sym" /\ op[2] \in CompareOps ->
                         Try(ParseOperand(ts, left.pos + 1), Cmp)
                  [] OTHER -> Refused(left.pos)
    IN  Try(ParseOperand(ts, p), Compare)

RECURSIVE ParseOr(_, _), ParseAnd(_, _), ParseUnary(_, _), ParsePrimary(_, _),
          MoreOr(_, _), MoreAnd(_, _)

ParsePrimary(ts, p) ==
    LET t == Peek(ts, p)
        Close(inner) == IF Sym(Peek(ts, inner.pos), ")") THEN Got(inner.pos + 1, inner.ast)
                        ELSE Refused(inner.pos)
        IsTrue(call) == Got(call.pos, <<"cmp", call.ast, "==", <<"bool", TRUE>>>>)
    IN  CASE Sym(t, "(") -> Try(ParseOr(ts, p + 1), Close)
          [] t = <<"word", <<"true">>>> -> Got(p + 1, <<"lit", TRUE>>)
          [] t = <<"word", <<"false">>>> -> Got(p + 1, <<"lit", FALSE>>)
          [] t[1] = "exists" -> Try(ParseBase(ts, p), IsTrue)
          [] t[1] \in {"word", "get"} -> ParseComparison(ts, p)
          [] OTHER -> Refused(p)

Negated(inner) == Got(inner.pos, <<"not", inner.ast>>)

\* Mutant of ParseUnary: ! takes everything up to the next ||.
ParseUnaryLoose(ts, p) ==
    IF Sym(Peek(ts, p), "!") THEN Try(ParseAnd(ts, p + 1), Negated) ELSE ParsePrimary(ts, p)

ParseUnary(ts, p) ==
    IF Sym(Peek(ts, p), "!") THEN Try(ParseUnary(ts, p + 1), Negated) ELSE ParsePrimary(ts, p)

\* The loops of parse_and and parse_or: more operands, joined to the left.
MoreAnd(ts, left) ==
    LET Join(right) == MoreAnd(ts, Got(right.pos, <<"and", left.ast, right.ast>>))
    IN  IF ~Sym(Peek(ts, left.pos), "&&") THEN left
        ELSE Try(ParseUnary(ts, left.pos + 1), Join)

ParseAnd(ts, p) == Try(ParseUnary(ts, p), LAMBDA left : MoreAnd(ts, left))

MoreOr(ts, left) ==
    LET Join(right) == MoreOr(ts, Got(right.pos, <<"or", left.ast, right.ast>>))
    IN  IF ~Sym(Peek(ts, left.pos), "||") THEN left
        ELSE Try(ParseAnd(ts, left.pos + 1), Join)

ParseOr(ts, p) == Try(ParseAnd(ts, p), LAMBDA left : MoreOr(ts, left))

\* parse_condition: the whole source must be used up.
ParseCondition(ts) ==
    LET All(whole) == IF whole.pos = Len(ts) + 1 THEN whole ELSE Refused(whole.pos)
    IN  IF DetectUnsupported(ts) THEN Refused(0) ELSE Try(ParseOr(ts, 1), All)

(***************************************************************************)
(* The evaluator.  Missing is the Err(FieldMissing) of the code.           *)
(***************************************************************************)
Missing == <<"missing">>
Lookup(f, x) == IF x \in DOMAIN f THEN f[x] ELSE Missing

\* Two's complement of IntWidth bits: release builds wrap.
Wrap(n) == ((n + 2^(IntWidth - 1)) % 2^IntWidth) - 2^(IntWidth - 1)
Plus(a, op, b) == Wrap(IF op = "+" THEN a + b ELSE a - b)

\* A binding of an ancestor before the leaf's own value.
PathVar(name, ctx) ==
    IF name \in DOMAIN ctx.bind THEN ctx.bind[name] ELSE ctx.leaf

\* resolve_path_template
ResolveTemplate(segs, ctx) ==
    LET Part(seg) == CASE seg[1] = "lit" -> seg[2]
                       [] seg[1] = "uid" -> ctx.auth
                       [] seg[1] = "path" -> PathVar(seg[2], ctx)
        parts == [i \in DOMAIN segs |-> Part(segs[i])]
    IN  IF \E i \in DOMAIN parts : parts[i] = Missing THEN Missing ELSE parts

Number(v) == v[1] \in {"int", "dbl"}
Seconds(amount, unit) ==
    Wrap(amount * (CASE unit = "s" -> 1 [] unit = "m" -> 60
                     [] unit = "h" -> 3600 [] unit = "d" -> 86400))

RECURSIVE ResolveFieldValue(_, _)
\* resolve_field_value
ResolveFieldValue(o, ctx) ==
    CASE o[1] = "res" -> Lookup(ctx.res, o[2])
      [] o[1] = "req" -> Lookup(ctx.req, o[2])
      [] o[1] = "bool" -> o
      [] o[1] = "null" -> o
      [] o[1] \in {"str", "int", "dbl"} -> o
      [] o[1] = "claim" -> IF ctx.auth = Missing THEN Missing ELSE Lookup(ctx.claims, o[2])
      [] o[1] \in {"uid", "auth"} -> ctx.auth
      [] o[1] = "path" -> PathVar(o[2], ctx)
      [] o[1] = "time" -> ctx.time
      [] o[1] \in {"list", "dur"} -> Missing
      [] o[1] = "arith" ->
             LET l == ResolveFieldValue(o[2], ctx)
                 r == ResolveFieldValue(o[4], ctx)
             IN  CASE l = Missing -> Missing
                   [] l[1] = "ts" /\ o[4][1] = "dur" ->
                          <<"ts", Plus(l[2], o[3], Seconds(o[4][2], o[4][3]))>>
                   [] r = Missing -> Missing
                   [] Number(l) /\ r[1] = l[1] -> <<l[1], Plus(l[2], o[3], r[2])>>
                   [] OTHER -> Missing
      [] o[1] = "exists" ->
             LET path == ResolveTemplate(o[2], ctx)
             IN  IF path = Missing THEN Missing
                 ELSE <<"bool", Lookup(ctx.reads, path) \notin {Missing, Absent}>>
      [] o[1] = "get" ->
             LET path == ResolveTemplate(o[2], ctx)
                 doc == IF path = Missing THEN Missing ELSE Lookup(ctx.reads, path)
             IN  IF doc \in {Missing, Absent} THEN Missing ELSE Lookup(doc[2], o[3])

\* compare_operands
CompareOperands(l, r, ctx) ==
    LET names == {l[1], r[1]}
        field == CHOOSE o \in {l, r} : o[1] # "uid"
        owner == ResolveFieldValue(field, ctx)
        lv == ResolveFieldValue(l, ctx)
        rv == ResolveFieldValue(r, ctx)
    IN  CASE names \in {{"uid", "res"}, {"uid", "req"}} ->
                 IF ctx.auth = Missing \/ owner = Missing THEN Missing
                 ELSE <<"bool", owner = ctx.auth>>
          [] names \in {{"auth", "null"}, {"uid", "null"}} -> <<"bool", ctx.auth = Missing>>
          [] OTHER -> IF lv = Missing \/ rv = Missing THEN Missing
                      ELSE <<"bool", lv = rv>>

\* compare_relational: timestamps, or numbers of either kind; else false.
CompareRelational(op, l, r) ==
    /\ (l[1] = "ts" /\ r[1] = "ts") \/ (Number(l) /\ Number(r))
    /\ CASE op = "<" -> l[2] < r[2] [] op = "<=" -> l[2] <= r[2]
         [] op = ">" -> l[2] > r[2] [] op = ">=" -> l[2] >= r[2]

\* Mutant of EvalCompare: a missing operand makes a comparison false.
EvalCompareTotal(c, ctx) ==
    LET l == ResolveFieldValue(c[2], ctx)
        r == ResolveFieldValue(c[4], ctx)
        eq == CompareOperands(c[2], c[4], ctx) = <<"bool", TRUE>>
    IN  <<"bool", CASE c[3] = "==" -> eq
                    [] c[3] = "!=" -> ~eq
                    [] OTHER -> l # Missing /\ r # Missing /\ CompareRelational(c[3], l, r)>>

EvalCompare(c, ctx) ==
    LET l == ResolveFieldValue(c[2], ctx)
        r == ResolveFieldValue(c[4], ctx)
        eq == CompareOperands(c[2], c[4], ctx)
    IN  CASE c[3] = "==" -> eq
          [] c[3] = "!=" -> IF eq = Missing THEN Missing ELSE <<"bool", ~eq[2]>>
          [] OTHER -> IF l = Missing \/ r = Missing THEN Missing
                      ELSE <<"bool", CompareRelational(c[3], l, r)>>

EvalIn(c, ctx) ==
    LET v == ResolveFieldValue(c[2], ctx)
    IN  IF v = Missing THEN Missing
        ELSE <<"bool", \E i \in DOMAIN c[3] : ResolveFieldValue(c[3][i], ctx) = v>>

RECURSIVE EvalBool(_, _)
\* eval_bool: And stops at the first missing or false operand, Or at the first true.
EvalBool(c, ctx) ==
    CASE c[1] = "lit" -> <<"bool", c[2]>>
      [] c[1] = "not" -> LET v == EvalBool(c[2], ctx)
                         IN  IF v = Missing THEN Missing ELSE <<"bool", ~v[2]>>
      [] c[1] = "and" -> LET l == EvalBool(c[2], ctx)
                         IN  IF l = <<"bool", TRUE>> THEN EvalBool(c[3], ctx) ELSE l
      [] c[1] = "or" -> LET l == EvalBool(c[2], ctx)
                            r == EvalBool(c[3], ctx)
                        IN  CASE <<"bool", TRUE>> \in {l, r} -> <<"bool", TRUE>>
                              [] Missing \in {l, r} -> Missing
                              [] OTHER -> <<"bool", FALSE>>
      [] c[1] = "cmp" -> EvalCompare(c, ctx)
      [] c[1] = "in" -> EvalIn(c, ctx)

\* evaluate: everything but true is a denial.
Allow(c, ctx) == EvalBool(c, ctx) = <<"bool", TRUE>>

(***************************************************************************)
(* discover_cross_document_paths                                           *)
(***************************************************************************)
RECURSIVE OperandPaths(_, _), DiscoverPaths(_, _)
OperandPaths(o, ctx) ==
    CASE o[1] \in {"exists", "get"} -> {ResolveTemplate(o[2], ctx)} \ {Missing}
      [] o[1] = "arith" -> OperandPaths(o[2], ctx) \cup OperandPaths(o[4], ctx)
      [] OTHER -> {}

\* Mutant of DiscoverPaths: the operands of `in` are not visited.
DiscoverPathsSkippingIn(c, ctx) ==
    IF c[1] = "in" THEN {} ELSE
    CASE c[1] = "lit" -> {}
      [] c[1] = "not" -> DiscoverPaths(c[2], ctx)
      [] c[1] \in {"and", "or"} -> DiscoverPaths(c[2], ctx) \cup DiscoverPaths(c[3], ctx)
      [] c[1] = "cmp" -> OperandPaths(c[2], ctx) \cup OperandPaths(c[4], ctx)

DiscoverPaths(c, ctx) ==
    CASE c[1] = "lit" -> {}
      [] c[1] = "not" -> DiscoverPaths(c[2], ctx)
      [] c[1] \in {"and", "or"} -> DiscoverPaths(c[2], ctx) \cup DiscoverPaths(c[3], ctx)
      [] c[1] = "cmp" -> OperandPaths(c[2], ctx) \cup OperandPaths(c[4], ctx)
      [] c[1] = "in" -> OperandPaths(c[2], ctx)
                        \cup UNION {OperandPaths(c[3][i], ctx) : i \in DOMAIN c[3]}

(***************************************************************************)
(* The static check of a query (check_query_compliance).  A filter is a    *)
(* field filter, or a conjunction or disjunction of filters.               *)
(***************************************************************************)
RECURSIVE Atoms(_)
\* decompose_decidable: {Absent} among the atoms means undecidable.
Atoms(c) ==
    CASE c[1] = "lit" -> {<<"lit", c[2]>>}
      [] c[1] = "cmp" /\ c[2] = <<"auth">> /\ c[3] = "!=" /\ c[4] = <<"null">> ->
             {<<"auth">>}
      [] c[1] = "cmp" /\ c[3] = "==" /\ {c[2][1], c[4][1]} = {"uid", "res"} ->
             {CHOOSE o \in {c[2], c[4]} : o[1] = "res"}
      [] c[1] = "and" -> Atoms(c[2]) \cup Atoms(c[3])
      [] OTHER -> {Absent}

RECURSIVE BindsToUid(_, _, _)
\* Mutant of BindsToUid: one branch of a disjunction is taken to be enough.
BindsToUidInAnyBranch(f, field, uid) ==
    CASE f[1] = "none" -> FALSE
      [] f[1] = "field" -> f[2] = field /\ f[3] = "==" /\ f[4] = uid
      [] f[1] \in {"all", "any"} -> \E i \in DOMAIN f[2] : BindsToUid(f[2][i], field, uid)

\* filter_binds_field_to_uid
BindsToUid(f, field, uid) ==
    CASE f[1] = "none" -> FALSE
      [] f[1] = "field" -> f[2] = field /\ f[3] = "==" /\ f[4] = uid
      [] f[1] = "all" -> \E i \in DOMAIN f[2] : BindsToUid(f[2][i], field, uid)
      [] f[1] = "any" -> \A i \in DOMAIN f[2] : BindsToUid(f[2][i], field, uid)

\* check_query_compliance: Admitted
Admitted(c, filter, auth) ==
    \A a \in Atoms(c) :
        CASE a = Absent -> FALSE
          [] a[1] = "lit" -> a[2]
          [] a[1] = "auth" -> auth # Missing
          [] a[1] = "res" -> auth # Missing /\ BindsToUid(filter, a[2], auth)

(***************************************************************************)
(* rewrite_path_variable: every part of a word, of a string or of the path *)
(* of get() and exists() that is the variable's name becomes               *)
(* request.path.<name>; in the raw text, so whatever it stands for there.  *)
(***************************************************************************)
RECURSIVE RewriteParts(_, _)
RewriteParts(w, var) ==
    IF w = << >> THEN << >>
    ELSE (IF Head(w) = var THEN <<"request", "path", var>> ELSE <<Head(w)>>)
         \o RewriteParts(Tail(w), var)

RewriteSegment(seg, var) ==
    IF seg[1] = "$" THEN <<"$", RewriteParts(seg[2], var)>>
    ELSE <<"lit", <<"str", RewriteParts(seg[2][2], var)>>>>

RewriteTemplate(raw, var) ==
    [raw EXCEPT !.segs = [i \in DOMAIN @ |-> RewriteSegment(@[i], var)]]

RewritePathVariable(ts, var) ==
    LET Rewrite(t) ==
            CASE t[1] \in {"word", "str"} -> <<t[1], RewriteParts(t[2], var)>>
              [] t[1] = "exists" -> <<"exists", RewriteTemplate(t[2], var)>>
              [] t[1] = "get" -> <<"get", RewriteTemplate(t[2], var), RewriteParts(t[3], var)>>
              [] OTHER -> t
    IN  [i \in DOMAIN ts |-> Rewrite(ts[i])]

(***************************************************************************)
(* The functions of a rules file, expanded before anything is rewritten.   *)
(***************************************************************************)
\* parse_function_blocks: a body is a condition as it stands, so it calls nothing.
FunctionsAccepted == \A f \in DOMAIN Functions : ParseCondition(Functions[f]).ok

\* expand_function_calls: the body in parentheses for every call of a function
\* that is defined; a call of another one stays, and is refused.
ExpandFunctionCalls(ts) ==
    LET Expanded(t) ==
            IF t[1] = "call" /\ t[2] \in DOMAIN Functions
            THEN <<<<"sym", "(">>>> \o Functions[t[2]] \o <<<<"sym", ")">>>>
            ELSE <<t>>
    IN  FlattenSeq([i \in DOMAIN ts |-> Expanded(ts[i])])

(***************************************************************************)
(* Typing a source, token by token.                                        *)
(***************************************************************************)
Parsed(ts) ==
    IF FunctionsAccepted
    THEN ParseCondition(RewritePathVariable(ExpandFunctionCalls(ts), Variable))
    ELSE Refused(0)

Init == src = << >> /\ parsed = Parsed(<< >>)

Closing == {<<"sym", ")">>, <<"sym", "]">>}

\* The parser is only refused by what is still missing at the end.
Type(t) ==
    /\ t \in Closing \/ Len(SelectSeq(src, LAMBDA x : x \notin Closing)) < MaxTokens
    /\ src' = Append(src, t)
    /\ parsed' = Parsed(src')
    /\ parsed'.pos = Len(ExpandFunctionCalls(src')) + 1

Next == \E t \in Tokens : Type(t)

Spec == Init /\ [][Next]_<<src, parsed>>

(***************************************************************************)
(* What a source means, by splitting it at its operators of lowest         *)
(* precedence instead of reading it from the left; in three-valued logic,  *)
(* where U is the value of a comparison with a missing operand.            *)
(***************************************************************************)
Depth(s, i) ==
    LET Count(x) == Cardinality({j \in 1 .. (i - 1) : Sym(s[j], x)})
    IN  Count("(") - Count(")")
TopLevel(s, x) == {i \in DOMAIN s : Sym(s[i], x) /\ Depth(s, i) = 0}

And3(a, b) == IF "F" \in {a, b} THEN "F" ELSE IF "U" \in {a, b} THEN "U" ELSE "T"
Not3(a) == CASE a = "T" -> "F" [] a = "F" -> "T" [] OTHER -> a
Or3(a, b) == Not3(And3(Not3(a), Not3(b)))

Value3(v) == IF v = Missing THEN "U" ELSE IF v[2] THEN "T" ELSE "F"

\* A source without connectives: one comparison, membership, literal or exists.
Atom(s, ctx) ==
    LET ast == ParseCondition(s).ast IN Value3(EvalBool(ast, ctx))

RECURSIVE Meaning(_, _)
Meaning(s, ctx) ==
    LET Split(x) == CHOOSE i \in TopLevel(s, x) : \A j \in TopLevel(s, x) : j <= i
        Left(x) == Meaning(SubSeq(s, 1, Split(x) - 1), ctx)
        Right(x) == Meaning(SubSeq(s, Split(x) + 1, Len(s)), ctx)
    IN  CASE TopLevel(s, "||") # {} -> Or3(Left("||"), Right("||"))
          [] TopLevel(s, "||") = {} /\ TopLevel(s, "&&") # {} -> And3(Left("&&"), Right("&&"))
          [] OTHER -> IF Sym(s[1], "!") THEN Not3(Meaning(Tail(s), ctx))
                      ELSE IF Sym(s[1], "(") THEN Meaning(SubSeq(s, 2, Len(s) - 1), ctx)
                      ELSE IF s[1][1] = "call"
                      THEN Meaning(RewritePathVariable(Functions[s[1][2]], Variable), ctx)
                      ELSE Atom(s, ctx)

\* Does a filter accept a document with these fields?  (The query's SQL.)
RECURSIVE Accepts(_, _)
Accepts(f, fields) ==
    CASE f[1] = "none" -> TRUE
      [] f[1] = "field" -> /\ f[2] \in DOMAIN fields
                           /\ (f[3] = "==") = (fields[f[2]] = f[4])
      [] f[1] = "all" -> \A i \in DOMAIN f[2] : Accepts(f[2][i], fields)
      [] f[1] = "any" -> \E i \in DOMAIN f[2] : Accepts(f[2][i], fields)

Extends(f, g) == DOMAIN g \subseteq DOMAIN f /\ \A x \in DOMAIN g : f[x] = g[x]

\* More is known of the same situation.
Completes(full, ctx) ==
    /\ [full EXCEPT !.res = ctx.res, !.req = ctx.req, !.leaf = ctx.leaf] = ctx
    /\ Extends(full.res, ctx.res) /\ Extends(full.req, ctx.req)
    /\ ctx.leaf \in {Missing, full.leaf}

(***************************************************************************)
(* Properties of every source the parser accepts.                          *)
(***************************************************************************)
\* "for every context, of the condition c that src stands for"
Holds(P(_, _)) == parsed.ok => \A ctx \in Contexts : P(parsed.ast, ctx)

\* The condition the parser builds has the meaning that precedence and
\* parentheses give to the source (parse_or, parse_and, parse_unary,
\* parse_primary), with a function call standing for its body as a whole, and the
\* evaluator agrees with it; it may only give less when an operand is missing,
\* because && stops there.
ParserMeaning ==
    LET tokens == RewritePathVariable(src, Variable)
        Agrees(c, ctx) == LET v == EvalBool(c, ctx)
                          IN  v # Missing => Value3(v) = Meaning(tokens, ctx)
    IN  Holds(Agrees)

\* Under a negation the condition asks for a membership in a list of which an item
\* is missing: for the In arm of eval_bool such an item does not match.
RECURSIVE NegatedItemMissing(_, _, _)
NegatedItemMissing(c, ctx, negated) ==
    CASE c[1] = "not" -> NegatedItemMissing(c[2], ctx, ~negated)
      [] c[1] \in {"and", "or"} -> \E i \in {2, 3} : NegatedItemMissing(c[i], ctx, negated)
      [] c[1] = "in" -> negated /\ \E i \in DOMAIN c[3] : ResolveFieldValue(c[3][i], ctx) = Missing
      [] OTHER -> FALSE

\* What is missing never helps: a condition that allows a request when fields of
\* the documents or the path variable are unknown allows it whatever they are (the
\* fail-closed claim of evaluate).  A negated `in` with a missing item is the one
\* exception, through any nesting of connectives, functions and arithmetic.
FailsClosed ==
    LET denied == {ctx \in Contexts : ~Allow(parsed.ast, ctx)}
    IN  parsed.ok =>
            \A ctx \in Contexts \ denied : \A full \in denied :
                Completes(full, ctx) => NegatedItemMissing(parsed.ast, ctx, FALSE)

\* A query that check_query_compliance admits returns only documents the rule
\* allows to be read, one by one.
ComplianceSound ==
    LET Sound(c, ctx) == \A f \in Filters :
            Admitted(c, f, ctx.auth) /\ Accepts(f, ctx.res) => Allow(c, ctx)
    IN  Holds(Sound)

\* Evaluating with only the documents that discover_cross_document_paths names
\* gives what evaluating with all documents gives.
DiscoveryComplete ==
    LET Complete(c, ctx) ==
            LET found == DiscoverPaths(c, ctx) \cap DOMAIN ctx.reads
                fetched == [ctx EXCEPT !.reads = [p \in found |-> ctx.reads[p]]]
            IN  EvalBool(c, fetched) = EvalBool(c, ctx)
    IN  Holds(Complete)
=============================================================================
