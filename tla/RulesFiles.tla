----------------------------- MODULE RulesFiles -----------------------------
(***************************************************************************)
(* Reading a rules file (embyr-core/src/access_control/rules_file.rs): a   *)
(* file is a tree of match blocks, each with its segments and its allow    *)
(* clauses or inner blocks, in order.  What comes out are the blocks that  *)
(* RulePatterns decomposes, with their full paths.                         *)
(***************************************************************************)
EXTENDS Sequences, SequencesExt

RECURSIVE ParseMatchBlocks(_, _)
\* parse_nested_match_blocks and parse_block_body: a block inside another gets
\* the path of the outer one before its own; inside a path that does not parse
\* nothing is read.
ParseMatchBlocks(file, parent) ==
    LET Blocks(b) ==
            IF b.segs = << >> THEN <<[segs |-> << >>, allow |-> << >>]>>
            ELSE IF b.inner # << >> THEN ParseMatchBlocks(b.inner, parent \o b.segs)
            ELSE <<[segs |-> parent \o b.segs, allow |-> b.allow]>>
    IN  FlattenSeq([i \in DOMAIN file |-> Blocks(file[i])])
=============================================================================
