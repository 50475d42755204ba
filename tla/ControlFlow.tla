----------------------------- MODULE ControlFlow -----------------------------
(***************************************************************************)
(* The control-flow graph of a lifted function and what SSA needs of it      *)
(* (crates/ghidrust-ssa/src/lib.rs): basic blocks, immediate dominators,     *)
(* dominance frontiers and the places of phis.                               *)
(*                                                                         *)
(* A function is its instructions at the addresses 1 .. N of the region,     *)
(* each the sequence of the operations it is lifted to.  An operand is a     *)
(* pair: <<"const", value>>, or a variable or a part of one and its version,  *)
(* which is 0 before renaming.  Blocks are numbered from 1, the entry.                  *)
(***************************************************************************)
EXTENDS Integers, Sequences, FiniteSets, Functions, SequencesExt, FiniteSetsExt

CONSTANTS
  None,   \* no block, no output, no target in the region
  PartOf  \* of which variable a name is the lower half, for the names that are

ASSUME NoneAssumption == None \notin Nat

EntryBlock == 1

Terminators == {"Branch", "CBranch", "BranchInd", "Return", "Call"}

(* What a loop's body makes of a state in so many turns.  A loop that runs    *)
(* until it is done has a body that leaves what is done, and turns enough.    *)
Loop(Body(_, _), start, turns) ==
  LET after[i \in 0 .. turns] == IF i = 0 THEN start ELSE Body(after[i - 1], i)
  IN after[turns]

(* The numbers of a set in their order, and what a sequence has there.        *)
Ascending(S) ==
  [i \in 1 .. Cardinality(S) |-> CHOOSE x \in S : Cardinality({y \in S : y < x}) = i - 1]
At(s, S) == [i \in 1 .. Cardinality(S) |-> s[Ascending(S)[i]]]

-----------------------------------------------------------------------------
(* Basic blocks *)

(* Where a block begins: at the entry, at a switch case, at a branch's target *)
(* and after every transfer but a return.                                    *)
Leaders(code, hints) ==
  LET Ops(a) == ToSet(code[a]) IN
  {1} \cup {a \in DOMAIN code :
              \/ a \in ToSet(hints)
              \/ \E b \in DOMAIN code : \E op \in Ops(b) :
                   op.opcode \in {"Branch", "CBranch"} /\ op.target = a
              \/ a > 1 /\ \E op \in Ops(a - 1) : op.opcode \in Terminators \ {"Return"}}

(* The operations of a block; the blocks are in the order of their addresses. *)
BlockOps(code, starts, i) ==
  LET end == IF i = Len(starts) THEN Len(code) ELSE starts[i + 1] - 1
  IN Loop(LAMBDA block, k : block \o code[starts[i] + k - 1], << >>, end + 1 - starts[i])

(* The blocks some addresses begin: what leaves the region has no edge.       *)
Begins(leaders, targets) ==
  LET inside == At(targets, {k \in DOMAIN targets : targets[k] \in leaders})
  IN [k \in DOMAIN inside |-> CHOOSE i \in 1 .. Cardinality(leaders) : Ascending(leaders)[i] = inside[k]]

(* Where the last operation of a block leads; next is the address after it.   *)
Successors(leaders, hints, last, next) ==
  CASE last.opcode = "Return"    -> << >>
    [] last.opcode = "Branch"    -> Begins(leaders, <<last.target>>)
    [] last.opcode = "CBranch"   -> Begins(leaders, <<last.target, next>>)
    [] last.opcode = "BranchInd" -> Begins(leaders, hints)
    [] OTHER                     -> Begins(leaders, <<next>>)

BuildCfg(code, hints) ==
  LET leaders == Leaders(code, hints)
      starts  == Ascending(leaders)
      ops     == [i \in DOMAIN starts |-> BlockOps(code, starts, i)]
      After(i) == IF i = Len(starts) THEN Len(code) + 1 ELSE starts[i + 1]
  IN [ops  |-> ops,
      succ |-> [i \in DOMAIN ops |-> Successors(leaders, hints, Last(ops[i]), After(i))]]

Blocks(cfg) == DOMAIN cfg.ops
Predecessors(cfg, b) == {p \in Blocks(cfg) : b \in ToSet(cfg.succ[p])}

-----------------------------------------------------------------------------
(* Dominators *)

(* One turn of the walk: depth first, the last successor first, and a block   *)
(* is done when all that were put above it are.                              *)
Turn(cfg, walk) ==
  IF walk.stack = << >> THEN walk ELSE
  LET b    == Last(walk.stack).block
      rest == Front(walk.stack)
      new  == At(cfg.succ[b], {k \in DOMAIN cfg.succ[b] : cfg.succ[b][k] \notin walk.visited \cup {b}})
  IN IF Last(walk.stack).processed
     THEN [stack |-> rest, visited |-> walk.visited, order |-> <<b>> \o walk.order]
     ELSE IF b \in walk.visited
     THEN [stack |-> rest, visited |-> walk.visited, order |-> walk.order]
     ELSE [stack   |-> (rest \o <<[block |-> b, processed |-> TRUE]>>)
                       \o [k \in DOMAIN new |-> [block |-> new[k], processed |-> FALSE]],
           visited |-> walk.visited \cup {b}, order |-> walk.order]

(* A block is put on the stack twice at most, and once for each edge to it.   *)
ReversePostorder(cfg) ==
  Loop(LAMBDA walk, i : Turn(cfg, walk),
       [stack |-> <<[block |-> EntryBlock, processed |-> FALSE]>>, visited |-> {}, order |-> << >>],
       1 + SumFunctionOnSet([b \in Blocks(cfg) |-> 1 + Len(cfg.succ[b])], Blocks(cfg))).order

(* Where the blocks are in that order; what is not reached is past its end.   *)
Places(cfg, rpo) ==
  [b \in Blocks(cfg) |-> IF b \in ToSet(rpo) THEN CHOOSE i \in DOMAIN rpo : rpo[i] = b
                         ELSE Len(cfg.ops) + 1]

(* Two fingers climb towards the entry until they meet, the further one first. *)
Climb(idom, at, fingers) ==
  LET Free(b) == idom[b] \notin {b, None}
      b1 == fingers[1]
      b2 == fingers[2]
  IN IF at[b1] > at[b2] /\ Free(b1) THEN <<idom[b1], b2>>
     ELSE IF at[b2] > at[b1] /\ Free(b2) THEN <<b1, idom[b2]>>
     ELSE IF at[b1] = at[b2] /\ b1 # b2 THEN <<EntryBlock, EntryBlock>>
     ELSE fingers

Intersect(idom, at, b1, b2) ==
  Loop(LAMBDA fingers, i : Climb(idom, at, fingers), <<b1, b2>>, at[b1] + at[b2])[1]

\* BUG: the predecessors that have no dominator yet count as the entry.
DominatorOfAll(cfg, at, idom, b) ==
  LET preds == Ascending(Predecessors(cfg, b))
      Known(p) == IF idom[p] = None THEN EntryBlock ELSE p
  IN IF preds = << >> THEN idom[b]
     ELSE Loop(LAMBDA d, i : Intersect(idom, at, d, Known(preds[i + 1])), Known(preds[1]), Len(preds) - 1)

(* A block's dominator is where its known predecessors meet. *)
DominatorOf(cfg, at, idom, b) ==
  LET known == {p \in Predecessors(cfg, b) : idom[p] # None}
      preds == Ascending(known)
  IN IF known = {} THEN idom[b]
     ELSE Loop(LAMBDA d, i : Intersect(idom, at, d, preds[i + 1]), preds[1], Cardinality(known) - 1)

(* One round over the blocks, in their order and without the entry. *)
Round(cfg, rpo, idom) ==
  LET at == Places(cfg, rpo) IN
  Loop(LAMBDA d, i : [d EXCEPT ![rpo[i + 1]] = DominatorOf(cfg, at, d, rpo[i + 1])], idom, Len(rpo) - 1)

(* Of every block reached from the entry; the others have None.  The rounds   *)
(* go on while they change something.                                        *)
Dominators(cfg) ==
  LET rpo == ReversePostorder(cfg)
      Again(s) == IF ~s.changed THEN s ELSE
                  LET next == Round(cfg, rpo, s.idom) IN [idom |-> next, changed |-> next # s.idom]
  IN Loop(LAMBDA s, i : Again(s),
          [idom |-> [b \in Blocks(cfg) |-> IF b = EntryBlock THEN EntryBlock ELSE None], changed |-> TRUE],
          Len(cfg.ops) + 1).idom

-----------------------------------------------------------------------------
(* Phis *)

(* The blocks from a predecessor up to the dominator of what it leads to. *)
Runners(idom, p, stop) ==
  Loop(LAMBDA w, i : IF w.runner \in {stop, None} THEN w
                     ELSE [runner |-> IF idom[w.runner] = w.runner THEN None ELSE idom[w.runner],
                           passed |-> w.passed \cup {w.runner}],
       [runner |-> p, passed |-> {}], Cardinality(DOMAIN idom)).passed

(* Only a block with two predecessors is in a frontier. *)
DominanceFrontiers(cfg) ==
  LET idom == Dominators(cfg)
      Joins == {b \in Blocks(cfg) : Cardinality(Predecessors(cfg, b)) >= 2}
  IN [d \in Blocks(cfg) |->
        {b \in Joins : \E p \in Predecessors(cfg, b) : d \in Runners(idom, p, idom[b])}]

\* BUG: the frontier of the definitions, and not of the phis put there.
PhiBlocksOnce(df, defs) == UNION {df[b] : b \in defs}

(* A phi is a definition too. *)
PhiBlocks(df, defs) ==
  LET Frontier(S) == UNION {df[b] : b \in S}
  IN Frontier(Loop(LAMBDA S, i : S \cup Frontier(S), defs, Cardinality(DOMAIN df)))

(* A definition of a part is one of its variable. *)
Key(v) == IF v \in DOMAIN PartOf THEN PartOf[v] ELSE v

DefBlocks(cfg, v) == {b \in Blocks(cfg) : \E i \in DOMAIN cfg.ops[b] : Key(cfg.ops[b][i].out) = v}

(* Of each variable, the blocks that need a phi for it. *)
PhiPlacement(cfg, vars) ==
  LET df == DominanceFrontiers(cfg)
  IN [v \in vars |-> PhiBlocks(df, DefBlocks(cfg, v))]

-----------------------------------------------------------------------------
(* The definition dominators are to be checked against *)

Further(cfg, S, without) == S \cup ((UNION {ToSet(cfg.succ[b]) : b \in S}) \ without)

(* What paths from the entry lead to, but for those through some blocks. *)
Closure(cfg, without) ==
  Loop(LAMBDA S, i : Further(cfg, S, without), {EntryBlock}, Len(cfg.ops))

Reached(cfg) == Closure(cfg, {})

\* A block is on every path from the entry to the other.
Dominates(cfg, d, b) ==
  d = b \/ d = EntryBlock \/ b \notin Closure(cfg, {d})
=============================================================================
