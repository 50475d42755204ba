------------------------------- MODULE SsaForm -------------------------------
(***************************************************************************)
(* SSA form and the passes over it (crates/ghidrust-ssa/src/ssa.rs), in the  *)
(* order in which emit_stage1_full runs them.                                *)
(*                                                                         *)
(* A variable is used in its full width or in the lower half, its part; a    *)
(* value is one of these and a version, so that a value of the variable is    *)
(* not the value of its part with the same version (SsaValue has the size).   *)
(* Versions are counted for the variable, and version 0 comes from outside.  A *)
(* block's phis are a function from variables to the version a phi defines    *)
(* and, per predecessor, the value it takes (of version 0 in a slot left      *)
(* empty).  Words have two bits, the parts of variables one.  A phi has the    *)
(* width of the widest definition, which is taken to be the full one: what is   *)
(* written in part is written in full somewhere (infer_variable_size).         *)
(***************************************************************************)
EXTENDS ControlFlow

CONSTANTS
  Vars,       \* the registers and temporaries, in their full width
  ReturnVars  \* those a caller reads: rax and rdx

Words == 0 .. 3
Cut(v, x) == IF v \in DOMAIN PartOf THEN x % 2 ELSE x
IsConst(x) == x[1] = "const"

-----------------------------------------------------------------------------
(* build_ssa *)

(* Operands first: an operation may read what it overwrites. *)
RenameOp(walk, op) ==
  LET ins == [k \in DOMAIN op.ins |->
                IF IsConst(op.ins[k]) THEN op.ins[k]
                ELSE <<op.ins[k][1], walk.top[Key(op.ins[k][1])]>>]
      v   == op.out
      new == walk.versions[Key(v)] + 1
  IN IF v = None
     THEN [top      |-> walk.top,
           versions |-> walk.versions,
           ops      |-> Append(walk.ops, [opcode |-> op.opcode, ins |-> ins, at |-> Len(walk.ops) + 1,
                                          out |-> None])]
     ELSE [top      |-> [walk.top EXCEPT ![Key(v)] = new],
           versions |-> [walk.versions EXCEPT ![Key(v)] = new],
           ops      |-> Append(walk.ops, [opcode |-> op.opcode, ins |-> ins, at |-> Len(walk.ops) + 1,
                                          out |-> <<v, new>>])]

(* A block's phis, then its operations. *)
RenameOps(cfg, b, top, fn) ==
  LET phis     == DOMAIN fn.phis[b]
      versions == [v \in Vars |-> fn.versions[v] + IF v \in phis THEN 1 ELSE 0]
  IN Loop(LAMBDA walk, i : RenameOp(walk, cfg.ops[b][i]),
          [top      |-> [v \in Vars |-> IF v \in phis THEN versions[v] ELSE top[v]],
           versions |-> versions, ops |-> << >>],
          Len(cfg.ops[b]))

(* The version a phi of the block defines, and in its successors' slots what  *)
(* is current at its end.                                                    *)
FilledPhis(cfg, b, top, fn) ==
  [c \in Blocks(cfg) |-> [v \in DOMAIN fn.phis[c] |->
     [ver |-> IF c = b THEN fn.versions[v] + 1 ELSE fn.phis[c][v].ver,
      in  |-> IF c \in ToSet(cfg.succ[b]) THEN [fn.phis[c][v].in EXCEPT ![b] = <<v, top[v]>>]
              ELSE fn.phis[c][v].in]]]

(* Down the dominator tree: the children of a block come next, and see its    *)
(* definitions and no others.                                                *)
RenameBlock(cfg, idom, walk) ==
  IF walk.todo = << >> THEN walk ELSE
  LET b    == Head(walk.todo).block
      done == RenameOps(cfg, b, Head(walk.todo).top, walk.fn)
      children == Ascending({c \in Blocks(cfg) \ {b} : idom[c] = b})
  IN [todo |-> [k \in DOMAIN children |-> [block |-> children[k], top |-> done.top]] \o Tail(walk.todo),
      fn   |-> [ops      |-> [walk.fn.ops EXCEPT ![b] = done.ops],
                phis     |-> FilledPhis(cfg, b, done.top, walk.fn),
                versions |-> done.versions]]

(* A block not reached from the entry keeps its place and loses its operations. *)
BuildSsa(cfg) ==
  LET idom   == Dominators(cfg)
      places == PhiPlacement(cfg, Vars)
      Phis(b) == [v \in {w \in Vars : b \in places[w]} |->
                    [ver |-> 0, in |-> [p \in Predecessors(cfg, b) |-> <<v, 0>>]]]
  IN Loop(LAMBDA walk, i : RenameBlock(cfg, idom, walk),
          [todo |-> <<[block |-> EntryBlock, top |-> [v \in Vars |-> 0]]>>,
           fn   |-> [ops      |-> [b \in Blocks(cfg) |-> << >>],
                     phis     |-> [b \in Blocks(cfg) |-> Phis(b)],
                     versions |-> [v \in Vars |-> 0]]],
          Len(cfg.ops)).fn

-----------------------------------------------------------------------------
(* The passes.  An operation keeps the index it had in the block (history,    *)
(* the code has no use for it), so that what became of it can be told.       *)

AllOps(fn) == UNION {ToSet(fn.ops[b]) : b \in DOMAIN fn.ops}
MapOps(fn, F(_)) ==
  [fn EXCEPT !.ops = [b \in DOMAIN @ |-> [i \in DOMAIN @[b] |-> F(@[b][i])]]]

(* To the end of a chain of copies. *)
Source(sources, x) ==
  Loop(LAMBDA w, i : IF w.at \notin DOMAIN sources \/ w.at \in w.seen THEN w
                     ELSE [at |-> sources[w.at], seen |-> w.seen \cup {w.at}],
       [at |-> x, seen |-> {}], Cardinality(DOMAIN sources)).at

(* Operands are followed to a constant, the slots of phis only to values. *)
CopyPropagate(fn) ==
  LET copies  == {op \in AllOps(fn) : op.opcode = "Copy" /\ op.ins[1] # op.out}
      sources == [x \in {op.out : op \in copies} |-> (CHOOSE op \in copies : op.out = x).ins[1]]
      values  == [x \in {y \in DOMAIN sources : ~IsConst(sources[y])} |-> sources[x]]
      moved   == MapOps(fn, LAMBDA op : [op EXCEPT !.ins = [k \in DOMAIN @ |-> Source(sources, @[k])]])
      Slots(phi) == [phi EXCEPT !.in = [p \in DOMAIN @ |-> Source(values, @[p])]]
  IN [moved EXCEPT !.phis = [b \in DOMAIN @ |-> [v \in DOMAIN @[b] |-> Slots(@[b][v])]]]

LoadBarriers == {"Store", "Call", "Return", "Push", "Pop", "Trap"}

\* BUG: only a store through the same operand ends the search.
LoadStoreBySyntax(fn) ==
  LET Forwarded(ops, j) ==
        LET stores == {i \in 1 .. j - 1 : ops[i].opcode = "Store" /\ ops[i].ins[1] = ops[j].ins[1]}
        IN IF ops[j].opcode = "Load" /\ stores # {}
           THEN [ops[j] EXCEPT !.opcode = "Copy", !.ins = <<ops[Max(stores)].ins[2]>>]
           ELSE ops[j]
  IN [fn EXCEPT !.ops = [b \in DOMAIN @ |-> [j \in DOMAIN @[b] |-> Forwarded(@[b], j)]]]

(* A load of the very operand the last store of the block wrote to, whatever  *)
(* width either has.                                                         *)
LoadStorePropagate(fn) ==
  LET Forwarded(ops, j) ==
        LET before == {i \in 1 .. j - 1 : ops[i].opcode \in LoadBarriers}
            store  == ops[Max(before)]
        IN IF /\ ops[j].opcode = "Load" /\ before # {}
              /\ store.opcode = "Store" /\ store.ins[1] = ops[j].ins[1]
           THEN [ops[j] EXCEPT !.opcode = "Copy", !.ins = <<store.ins[2]>>]
           ELSE ops[j]
  IN [fn EXCEPT !.ops = [b \in DOMAIN @ |-> [j \in DOMAIN @[b] |-> Forwarded(@[b], j)]]]

Compute(opcode, in) ==
  CASE opcode = "Copy"   -> in[1]
    [] opcode = "IntNot" -> 3 - in[1]
    [] opcode = "IntAdd" -> (in[1] + in[2]) % 4

Folds(op) == /\ op.opcode \in {"Copy", "IntNot", "IntAdd"}
             /\ \A k \in DOMAIN op.ins : IsConst(op.ins[k])

(* A result is masked to the width of the destination. *)
FoldOnce(fn) ==
  LET Fold(op) == IF ~Folds(op) THEN op ELSE
        [op EXCEPT !.opcode = "Copy",
                   !.ins = << <<"const", Cut(op.out[1], Compute(op.opcode, [k \in DOMAIN op.ins |-> op.ins[k][2]]))>> >>]
  IN IF ~\E op \in AllOps(fn) : Folds(op) THEN fn ELSE CopyPropagate(MapOps(fn, Fold))

ConstFold(fn) == Loop(LAMBDA f, i : FoldOnce(f), fn, 8)

Pure == {"Copy", "IntNot", "IntAdd"}

Used(fn) ==
  (UNION {ToSet(op.ins) : op \in AllOps(fn)})
  \cup (UNION {UNION {Range(fn.phis[b][v].in) : v \in DOMAIN fn.phis[b]} : b \in DOMAIN fn.phis})
  \cup {x \in {op.out : op \in AllOps(fn)} : x # None /\ Key(x[1]) \in ReturnVars}

WithoutDead(fn) ==
  LET used == Used(fn)
      Alive(ops) == {i \in DOMAIN ops : ops[i].opcode \in Pure => ops[i].out \in used}
  IN
  [fn EXCEPT
     !.ops  = [b \in DOMAIN @ |-> At(@[b], Alive(@[b]))],
     !.phis = [b \in DOMAIN @ |-> [v \in {w \in DOMAIN @[b] : <<w, @[b][w].ver>> \in used
                                                             \/ w \in ReturnVars} |-> @[b][v]]]]

DeadCodeEliminate(fn) ==
  LET Again(s) == IF ~s.changed THEN s ELSE
                  LET left == WithoutDead(s.fn) IN [fn |-> left, changed |-> left # s.fn]
  IN Loop(LAMBDA s, i : Again(s), [fn |-> fn, changed |-> TRUE], 32).fn

Optimized(fn) ==
  DeadCodeEliminate(ConstFold(CopyPropagate(LoadStorePropagate(CopyPropagate(fn)))))
=============================================================================
