---------------------------- MODULE SsaExecution ----------------------------
(***************************************************************************)
(* A lifted function, its SSA form and the optimised SSA form, executed in   *)
(* lockstep: what crates/ghidrust-decomp/src/stage1.rs relies on when it     *)
(* prints the third as the meaning of the first.                             *)
(*                                                                         *)
(* The three run over one memory and take the same branches: a condition is  *)
(* any, and so are what a pop yields and, of some, what a call leaves in      *)
(* memory.  A part is written as the machine writes the lower half of a       *)
(* register: the upper half becomes 0.                                        *)
(***************************************************************************)
EXTENDS SsaForm

CONSTANTS
  Programs,  \* families of functions: instructions, and the cases of a switch

  Start,     \* the values registers may have at the entry,
  Memories   \* and the memory that a call may leave

(* What lift_instructions makes of a region that is not empty, an operation at *)
(* least of each instruction, and the cases the switch analysis found. What   *)
(* computes or loads has a result, and nothing else has one but a pop.        *)
Parts       == DOMAIN PartOf
Operands(V) == ({"const"} \X Words) \cup (V \X {0})
Arity       == [Copy |-> 1, IntNot |-> 1, IntAdd |-> 2, Load |-> 1, Store |-> 2]
Operations(V) ==
  {op \in [opcode : STRING, out : V \cup {None}, ins : Seq(Operands(V)), target : Nat \cup {None}] :
     /\ op.opcode \in DOMAIN Arity => Len(op.ins) = Arity[op.opcode]
     /\ op.opcode \in Pure \cup {"Load"} => op.out # None
     /\ op.out # None => op.opcode \in Pure \cup {"Load", "Pop"}}
IsFunction(V, fn) ==
  /\ fn.ops \in Seq(Seq(Operations(V)) \ {<< >>}) \ {<< >>}
  /\ fn.hints \in Seq(Nat)

(* A function that uses every variable in its full width. *)
OneWidth(fn) == IsFunction(Vars, fn)

(* The operation of a call has no output (the lift says so, and that the      *)
(* result is in rax): a function is given that reads none of these registers  *)
(* if it calls.  What it writes in part it writes in full somewhere.          *)
ReadsNoResult(fn) ==
  LET ops == UNION {ToSet(fn.ops[a]) : a \in DOMAIN fn.ops}
  IN (\E op \in ops : op.opcode = "Call") =>
       \A op \in ops : \A k \in DOMAIN op.ins : Key(op.ins[k][1]) \notin ReturnVars
WrittenInFull(fn) ==
  LET outs == {op.out : op \in UNION {ToSet(fn.ops[a]) : a \in DOMAIN fn.ops}}
  IN \A p \in Parts \cap outs : PartOf[p] \in outs

ASSUME ProgramsAssumption == \A family \in Programs : \A fn \in family :
  IsFunction(Vars \cup Parts, fn) /\ ReadsNoResult(fn) /\ WrittenInFull(fn)

ASSUME StartAssumption == Start \subseteq [Vars -> Words]
ASSUME MemoriesAssumption == Memories \subseteq [Words -> Words]

(* None is told from a position, a variable and a value, a variable from a    *)
(* constant and from a part.                                                 *)
ASSUME NamesAssumption ==
  /\ None \notin (Nat \X Nat) \cup Vars \cup (Vars \X Nat) \cup Parts /\ "const" \notin Vars \cup Parts
  /\ Vars \cap Parts = {} /\ PartOf \in [Parts -> Vars]

VARIABLES
  code,    \* the function
  cfg,     \* its control-flow graph
  ssa,     \* its SSA form,
  opt,     \* and what the passes make of it
  at,      \* the block and the operation that is next, or None
  env,     \* the variables of the function
  vals,    \* the values of the SSA form,
  optvals, \* and of the optimised one
  mem      \* the memory

forms == <<code, cfg, ssa, opt>>
run   == <<at, env, vals, optvals, mem>>
vars  == <<forms, run>>

Init ==
  /\ \E family \in Programs : code \in family
  /\ cfg = None /\ ssa = None /\ opt = None
  /\ at = None /\ env = None /\ vals = None /\ optvals = None /\ mem = None

(* The first half of emit_stage1_full, and a call of the function. *)
Lift ==
  /\ cfg = None
  /\ cfg' = BuildCfg(code.ops, code.hints)
  /\ ssa' = BuildSsa(cfg') /\ opt' = Optimized(ssa')
  /\ at' = <<EntryBlock, 1>>
  /\ env' \in Start
  /\ vals' = [v \in Vars |-> [n \in 0 .. ssa'.versions[v] |-> IF n = 0 THEN env'[v] ELSE 0]]
  /\ optvals' = vals'
  /\ mem' = [a \in Words |-> 0]
  /\ UNCHANGED code

-----------------------------------------------------------------------------
(* One operation *)

Op == cfg.ops[at[1]][at[2]]
OpIn(fn) == {op \in ToSet(fn.ops[at[1]]) : op.at = at[2]}

Read(values, x) == IF IsConst(x) THEN x[2] ELSE Cut(x[1], values[Key(x[1])][x[2]])
ReadAll(values, op) == [k \in DOMAIN op.ins |-> Read(values, op.ins[k])]

(* The variables of the function, as if all its versions were one. *)
Plain == [v \in Vars |-> [n \in {0} |-> env[v]]]

Result(values, op, popped) ==
  CASE op.opcode = "Pop"  -> popped
    [] op.opcode = "Load" -> mem[ReadAll(values, op)[1]]
    [] OTHER              -> Compute(op.opcode, ReadAll(values, op))

Written(values, fn, popped) ==
  LET Defines(op, v, n) == op.out # None /\ Key(op.out[1]) = v /\ op.out[2] = n IN
  [v \in Vars |-> [n \in DOMAIN values[v] |->
     IF \E op \in OpIn(fn) : Defines(op, v, n)
     THEN LET op == CHOOSE op \in OpIn(fn) : Defines(op, v, n)
          IN Cut(op.out[1], Result(values, op, popped))
     ELSE values[v][n]]]

(* A cell after a store: that of a part leaves the upper half. *)
Stored(cell, x) ==
  IF x[1] \in Parts THEN 2 * (cell \div 2) + Read(Plain, x) ELSE Read(Plain, x)

(* The phis of a block take their values at once. *)
Entered(values, fn, from, to) ==
  [v \in Vars |-> [n \in DOMAIN values[v] |->
     IF v \in DOMAIN fn.phis[to] /\ fn.phis[to][v].ver = n
     THEN Read(values, fn.phis[to][v].in[from])
     ELSE values[v][n]]]

(* A return, and a transfer that has, or may have, no target in the region. *)
Leaves ==
  \/ Op.opcode = "Return"
  \/ /\ at[2] = Len(cfg.ops[at[1]])
     /\ \/ cfg.succ[at[1]] = << >>
        \/ Op.opcode = "CBranch" /\ Len(cfg.succ[at[1]]) < 2
        \/ Op.opcode = "BranchInd"

Execute ==
  /\ at # None
  /\ \E popped \in IF Op.opcode = "Pop" THEN Words ELSE {0} :
       LET values == Written(vals, ssa, popped)
           optimised == Written(optvals, opt, popped)
       IN
       /\ env' = IF Op.out = None THEN env
                 ELSE [env EXCEPT ![Key(Op.out)] = Cut(Op.out, Result(Plain, Op, popped))]
       /\ \/ /\ at' = IF Leaves THEN None ELSE <<at[1], at[2] + 1>>
             /\ Leaves \/ at[2] < Len(cfg.ops[at[1]])
             /\ vals' = values /\ optvals' = optimised
          \/ /\ at[2] = Len(cfg.ops[at[1]]) /\ Op.opcode # "Return"
             /\ \E b \in ToSet(cfg.succ[at[1]]) :
                  /\ at' = <<b, 1>>
                  /\ vals' = Entered(values, ssa, at[1], b)
                  /\ optvals' = Entered(optimised, opt, at[1], b)
  /\ mem' \in CASE Op.opcode = "Store" -> {[mem EXCEPT ![Read(Plain, Op.ins[1])] = Stored(@, Op.ins[2])]}
                [] Op.opcode = "Call"  -> Memories
                [] OTHER -> {mem}
  /\ UNCHANGED forms

Next == Lift \/ Execute

Spec == Init /\ [][Next]_vars

-----------------------------------------------------------------------------
(* Properties *)

(* No function has a transfer to its first block: a way back to the entry is  *)
(* one that the entry's predecessors do not tell from the call.              *)
NoWayBack ==
  \A family \in Programs : \A fn \in family :
    LET g == BuildCfg(fn.ops, fn.hints) IN Predecessors(g, EntryBlock) = {}

(* The immediate dominator of a block is the last of the blocks every path to *)
(* it passes, and a block no path leads to has none (Cfg::dominators).       *)
ImmediateDominators ==
  at = <<EntryBlock, 1>> =>
    LET idom == Dominators(cfg) IN
    \A b \in Blocks(cfg) \ {EntryBlock} :
      IF b \notin Reached(cfg) THEN idom[b] = None
      ELSE LET above == {d \in Reached(cfg) \ {b} : Dominates(cfg, d, b)} IN
           idom[b] \in above /\ \A d \in above : Dominates(cfg, d, idom[b])

(* Wherever an execution has come, an operand of the SSA form is the value   *)
(* the function has in that variable: no definition is missed by a phi, and   *)
(* no stale one is read, in whatever width variables are written and read     *)
(* (build_ssa).                                                              *)
RenamedAgrees ==
  at # None =>
    \E op \in OpIn(ssa) : ReadAll(vals, op) = ReadAll(Plain, Op)

(* What the passes leave of a function with one width computes what the       *)
(* function does, and every effect, condition and return is left with the     *)
(* operands it had (copy_propagate, load_store_propagate, const_fold,         *)
(* dead_code_eliminate).  With two widths it need not: the definition of ecx   *)
(* is dead if rcx is read, and a load is given what a store of another width  *)
(* wrote.                                                                   *)
OptimizedAgrees ==
  at # None /\ OneWidth(code) =>
    /\ \A op \in OpIn(opt) :
         IF op.out = None THEN ReadAll(optvals, op) = ReadAll(Plain, Op)
         ELSE \A popped \in Words : Result(optvals, op, popped) = Result(Plain, Op, popped)
    /\ Op.opcode \notin Pure \cup {"Load"} \/ Op.out \in ReturnVars => OpIn(opt) # {}
=============================================================================
