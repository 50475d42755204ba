--------------------------- MODULE MCSsaExecution ---------------------------
(* Functions for SsaExecution to lift.  Bounds: three registers, of which one  *)
(* is used in part, too, and a temporary, of two bits, and four stretches     *)
(* (NBlocks) of an operation and a transfer.  No transfer goes to the entry.  *)
EXTENDS SsaExecution

CONSTANTS rax, rcx, rbx, tmp, ecx

NBlocks == 4
Four == {rax, rcx, rbx, tmp}
Rax == {rax}
Halves == [p \in {ecx} |-> rcx]

Var(v)   == <<v, 0>>
Num(n)   == <<"const", n>>
Instr(opcode, out, ins, target) == <<[opcode |-> opcode, out |-> out, ins |-> ins, target |-> target]>>
Do(opcode, out, ins) == Instr(opcode, out, ins, None)

\* xchg is lifted to three copies.
Xchg == Do("Copy", tmp, <<Var(rax)>>) \o Do("Copy", rax, <<Var(rcx)>>) \o Do("Copy", rcx, <<Var(tmp)>>)

Actions == {
  Do("Copy", rax, <<Num(1)>>),
  Do("Copy", rcx, <<Var(rax)>>),
  Do("Copy", rax, <<Var(rcx)>>),
  Do("IntNot", rax, <<Var(rax)>>),
  Do("IntAdd", rcx, <<Var(rax), Var(rcx)>>),
  Xchg }

MemoryActions == {
  Do("Store", None, <<Var(rbx), Var(rcx)>>),
  Do("Store", None, <<Var(rcx), Num(2)>>),
  Do("Load", rcx, <<Var(rbx)>>),
  Do("Call", None, <<Num(0)>>),
  Do("IntNot", rbx, <<Var(rbx)>>) }

\* mov ecx; mov rcx; what reads the one and the other; memory in both widths.
WidthActions == {
  Do("Copy", ecx, <<Num(3)>>),
  Do("IntAdd", rcx, <<Var(rcx), Var(ecx)>>),
  Do("Store", None, <<Var(rbx), Var(ecx)>>),
  Do("Load", ecx, <<Var(rbx)>>) \o Do("Copy", rax, <<Var(rcx)>>),
  Do("IntNot", rcx, <<Var(rcx)>>) }

(* The stretch i begins at the address 2 * i - 1. *)
Target(i) == 2 * i - 1

Branch(i)  == Instr("Branch", None, <<Num(0)>>, Target(i))
CBranch(i) == Instr("CBranch", None, <<Var(rcx), Num(0)>>, Target(i))
Return     == Do("Return", None, << >>)
Switch     == Do("BranchInd", None, <<Var(rcx)>>)
Fall       == Do("Nop", None, << >>)

Transfers == {Fall, Return, Switch} \cup {Branch(i) : i \in 2 .. NBlocks} \cup {CBranch(i) : i \in 2 .. NBlocks}

Cases == <<Target(3), Target(4)>>

Function(acts, ends) ==
  LET Stretch(i) == <<acts[i], ends[i]>> IN
  [ops   |-> IF Len(ends) = 4 THEN Stretch(1) \o Stretch(2) \o Stretch(3) \o Stretch(4)
             ELSE Stretch(1) \o Stretch(2) \o Stretch(3) \o Stretch(4) \o Stretch(5) \o Stretch(6),
   hints |-> IF \E i \in DOMAIN ends : ends[i] = Switch THEN Cases ELSE << >>]

(* Every shape, with two fillings. *)
Filled == { << Do("Pop", rax, << >>), Do("IntNot", rax, <<Var(rax)>>),
               Do("Copy", rcx, <<Var(rax)>>), Do("Copy", rax, <<Num(1)>>) >>,
            << Do("Copy", rcx, <<Num(1)>>), Do("Copy", rax, <<Var(rcx)>>),
               Do("Copy", rcx, <<Num(0)>>), Do("IntAdd", rax, <<Var(rax), Var(rcx)>>) >> }
AllShapes == {Function(acts, ends) : acts \in Filled, ends \in [1 .. NBlocks -> Transfers]}

(* A straight line, a diamond, an early return, two loops one in the other,   *)
(* a loop with two entries, a switch.                                         *)
Shapes == { <<Fall, Fall, Fall, Return>>,
            <<CBranch(3), Branch(4), Fall, Return>>,
            <<Fall, CBranch(2), CBranch(2), Return>>,
            <<CBranch(3), Fall, CBranch(2), Return>>,
            <<Switch, Fall, Branch(2), Return>> }
Fillings(actions) == {Function(acts, ends) : acts \in [1 .. NBlocks -> actions], ends \in Shapes}

(* Six blocks whose dominators take three rounds. *)
Irreducible ==
  {Function([i \in 1 .. 6 |-> acts[1 + (i % 4)]],
            <<CBranch(4), Fall, CBranch(5), CBranch(3), CBranch(3), Return>>) : acts \in Filled}

(* What is written in part is written in full, too. *)
Widths == {fn \in Fillings(WidthActions) : WrittenInFull(fn)}

Families == {AllShapes, Fillings(Actions), Fillings(MemoryActions), Widths, Irreducible}

(* The hypothesis of RenamedFormAgrees. *)
ASSUME NoWayBackHere == NoWayBack

(* Two registers alike, which are addresses too, and the others apart. *)
Registers == {[v \in Four |-> CASE v \in {rcx, rbx} -> 1 [] v = rax -> 2 [] OTHER -> 0]}

(* A call leaves memory with nothing in it, or with every cell another. *)
ByCalls == {[a \in Words |-> 0], [a \in Words |-> 3 - a]}
=============================================================================
