----------------------------- MODULE MCCodePatch -----------------------------
(* A process of 48 addresses in pages of four: the command's code, the     *)
(* engine's code and data, and a place for the physics engines.  The       *)
(* binaries put SpawnServer at every place of a page, the bytes that are   *)
(* searched at, inside and beyond either end of what is scanned, and the   *)
(* call across a page's end.                                               *)
EXTENDS CodePatch

MCOps == [ call |-> 8, indirect |-> 9, nop |-> 10, pattern |-> 11, prologue |-> 12,
           body |-> 13, mark |-> 14, rest |-> 15, other |-> 16 ]

MCSkip == [windows |-> 2, linux |-> 3]

MCEngine == [base |-> 12, code |-> 16, data |-> 4]

MCWindow == 4 .. 5

CallAdmin == [op |-> "call", arg |-> 3]
Push(n) == [op |-> "push", arg |-> n]
Move == [op |-> "other", arg |-> 0]

Commands == { <<CallAdmin>>, <<Move, CallAdmin>>, <<Push(1), CallAdmin>>,
              <<Push(MCOps["call"]), CallAdmin>>, <<Move, Push(1), CallAdmin>>,
              <<Move, Move, Push(1)>> }

x == MCOps["other"]

Fillers == { <<>>, <<x>>, <<x, x>>, <<MCOps["prologue"], x, x>>,
             <<x, x, MCOps["body"]>> }

(* Havok with the bytes of a signature in it, at its end, and without. *)
Havoks == [base : {36}, size : {5}, mark : {1, 3, 9}]

Larger  == [base |-> 36, size |-> 8, mark |-> 3]
Smaller == [base |-> 40, size |-> 4, mark |-> 0]

MCPhysics == Havoks \cup {Larger, Smaller}

MCPrograms ==
  [filler : Fillers, gap : 3 .. 6, command : Commands, havok : Havoks]
===============================================================================
