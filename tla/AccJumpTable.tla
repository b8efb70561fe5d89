---------------------------- MODULE AccJumpTable ----------------------------
(***************************************************************************)
(* What the code generators' jump bookkeeping promises, written as the     *)
(* explicit side table that spec.md (section 8) proposes in place of the   *)
(* patch chains threaded through the code words.                           *)
(*                                                                         *)
(* A slot is a place where the compiler keeps the head of a chain of       *)
(* unresolved jumps: the chain "a" of each open if/else/loop frame, and    *)
(* rsym, the pending returns of the current function.  pending[sl] is the  *)
(* set of jump sites waiting in slot sl, target[s] the address a resolved  *)
(* site s jumps to, labels the addresses the compiler named as jump        *)
(* destinations.  One step is one statement of code generation: it emits  *)
(* code at [pc, pc'), may add new sites to slots, may resolve a whole slot *)
(* at one label in the new code, and may resolve new jumps directly to a   *)
(* label.  Nothing else may happen to a site.                              *)
(***************************************************************************)
EXTENDS Naturals, FiniteSets, TLC

CONSTANTS Slots, Base, MaxPC

VARIABLES pc, pending, target, labels

vars == <<pc, pending, target, labels>>

Addr == Base..MaxPC

TypeOK ==
    /\ pc \in Addr
    /\ pending \in [Slots -> SUBSET Addr]
    /\ DOMAIN target \subseteq Addr
    /\ \A s \in DOMAIN target : target[s] \in Addr
    /\ labels \subseteq Addr

Init ==
    /\ pc = Base
    /\ pending = [sl \in Slots |-> {}]
    /\ target = <<>>
    /\ labels = {}

\* One statement's code generation.  P, T are the table before the step,
\* P2, T2 after it, New the code emitted.
Step ==
    LET P == pending   P2 == pending'
        T == target    T2 == target'
        New == pc..(pc' - 1)
        Waiting == UNION {P[sl] : sl \in Slots}
        \* A slot keeps every site it had (new ones may join from the new
        \* code), or has all of them resolved together to one label of the
        \* new code.
        SlotStep(sl) ==
            /\ P2[sl] \ P[sl] \subseteq New
            /\ \/ P[sl] \subseteq P2[sl]
               \/ \E l \in labels' \cap pc..pc' :
                     \A s \in P[sl] : s \in DOMAIN T2 /\ T2[s] = l
    IN
    /\ pc' \in pc..MaxPC
    /\ labels \subseteq labels'
    /\ labels' \ labels \subseteq pc..pc'
    /\ \A s \in DOMAIN T : s \in DOMAIN T2 /\ T2[s] = T[s]
    /\ \A sl \in Slots : SlotStep(sl)
    /\ \A s \in DOMAIN T2 \ DOMAIN T :
          s \in Waiting \/ (s \in New /\ T2[s] \in labels')
    /\ \A sl \in Slots : P2[sl] \cap DOMAIN T2 = {}

Spec == Init /\ [][Step]_vars

=============================================================================
