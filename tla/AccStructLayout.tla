-------------------------- MODULE AccStructLayout --------------------------
(***************************************************************************)
(* Struct and union layout in libacc: the member loop of                  *)
(* Compiler::acceptStruct and the ARM backend's alignmentOf and sizeOf,   *)
(* which the loop asks for each member.  A struct is created by a         *)
(* forward declaration (length -1) or by a body; a body may fill in a     *)
(* forward declaration.  Sizes are size_t: arithmetic is modulo 2^Width,  *)
(* because the -1 length of a forward declaration and the all-ones mask   *)
(* of a zero alignment depend on the wrap.                                *)
(***************************************************************************)
EXTENDS Naturals, Sequences, FiniteSets

CONSTANTS
    Width,         \* bits of size_t (scaled down from 32)
    Scalars,       \* primitive member types used, a subset of Prim
    ArrayLengths,  \* lengths of array members
    MaxStructs,    \* bound on the number of struct types
    MaxMembers,    \* bound on the number of members of one body
    ValidCOnly     \* only complete, non-empty structs as members, no empty bodies

Prim == {"char", "short", "int", "float", "double", "pointer"}
ASSUME Scalars \subseteq Prim /\ ValidCOnly \in BOOLEAN

Mod == 2 ^ Width
MinusOne == Mod - 1          \* (size_t) -1

VARIABLES
    structs,   \* the struct Types: [length, alignment, isStruct, members]
    cur        \* the struct body being parsed, or NoBody

vars == <<structs, cur>>

NoBody == [target |-> 0]

StructT(i) == [tag |-> "struct", id |-> i]
ArrayT(h, n) == [tag |-> "array", head |-> h, length |-> n]
MemberTypes ==
    {[tag |-> p] : p \in Scalars} \cup {StructT(i) : i \in 1..MaxStructs}
    \cup {ArrayT([tag |-> p], n) : p \in Scalars, n \in ArrayLengths}
    \cup {ArrayT(StructT(i), n) : i \in 1..MaxStructs, n \in ArrayLengths}

\* Mutant: a struct's alignment read without masking off the isStruct bit
RECURSIVE alignmentOfUnmasked(_)
alignmentOfUnmasked(t) ==
    CASE t.tag = "char"   -> 1
      [] t.tag = "short"  -> 2
      [] t.tag = "double" -> 8
      [] t.tag = "array"  -> alignmentOfUnmasked(t.head)
      [] t.tag = "struct" -> structs[t.id].alignment +
                             (IF structs[t.id].isStruct THEN 2 ^ (Width - 1) ELSE 0)
      [] OTHER            -> 4

\* ARMCodeGenerator::alignmentOf
RECURSIVE alignmentOf(_)
alignmentOf(t) ==
    CASE t.tag = "char"   -> 1
      [] t.tag = "short"  -> 2
      [] t.tag = "double" -> 8
      [] t.tag = "array"  -> alignmentOf(t.head)
      [] t.tag = "struct" -> structs[t.id].alignment
      [] OTHER            -> 4

\* ARMCodeGenerator::sizeOf
RECURSIVE sizeOf(_)
sizeOf(t) ==
    CASE t.tag \in {"int", "float", "pointer"} -> 4
      [] t.tag = "short"  -> 2
      [] t.tag = "char"   -> 1
      [] t.tag = "double" -> 8
      [] t.tag = "array"  -> (t.length * sizeOf(t.head)) % Mod
      [] t.tag = "struct" -> structs[t.id].length

\* (offset + alignmentMask) & ~alignmentMask, alignmentMask = alignment - 1,
\* for an alignment that is 0 or a power of two: a zero alignment makes the
\* mask all ones and the result 0.
alignUp(v, alignment) ==
    IF alignment = 0 THEN 0
    ELSE LET x == (v + alignment - 1) % Mod IN x - (x % alignment)

\* A member type the loop can be given: a struct member names an existing
\* struct; for valid C it must be complete and not empty.
RECURSIVE Usable(_)
Usable(t) ==
    CASE t.tag = "struct" ->
            /\ t.id <= Len(structs)
            /\ ValidCOnly => structs[t.id].length \notin {0, MinusOne}
      [] t.tag = "array" -> Usable(t.head)
      [] OTHER -> TRUE

Init ==
    /\ structs = << >>
    /\ cur = NoBody

(* acceptStruct without a body for a new tag: a forward declaration with *)
(* length -1 and, from createType's memset, alignment 0.                 *)
ForwardDeclaration ==
    /\ cur = NoBody /\ Len(structs) < MaxStructs
    /\ structs' = Append(structs, [length |-> MinusOne, alignment |-> 0,
                                   isStruct |-> TRUE, members |-> << >>])
    /\ UNCHANGED cur

(* acceptStruct with a body: a new struct or union Type, or the Type of a *)
(* forward declaration being filled in; the loop starts at offset 0.     *)
BeginBody(isStruct) ==
    /\ cur = NoBody
    /\ \E target \in {Len(structs) + 1} \cup
                     {i \in 1..Len(structs) : structs[i].length = MinusOne} :
         /\ target <= MaxStructs
         /\ structs' = IF target > Len(structs)
                       THEN Append(structs, [length |-> MinusOne, alignment |-> 0,
                                             isStruct |-> isStruct, members |-> << >>])
                       ELSE structs
         /\ cur' = [target |-> target, isStruct |-> isStruct, offset |-> 0,
                    structSize |-> 0, structAlignment |-> 0, members |-> << >>]

\* Mutant: the running offset of a struct not advanced past the member
MemberKeepOffset(t) ==
    /\ cur # NoBody /\ Len(cur.members) < MaxMembers
    /\ Usable(t)
    /\ LET offset == alignUp(cur.offset, alignmentOf(t)) IN
       cur' = [cur EXCEPT
                 !.structAlignment = IF alignmentOf(t) > @ THEN alignmentOf(t) ELSE @,
                 !.offset = offset,
                 !.structSize = IF cur.isStruct THEN (offset + sizeOf(t)) % Mod
                                ELSE IF sizeOf(t) >= @ THEN sizeOf(t) ELSE @,
                 !.members = Append(@, [type |-> t, offset |-> offset])]
    /\ UNCHANGED structs

(* One declarator of the member loop: raise structAlignment, align the   *)
(* offset, record it, then advance the offset (struct) or keep the       *)
(* largest size (union).                                                  *)
Member(t) ==
    /\ cur # NoBody /\ Len(cur.members) < MaxMembers
    /\ Usable(t)
    /\ LET alignment == alignmentOf(t)
           offset == alignUp(cur.offset, alignment)
           size == sizeOf(t)
       IN cur' = [cur EXCEPT
                    !.structAlignment = IF alignment > @ THEN alignment ELSE @,
                    !.offset = IF cur.isStruct THEN (offset + size) % Mod ELSE offset,
                    !.structSize = IF cur.isStruct THEN (offset + size) % Mod
                                   ELSE IF size >= @ THEN size ELSE @,
                    !.members = Append(@, [type |-> t, offset |-> offset])]
    /\ UNCHANGED structs

(* The closing '}': store structSize as the length and structAlignment   *)
(* (alignmentOf masks off the isStruct bit) in the Type.                  *)
EndBody ==
    /\ cur # NoBody
    /\ ValidCOnly => cur.members # << >>
    /\ structs' = [structs EXCEPT ![cur.target] =
                     [length |-> cur.structSize, alignment |-> cur.structAlignment,
                      isStruct |-> cur.isStruct, members |-> cur.members]]
    /\ cur' = NoBody

Next ==
    \/ ForwardDeclaration
    \/ \E s \in BOOLEAN : BeginBody(s)
    \/ \E t \in MemberTypes : Member(t)
    \/ EndBody

Spec == Init /\ [][Next]_vars

-----------------------------------------------------------------------------

Alignments == {0, 1, 2, 4, 8}
Complete(i) == structs[i].length # MinusOne

TypeOK ==
    /\ \A i \in 1..Len(structs) :
          /\ structs[i].length \in 0..Mod-1
          /\ structs[i].alignment \in Alignments
          /\ \A k \in 1..Len(structs[i].members) :
                structs[i].members[k].type \in MemberTypes
    /\ cur = NoBody \/ (/\ cur.structAlignment \in Alignments
                        /\ cur.offset \in 0..Mod-1 /\ cur.structSize \in 0..Mod-1)

\* The members of a complete struct occupy disjoint byte ranges in
\* declaration order, and every member of a struct or union lies inside the
\* length acceptStruct stored: no store to one member can change another.
MembersDisjoint ==
    \A i \in 1..Len(structs) : Complete(i) =>
        LET ms == structs[i].members
            end(k) == ms[k].offset + sizeOf(ms[k].type)
        IN /\ \A k \in 1..Len(ms) : end(k) <= structs[i].length
           /\ structs[i].isStruct =>
                \A k \in 1..Len(ms) - 1 : end(k) <= ms[k+1].offset

\* The size of a complete struct is a multiple of its alignment (spec 8), so
\* that every element of an array of it is aligned like the first.
SizeMultipleOfAlignment ==
    \A i \in 1..Len(structs) :
        Complete(i) /\ structs[i].alignment > 0 =>
            structs[i].length % structs[i].alignment = 0

=============================================================================
