------------------------------ MODULE AccScopes ------------------------------
(***************************************************************************)
(* The symbol tables of libacc composed with the arena that holds the     *)
(* local ones.  Compiler::compile gives mLocals the arena mLocalArena      *)
(* (setArena), and while a function body is parsed mpCurrentArena is      *)
(* &mLocalArena too, so the VariableInfos of mLocals and the Types built   *)
(* by createType share one arena.  SymbolStack::pushLevel takes           *)
(* mpArena->mark() with the symbol head, popLevel unwinds the shadowing    *)
(* and then calls mpArena->freeToMark(mark).                               *)
(*                                                                         *)
(* Each step of AccSymbols is taken together with the local-arena calls    *)
(* the same compiler code makes, in the order it makes them.  viBlock      *)
(* records the arena block of every VariableInfo allocated in the local   *)
(* arena (NoBlock for those of mGlobals, which lives in mGlobalArena).    *)
(***************************************************************************)
EXTENDS Naturals, Sequences, FiniteSets

CONSTANTS
    Tok, External, ParamLists, MaxVI, MaxLevel, MaxSites,  \* as in AccSymbols
    ChunkSize, MaxChunks,  \* as in AccArena, for mLocalArena
    VISize,                \* sizeof(VariableInfo), scaled like ChunkSize
    TypeSize               \* sizeof(Type), scaled like ChunkSize

VARIABLES
    vi, slotV, slotS, gStack, lStack, lMarks, inFunction, freed,
    sites, resolved, hasError, done,        \* the state of AccSymbols
    lData, lChunk, lArenaMarks, live,       \* mLocalArena
    viBlock                                 \* arena block of each VariableInfo

symVars == <<vi, slotV, slotS, gStack, lStack, lMarks, inFunction, freed,
             sites, resolved, hasError, done>>
arenaVars == <<lData, lChunk, lArenaMarks, live, viBlock>>
vars == <<symVars, arenaVars>>

Sym == INSTANCE AccSymbols

LocalArena == INSTANCE AccArena WITH
    mData <- lData, mCurrentChunk <- lChunk, marks <- lArenaMarks,
    Sizes <- {VISize, TypeSize}, MaxMarks <- MaxLevel

NoBlock == [chunk |-> 0, start |-> 0, size |-> 0, depth |-> 0]

\* An allocation the compiler makes: a Type, or the VariableInfo numbered v
TypeAlloc == [size |-> TypeSize, vi |-> 0]
VIAllocs(ps) == [i \in 1..Len(ps) |-> [size |-> VISize, vi |-> ps[i]]]

\* The VariableInfos this step pushed on mLocals (allocated by mLocals.add)
NewLocals == SubSeq(lStack', Len(lStack) + 1, Len(lStack'))

\* Successive Arena::alloc calls on mLocalArena, in the order of plan
RECURSIVE allocAll(_, _, _)
allocAll(data, cur, plan) ==
    IF plan = << >> THEN [mData |-> data, mCurrentChunk |-> cur, blocks |-> << >>]
    ELSE LET r == LocalArena!allocIn(data, cur, Head(plan).size)
             rest == allocAll(r.mData, r.mCurrentChunk, Tail(plan))
         IN [rest EXCEPT !.blocks = << r.block >> \o @]

(* The local-arena side of one step: from chunk vector data and current  *)
(* chunk cur, with ms the marks after any pushLevel of the step, make     *)
(* the allocations of plan; blocks are live at the depth Len(ms).         *)
LocalAllocs(data, cur, ms, plan) ==
    LET r == allocAll(data, cur, plan)
        live1(i) == [chunk |-> r.blocks[i].chunk, start |-> r.blocks[i].start,
                     size |-> r.blocks[i].size, depth |-> Len(ms)]
        owner(p) == {i \in DOMAIN plan : plan[i].vi = p}
    IN /\ Len(r.mData) <= MaxChunks
       /\ lData' = r.mData
       /\ lChunk' = r.mCurrentChunk
       /\ lArenaMarks' = ms
       /\ live' = live \cup {live1(i) : i \in DOMAIN plan}
       /\ viBlock' = [p \in 1..Len(vi') |->
                        IF owner(p) # {} THEN live1(CHOOSE i \in owner(p) : TRUE)
                        ELSE IF p <= Len(viBlock) THEN viBlock[p] ELSE NoBlock]

\* mLocals.popLevel: the unwinding of AccSymbols, then freeToMark
PopLevelArena ==
    LET r == LocalArena!rollback(lData, lArenaMarks[Len(lArenaMarks)]) IN
    /\ lData' = r.mData
    /\ lChunk' = r.mCurrentChunk
    /\ lArenaMarks' = SubSeq(lArenaMarks, 1, Len(lArenaMarks) - 1)
    /\ live' = {b \in live : b.depth < Len(lArenaMarks)}
    /\ UNCHANGED viBlock

-----------------------------------------------------------------------------

Init ==
    /\ Sym!Init
    /\ lData = << LocalArena!Chunk(ChunkSize) >>
    /\ lChunk = 1
    /\ lArenaMarks = << >>
    /\ live = {}
    /\ viBlock = << >>

\* A global declaration: everything goes to mGlobals and mGlobalArena
GlobalDeclaration(t, f) ==
    /\ Sym!GlobalDeclaration(t, f)
    /\ viBlock' = [p \in 1..Len(vi') |-> IF p <= Len(viBlock) THEN viBlock[p] ELSE NoBlock]
    /\ UNCHANGED <<lData, lChunk, lArenaMarks, live>>

(* A function definition: mpCurrentArena = &mLocalArena, pushLevel takes  *)
(* the arena mark, then addLocalSymbol allocates a VariableInfo for each  *)
(* named parameter (their Types were built before, in mGlobalArena).      *)
FunctionDefinition(t, ps) ==
    /\ Sym!FunctionDefinition(t, ps)
    /\ LocalAllocs(lData, lChunk, << LocalArena!markOf(lData, lChunk) >>,
                   VIAllocs(NewLocals))

\* The end of the outermost block: popLevel, back to the global arena
FunctionEnd == Sym!FunctionEnd /\ PopLevelArena

\* Mutant: pushLevel recording the symbol head without an arena mark
BlockOpenNoMark == Sym!BlockOpen /\ UNCHANGED arenaVars

\* '{' of an inner block: pushLevel marks the arena
BlockOpen ==
    /\ Sym!BlockOpen
    /\ LocalArena!mark
    /\ UNCHANGED viBlock

\* '}' of an inner block: popLevel
BlockClose == Sym!BlockClose /\ PopLevelArena

(* localDeclarations: acceptDeclaration clones the declared Type with     *)
(* createType, then addLocalSymbol allocates the VariableInfo.            *)
LocalDeclaration(t, f) ==
    /\ Sym!LocalDeclaration(t, f)
    /\ LocalAllocs(lData, lChunk, lArenaMarks,
                   << TypeAlloc >> \o VIAllocs(NewLocals))

(* unary on an identifier inside a function: any new VariableInfo goes to *)
(* mGlobals; the pointer type for leaR0 or leaForward comes from         *)
(* createPtrType in the local arena.                                      *)
UseIdentifier(t, c) ==
    /\ Sym!UseIdentifier(t, c)
    /\ LocalAllocs(lData, lChunk, lArenaMarks, << TypeAlloc >>)

(* acceptStruct: inside a function a new tag is added to mLocals by       *)
(* addStructTag and then gets its Type from createType; outside, both go  *)
(* to mGlobals and the global arena.                                       *)
StructTag(t, d) ==
    /\ Sym!StructTag(t, d)
    /\ IF inFunction
       THEN LocalAllocs(lData, lChunk, lArenaMarks,
                        IF NewLocals = << >> THEN << >>
                        ELSE VIAllocs(NewLocals) \o << TypeAlloc >>)
       ELSE /\ viBlock' = [p \in 1..Len(vi') |->
                             IF p <= Len(viBlock) THEN viBlock[p] ELSE NoBlock]
            /\ UNCHANGED <<lData, lChunk, lArenaMarks, live>>

Finish == Sym!Finish /\ UNCHANGED arenaVars

Next ==
    \/ \E t \in Tok, f \in BOOLEAN : GlobalDeclaration(t, f)
    \/ \E t \in Tok, ps \in ParamLists : FunctionDefinition(t, ps)
    \/ FunctionEnd
    \/ BlockOpen
    \/ BlockClose
    \/ \E t \in Tok, f \in BOOLEAN : LocalDeclaration(t, f)
    \/ \E t \in Tok, c \in BOOLEAN : UseIdentifier(t, c)
    \/ \E t \in Tok, d \in BOOLEAN : StructTag(t, d)
    \/ Finish

Spec == Init /\ [][Next]_vars

-----------------------------------------------------------------------------

TypeOK ==
    /\ Sym!TypeOK
    /\ LocalArena!TypeOK
    /\ viBlock \in [1..Len(vi) -> [chunk : Nat, start : Nat, size : Nat, depth : Nat]]

\* The VariableInfos a token slot or the mLocals stack can still reach
Reachable == {slotV[t] : t \in Tok} \cup {slotS[t] : t \in Tok}
                 \cup {lStack[i] : i \in 1..Len(lStack)}

Disjoint(a, b) ==
    a.chunk # b.chunk \/ a.start + a.size <= b.start \/ b.start + b.size <= a.start

(* The memory of every VariableInfo still reachable from a Token slot or *)
(* from mLocals lies in mLocalArena storage that is not given out again: *)
(* its block is still live (no freeToMark has rolled it back) and no     *)
(* other live block, VariableInfo or Type, overlaps it.  This needs      *)
(* popLevel's unwinding (restoring pOldDefinition into the slot of the   *)
(* right kind) and Arena::freeToMark to agree on what one level owns.    *)
ReachableSymbolsNotReused ==
    \A p \in Reachable \ {0} :
        viBlock[p] # NoBlock =>
            /\ viBlock[p] \in live
            /\ \A b \in live : b # viBlock[p] => Disjoint(b, viBlock[p])

\* The properties of the two components, over the composed state
SlotsAreInnermost == Sym!SlotsAreInnermost
NoSilentRedefinition == Sym!NoSilentRedefinition
AllocInBounds == LocalArena!AllocInBounds
LiveDisjoint == LocalArena!LiveDisjoint


=============================================================================
