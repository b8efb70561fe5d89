----------------------------- MODULE AccSymbols -----------------------------
(***************************************************************************)
(* The two symbol tables of libacc (class SymbolStack, instances mGlobals  *)
(* and mLocals) and the compiler code that drives them: global and local  *)
(* declarations, function definitions, blocks, struct tags and the use of *)
(* an identifier in an expression, including forward references to       *)
(* functions not yet defined.                                             *)
(*                                                                         *)
(* A VariableInfo is a record in the sequence vi; a pointer to it is its  *)
(* index, 0 being NULL.  Each token has two slots, mpVariableInfo and     *)
(* mpStructInfo, holding the innermost visible definition; each           *)
(* definition keeps the one it shadows in pOldDefinition.  pAddress is    *)
(* abstracted to whether it is non-NULL, pForward to the set of code      *)
(* sites chained on it.  The local arena holding the VariableInfos of     *)
(* mLocals is rolled back by popLevel; freed records the VariableInfos    *)
(* that rollback gave back.                                               *)
(***************************************************************************)
EXTENDS Naturals, Sequences, FiniteSets

CONSTANTS
    Tok,          \* identifiers of the program (model values)
    External,     \* identifiers the symbol lookup callback resolves
    ParamLists,   \* parameter name lists of function definitions
    MaxVI,        \* bound on the number of VariableInfos allocated
    MaxLevel,     \* bound on the nesting of mLocals levels
    MaxSites      \* bound on the number of forward-reference sites

ASSUME External \subseteq Tok /\ ParamLists \subseteq Seq(Tok)

VARIABLES
    vi,           \* allocated VariableInfos
    slotV,        \* Token::mpVariableInfo
    slotS,        \* Token::mpStructInfo
    gStack,       \* mGlobals.mStack (mGlobals never pushes a level)
    lStack,       \* mLocals.mStack
    lMarks,       \* mLocals.mLevelStack: the mSymbolHead of each level
    inFunction,   \* mpCurrentSymbolStack == &mLocals (and the local arena)
    freed,        \* VariableInfos whose arena memory was rolled back
    sites,        \* number of forward-reference sites emitted so far
    resolved,     \* sites patched by resolveForward
    hasError,     \* mErrorBuf.len() != 0
    done          \* checkForUndefinedForwardReferences has run

vars == <<vi, slotV, slotS, gStack, lStack, lMarks, inFunction, freed,
          sites, resolved, hasError, done>>

NewVI(t, lvl, old, tag) ==
    [tok |-> t, level |-> lvl, old |-> old, isStructTag |-> tag,
     hasAddress |-> FALSE, pForward |-> {}, forwardDecl |-> FALSE]

\* SymbolStack::level of the stack in use
level == IF inFunction THEN Len(lMarks) ELSE 0

\* Token::mpVariableInfo / mpStructInfo as one function of the kind
Slot(t, tag) == IF tag THEN slotS[t] ELSE slotV[t]

\* SymbolStack::isDefinedAtCurrentLevel / isStructTagDefinedAtCurrentLevel
definedAtCurrentLevel(t, tag) ==
    Slot(t, tag) # 0 /\ vi[Slot(t, tag)].level = level

\* Compiler::isDefined
isDefined(t) == slotV[t] # 0

(* SymbolStack::add / addStructTag on mGlobals (gl) or mLocals at level  *)
(* lvl: allocate a VariableInfo shadowing the slot, push it, point the    *)
(* slot at it.  States are records so that the adds of a handler chain.   *)
addTo(s, t, tag, gl, lvl) ==
    LET p == Len(s.vi) + 1 IN [s EXCEPT !.vi = Append(s.vi, NewVI(t, lvl, IF tag THEN s.slotS[t]
                                                   ELSE s.slotV[t], tag)),
                 !.slotV = IF tag THEN s.slotV ELSE [s.slotV EXCEPT ![t] = p],
                 !.slotS = IF tag THEN [s.slotS EXCEPT ![t] = p] ELSE s.slotS,
                 !.gStack = IF gl THEN Append(s.gStack, p) ELSE s.gStack,
                 !.lStack = IF gl THEN s.lStack ELSE Append(s.lStack, p)]

Cur == [vi |-> vi, slotV |-> slotV, slotS |-> slotS,
        gStack |-> gStack, lStack |-> lStack, err |-> FALSE]

Commit(s) ==
    /\ Len(s.vi) <= MaxVI
    /\ vi' = s.vi /\ slotV' = s.slotV /\ slotS' = s.slotS
    /\ gStack' = s.gStack /\ lStack' = s.lStack
    /\ hasError' = (hasError \/ s.err)

SetAddress(s, p) == [s EXCEPT !.vi[p].hasAddress = TRUE]

\* Compiler::addGlobalSymbol, called only when the name is not defined
addGlobalSymbol(s, t) == addTo(s, t, FALSE, TRUE, 0)

\* Mutant: no duplicate check
addLocalSymbolNoCheck(s, t, lvl) == addTo(s, t, FALSE, FALSE, lvl)

\* Mutant: the new definition recorded one level too deep
addLocalSymbolNextLevel(s, t, lvl) ==
    LET dup == s.slotV[t] # 0 /\ s.vi[s.slotV[t]].level = lvl
    IN [addTo(s, t, FALSE, FALSE, lvl + 1) EXCEPT !.err = s.err \/ dup]

\* Compiler::addLocalSymbol: report a duplicate at the current level, add
addLocalSymbol(s, t, lvl) ==
    LET dup == s.slotV[t] # 0 /\ s.vi[s.slotV[t]].level = lvl
    IN [addTo(s, t, FALSE, FALSE, lvl) EXCEPT !.err = s.err \/ dup]

\* The parameter loop of globalDeclarations: addLocalSymbol, then pAddress
RECURSIVE addParams(_, _)
addParams(s, ps) ==
    IF ps = << >> THEN s
    ELSE LET s1 == addLocalSymbol(s, Head(ps), 1)
         IN addParams(SetAddress(s1, Len(s1.vi)), Tail(ps))

\* Mutant: popLevel restoring mpVariableInfo whatever the kind
RECURSIVE unwindIgnoringTags(_, _)
unwindIgnoringTags(s, head) ==
    IF Len(s.lStack) <= head THEN s
    ELSE LET v == s.vi[s.lStack[Len(s.lStack)]] IN
         unwindIgnoringTags([s EXCEPT
                      !.lStack = SubSeq(s.lStack, 1, Len(s.lStack) - 1),
                      !.slotV = [s.slotV EXCEPT ![v.tok] = v.old]], head)

\* The loop of SymbolStack::popLevel: pop from the top, restoring the slot
\* the popped VariableInfo shadowed.
RECURSIVE unwind(_, _)
unwind(s, head) ==
    IF Len(s.lStack) <= head THEN s
    ELSE LET p == s.lStack[Len(s.lStack)]
             v == s.vi[p]
             s1 == [s EXCEPT
                      !.lStack = SubSeq(s.lStack, 1, Len(s.lStack) - 1),
                      !.slotV = IF v.isStructTag THEN s.slotV
                                ELSE [s.slotV EXCEPT ![v.tok] = v.old],
                      !.slotS = IF v.isStructTag
                                THEN [s.slotS EXCEPT ![v.tok] = v.old]
                                ELSE s.slotS]
         IN unwind(s1, head)

\* SymbolStack::popLevel on mLocals, with the arena rollback it ends with
popLevel ==
    LET head == lMarks[Len(lMarks)]
        s == unwind(Cur, head)
    IN /\ Commit(s)
       /\ lMarks' = SubSeq(lMarks, 1, Len(lMarks) - 1)
       /\ freed' = freed \cup {lStack[i] : i \in head + 1 .. Len(lStack)}

-----------------------------------------------------------------------------

Init ==
    /\ vi = << >>
    /\ slotV = [t \in Tok |-> 0]
    /\ slotS = [t \in Tok |-> 0]
    /\ gStack = << >> /\ lStack = << >> /\ lMarks = << >>
    /\ inFunction = FALSE
    /\ freed = {}
    /\ sites = 0 /\ resolved = {}
    /\ hasError = FALSE
    /\ done = FALSE

(* globalDeclarations, a declaration that is not a function definition:  *)
(* add the name if undefined, "Already defined global" if it has an      *)
(* address, and give a variable (not a prototype) its storage.           *)
GlobalDeclaration(t, isFunction) ==
    /\ ~inFunction /\ ~done
    /\ LET s1 == IF isDefined(t) THEN Cur ELSE addGlobalSymbol(Cur, t)
           name == s1.slotV[t]
           s2 == [s1 EXCEPT !.err = s1.vi[name].hasAddress]
       IN Commit(IF isFunction THEN s2 ELSE SetAddress(s2, name))
    /\ UNCHANGED <<lMarks, inFunction, freed, sites, resolved, done>>

(* globalDeclarations, a function definition up to its body: add the     *)
(* name, resolveForward its pForward chain, set its address, switch to   *)
(* mLocals and the local arena, pushLevel and add the parameters.        *)
FunctionDefinition(t, ps) ==
    /\ ~inFunction /\ ~done
    /\ LET s1 == IF isDefined(t) THEN Cur ELSE addGlobalSymbol(Cur, t)
           name == s1.slotV[t]
           s2 == SetAddress([s1 EXCEPT !.err = s1.vi[name].hasAddress], name)
       IN /\ resolved' = resolved \cup s1.vi[name].pForward
          /\ Commit(addParams(s2, ps))
    /\ lMarks' = << Len(lStack) >>
    /\ inFunction' = TRUE
    /\ UNCHANGED <<freed, sites, done>>

\* The end of a function definition: popLevel, back to mGlobals
FunctionEnd ==
    /\ inFunction /\ Len(lMarks) = 1
    /\ popLevel
    /\ inFunction' = FALSE
    /\ UNCHANGED <<sites, resolved, done>>

\* block, '{' of an inner block: mLocals.pushLevel
BlockOpen ==
    /\ inFunction /\ Len(lMarks) < MaxLevel
    /\ lMarks' = Append(lMarks, Len(lStack))
    /\ UNCHANGED <<vi, slotV, slotS, gStack, lStack, inFunction, freed,
                   sites, resolved, hasError, done>>

\* block, '}' of an inner block: mLocals.popLevel
BlockClose ==
    /\ inFunction /\ Len(lMarks) > 1
    /\ popLevel
    /\ UNCHANGED <<inFunction, sites, resolved, done>>

(* localDeclarations, one declarator: addLocalSymbol, then a stack slot   *)
(* for a variable; a function declarator is a forward declaration.       *)
LocalDeclaration(t, isFunction) ==
    /\ inFunction
    /\ LET s1 == addLocalSymbol(Cur, t, Len(lMarks))
       IN Commit(IF isFunction THEN s1 ELSE SetAddress(s1, Len(s1.vi)))
    /\ UNCHANGED <<lMarks, inFunction, freed, sites, resolved, done>>

(* unary, an identifier: an undefined name is added to mGlobals; without *)
(* an address, linkGlobal asks the lookup callback, a non-call that      *)
(* stays unresolved is "Undeclared variable", and leaForward chains a    *)
(* new site on pForward.                                                 *)
UseIdentifier(t, isCall) ==
    /\ inFunction
    /\ LET s1 == IF isDefined(t) THEN Cur ELSE addTo(Cur, t, FALSE, TRUE, 0)
           p == s1.slotV[t]
           n == s1.vi[p].hasAddress \/ t \in External
       IN IF s1.vi[p].hasAddress
          THEN /\ Commit(s1) /\ UNCHANGED sites
          ELSE /\ n \/ sites < MaxSites
               /\ sites' = IF n THEN sites ELSE sites + 1
               /\ Commit([s1 EXCEPT
                     !.vi[p].hasAddress = n,
                     !.vi[p].pForward = IF n THEN @ ELSE @ \cup {sites + 1},
                     !.err = ~n /\ ~isCall])
    /\ UNCHANGED <<lMarks, inFunction, freed, resolved, done>>

(* acceptStruct, the tag: a definition of a tag defined at this level    *)
(* fills a forward declaration or is an error; otherwise an undefined    *)
(* tag, or a definition shadowing an outer one, is added to the current  *)
(* symbol stack, as a forward declaration when it has no body.           *)
StructTag(t, isDeclaration) ==
    /\ ~done
    /\ LET pS == slotS[t]
           here == definedAtCurrentLevel(t, TRUE)
           need == pS = 0 \/ (isDeclaration /\ ~here)
           s1 == IF need
                 THEN addTo(Cur, t, TRUE, ~inFunction, level)
                 ELSE IF isDeclaration /\ here /\ vi[pS].forwardDecl
                 THEN [Cur EXCEPT !.vi[pS].forwardDecl = FALSE]
                 ELSE [Cur EXCEPT !.err = isDeclaration /\ here]
       IN Commit(IF need
                 THEN [s1 EXCEPT !.vi[Len(s1.vi)].forwardDecl = ~isDeclaration]
                 ELSE s1)
    /\ UNCHANGED <<lMarks, inFunction, freed, sites, resolved, done>>

\* compile: checkForUndefinedForwardReferences over mGlobals after parsing
Finish ==
    /\ ~inFunction /\ ~done
    /\ hasError' = (hasError \/ \E i \in 1..Len(gStack) :
                        ~vi[gStack[i]].hasAddress /\ vi[gStack[i]].pForward # {})
    /\ done' = TRUE
    /\ UNCHANGED <<vi, slotV, slotS, gStack, lStack, lMarks, inFunction,
                   freed, sites, resolved>>

Next ==
    \/ \E t \in Tok, f \in BOOLEAN : GlobalDeclaration(t, f)
    \/ \E t \in Tok, ps \in ParamLists : FunctionDefinition(t, ps)
    \/ FunctionEnd
    \/ BlockOpen
    \/ BlockClose
    \/ \E t \in Tok, f \in BOOLEAN : LocalDeclaration(t, f)
    \/ \E t \in Tok, c \in BOOLEAN : UseIdentifier(t, c)
    \/ \E t \in Tok, d \in BOOLEAN : StructTag(t, d)
    \/ Finish

Spec == Init /\ [][Next]_vars

-----------------------------------------------------------------------------

TypeOK ==
    /\ \A i \in 1..Len(vi) :
          /\ vi[i].tok \in Tok /\ vi[i].level \in 0..MaxLevel
          /\ vi[i].old \in 0..i-1 /\ vi[i].isStructTag \in BOOLEAN
          /\ vi[i].pForward \subseteq 1..sites
    /\ slotV \in [Tok -> 0..Len(vi)] /\ slotS \in [Tok -> 0..Len(vi)]
    /\ \A i \in 1..Len(lMarks) : lMarks[i] \in 0..Len(lStack)
    /\ freed \subseteq 1..Len(vi) /\ resolved \subseteq 1..sites
    /\ inFunction \in BOOLEAN /\ hasError \in BOOLEAN /\ done \in BOOLEAN

\* The most recent definition of t (a struct tag when tag) still on either
\* stack; mGlobals only gains names that are visible nowhere else.
Innermost(t, tag) ==
    LET all == gStack \o lStack
        is(i) == vi[all[i]].tok = t /\ vi[all[i]].isStructTag = tag
    IN IF \E i \in 1..Len(all) : is(i)
       THEN all[CHOOSE i \in 1..Len(all) : is(i) /\ \A j \in i+1..Len(all) : ~is(j)]
       ELSE 0

\* After any sequence of declarations, blocks and function definitions,
\* each token's mpVariableInfo and mpStructInfo is its innermost definition
\* still in scope: popLevel restores exactly what the popped definitions
\* shadowed, so no slot is left on a VariableInfo whose arena was rolled back.
SlotsAreInnermost ==
    \A t \in Tok, tag \in BOOLEAN :
        /\ Slot(t, tag) = Innermost(t, tag)
        /\ Slot(t, tag) \notin freed

\* A name declared twice in the same block (or a parameter list) is
\* reported: addLocalSymbol's isDefinedAtCurrentLevel check never lets two
\* definitions of one name into one level of mLocals without an error.
NoSilentRedefinition ==
    ~hasError =>
        \A i, j \in 1..Len(lStack) :
            LET v == vi[lStack[i]]  w == vi[lStack[j]] IN
            i < j /\ v.tok = w.tok /\ v.isStructTag = w.isStructTag
              => v.level # w.level

\* A compile that reports no error has patched every forward reference it
\* emitted: resolveForward of the definition, or the "Undefined forward
\* reference" check, accounts for each site leaForward chained.
ForwardReferencesLinked ==
    done /\ ~hasError => 1..sites \subseteq resolved

=============================================================================
