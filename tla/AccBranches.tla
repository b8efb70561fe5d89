----------------------------- MODULE AccBranches -----------------------------
(***************************************************************************)
(* Jump and forward-reference patching of acc's code generators, driven by *)
(* the statement compiler Compiler::block.                                 *)
(*                                                                         *)
(* A forward jump is emitted before its destination is known.  Its        *)
(* address field holds the link to the previous jump waiting for the same *)
(* label, so the chain of unresolved jumps lives in the code itself; the   *)
(* compiler keeps only the head (the "a" of an if or loop, rsym for        *)
(* returns, the break label of a loop).  gsym walks the chain when the     *)
(* label is reached and patches every jump.  The ARM backend links words   *)
(* by their word offset from the code base; the x86 backend links them by  *)
(* absolute address.  A reference to a function not yet defined is        *)
(* chained the same way through pForward and patched by resolveForward.    *)
(*                                                                         *)
(* mem holds, for each code address that carries a patchable field, the    *)
(* instruction kind and the field; the other instructions only advance pc. *)
(* A code-state record [pc, mem, r] threads the generator calls a handler  *)
(* makes in order; r is the call's return value.                           *)
(***************************************************************************)
EXTENDS Integers, Sequences, FiniteSets, TLC

CONSTANTS
    Funcs,      \* function names
    Backends,   \* subset of {"arm", "x86"}
    Base,       \* address of the code buffer, > 0
    MaxPC,      \* size of the code buffer: no step emits past it
    MaxDepth,   \* bound on nested if/loop statements
    RefBound    \* [Backends -> Nat]: forward references kept per function

None == "none"

VARIABLES
    arch,     \* the backend compiling
    pc,       \* getPC()
    mem,      \* address -> [op, f]: the patchable fields written so far
    stack,    \* open if/else/loop statements: [kind, a, n]
    rsym,     \* head of the chain of pending returns
    fwd,      \* pForward of each function
    addr,     \* pAddress of each function, 0 while undefined
    cur,      \* function being compiled, or None
    errored,  \* some error() was reported
    done,     \* end of the compilation unit reached
    refs,     \* ghost: the load sites emitted for each function
    labels    \* ghost: addresses the compiler named as jump destinations

vars == <<arch, pc, mem, stack, rsym, fwd, addr, cur, errored, done, refs, labels>>

JumpOps == {"b", "beq", "bne", "jmp", "je", "jne"}
Ops == JumpOps \cup {"bskip", "ldr", "word", "mov"}

\* Bytes emitted by the straight-line code around the patchable fields:
\* an expression, li, functionEntry and functionExit without register
\* arguments, the compare before a conditional branch, and jumpOffset().
Size == [arm |-> [expr |-> 4, li |-> 4, entry |-> 12, exit |-> 20,
                  tstPre |-> 4, jumpOffset |-> 8],
         x86 |-> [expr |-> 5, li |-> 5, entry |-> 9, exit |-> 2,
                  tstPre |-> 4, jumpOffset |-> 5]]

Adv(c, k) == [c EXCEPT !.pc = @ + k]
Put(m, s, item) == [x \in DOMAIN m \cup {s} |-> IF x = s THEN item ELSE m[x]]
SetF(m, s, v) == [m EXCEPT ![s].f = v]

-----------------------------------------------------------------------------
(* ARM backend *)

BRANCH_REL_ADDRESS_MASK == 2^24
\* Mutant of encodeRelAddress: the shift without the 24-bit mask.
encodeRelAddressNoMask(value) == value \div 4
encodeRelAddress(value) == (value \div 4) % BRANCH_REL_ADDRESS_MASK

\* A chain link (an address inside the buffer) is encoded relative to the
\* base, anything else (0, or a negative relative offset) as it is.
\* Mutant of encodeAddress: a chain link encoded as an absolute address.
encodeAddressNoBase(c, value) == encodeRelAddress(value)

encodeAddress(c, value) ==
    encodeRelAddress(IF value >= Base /\ value <= c.pc THEN value - Base ELSE value)

armGjmp(c, t) ==
    [pc |-> c.pc + 4, mem |-> Put(c.mem, c.pc, [op |-> "b", f |-> encodeAddress(c, t)]),
     r |-> c.pc]

armGtst(c, l, t) ==
    LET s == c.pc + Size.arm.tstPre
    IN [pc |-> s + 4,
        mem |-> Put(c.mem, s, [op |-> IF l THEN "bne" ELSE "beq",
                               f |-> encodeAddress([c EXCEPT !.pc = s], t)]),
        r |-> s]

\* gsym's decoding of the next link from a branch word.
armNext(data) == IF data.f * 4 = 0 THEN 0 ELSE Base + data.f * 4

\* The jumps chained from t.  gsym reads each link before patching that
\* word, and a chain visits a word once (so it has at most |DOMAIN m|
\* words): collecting the chain first and then patching every word of it
\* is the same loop.
RECURSIVE armChain(_, _, _)
armChain(m, t, fuel) ==
    IF t = 0 \/ fuel = 0 \/ t \notin DOMAIN m THEN {}
    ELSE {t} \cup armChain(m, armNext(m[t]), fuel - 1)

\* Writes f[x] into the field of every word x of the chain ts.
PatchAll(m, ts, f) ==
    IF ts = {} THEN m ELSE [x \in DOMAIN m |-> IF x \in ts THEN [m[x] EXCEPT !.f = f[x]] ELSE m[x]]

armGsym(c, t) ==
    LET ts == armChain(c.mem, t, Cardinality(DOMAIN c.mem))
    IN [c EXCEPT !.mem = PatchAll(c.mem, ts, [x \in ts |-> encodeRelAddress(c.pc - x - 8)])]

armResolveForward(c, t) == IF t # 0 THEN [c EXCEPT !.mem = SetF(@, t, c.pc)] ELSE c

\* ldr r0, [pc, #offset]; for the first reference also b .L99; .word 0.
armLeaForward(c, ea) ==
    IF ea # 0
    THEN LET offset == (c.pc - ea - 8) \div 4
         IN [pc |-> c.pc + 4, r |-> ea,
             mem |-> Put(c.mem, c.pc, [op |-> "ldr", f |-> offset]),
             err |-> offset < 0 \/ offset > 65535]
    ELSE [pc |-> c.pc + 12, r |-> c.pc + 8, err |-> FALSE,
          mem |-> Put(Put(Put(c.mem, c.pc, [op |-> "ldr", f |-> 0]),
                          c.pc + 4, [op |-> "bskip", f |-> 0]),
                      c.pc + 8, [op |-> "word", f |-> ea])]

-----------------------------------------------------------------------------
(* x86 backend *)

\* oad: one opcode byte, then the 32-bit field; returns the field's address.
oad(c, op, t) == [pc |-> c.pc + 5, mem |-> Put(c.mem, c.pc + 1, [op |-> op, f |-> t]),
                  r |-> c.pc + 1]

x86Gjmp(c, t) == oad(c, "jmp", t)

\* test %eax,%eax (2 bytes); 0x0f; 0x84+l with the field.
x86Gtst(c, l, t) == oad(Adv(c, 3), IF l THEN "jne" ELSE "je", t)

RECURSIVE x86Chain(_, _, _)
x86Chain(m, t, fuel) ==
    IF t = 0 \/ fuel = 0 \/ t \notin DOMAIN m THEN {}
    ELSE {t} \cup x86Chain(m, m[t].f, fuel - 1)

x86Gsym(c, t) ==
    LET ts == x86Chain(c.mem, t, Cardinality(DOMAIN c.mem))
    IN [c EXCEPT !.mem = PatchAll(c.mem, ts, [x \in ts |-> c.pc - x - 4])]

\* Mutant of x86ResolveForward: only the head of the chain patched, as
\* the ARM backend does.
x86ResolveForwardHeadOnly(c, t) == IF t # 0 THEN [c EXCEPT !.mem = SetF(@, t, c.pc)] ELSE c

x86ResolveForward(c, t) ==
    LET ts == x86Chain(c.mem, t, Cardinality(DOMAIN c.mem))
    IN [c EXCEPT !.mem = PatchAll(c.mem, ts, [x \in ts |-> c.pc])]

x86LeaForward(c, ea) ==
    LET o == oad(c, "mov", ea) IN [pc |-> o.pc, mem |-> o.mem, r |-> o.r, err |-> FALSE]

-----------------------------------------------------------------------------
(* The CodeGenerator interface, dispatched on the backend. *)

gjmp(c, t) == IF arch = "arm" THEN armGjmp(c, t) ELSE x86Gjmp(c, t)
gtst(c, l, t) == IF arch = "arm" THEN armGtst(c, l, t) ELSE x86Gtst(c, l, t)
gsym(c, t) == IF arch = "arm" THEN armGsym(c, t) ELSE x86Gsym(c, t)
resolveForward(c, t) ==
    IF arch = "arm" THEN armResolveForward(c, t) ELSE x86ResolveForward(c, t)
leaForward(c, ea) == IF arch = "arm" THEN armLeaForward(c, ea) ELSE x86LeaForward(c, ea)
jumpOffset == Size[arch].jumpOffset

-----------------------------------------------------------------------------
(* Compiler: function definitions and Compiler::block, one statement per   *)
(* step.  A step that would pass the end of the buffer is not taken.       *)

Here == [pc |-> pc, mem |-> mem, r |-> 0]

Commit(c) == /\ c.pc <= MaxPC
             /\ pc' = c.pc
             /\ mem' = c.mem

InFunction == cur # None /\ ~done

Push(fr) == /\ Len(stack) < MaxDepth
            /\ stack' = Append(stack, fr)
Top == stack[Len(stack)]
Pop == stack' = SubSeq(stack, 1, Len(stack) - 1)

\* breakLabel / continueAddress of block(): the innermost loop, 0 if none.
LoopsOpen == {i \in 1..Len(stack) : stack[i].kind = "loop"}
InnerLoop == IF LoopsOpen = {} THEN 0 ELSE CHOOSE i \in LoopsOpen : \A j \in LoopsOpen : j <= i

\* test_expr: the condition's code, then gtst(0, 0).
test_expr(c) == gtst(Adv(c, Size[arch].expr), FALSE, 0)

Init ==
    /\ arch \in Backends
    /\ pc = Base
    /\ mem = <<>>
    /\ stack = <<>>
    /\ rsym = 0
    /\ fwd = [g \in Funcs |-> 0]
    /\ addr = [g \in Funcs |-> 0]
    /\ cur = None
    /\ errored = FALSE
    /\ done = FALSE
    /\ refs = [g \in Funcs |-> {}]
    /\ labels = {}

\* Function definition: patch the forward references, record the address,
\* reset rsym and emit the prologue.
FunctionBegin(g) ==
    /\ cur = None /\ ~done
    /\ addr[g] = 0
    /\ Commit(Adv(resolveForward(Here, fwd[g]), Size[arch].entry))
    /\ addr' = [addr EXCEPT ![g] = pc]
    /\ rsym' = 0
    /\ cur' = g
    /\ UNCHANGED <<arch, stack, fwd, errored, done, refs, labels>>

\* End of the function body: gsym(rsym), then functionExit.
FunctionEnd ==
    /\ InFunction /\ stack = <<>>
    /\ Commit(Adv(gsym(Here, rsym), Size[arch].exit))
    /\ labels' = labels \cup {pc}
    /\ cur' = None
    /\ UNCHANGED <<arch, stack, rsym, fwd, addr, errored, done, refs>>

\* An expression statement with no forward reference in it.
ExprStmt ==
    /\ InFunction
    /\ Commit(Adv(Here, Size[arch].expr))
    /\ UNCHANGED <<arch, stack, rsym, fwd, addr, cur, errored, done, refs, labels>>

\* A use of function g before its definition: unary's leaForward call.
RefForward(g) ==
    /\ InFunction /\ addr[g] = 0
    /\ Cardinality(refs[g]) < RefBound[arch]
    /\ LET c == leaForward(Here, fwd[g])
       IN /\ Commit(c)
          /\ fwd' = [fwd EXCEPT ![g] = c.r]
          /\ errored' = (errored \/ c.err)
    /\ refs' = [refs EXCEPT ![g] = @ \cup {IF arch = "arm" THEN pc ELSE pc + 1}]
    /\ UNCHANGED <<arch, stack, rsym, addr, cur, done, labels>>

\* Mutant of LogicalExpr: the second test starts a new chain instead of
\* extending the first operand's.
LogicalExprChainDropped(isOr) ==
    /\ InFunction
    /\ LET a1 == gtst(Adv(Here, Size[arch].expr), isOr, 0)
           a2 == gtst(Adv(a1, Size[arch].expr), isOr, 0)
           b  == gjmp(Adv(a2, Size[arch].li), 0)
           g1 == gsym(b, a2.r)
           g2 == gsym(Adv(g1, Size[arch].li), b.r)
       IN /\ Commit(g2)
          /\ labels' = labels \cup {b.pc, g2.pc}
    /\ UNCHANGED <<arch, stack, rsym, fwd, addr, cur, errored, done, refs>>

\* e1 && e2 or e1 || e2 (binaryOp at the logical levels), as a statement.
LogicalExpr(isOr) ==
    /\ InFunction
    /\ LET a1 == gtst(Adv(Here, Size[arch].expr), isOr, 0)
           a2 == gtst(Adv(a1, Size[arch].expr), isOr, a1.r)
           b  == gjmp(Adv(a2, Size[arch].li), 0)
           g1 == gsym(b, a2.r)
           g2 == gsym(Adv(g1, Size[arch].li), b.r)
       IN /\ Commit(g2)
          /\ labels' = labels \cup {b.pc, g2.pc}
    /\ UNCHANGED <<arch, stack, rsym, fwd, addr, cur, errored, done, refs>>

IfOpen ==
    /\ InFunction
    /\ LET c == test_expr(Here)
       IN Commit(c) /\ Push([kind |-> "if", a |-> c.r, n |-> 0])
    /\ UNCHANGED <<arch, rsym, fwd, addr, cur, errored, done, refs, labels>>

Else ==
    /\ InFunction /\ stack # <<>> /\ Top.kind = "if"
    /\ LET n == gjmp(Here, 0)
       IN /\ Commit(gsym(n, Top.a))
          /\ stack' = [stack EXCEPT ![Len(stack)] = [kind |-> "else", a |-> n.r, n |-> 0]]
          /\ labels' = labels \cup {n.pc}
    /\ UNCHANGED <<arch, rsym, fwd, addr, cur, errored, done, refs>>

IfEnd ==
    /\ InFunction /\ stack # <<>> /\ Top.kind \in {"if", "else"}
    /\ Commit(gsym(Here, Top.a))
    /\ Pop
    /\ labels' = labels \cup {pc}
    /\ UNCHANGED <<arch, rsym, fwd, addr, cur, errored, done, refs>>

\* while (cond): n = getPC() is the loop top, a the exit chain.
WhileOpen ==
    /\ InFunction
    /\ LET c == test_expr(Here)
       IN Commit(c) /\ Push([kind |-> "loop", a |-> c.r, n |-> pc])
    /\ labels' = labels \cup {pc}
    /\ UNCHANGED <<arch, rsym, fwd, addr, cur, errored, done, refs>>

\* Mutant of ForOpen: the body continues at the jump over the increment
\* (n = t) instead of the increment itself.
ForOpenContinueAtJump(hasTest, hasIncr) ==
    /\ InFunction
    /\ LET n0   == pc
           c    == IF hasTest THEN test_expr(Here) ELSE Here
           t    == gjmp(c, 0)
           inc  == Adv(t, Size[arch].expr)
           back == gjmp(inc, n0 - inc.pc - jumpOffset)
           e    == IF hasIncr THEN gsym(back, t.r) ELSE c
           n    == IF hasIncr THEN t.r ELSE n0
       IN /\ Commit(e)
          /\ Push([kind |-> "loop", a |-> c.r, n |-> n])
          /\ labels' = labels \cup {n0} \cup (IF hasIncr THEN {t.pc, e.pc} ELSE {})
    /\ UNCHANGED <<arch, rsym, fwd, addr, cur, errored, done, refs>>

\* for (; test; incr): the increment is emitted before the body behind a
\* jump t, followed by a jump back to the test; the body then continues at
\* t + 4, the first byte of the increment.
ForOpen(hasTest, hasIncr) ==
    /\ InFunction
    /\ LET n0   == pc
           c    == IF hasTest THEN test_expr(Here) ELSE Here
           t    == gjmp(c, 0)
           inc  == Adv(t, Size[arch].expr)
           back == gjmp(inc, n0 - inc.pc - jumpOffset)
           e    == IF hasIncr THEN gsym(back, t.r) ELSE c
           n    == IF hasIncr THEN t.r + 4 ELSE n0
       IN /\ Commit(e)
          /\ Push([kind |-> "loop", a |-> c.r, n |-> n])
          /\ labels' = labels \cup {n0} \cup (IF hasIncr THEN {t.pc, e.pc} ELSE {})
    /\ UNCHANGED <<arch, rsym, fwd, addr, cur, errored, done, refs>>

\* End of a loop body: jump back to n, then gsym(a).
LoopEnd ==
    /\ InFunction /\ stack # <<>> /\ Top.kind = "loop"
    /\ LET j == gjmp(Here, Top.n - pc - jumpOffset)
       IN Commit(gsym(j, Top.a)) /\ labels' = labels \cup {j.pc}
    /\ Pop
    /\ UNCHANGED <<arch, rsym, fwd, addr, cur, errored, done, refs>>

\* break: *breakLabel = gjmp(*breakLabel), an error outside a loop.
Break ==
    /\ InFunction
    /\ IF InnerLoop = 0
       THEN errored' = TRUE /\ UNCHANGED <<pc, mem, stack>>
       ELSE LET j == gjmp(Here, stack[InnerLoop].a)
            IN /\ Commit(j)
               /\ stack' = [stack EXCEPT ![InnerLoop].a = j.r]
               /\ UNCHANGED errored
    /\ UNCHANGED <<arch, rsym, fwd, addr, cur, done, refs, labels>>

\* continue: a jump back to continueAddress, an error outside a loop.
Continue ==
    /\ InFunction
    /\ IF InnerLoop = 0
       THEN errored' = TRUE /\ UNCHANGED <<pc, mem>>
       ELSE Commit(gjmp(Here, stack[InnerLoop].n - pc - jumpOffset)) /\ UNCHANGED errored
    /\ UNCHANGED <<arch, stack, rsym, fwd, addr, cur, done, refs, labels>>

\* return: rsym = gjmp(rsym).
Return ==
    /\ InFunction
    /\ LET j == gjmp(Here, rsym) IN Commit(j) /\ rsym' = j.r
    /\ UNCHANGED <<arch, stack, fwd, addr, cur, errored, done, refs, labels>>

\* End of input: checkForUndefinedForwardReferences.
CompileEnd ==
    /\ cur = None /\ ~done
    /\ done' = TRUE
    /\ errored' = (errored \/ \E g \in Funcs : addr[g] = 0 /\ fwd[g] # 0)
    /\ UNCHANGED <<arch, pc, mem, stack, rsym, fwd, addr, cur, refs, labels>>

Next ==
    \/ \E g \in Funcs : FunctionBegin(g) \/ RefForward(g)
    \/ FunctionEnd \/ ExprStmt \/ IfOpen \/ Else \/ IfEnd \/ WhileOpen
    \/ \E ht, hi \in BOOLEAN : ForOpen(ht, hi)
    \/ LoopEnd \/ Break \/ Continue \/ Return \/ CompileEnd
    \/ \E isOr \in BOOLEAN : LogicalExpr(isOr)

Spec == Init /\ [][Next]_vars

-----------------------------------------------------------------------------
(* Decoding the generated code *)

\* Address a resolved jump at s goes to.
SignExt24(v) == IF v >= 2^23 THEN v - 2^24 ELSE v
Target(s) == IF arch = "arm" THEN s + 8 + 4 * SignExt24(mem[s].f) ELSE s + 4 + mem[s].f

\* The value a forward-reference load at s puts in r0 (0: not a data word).
LoadValue(s) ==
    IF arch = "x86" THEN mem[s].f
    ELSE LET a == s + 8 + (mem[s].f % 4096)
         IN IF a \in DOMAIN mem /\ mem[a].op = "word" THEN mem[a].f ELSE 0

\* The jumps still chained from head t, read from the code.
Chain(t) == IF arch = "arm" THEN armChain(mem, t, Cardinality(DOMAIN mem))
             ELSE x86Chain(mem, t, Cardinality(DOMAIN mem))

\* The chain heads the compiler holds: rsym, and "a" of each open statement.
Slots == {<<"rsym", 0>>} \cup {<<"frame", i>> : i \in 1..MaxDepth}
PendingOf(sl) ==
    IF sl[1] = "rsym" THEN IF cur # None THEN Chain(rsym) ELSE {}
    ELSE IF sl[2] <= Len(stack) THEN Chain(stack[sl[2]].a) ELSE {}
Pending == [sl \in Slots |-> PendingOf(sl)]
JumpSites == {s \in DOMAIN mem : mem[s].op \in JumpOps}
Resolved == JumpSites \ UNION {PendingOf(sl) : sl \in Slots}

Table == INSTANCE AccJumpTable WITH pending <- Pending, target <- [s \in Resolved |-> Target(s)]

-----------------------------------------------------------------------------
(* Properties *)

TypeOK ==
    /\ arch \in Backends
    /\ pc \in Base..MaxPC
    /\ DOMAIN mem \subseteq Base..MaxPC
    /\ \A s \in DOMAIN mem : mem[s].op \in Ops /\ mem[s].f \in Int
    /\ \A s \in DOMAIN mem :
          mem[s].op \in {"b", "beq", "bne"} => mem[s].f \in 0..(BRANCH_REL_ADDRESS_MASK - 1)
    /\ stack \in Seq([kind : {"if", "else", "loop"}, a : Nat, n : Nat])
    /\ Len(stack) <= MaxDepth
    /\ rsym \in Nat
    /\ fwd \in [Funcs -> Nat] /\ addr \in [Funcs -> Nat]
    /\ cur \in Funcs \cup {None}
    /\ errored \in BOOLEAN /\ done \in BOOLEAN
    /\ refs \in [Funcs -> SUBSET (Base..MaxPC)]
    /\ labels \subseteq Base..MaxPC

\* The chains in the code implement the side table of AccJumpTable: the
\* heads held in "a" and rsym reach exactly the jumps still waiting, each
\* gsym resolves every jump of its chain together to one label named in
\* the statement that closes it, a backward jump lands on a label the
\* compiler recorded, and a resolved jump is never rewritten.  This is
\* Compiler::block's use of gjmp/gtst/gsym/jumpOffset on both backends.
\* Which of the statement's labels a chain lands on (break versus else,
\* the else jump before gsym) is not part of the table.
JumpTableRefinement == Table!Spec

\* Once a function is defined, every load of its address emitted before the
\* definition (leaForward, patched by resolveForward) yields that address,
\* unless the compile reported an error.  Spec section 4.7: every call site
\* recorded before the definition resolves to the correct address.
ForwardReferencesResolved ==
    \A g \in Funcs :
        addr[g] # 0 /\ ~errored => \A s \in refs[g] : LoadValue(s) = addr[g]

=============================================================================
