---------------------------- MODULE AccArmCodeBuf ----------------------------
(***************************************************************************)
(* The ARM peephole buffer of libacc (acc.cpp, ARMCodeBuf, 764-972) and   *)
(* the code-generator handlers that feed it words.                         *)
(*                                                                         *)
(* Every word the ARM code generator emits goes through ARMCodeBuf::o4.    *)
(* o4 appends the word to a CircularQueue of SIZE words and then rewrites  *)
(* the tail of the queue with four patterns until none applies.  Words     *)
(* leave the queue for the CodeBuf when the queue is full and on flush,    *)
(* which getPC/getBase/getSize run before they answer.                     *)
(*                                                                         *)
(* Words are abstracted to records [k, f]: k names the instruction (the    *)
(* bits the patterns compare with a constant), f is the field the patterns *)
(* extract (an encoded immediate, the B bit, a shift, a register).  A      *)
(* literal-pool word emitted by liReg, leaR0 or callRuntime is "data"      *)
(* with its value in f; a literal whose bits equal an instruction is that  *)
(* instruction, which is exactly what the pattern matcher sees.            *)
(*                                                                         *)
(* Machine words are scaled from 32 to Width bits; the immediate encoder   *)
(* keeps its structure (an 8-bit value rotated by an even amount).         *)
(***************************************************************************)
EXTENDS Integers, Sequences, FiniteSets, Bitwise

CONSTANTS
    QSize,      \* CircularQueue::SIZE (16 in the code)
    Width,      \* bits of a machine word (32 in the code)
    CodeSize,   \* the size CodeBuf::init was given, in words
    MaxWords,   \* bound on the number of words the generator emits
    MaxLabels,  \* bound on the getPC calls of a body
    Consts,     \* integer constants handed to li
    Colliding,  \* literal values whose bits are an instruction (words)
    Ops,        \* integer operators genOp is called with
    PtrSizes,   \* pointee sizes of pointer + int arithmetic
    LocalEAs,   \* fp-relative offsets (negative) of locals for leaR0
    GlobalEAs,  \* absolute addresses of globals for leaR0
    FnDiv,      \* the address of runtime_DIV
    FP,         \* the frame pointer r11 while the code runs
    R0Init,     \* r0 when the code is entered
    MaxLoc      \* bound on loc, the bytes of locals

Mod == 2^Width

W(k, f) == [k |-> k, f |-> f]
Push  == W("push", 0)     \* stmfd sp!, {r0}   0xE92D0001
PopR1 == W("popr1", 0)    \* ldmfd sp!, {r1}   0xE8BD0002
Mul   == W("mul", 0)      \* mul r0, r2, r0    0xE0000092
B8    == W("b8", 0)       \* b .L99            0xEA000000
Blx   == W("blx", 0)      \* blx r12           0xE12FFF3C
Ret == W("ret", 0)        \* the epilogue of functionExit
AddR1R0 == W("addr", 0)   \* add r0, r1, r0    0xE0810000

\* Register-register operators OP r0, r1, r0 that match the pattern
\* (op & ~opMask) == 0xe0010000, and the immediate form 0xe2000000 | op.
ImmOp == [addr |-> "addi", subr |-> "subi", andr |-> "andi", orrr |-> "orri"]

(***************************************************************************)
(* Immediate encoding: rotateRight, rotateLeft, encode12BitImmediate,     *)
(* decode12BitImmediate, isPowerOfTwo, log2 (724-762).  A shift by the    *)
(* full width (rotate == 0) is undefined in C; both results a build can   *)
(* give (0 or n) leave n | x == n, and (n * 2^Width) % Mod == 0 is one.   *)
(***************************************************************************)
rotateRight(n, r) == (n \div 2^r + ((n * 2^(Width - r)) % Mod)) % Mod
rotateLeft(n, r)  == (((n * 2^r) % Mod) + n \div 2^(Width - r)) % Mod

Rotations == Width \div 2
\* (n | mask) == mask with mask = rotateRight(0xff, 2i): the bits of n lie in
\* the rotated byte, so rotating n back by 2i leaves it below 256.
fits(n, i) == rotateLeft(n, 2 * i) < 256

\* The loop of encode12BitImmediate: the first rotation that fits, or -1.
RECURSIVE firstFit(_, _)
firstFit(n, i) ==
    IF i = Rotations THEN -1 ELSE IF fits(n, i) THEN i ELSE firstFit(n, i + 1)

encode12BitImmediate(n) ==
    LET i == firstFit(n, 0)
    IN  IF i >= 0 THEN [ok |-> TRUE, imm |-> i * 256 + rotateLeft(n, 2 * i)]
        ELSE [ok |-> FALSE, imm |-> 0]

decode12BitImmediate(imm) == rotateRight(imm % 256, 2 * ((imm \div 256) % 16))

isPowerOfTwo(n) == n # 0 /\ (n & (n - 1)) = 0

RECURSIVE log2(_)
log2(n) == IF n \div 2 = 0 THEN 0 ELSE 1 + log2(n \div 2)

(***************************************************************************)
(* CircularQueue (770-814).  q is [buf, head, count].  At(q, i) is        *)
(* operator[]: o4 reads it with i from -count to -1, mQ[-1] being the     *)
(* word pushed last.                                                       *)
(***************************************************************************)
At(q, i) == q.buf[(q.head + q.count + i) % QSize]
pushBack(q, w) == [q EXCEPT !.buf[(q.head + q.count) % QSize] = w,
                            !.count = @ + 1]
popBack(q, n) == [q EXCEPT !.count = @ - n]
full(q) == q.count = QSize
Contents(q) == [i \in 1..q.count |-> q.buf[(q.head + i - 1) % QSize]]

(***************************************************************************)
(* CodeBuf::o4 with check (243-281): a word past mSize is dropped and the  *)
(* overflow reported once.  st is [q, code, overflowed].                   *)
(***************************************************************************)
baseO4(st, w) ==
    IF Len(st.code) + 1 > CodeSize
    THEN [st EXCEPT !.overflowed = TRUE]
    ELSE [st EXCEPT !.code = Append(@, w)]

popFrontTo(st) ==
    LET q == st.q
    IN  [baseO4(st, q.buf[q.head]) EXCEPT
            !.q = [q EXCEPT !.head = (q.head + 1) % QSize, !.count = @ - 1]]

RECURSIVE flush(_)
flush(st) == IF st.q.count = 0 THEN st ELSE flush(popFrontTo(st))

(***************************************************************************)
(* The four rewrites of one pass of the do/while loop of o4 (857-948).    *)
(* Each takes the queue and answers the queue and whether it rewrote.     *)
(***************************************************************************)
NoPeep(q) == [q |-> q, peep |-> FALSE]

\* Mutant of peepConstOperand: the length guard one word short.
peepConstOperandShortGuard(q) ==
    IF q.count >= 3 /\ At(q, -4) = Push /\ At(q, -3).k = "movr0"
       /\ At(q, -2) = PopR1
       /\ At(q, -1).k \in DOMAIN ImmOp /\ At(q, -1).f = 0
    THEN LET combined == W(ImmOp[At(q, -1).k], At(q, -3).f)
         IN  IF combined.k \in {"addi", "subi"} /\ combined.f = 0
             THEN [q |-> popBack(q, 4), peep |-> TRUE]
             ELSE [q |-> pushBack(popBack(q, 4), combined), peep |-> TRUE]
    ELSE NoPeep(q)

\* push; mov r0,#X; pop r1; OP r0,r1,r0  ==>  OP r0,r0,#X, or nothing for
\* add/sub #0.
peepConstOperand(q) ==
    IF q.count >= 4 /\ At(q, -4) = Push /\ At(q, -3).k = "movr0"
       /\ At(q, -2) = PopR1
       /\ At(q, -1).k \in DOMAIN ImmOp /\ At(q, -1).f = 0
    THEN LET combined == W(ImmOp[At(q, -1).k], At(q, -3).f)
         IN  IF combined.k \in {"addi", "subi"} /\ combined.f = 0
             THEN [q |-> popBack(q, 4), peep |-> TRUE]
             ELSE [q |-> pushBack(popBack(q, 4), combined), peep |-> TRUE]
    ELSE NoPeep(q)

\* sub r0,r11,#imm; ldr{b} r0,[r0]  ==>  ldr{b} r0,[r11,#-imm].  The
\* encoded immediate is copied into the 12-bit load offset as it is.
peepFrameLoad(q) ==
    IF q.count >= 2 /\ At(q, -2).k = "subfp" /\ At(q, -1).k = "ldr"
    THEN [q |-> pushBack(popBack(q, 2),
                         W("ldrfp", At(q, -1).f * 4096 + At(q, -2).f)),
          peep |-> TRUE]
    ELSE NoPeep(q)

\* push; mov r0,#c1; pop r1; mov r2,#c2; mul; add  ==>  add r0,r0,#c1*c2,
\* or nothing when the product is 0, if the product encodes.
peepConstIndex(q) ==
    IF q.count >= 6 /\ At(q, -6) = Push /\ At(q, -5).k = "movr0"
       /\ At(q, -4) = PopR1 /\ At(q, -3).k = "movr2"
       /\ At(q, -2) = Mul /\ At(q, -1) = AddR1R0
    THEN LET comboConst == (decode12BitImmediate(At(q, -5).f)
                            * decode12BitImmediate(At(q, -3).f)) % Mod
             e == encode12BitImmediate(comboConst)
         IN  IF ~e.ok THEN NoPeep(q)
             ELSE IF comboConst # 0
                  THEN [q |-> pushBack(popBack(q, 6), W("addi", e.imm)),
                        peep |-> TRUE]
                  ELSE [q |-> popBack(q, 6), peep |-> TRUE]
    ELSE NoPeep(q)

\* mov r2,#stride; mul; add  ==>  add r0,r1,r0,LSL #log2(stride).
peepStride(q) ==
    IF q.count >= 3 /\ At(q, -3).k = "movr2" /\ At(q, -2) = Mul
       /\ At(q, -1) = AddR1R0
       /\ isPowerOfTwo(decode12BitImmediate(At(q, -3).f))
    THEN [q |-> pushBack(popBack(q, 3),
                         W("addr", log2(decode12BitImmediate(At(q, -3).f)))),
          peep |-> TRUE]
    ELSE NoPeep(q)

\* One pass of the loop body: the four checks in code order.
peepPass(q) ==
    LET r1 == peepConstOperand(q)
        r2 == peepFrameLoad(r1.q)
        r3 == peepConstIndex(r2.q)
        r4 == peepStride(r3.q)
    IN  [q |-> r4.q, peep |-> r1.peep \/ r2.peep \/ r3.peep \/ r4.peep]

RECURSIVE peephole(_)
peephole(q) == LET r == peepPass(q) IN IF r.peep THEN peephole(r.q) ELSE r.q

\* ARMCodeBuf::o4: commit the front when full, queue the word, rewrite.
o4(st, w) ==
    LET st1 == IF full(st.q) THEN popFrontTo(st) ELSE st
    IN  [st1 EXCEPT !.q = peephole(pushBack(st1.q, w))]

RECURSIVE o4Seq(_, _)
o4Seq(st, ws) == IF ws = <<>> THEN st ELSE o4Seq(o4(st, Head(ws)), Tail(ws))

(***************************************************************************)
(* What the emitted words compute: a small ARM interpreter.  s is the     *)
(* machine state [pc, r0, r1, r2, r12, stack, fault]; pc is a word index. *)
(* "ldr rN, .L" reads the word two after it (pc+8); "b .L99" skips one    *)
(* word; executing a literal-pool word, popping an empty stack or calling *)
(* anything but runtime_DIV is a fault.  Memory is a fixed function.      *)
(***************************************************************************)
KCode == [data |-> 0, push |-> 1, popr1 |-> 2, movr0 |-> 3, mvnr0 |-> 4,
          movr2 |-> 5, mvnr2 |-> 6, addr |-> 7, subr |-> 8, andr |-> 9,
          orrr |-> 10, addi |-> 11, subi |-> 12, andi |-> 13, orri |-> 14,
          mulr1 |-> 15, mul |-> 16, subfp |-> 17, ldr |-> 18, ldrfp |-> 19,
          ldrpc |-> 20, b8 |-> 21, blx |-> 22, ret |-> 23]
Val(w) == (KCode[w.k] * 4096 + w.f) % Mod

Mem(a) == (a * 37 + 11) % Mod
Load(a, b) == IF b = 1 THEN Mem(a) % 256 ELSE Mem(a)
imm(w) == decode12BitImmediate(w.f)

Fault(s) == [s EXCEPT !.fault = TRUE]
SetR0(s, v) == [s EXCEPT !.pc = @ + 1, !.r0 = v % Mod]

Step(c, s) ==
    LET w == c[s.pc]
    IN  CASE w.k = "push"  -> [s EXCEPT !.pc = @ + 1, !.stack = Append(@, s.r0)]
          [] w.k = "popr1" -> IF s.stack = <<>> THEN Fault(s)
                              ELSE [s EXCEPT !.pc = @ + 1,
                                             !.r1 = s.stack[Len(s.stack)],
                                             !.stack = SubSeq(@, 1, Len(@) - 1)]
          [] w.k = "movr0" -> SetR0(s, imm(w))
          [] w.k = "mvnr0" -> SetR0(s, Mod - 1 - imm(w))
          [] w.k = "movr2" -> [s EXCEPT !.pc = @ + 1, !.r2 = imm(w)]
          [] w.k = "mvnr2" -> [s EXCEPT !.pc = @ + 1, !.r2 = Mod - 1 - imm(w)]
          [] w.k = "addr"  -> SetR0(s, s.r1 + s.r0 * 2^w.f)
          [] w.k = "subr"  -> SetR0(s, s.r1 - s.r0)
          [] w.k = "andr"  -> SetR0(s, s.r1 & s.r0)
          [] w.k = "orrr"  -> SetR0(s, s.r1 | s.r0)
          [] w.k = "addi"  -> SetR0(s, s.r0 + imm(w))
          [] w.k = "subi"  -> SetR0(s, s.r0 - imm(w))
          [] w.k = "andi"  -> SetR0(s, s.r0 & imm(w))
          [] w.k = "orri"  -> SetR0(s, s.r0 | imm(w))
          [] w.k = "mulr1" -> SetR0(s, s.r1 * s.r0)
          [] w.k = "mul"   -> SetR0(s, s.r2 * s.r0)
          [] w.k = "subfp" -> SetR0(s, FP - imm(w))
          [] w.k = "ldr"   -> SetR0(s, Load(s.r0, w.f))
          [] w.k = "ldrfp" -> SetR0(s, Load((FP - (w.f % 4096)) % Mod, w.f \div 4096))
          [] w.k = "ldrpc" -> IF s.pc + 2 > Len(c) THEN Fault(s)
                              ELSE LET v == Val(c[s.pc + 2])
                                   IN  CASE w.f = 0 -> SetR0(s, v)
                                         [] w.f = 2 -> [s EXCEPT !.pc = @ + 1, !.r2 = v]
                                         [] OTHER  -> [s EXCEPT !.pc = @ + 1, !.r12 = v]
          [] w.k = "b8"    -> [s EXCEPT !.pc = @ + 2]
          [] w.k = "ret"   -> [s EXCEPT !.pc = Len(c) + 1]
          [] w.k = "blx"   -> IF s.r12 = FnDiv /\ s.r0 # 0
                              THEN SetR0(s, s.r1 \div s.r0) ELSE Fault(s)
          [] OTHER         -> Fault(s)

RECURSIVE Exec(_, _)
Exec(c, s) == IF s.fault \/ s.pc > Len(c) THEN s ELSE Exec(c, Step(c, s))

Start(pc) == [pc |-> pc, r0 |-> R0Init, r1 |-> 0, r2 |-> 0, r12 |-> 0,
              stack |-> <<>>, fault |-> FALSE]

\* What is observable after running c from word pc: r0 and the stack, or a
\* fault.  r1, r2 and r12 are scratch registers the generator always sets
\* before it reads them.
Outcome(c, pc) ==
    LET s == Exec(c, Start(pc))
    IN  IF s.fault THEN [fault |-> TRUE, r0 |-> 0, stack |-> <<>>]
        ELSE [fault |-> FALSE, r0 |-> s.r0, stack |-> s.stack]

(***************************************************************************)
(* The words each code-generator handler passes to o4.                    *)
(***************************************************************************)
\* A literal value is given as the word its bits form: W("data", v) for an
\* ordinary value v, an instruction word for a value of Colliding.
literalPool(reg, w) == <<W("ldrpc", reg), B8, w>>

\* liReg (2264-2279): mov, else mvn, else ldr rN,.L3; b .L99; .L3: .word t.
\* A value of Colliding has its bits spread over the whole word, so it is
\* never a rotated byte and always goes to the literal pool.
liReg(t, reg) ==
    LET e == encode12BitImmediate(t.f)
        n == encode12BitImmediate((Mod - (t.f + 1)) % Mod)
    IN  CASE t.k # "data" -> literalPool(reg, t)
          [] e.ok -> <<W(IF reg = 0 THEN "movr0" ELSE "movr2", e.imm)>>
          [] n.ok -> <<W(IF reg = 0 THEN "mvnr0" ELSE "mvnr2", n.imm)>>
          [] OTHER -> literalPool(reg, t)

\* callRuntime (2285-2290): ldr r12,.L1; b .L99; .L1: .word fn; blx r12.
callRuntime(fn) == <<W("ldrpc", 12), B8, W("data", fn), Blx>>

\* The integer branch of genOp (1362-1394) after setupIntPtrArgs.
OpWords(op) ==
    CASE op = "add" -> <<AddR1R0>>
      [] op = "sub" -> <<W("subr", 0)>>
      [] op = "and" -> <<W("andr", 0)>>
      [] op = "orr" -> <<W("orrr", 0)>>
      [] op = "mul" -> <<W("mulr1", 0)>>
      [] OTHER      -> callRuntime(FnDiv)

\* setupIntPtrArgs (2149-2153): ldmfd sp!, {r1}.
setupIntPtrArgs == <<PopR1>>

LiInputs == {W("data", t) : t \in Consts} \cup Colliding

VARIABLES
    mBuf, mHead, mCount,  \* ARMCodeBuf::mQ
    code,                 \* the words CodeBuf holds, in order
    overflowed,           \* CodeBuf::mOverflowed
    emitted,              \* ghost: every word passed to ARMCodeBuf::o4
    labels,               \* ghost: [pc, e] for every getPC answer
    loc,                  \* Compiler::loc, the frame size of the function
    exited,               \* functionExit has run
    errored               \* the compile has reported an error

vars == <<mBuf, mHead, mCount, code, overflowed, emitted, labels, loc,
          exited, errored>>

St == [q |-> [buf |-> mBuf, head |-> mHead, count |-> mCount],
       code |-> code, overflowed |-> overflowed]

SetSt(st) ==
    /\ mBuf' = st.q.buf
    /\ mHead' = st.q.head
    /\ mCount' = st.q.count
    /\ code' = st.code
    /\ overflowed' = st.overflowed

\* The contents of mBuf before the first pushBack are never read; they
\* are fixed to one word.
Init ==
    /\ mBuf = [i \in 0..(QSize - 1) |-> W("data", 0)]
    /\ mHead = 0
    /\ mCount = 0
    /\ code = <<>>
    /\ overflowed = FALSE
    /\ emitted = <<>>
    /\ labels = {}
    /\ loc = 0
    /\ exited = FALSE
    /\ errored = FALSE

\* A handler of the function body that emits ws, one o4 call per word.
EmitWords(ws) ==
    /\ ~exited
    /\ Len(emitted) + Len(ws) <= MaxWords
    /\ SetSt(o4Seq(St, ws))
    /\ emitted' = emitted \o ws
    /\ UNCHANGED <<labels, exited>>

Emit(ws) == EmitWords(ws) /\ UNCHANGED <<loc, errored>>

\* li (1057-1060).
li(t) == Emit(liReg(t, 0))

\* pushR0 for an int or pointer (1580).
pushR0 == Emit(<<Push>>)

\* genOp for two ints.
genOp(op) == Emit(setupIntPtrArgs \o OpWords(op))

\* genOp for pointer + int with the pointer on the stack (1330-1349).
genOpPointer(size) ==
    Emit(setupIntPtrArgs
         \o (IF size # 1 THEN liReg(W("data", size), 2) \o <<Mul>> ELSE <<>>)
         \o <<AddR1R0>>)

\* localDeclarations (5752-5755): the word-aligned local that ends -ea
\* bytes below fp grows the frame to -ea; locals are declared in order, so
\* loc is the deepest one.
declareLocal(l, ea) == IF -ea > l THEN -ea ELSE l

\* leaR0 (1733-1757) of a local, declared before or just now: fp-relative;
\* an offset that does not encode is an error.
LocalEncoding == [ea \in LocalEAs |-> encode12BitImmediate(-ea)]

leaR0Local(ea) ==
    LET e == LocalEncoding[ea]
    IN  /\ declareLocal(loc, ea) <= MaxLoc
        /\ EmitWords(<<W("subfp", e.imm)>>)
        /\ loc' = declareLocal(loc, ea)
        /\ errored' = (errored \/ ~e.ok)
leaR0Global(ea) == Emit(literalPool(0, W("data", ea)))

\* loadR0FromR0 (1691-1705): ldr for an int or pointer, ldrb for a char.
loadR0FromR0(b) == Emit(<<W("ldr", b)>>)

\* Mutant of getPC: the CodeBuf's pc without flushing the queue first.
getPCNoFlush ==
    /\ ~exited
    /\ Cardinality(labels) < MaxLabels
    /\ labels' = labels \cup {[pc |-> Len(code) + 1, e |-> Len(emitted) + 1]}
    /\ UNCHANGED <<mBuf, mHead, mCount, code, overflowed, emitted, loc,
                   exited, errored>>

\* ARMCodeBuf::getPC (969-971): flush, then the CodeBuf's pc; gsym, gjmp,
\* leaForward and functionEntry take their labels this way.  A body calls
\* it at most MaxLabels times, each answer recorded.
getPC ==
    LET st == flush(St)
    IN  /\ ~exited
        /\ Cardinality(labels) < MaxLabels
        /\ SetSt(st)
        /\ labels' = labels \cup {[pc |-> Len(st.code) + 1, e |-> Len(emitted) + 1]}
        /\ UNCHANGED <<emitted, loc, exited, errored>>

\* STACK_ALIGNMENT of ARMCodeGenerator (2452)
STACK_ALIGNMENT == 8

\* Mutant of the range check: the limit of ldr's 12-bit offset, not of the
\* 8-bit sub immediate the frame allocation is patched into.
frameOutOfRangeLdrLimit(size) == size < 0 \/ size > 4095

\* The range check of the local-variable allocation (1016).
frameOutOfRange(size) == size < 0 \/ size > 255

(* functionExit (1011-1060): round loc up to STACK_ALIGNMENT, report a     *)
(* frame the patched "sub sp, sp, #size" cannot hold, then emit the        *)
(* epilogue, which returns: Ret stands for its words, none of which a      *)
(* peephole pattern matches.                                               *)
functionExit ==
    LET size == ((loc + STACK_ALIGNMENT - 1) \div STACK_ALIGNMENT) * STACK_ALIGNMENT
    IN  /\ ~exited
        /\ SetSt(o4(St, Ret))
        /\ emitted' = Append(emitted, Ret)
        /\ exited' = TRUE
        /\ errored' = (errored \/ frameOutOfRange(size))
        /\ UNCHANGED <<labels, loc>>

Next ==
    \/ functionExit
    \/ \E t \in LiInputs : li(t)
    \/ pushR0
    \/ \E op \in Ops : genOp(op)
    \/ \E size \in PtrSizes : genOpPointer(size)
    \/ \E ea \in LocalEAs : leaR0Local(ea)
    \/ \E ea \in GlobalEAs : leaR0Global(ea)
    \/ \E b \in {0, 1} : loadR0FromR0(b)
    \/ getPC

Spec == Init /\ [][Next]_vars

(***************************************************************************)
(* Properties                                                              *)
(***************************************************************************)
Kinds == DOMAIN KCode
Words == [k : Kinds, f : 0..(Mod - 1)]

TypeOK ==
    /\ mBuf \in [0..(QSize - 1) -> Words]
    /\ mHead \in 0..(QSize - 1)
    /\ mCount \in 0..QSize
    /\ \A i \in DOMAIN code : code[i] \in Words
    /\ overflowed \in BOOLEAN
    /\ loc \in 0..MaxLoc
    /\ exited \in BOOLEAN /\ errored \in BOOLEAN

\* The peephole rewrites of ARMCodeBuf::o4 and the flushes of getPC never
\* change what the code computes: the committed words followed by the queue,
\* run from the start or from any label getPC handed out, give the same r0
\* and stack as the words the generator passed to o4, run from the same
\* point.  (Unless CodeBuf overflowed, which fails the compile.)
PeepholePreservesSemantics ==
    ~overflowed =>
        \A l \in labels \cup {[pc |-> 1, e |-> 1]} :
            Outcome(code \o Contents(St.q), l.pc) = Outcome(emitted, l.e)

(* What a compile keeps: once functionExit has run with no error reported *)
(* (an offset leaR0 cannot encode, a frame the allocation cannot hold) and *)
(* no CodeBuf overflow, the committed words and the queue compute, from    *)
(* the start and from every label, what the words of the handlers compute. *)
(* The frame-load peephole copies the encoded, rotated immediate of sub    *)
(* into ldr's plain offset, which is right only below 256: this relies on  *)
(* functionExit rejecting every frame that has a local that deep.          *)
CompiledFunctionComputesSource ==
    exited /\ ~errored => PeepholePreservesSemantics

=============================================================================
