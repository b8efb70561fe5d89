----------------------------- MODULE AccX86Expr -----------------------------
(***************************************************************************)
(* The expression compiler of libacc on the x86 backend: the parser's      *)
(* expression rules (unary, unaryOrAssignment, binaryOp, doIncDec, calls)  *)
(* driving the X86CodeGenerator handlers, with the type stack              *)
(* mExpressionStack of CodeGenerator that the handlers keep beside the     *)
(* machine's operand stack.                                                *)
(*                                                                         *)
(* The emitted instructions are not stored: each handler applies them, in  *)
(* the code's order, to an abstract i386 machine: eax, ecx, the word stack *)
(* (esp) and the x87 register stack.  Values are terms, so the machine    *)
(* computes the term its instructions compute.  Beside it, the parser's    *)
(* frames compute the term the source expression denotes (src).  A store,  *)
(* a test and a call are observable; mobs is what the machine does, sobs   *)
(* what the source says.                                                   *)
(***************************************************************************)
EXTENDS Integers, Sequences, SequencesExt, FiniteSets

CONSTANTS
    Vars,           \* the variables in scope, name -> type
    BinOps,         \* binary operators the texts use
    Nums,           \* integer literals
    MaxDepth,       \* nesting of the parser's frames
    MaxStmts,       \* statements per function body
    MaxLeaves,      \* operands (numbers, literals, names) per statement
    UnOps,          \* prefix operators among "-", "+", "!", "~"
    Casts,          \* the types of the casts the texts use
    UseAssignValue  \* FALSE: an assignment's value is only ever discarded

VARIABLES
    es,       \* mExpressionStack: <<[t, et]>>, the last entry is R0
    eax, fpu, stk,  \* the machine: eax, x87 stack (top last), word stack (top last)
    ctl,      \* the parser's pending frames (its recursion), innermost last
    phase,    \* "idle", "need" (an operand is expected), "have" (R0 holds one)
    src,      \* the source term of the operand in R0
    errored,  \* error() was called: the compile fails
    stmts, leaves, lastAssign,
    mobs, sobs

vars == <<es, eax, fpu, stk, ctl, phase, src, errored, stmts, leaves, lastAssign, mobs, sobs>>

-----------------------------------------------------------------------------
(* Types: Type records reduced to their tag and head. *)

Scalar(tag) == [tag |-> tag]
Ptr(h) == [tag |-> "ptr", head |-> h]
Fn(r, ps) == [tag |-> "func", head |-> r, params |-> ps]
IntT == Scalar("int")
NullType == Scalar("null")

\* collapseType
Collapse(t) ==
    IF t.tag \in {"int", "char", "short", "ptr"} THEN "int"
    ELSE IF t.tag \in {"float", "double"} THEN t.tag ELSE "void"

IsFloat(t) == t.tag \in {"float", "double"}
IsPtr(t) == t.tag = "ptr"
\* The type a pointer points to (the null type for anything else).
Pointee(t) == IF IsPtr(t) THEN t.head ELSE NullType

\* X86CodeGenerator::sizeOf for the types here
SizeOf(t) == CASE t.tag = "char" -> 1 [] t.tag = "short" -> 2
                [] t.tag = "double" -> 8 [] OTHER -> 4

-----------------------------------------------------------------------------
(* Terms.  Lt/Le are the two comparison forms; Gt and Ge are written with  *)
(* them, so a comparison computed either way round gives the same term.    *)

Num(k) == <<"num", k>>
Ld(a) == <<"ld", a>>
Lt(x, y) == <<"<", x, y>>
Le(x, y) == <<"<=", x, y>>
Gt(x, y) == Lt(y, x)
Ge(x, y) == Le(y, x)
Junk == <<"junk">>
Nan == <<"nan">>     \* what an x87 load from an empty or full stack yields
Zero == <<"zero">>

\* The meaning of a conversion between int-like and float-like values.
Conv(v, from, to) ==
    IF Collapse(from) = "int" /\ IsFloat(to) THEN <<"i2f", v>>
    ELSE IF IsFloat(from) /\ Collapse(to) = "int" THEN <<"f2i", v>>
    ELSE v

-----------------------------------------------------------------------------
(* The machine.  g is [es, eax, ecx, fpu, stk, err, obs]; each operator    *)
(* is one instruction.  A word is [v, k]: k is "i" for 32 bits written     *)
(* from eax, "f" for a float, "d" for half of a double, "args" for the      *)
(* argument area of a call.                                                *)

W(v, k) == [v |-> v, k |-> k]
\* After an error the parser goes on emitting; the code is discarded, so
\* the operations below are total on the stacks an error leaves.
Drop(s) == IF s = <<>> THEN s ELSE Front(s)
Top(g) == IF g.stk = <<>> THEN W(Junk, "i") ELSE Last(g.stk)
IntOf(w) == IF w.k = "i" THEN w.v ELSE Junk

push_eax(g) == [g EXCEPT !.stk = Append(@, W(g.eax, "i"))]
pop_eax(g) == [g EXCEPT !.eax = IntOf(Top(g)), !.stk = Drop(@)]
pop_ecx(g) == [g EXCEPT !.ecx = IntOf(Top(g)), !.stk = Drop(@)]
push_ecx(g) == [g EXCEPT !.stk = Append(@, W(g.ecx, "i"))]
mov_eax(g, v) == [g EXCEPT !.eax = v]

\* x87: eight registers; a load onto a full stack gives the indefinite NaN.
St0(g) == IF g.fpu = <<>> THEN Nan ELSE Last(g.fpu)
St1(g) == IF Len(g.fpu) < 2 THEN Nan ELSE g.fpu[Len(g.fpu) - 1]
fld(g, v) == [g EXCEPT !.fpu = IF Len(@) = 8 THEN Append(Tail(@), Nan) ELSE Append(@, v)]
fpop(g) == [g EXCEPT !.fpu = IF @ = <<>> THEN @ ELSE Front(@)]
fildl_esp(g) == fld(g, IF Top(g).k = "i" THEN <<"i2f", Top(g).v>> ELSE Junk)
flds_esp(g) == fld(g, IF Top(g).k = "f" THEN Top(g).v ELSE Junk)
fldl_esp(g) == fld(g, IF Len(g.stk) >= 2 /\ Top(g).k = "d" /\ g.stk[Len(g.stk) - 1] = Top(g)
                      THEN Top(g).v ELSE Junk)
fstps_esp(g) == fpop([g EXCEPT !.stk[Len(g.stk)] = W(St0(g), "f")])
fstpl_esp(g) == fpop([g EXCEPT !.stk[Len(g.stk)] = W(St0(g), "d"),
                               !.stk[Len(g.stk) - 1] = W(St0(g), "d")])
\* fxch %st(1)
fxch(g) == IF Len(g.fpu) < 2 THEN g
           ELSE [g EXCEPT !.fpu[Len(g.fpu)] = St1(g), !.fpu[Len(g.fpu) - 1] = St0(g)]
\* The term a flag test computes after fucompp compared x = st(0) with
\* y = st(1): seta is x > y, "testb $5,%ah; sete" is x >= y, and the
\* fldz/fucompp/setne/setp/xor 1 of a logical not is y == 0.
FCmp(rel, x, y) == CASE rel = "gt" -> Gt(x, y) [] rel = "ge" -> Ge(x, y)
                     [] rel = "eqz" -> <<"!", y>>
\* fucompp: compare st(0) with st(1), pop both; the flags land in eax.
fucompp(g, rel) == [fpop(fpop(g)) EXCEPT !.eax = FCmp(rel, St0(g), St1(g))]
\* faddp, fmulp, fsubrp, fdivrp (de c1, de c9, de e1, de f1): st(1) :=
\* st(0) op st(1), then pop.
farith(g, op) == fld(fpop(fpop(g)), <<op, St0(g), St1(g)>>)
observe(g, o) == [g EXCEPT !.obs = o]

-----------------------------------------------------------------------------
(* The type stack: CodeGenerator's pushType, popType, overType, setR0Type. *)

R0(g) == Last(g.es)
TOS(g) == IF Len(g.es) < 2 THEN [t |-> NullType, et |-> "rv"] ELSE g.es[Len(g.es) - 1]
pushType(g) == [g EXCEPT !.es = Append(@, Last(@))]
popType(g) == IF Len(g.es) < 2 THEN g ELSE [g EXCEPT !.es = Front(@)]
overType(g) ==
    LET n == Len(g.es)
    IN IF n >= 2 THEN [g EXCEPT !.es = Append(SubSeq(@, 1, n - 2), @[n]) \o <<@[n - 1], @[n]>>]
       ELSE g
setR0Type(g, t) == [g EXCEPT !.es[Len(g.es)] = [t |-> t, et |-> "rv"]]
setR0TypeEt(g, t, et) == [g EXCEPT !.es[Len(g.es)] = [t |-> t, et |-> et]]
error(g) == [g EXCEPT !.err = TRUE]

-----------------------------------------------------------------------------
(* X86CodeGenerator handlers, each in the code's order of instructions and *)
(* type-stack calls.  An assert(false) of the code reports an error.       *)

\* enum TypeTag order, for genOp's "tagR0 > tagTOS"
TagOrder(t) == CASE t.tag = "int" -> 0 [] t.tag = "char" -> 1 [] t.tag = "short" -> 2
                 [] t.tag = "float" -> 4 [] t.tag = "double" -> 5 [] OTHER -> 6

li(g, k) == setR0Type(mov_eax(g, Num(k)), IntT)

loadFloat(g, t) == fld(setR0Type(g, t), <<"flit", t.tag>>)

leaR0(g, x, t, et) == setR0TypeEt(mov_eax(g, <<"addr", x>>), t, et)

loadR0FromR0(g) ==
    LET nt == R0(g).t.head
    IN IF ~IsPtr(R0(g).t) THEN error(g)
       ELSE CASE Collapse(nt) = "int" -> setR0Type(mov_eax(g, Ld(g.eax)), nt)
              [] IsFloat(nt)          -> setR0Type(fld(g, Ld(g.eax)), nt)
              [] OTHER                -> setR0Type(error(g), nt)

forceR0RVal(g) == IF R0(g).et = "lv" THEN loadR0FromR0(g) ELSE g

\* Mutant: a double pushed like a float, in one word.
pushR0DoubleAsFloat(g) ==
    CASE Collapse(R0(g).t) = "int"    -> pushType(push_eax(g))
      [] IsFloat(R0(g).t)             -> pushType(fstps_esp(push_eax(g)))
      [] OTHER                        -> pushType(error(g))

pushR0(g) ==
    CASE Collapse(R0(g).t) = "int"    -> pushType(push_eax(g))
      [] Collapse(R0(g).t) = "float"  -> pushType(fstps_esp(push_eax(g)))
      [] Collapse(R0(g).t) = "double" -> pushType(fstpl_esp(push_eax(push_eax(g))))
      [] OTHER                        -> pushType(error(g))

popR0(g) ==
    CASE Collapse(R0(g).t) = "int"    -> popType(pop_eax(g))
      [] Collapse(R0(g).t) = "float"  -> popType(pop_eax(flds_esp(g)))
      [] Collapse(R0(g).t) = "double" -> popType(pop_eax(pop_eax(fldl_esp(g))))
      [] OTHER                        -> popType(error(g))

\* pop %ecx; push %eax; push %ecx
over(g) ==
    LET a == IF Collapse(R0(g).t) = "int" /\ Collapse(TOS(g).t) = "int" THEN g ELSE error(g)
    IN overType(push_ecx(push_eax(pop_ecx(a))))

\* Both operands onto the x87 stack: st(0) = TOS (left), st(1) = R0.
setupFloatOperands(g) ==
    LET a == IF ~IsFloat(R0(g).t) THEN pop_eax(fildl_esp(push_eax(g))) ELSE g
        b == IF ~IsFloat(TOS(g).t) THEN pop_eax(fildl_esp(a))
             ELSE IF TOS(g).t.tag = "float" THEN pop_eax(flds_esp(a))
             ELSE pop_eax(pop_eax(fldl_esp(a)))
    IN popType(b)

\* The integer instruction groups of operatorHelper, with ecx = left and
\* eax = right: add, "sub %ecx,%eax; neg %eax", imul, "xchg; cltd; idiv".
\* setl and setge after "cmp %eax,%ecx" test ecx < eax and ecx >= eax.
IntOp(op, x, y) == CASE op = "<" -> Lt(x, y) [] op = ">=" -> Ge(x, y)
                     [] OTHER -> <<op, x, y>>

\* pop %ecx; <op>; popType (the int/int branch of genOp)
genOpInt(g, op) ==
    LET a == pop_ecx(g) IN popType(mov_eax(a, IntOp(op, a.ecx, a.eax)))

\* imull $size
Scale(v, size) == IF size = 1 THEN v ELSE <<"*", v, Num(size)>>

genOp(g, op) ==
    LET r0 == R0(g).t
        tos == TOS(g).t
    IN
    IF ~IsFloat(r0) /\ ~IsFloat(tos) THEN
        IF IsPtr(r0) /\ IsPtr(tos) THEN
            LET e == IF op # "-" \/ r0 # tos THEN error(g) ELSE g
                a == setR0Type(genOpInt(e, op), IntT)
                size == SizeOf(r0.head)
            IN IF size # 1 THEN genOpInt(li(pushR0(a), size), "/") ELSE a
        ELSE IF IsPtr(r0) \/ IsPtr(tos) THEN
            LET e == IF op = "+" \/ (op = "-" /\ IsPtr(r0)) THEN g ELSE error(g)
                pt == IF IsPtr(r0) THEN r0 ELSE tos
                a == pop_ecx(e)
                b == IF IsPtr(r0) THEN [a EXCEPT !.ecx = Scale(@, SizeOf(pt.head))]
                     ELSE mov_eax(a, Scale(a.eax, SizeOf(pt.head)))
            IN setR0Type(popType(mov_eax(b, IntOp(op, b.ecx, b.eax))), pt)
        ELSE genOpInt(g, op)
    ELSE
        LET rt == IF TagOrder(r0) > TagOrder(tos) THEN r0 ELSE tos
            a == setupFloatOperands(g)
        IN setR0Type(IF op \in {"+", "-", "*", "/"} THEN farith(a, op) ELSE error(a), rt)

\* pop %ecx; cmp %eax,%ecx; li(0); setxx %al; popType, or the x87 compare;
\* the less-than forms exchange st(0) and st(1) first.
\* Mutant: the less-than compare without the fxch.
gcmpNoFxch(g, op) ==
    IF ~IsFloat(R0(g).t) /\ ~IsFloat(TOS(g).t)
    THEN LET a == pop_ecx(g)
         IN setR0Type(popType(mov_eax(li(a, 0), IntOp(op, a.ecx, a.eax))), IntT)
    ELSE LET a == setupFloatOperands(g)
         IN setR0Type(CASE op = "<"  -> fucompp(a, "gt")
                        [] op = ">=" -> fucompp(a, "ge")
                        [] OTHER     -> error(a), IntT)

gcmp(g, op) ==
    IF ~IsFloat(R0(g).t) /\ ~IsFloat(TOS(g).t)
    THEN LET a == pop_ecx(g)
         IN setR0Type(popType(mov_eax(li(a, 0), IntOp(op, a.ecx, a.eax))), IntT)
    ELSE LET a == setupFloatOperands(g)
         IN setR0Type(CASE op = "<"  -> fucompp(fxch(a), "gt")
                        [] op = ">=" -> fucompp(a, "ge")
                        [] OTHER     -> error(a), IntT)

\* The test of gtst: "test %eax,%eax", or "fldz; fucompp; fnstsw; sahf".
gtst(g) ==
    IF IsFloat(R0(g).t)
    THEN LET a == fld(g, Zero) IN observe(fpop(fpop(a)), <<"test", St1(a)>>)
    ELSE observe(g, <<"test", g.eax>>)

gUnaryCmp(g) ==
    CASE Collapse(R0(g).t) = "int" -> setR0Type(mov_eax(li(g, 0), <<"!", g.eax>>), IntT)
      [] IsFloat(R0(g).t)          -> setR0Type(fucompp(fld(g, Zero), "eqz"), IntT)
      [] OTHER                     -> setR0Type(error(g), IntT)

\* "movl $0,%ecx; sub %ecx,%eax; neg %eax", "not %eax", or fchs.
genUnaryOp(g, op) ==
    CASE Collapse(R0(g).t) = "int" -> mov_eax(g, <<op, g.eax>>)
      [] IsFloat(R0(g).t) /\ op = "-" -> fld(fpop(g), <<"-", St0(g)>>)
      [] OTHER -> error(g)

\* convertR0Imp: fildl through the stack for int to float, fistpl with the
\* rounding mode saved and restored for float to int; pointers are checked
\* for compatibility; everything else is a relabelling.
convertR0Imp(g, t, isCast) ==
    LET r == R0(g).t
        i2f(h) == pop_eax(fildl_esp(push_eax(h)))
        f2i(h) == LET a == push_eax(push_eax(h))
                  IN pop_eax(pop_eax(fpop([a EXCEPT !.stk[Len(a.stk) - 1] =
                                                 W(<<"f2i", St0(a)>>, "i")])))
    IN
    IF r = NullType THEN setR0Type(error(g), t)
    ELSE IF IsPtr(t) /\ IsPtr(r) THEN
        setR0Type(IF r = t \/ t.head.tag = "void" \/ isCast THEN g ELSE error(g), t)
    ELSE IF Collapse(t) = Collapse(r) \/ (IsFloat(t) /\ IsFloat(r)) THEN setR0Type(g, t)
    ELSE IF Collapse(r) = "int" /\ IsFloat(t) THEN setR0Type(i2f(g), t)
    ELSE IF IsFloat(r) /\ Collapse(t) = "int" THEN setR0Type(f2i(g), t)
    ELSE setR0Type(error(g), t)

convertR0(g, t) == convertR0Imp(g, t, FALSE)
castR0(g, t) == convertR0Imp(g, t, TRUE)

\* convertR0 to the pointee; pop %ecx; the store through %ecx (movl, movw,
\* movb, or fstps/fstpl, which pop the x87 stack); R0 gets the pointee type.
storeR0ToTOS(g) ==
    LET tt == TOS(g).t.head
        a == popType(pop_ecx(convertR0(g, tt)))
        b == CASE Collapse(tt) = "int" -> observe(a, <<"store", a.ecx, a.eax>>)
               [] IsFloat(tt)          -> fpop(observe(a, <<"store", a.ecx, St0(a)>>))
               [] OTHER                -> error(a)
    IN IF ~IsPtr(TOS(g).t) THEN error(g) ELSE setR0Type(b, tt)

\* sub $xxx,%esp: the argument area, patched with its size at the end.
beginFunctionCallArguments(g) == [g EXCEPT !.stk = Append(@, W(<<>>, "args"))]

\* movl %eax / fstps / fstpl into the argument area at offset l.
storeR0ToArg(g, t) ==
    LET a == convertR0(g, t)
        put(v) == IF Top(a).k # "args" THEN error(a)
                  ELSE [a EXCEPT !.stk[Len(a.stk)].v = Append(@, v)]
    IN CASE Collapse(R0(a).t) = "int" -> put(a.eax)
         [] IsFloat(R0(a).t)          -> fpop(put(St0(a)))
         [] OTHER                     -> error(a)

\* popType; setR0Type(return type); call *l(%esp), which finds the
\* function pointer pushed before the argument area.  The result comes
\* back in eax, or in st(0) for float and double.
callIndirect(g, ft) ==
    LET a == setR0Type(popType(g), ft.head)
        fnw == IF Len(a.stk) < 2 THEN W(Junk, "i") ELSE a.stk[Len(a.stk) - 1]
        c == observe(a, <<"call", IntOf(fnw), Top(a).v>>)
        ret == <<"ret", IntOf(fnw), Top(a).v>>
    IN IF IsFloat(ft.head) THEN fld(c, ret) ELSE mov_eax(c, ret)

\* add $l+4,%esp: the argument area and the function pointer.
adjustStackAfterCall(g) == [g EXCEPT !.stk = SubSeq(@, 1, Len(@) - 2)]

-----------------------------------------------------------------------------
(* The parser's helpers over the generator. *)

checkLVal(g) == IF R0(g).et # "lv" THEN error(g) ELSE g

\* doIncDec: R0 holds the lvalue.
doIncDec(g, isInc, isPost) ==
    LET lit == IF isInc THEN 1 ELSE -1
        a == loadR0FromR0(pushR0(checkLVal(g)))
        b == IF Collapse(R0(a).t) = "int" THEN a ELSE error(a)
    IN IF isPost
       THEN popR0(storeR0ToTOS(genOp(li(pushR0(over(b)), lit), "+")))
       ELSE popR0(storeR0ToTOS(over(genOp(li(pushR0(b), lit), "+"))))

doPointer(g) ==
    LET a == forceR0RVal(g)
    IN IF ~IsPtr(R0(a).t) THEN error(a)
       ELSE IF R0(a).t.head.tag # "func" THEN setR0TypeEt(a, R0(a).t, "lv") ELSE a

\* Mutant: '&' wraps the type in a pointer again.
doAddressOfRewrap(g) ==
    LET t == R0(g).t
        isFuncPtr == IsPtr(t) /\ t.head.tag = "func"
        a == IF ~isFuncPtr /\ R0(g).et # "lv" THEN error(g) ELSE g
    IN setR0TypeEt(a, Ptr(t), "rv")

doAddressOf(g) ==
    LET t == R0(g).t
        isFuncPtr == IsPtr(t) /\ t.head.tag = "func"
        a == IF ~isFuncPtr /\ R0(g).et # "lv" THEN error(g) ELSE g
    IN setR0TypeEt(a, t, "rv")

-----------------------------------------------------------------------------
(* The meaning of the source, built beside the code. *)

\* The value of an operand once forceR0RVal has made it an rvalue.
SrcR(v) == IF Last(es).et = "lv" THEN Ld(v) ELSE v

\* The C meaning of a binary operator on operands of the given types: the
\* usual conversions, and pointer arithmetic in units of the pointee.
SrcBin(op, lt, l, rt, r) ==
    IF IsFloat(lt) \/ IsFloat(rt)
    THEN LET x == Conv(l, lt, Scalar("double"))
             y == Conv(r, rt, Scalar("double"))
         IN IF op = "<" THEN Lt(x, y) ELSE IF op = ">=" THEN Ge(x, y) ELSE <<op, x, y>>
    ELSE IF op \in {"<", ">="} THEN IntOp(op, l, r)
    ELSE IF IsPtr(lt) /\ IsPtr(rt)
    THEN IF SizeOf(lt.head) = 1 THEN <<"-", l, r>>
         ELSE <<"/", <<"-", l, r>>, Num(SizeOf(lt.head))>>
    ELSE IF IsPtr(lt) THEN <<op, l, Scale(r, SizeOf(lt.head))>>
    ELSE IF IsPtr(rt) THEN <<op, Scale(l, SizeOf(rt.head)), r>>
    ELSE IntOp(op, l, r)

-----------------------------------------------------------------------------
(* The state as a machine record, and back. *)

Cur == [es |-> es, eax |-> eax, ecx |-> Junk, fpu |-> fpu, stk |-> stk,
        err |-> FALSE, obs |-> mobs]

Apply(g) == /\ es' = g.es /\ eax' = g.eax /\ fpu' = g.fpu /\ stk' = g.stk
            /\ errored' = g.err /\ mobs' = g.obs

TopFrame == Last(ctl)
Open(fr) == /\ Len(ctl) < MaxDepth
            /\ ctl' = Append(ctl, fr)
Close == ctl' = Front(ctl)

\* The word a pushR0 of an operand of type t leaves on the stack.
Words(v, t) == CASE Collapse(t) = "int"    -> <<W(v, "i")>>
                 [] Collapse(t) = "float"  -> <<W(v, "f")>>
                 [] Collapse(t) = "double" -> <<W(v, "d"), W(v, "d")>>
                 [] OTHER -> <<>>

Init ==
    /\ es = <<[t |-> NullType, et |-> "rv"]>>
    /\ eax = Junk /\ fpu = <<>> /\ stk = <<>>
    /\ ctl = <<>> /\ phase = "idle" /\ src = Junk
    /\ errored = FALSE /\ stmts = 0 /\ leaves = 0 /\ lastAssign = FALSE
    /\ mobs = <<"none">> /\ sobs = <<"none">>

-----------------------------------------------------------------------------
(* The parser's steps.  A frame records what it pushed (pushed: the source *)
(* value and the type-stack entry of each pushR0).  Any operand may stand  *)
(* in parentheses, so an operand step may follow any other.                *)

IsFnPtr(t) == IsPtr(t) /\ t.head.tag = "func"
VarArgs(ft) == ft.params = "var"

Step(g) == /\ Apply(g)
           /\ lastAssign' = FALSE

\* An operator that needs a further operand is read only while the
\* statement's operand budget has room.
RoomForOperand == leaves < MaxLeaves

\* An operand may start: after an operator, or as the next argument of a
\* call whose parameter list still has room (else ArgExtra).
Starting == /\ phase \in {"need", "args"} /\ ~errored
            /\ phase = "args" => VarArgs(TopFrame.ft) \/ TopFrame.pl # <<>>
\* An operand in R0; an assignment's value is used only under UseAssignValue.
Having == phase = "have" /\ ~errored /\ (UseAssignValue \/ ~lastAssign)

\* One operand of unary(): a number, a float or double literal, a name.
Num_(k) ==
    /\ Starting /\ leaves < MaxLeaves /\ k \in Nums
    /\ Step(li(Cur, k))
    /\ src' = Num(k) /\ phase' = "have"
    /\ leaves' = leaves + 1
    /\ UNCHANGED <<ctl, stmts, sobs>>

FloatLit(t) ==
    /\ Starting /\ leaves < MaxLeaves
    /\ Step(loadFloat(Cur, t))
    /\ src' = <<"flit", t.tag>> /\ phase' = "have"
    /\ leaves' = leaves + 1
    /\ UNCHANGED <<ctl, stmts, sobs>>

\* A name: leaR0 of its address, an lvalue unless it names a function.
Name(x) ==
    /\ Starting /\ leaves < MaxLeaves
    /\ Step(leaR0(Cur, x, Ptr(Vars[x]), IF Vars[x].tag = "func" THEN "rv" ELSE "lv"))
    /\ src' = <<"addr", x>> /\ phase' = "have"
    /\ leaves' = leaves + 1
    /\ UNCHANGED <<ctl, stmts, sobs>>

\* A prefix operator ("-", "+", "!", "~", "++", "--", a cast, "*", "&"):
\* unary() reads the operator and calls unary() for its operand.
Prefix(fr) ==
    /\ Starting /\ RoomForOperand
    /\ Open(fr)
    /\ phase' = "need"
    /\ UNCHANGED <<es, eax, fpu, stk, src, errored, stmts, leaves, lastAssign, mobs, sobs>>

PrefixEnd ==
    /\ Having
    /\ TopFrame.k \in {"unop", "preinc", "cast", "deref", "addr"}
    /\ LET fr == TopFrame
           r == SrcR(src)
           g1 == forceR0RVal(Cur)
       IN CASE fr.k = "unop" /\ fr.op = "!" ->
                 Step(gUnaryCmp(g1)) /\ src' = <<"!", r>> /\ UNCHANGED sobs
            [] fr.k = "unop" /\ fr.op = "+" ->
                 Step(g1) /\ src' = r /\ UNCHANGED sobs
            [] fr.k = "unop" ->
                 Step(genUnaryOp(g1, fr.op)) /\ src' = <<fr.op, r>> /\ UNCHANGED sobs
            [] fr.k = "preinc" ->
                 LET v == SrcBin("+", R0(g1).t, r, IntT, Num(IF fr.inc THEN 1 ELSE -1))
                 IN /\ Step(doIncDec(Cur, fr.inc, FALSE))
                    /\ src' = v /\ sobs' = <<"store", src, v>>
            [] fr.k = "cast" ->
                 Step(castR0(g1, fr.t)) /\ src' = Conv(r, R0(g1).t, fr.t) /\ UNCHANGED sobs
            [] fr.k = "deref" ->
                 Step(doPointer(Cur)) /\ src' = r /\ UNCHANGED sobs
            [] fr.k = "addr" ->
                 Step(doAddressOf(Cur)) /\ src' = src /\ UNCHANGED sobs
    /\ Close /\ phase' = "have"
    /\ UNCHANGED <<stmts, leaves>>

\* Postfix ++ and -- on an lvalue: the value is the one loaded before.
PostIncDec(isInc) ==
    /\ Having
    /\ LET r == Ld(src)
           v == SrcBin("+", Pointee(R0(Cur).t), r, IntT, Num(IF isInc THEN 1 ELSE -1))
       IN /\ Step(doIncDec(Cur, isInc, TRUE))
          /\ src' = r /\ sobs' = <<"store", src, v>>
    /\ UNCHANGED <<ctl, phase, stmts, leaves>>

\* The texts are C: a pointer never meets a float in arithmetic.  (genOp
\* would accept it, type the x87 result as the pointer and leave eax stale.)
WellTyped(lt, rt) == ~((IsPtr(lt) \/ IsPtr(rt)) /\ (IsFloat(lt) \/ IsFloat(rt)))

\* The type of the value genOp leaves, as the usual conversions give it.
SrcBinType(lt, rt) == IF IsFloat(lt) THEN lt ELSE IF IsFloat(rt) THEN rt
                      ELSE IF IsPtr(rt) THEN rt ELSE lt

\* A value whose use is allowed even after an assignment.
HaveAny == phase = "have" /\ ~errored

\* The entry the last pushR0 of g left on the type stack.
Pushed(g) == TOS(g)

\* binaryOp: after the left operand, forceR0RVal and pushR0 (or, for && and
\* ||, forceR0RVal and gtst); then the right operand at the same level.
BinBegin(op) ==
    /\ Having /\ op \in BinOps /\ RoomForOperand
    /\ LET g == pushR0(forceR0RVal(Cur))
       IN /\ Step(g)
          /\ Open([k |-> "bin", op |-> op, l |-> SrcR(src), pushed |-> <<Pushed(g)>>])
    /\ phase' = "need"
    /\ UNCHANGED <<src, stmts, leaves, sobs>>

BinEnd ==
    /\ Having /\ TopFrame.k = "bin"
    /\ LET fr == TopFrame
           g1 == forceR0RVal(Cur)
       IN /\ WellTyped(fr.pushed[1].t, R0(g1).t)
          /\ Step(IF fr.op \in {"<", ">="} THEN gcmp(g1, fr.op) ELSE genOp(g1, fr.op))
          /\ src' = SrcBin(fr.op, fr.pushed[1].t, fr.l, R0(g1).t, SrcR(src))
    /\ Close /\ phase' = "have"
    /\ UNCHANGED <<stmts, leaves, sobs>>

LogicBegin(or) ==
    /\ Having /\ RoomForOperand
    /\ LET g == gtst(forceR0RVal(Cur))
       IN /\ Step(g)
          /\ Open([k |-> "logic", or |-> or, mt |-> g.obs[2], st |-> SrcR(src),
                   pushed |-> <<>>])
    /\ sobs' = <<"test", SrcR(src)>>
    /\ phase' = "need"
    /\ UNCHANGED <<src, stmts, leaves>>

\* The closing gtst, then li(t != OR), gjmp, gsym, li(t == OR): eax holds
\* the truth value the two tests decide.
LogicEnd ==
    /\ Having /\ TopFrame.k = "logic"
    /\ LET fr == TopFrame
           g == gtst(forceR0RVal(Cur))
       IN /\ Step([li(g, 0) EXCEPT !.eax = <<"logic", fr.or, fr.mt, g.obs[2]>>])
          /\ src' = <<"logic", fr.or, fr.st, SrcR(src)>>
    /\ sobs' = <<"test", SrcR(src)>>
    /\ Close /\ phase' = "have"
    /\ UNCHANGED <<stmts, leaves>>

\* The array reference of unary's postfix loop: forceR0RVal, pushR0, the
\* index, forceR0RVal, genOp(+), doPointer.
IndexBegin ==
    /\ Having /\ RoomForOperand
    /\ LET g == pushR0(forceR0RVal(Cur))
       IN /\ Step(g)
          /\ Open([k |-> "index", l |-> SrcR(src), pushed |-> <<Pushed(g)>>])
    /\ phase' = "need"
    /\ UNCHANGED <<src, stmts, leaves, sobs>>

IndexEnd ==
    /\ Having /\ TopFrame.k = "index"
    /\ LET fr == TopFrame
           g1 == forceR0RVal(Cur)
       IN /\ WellTyped(fr.pushed[1].t, R0(g1).t)
          /\ Step(doPointer(genOp(g1, "+")))
          /\ src' = SrcBin("+", fr.pushed[1].t, fr.l, R0(g1).t, SrcR(src))
    /\ Close /\ phase' = "have"
    /\ UNCHANGED <<stmts, leaves, sobs>>

\* unaryOrAssignment's '=': checkLVal, pushR0; expr(); forceR0RVal,
\* storeR0ToTOS.
AssignBegin ==
    /\ Having /\ RoomForOperand
    /\ LET g == pushR0(checkLVal(Cur))
       IN /\ Step(g)
          /\ Open([k |-> "assign", lv |-> src, pushed |-> <<Pushed(g)>>])
    /\ phase' = "need"
    /\ UNCHANGED <<src, stmts, leaves, sobs>>

AssignEnd ==
    /\ Having /\ TopFrame.k = "assign"
    /\ LET fr == TopFrame
           g1 == forceR0RVal(Cur)
           v == Conv(SrcR(src), R0(g1).t, Pointee(fr.pushed[1].t))
       IN /\ Apply(storeR0ToTOS(g1))
          /\ src' = v /\ sobs' = <<"store", fr.lv, v>>
    /\ lastAssign' = TRUE
    /\ Close /\ phase' = "have"
    /\ UNCHANGED <<stmts, leaves>>

\* TOK_OP_ASSIGNMENT: checkLVal, pushR0, forceR0RVal, pushR0; expr();
\* forceR0RVal, genOp(t), storeR0ToTOS.
OpAssignBegin(op) ==
    /\ Having /\ op \in BinOps \ {"<", ">="} /\ RoomForOperand
    /\ LET a == pushR0(checkLVal(Cur))
           g == pushR0(forceR0RVal(a))
       IN /\ Step(g)
          /\ Open([k |-> "opassign", op |-> op, lv |-> src, l |-> Ld(src),
                   pushed |-> <<Pushed(a), Pushed(g)>>])
    /\ phase' = "need"
    /\ UNCHANGED <<src, stmts, leaves, sobs>>

OpAssignEnd ==
    /\ Having /\ TopFrame.k = "opassign"
    /\ LET fr == TopFrame
           g1 == forceR0RVal(Cur)
           lt == fr.pushed[2].t
           v == Conv(SrcBin(fr.op, lt, fr.l, R0(g1).t, SrcR(src)),
                     SrcBinType(lt, R0(g1).t), Pointee(fr.pushed[1].t))
       IN /\ WellTyped(fr.pushed[2].t, R0(g1).t)
          /\ Apply(storeR0ToTOS(genOp(g1, fr.op)))
          /\ src' = v /\ sobs' = <<"store", fr.lv, v>>
    /\ lastAssign' = TRUE
    /\ Close /\ phase' = "have"
    /\ UNCHANGED <<stmts, leaves>>

\* A call in unary's postfix loop: R0 must hold a function pointer; pushR0,
\* beginFunctionCallArguments; per argument expr(), forceR0RVal and
\* storeR0ToArg to the next parameter type (float widened to double for a
\* function without a parameter list); endFunctionCallArguments,
\* callIndirect, adjustStackAfterCall.

CallBegin ==
    /\ Having
    /\ IF IsFnPtr(R0(Cur).t)
       THEN LET g == beginFunctionCallArguments(pushR0(Cur))
                ft == R0(Cur).t.head
            IN /\ Step(g)
               /\ Open([k |-> "call", ft |-> ft, pl |-> ft.params, fn |-> src,
                        sargs |-> <<>>, pushed |-> <<Pushed(g)>>])
               /\ phase' = "args"
       ELSE Step(error(Cur)) /\ UNCHANGED <<ctl, phase>>
    /\ UNCHANGED <<src, stmts, leaves, sobs>>

\* An argument the parameter list has no room for.
ArgExtra ==
    /\ phase = "args" /\ ~errored
    /\ TopFrame.k = "call" /\ ~VarArgs(TopFrame.ft) /\ TopFrame.pl = <<>>
    /\ Step(error(Cur))
    /\ UNCHANGED <<ctl, phase, src, stmts, leaves, sobs>>

ArgEnd ==
    /\ Having /\ TopFrame.k = "call"
    /\ LET fr == TopFrame
           g1 == forceR0RVal(Cur)
           rt == R0(g1).t
           tt == IF VarArgs(fr.ft)
                 THEN IF rt.tag = "float" THEN Scalar("double") ELSE rt
                 ELSE IF fr.pl = <<>> THEN rt ELSE Head(fr.pl)
       IN /\ Step(IF tt.tag = "void" THEN error(g1) ELSE storeR0ToArg(g1, tt))
          /\ ctl' = [ctl EXCEPT ![Len(ctl)].pl = IF VarArgs(fr.ft) \/ @ = <<>> THEN @ ELSE Tail(@),
                                ![Len(ctl)].sargs = Append(@, Conv(SrcR(src), rt, tt))]
    /\ phase' = "args"
    /\ UNCHANGED <<src, stmts, leaves, sobs>>

CallEnd ==
    /\ phase = "args" /\ ~errored /\ TopFrame.k = "call"
    /\ LET fr == TopFrame
           g == adjustStackAfterCall(callIndirect(Cur, fr.ft))
       IN /\ Step(IF ~VarArgs(fr.ft) /\ fr.pl # <<>> THEN error(g) ELSE g)
          /\ src' = <<"ret", fr.fn, fr.sargs>>
          /\ sobs' = <<"call", fr.fn, fr.sargs>>
    /\ Close /\ phase' = "have"
    /\ UNCHANGED <<stmts, leaves>>

\* commaExpr: the value of the left operand is dropped, nothing is emitted.
Comma ==
    /\ HaveAny /\ RoomForOperand
    /\ phase' = "need" /\ lastAssign' = FALSE
    /\ UNCHANGED <<es, eax, fpu, stk, ctl, src, errored, stmts, leaves, mobs, sobs>>

\* block(): an expression statement (commaExpr, skip ';') or the condition
\* of an if, while or for (test_expr: commaExpr, forceR0RVal, gtst).
StmtBegin(kind) ==
    /\ phase = "idle" /\ ~errored /\ stmts < MaxStmts
    /\ Open([k |-> "stmt", kind |-> kind, pushed |-> <<>>])
    /\ phase' = "need" /\ stmts' = stmts + 1 /\ leaves' = 0
    /\ UNCHANGED <<es, eax, fpu, stk, src, errored, lastAssign, mobs, sobs>>

StmtEnd ==
    /\ HaveAny /\ TopFrame.k = "stmt"
    /\ IF TopFrame.kind = "test"
       THEN /\ Having
            /\ Step(gtst(forceR0RVal(Cur)))
            /\ sobs' = <<"test", SrcR(src)>>
       ELSE /\ lastAssign' = FALSE
            /\ UNCHANGED <<es, eax, fpu, stk, errored, mobs, sobs>>
    /\ Close /\ phase' = "idle"
    /\ UNCHANGED <<src, stmts, leaves>>

Next ==
    \/ \E kind \in {"expr", "test"} : StmtBegin(kind)
    \/ StmtEnd
    \/ Comma
    \/ \E k \in Nums : Num_(k)
    \/ \E t \in {Scalar("float"), Scalar("double")} : FloatLit(t)
    \/ \E x \in DOMAIN Vars : Name(x)
    \/ \E o \in UnOps : Prefix([k |-> "unop", op |-> o, pushed |-> <<>>])
    \/ \E b \in BOOLEAN : Prefix([k |-> "preinc", inc |-> b, pushed |-> <<>>])
    \/ \E t \in Casts : Prefix([k |-> "cast", t |-> t, pushed |-> <<>>])
    \/ Prefix([k |-> "deref", pushed |-> <<>>])
    \/ Prefix([k |-> "addr", pushed |-> <<>>])
    \/ PrefixEnd
    \/ \E b \in BOOLEAN : PostIncDec(b)
    \/ \E op \in BinOps : BinBegin(op)
    \/ BinEnd
    \/ \E or \in BOOLEAN : LogicBegin(or)
    \/ LogicEnd
    \/ IndexBegin
    \/ IndexEnd
    \/ AssignBegin
    \/ AssignEnd
    \/ \E op \in BinOps : OpAssignBegin(op)
    \/ OpAssignEnd
    \/ CallBegin
    \/ ArgExtra
    \/ ArgEnd
    \/ CallEnd

Spec == Init /\ [][Next]_vars

-----------------------------------------------------------------------------
(* Properties. *)

Types == {IntT, Scalar("char"), Scalar("short"), Scalar("float"), Scalar("double"),
          NullType} \cup {Vars[x] : x \in DOMAIN Vars}
          \cup {Ptr(Vars[x]) : x \in DOMAIN Vars} \cup {Ptr(t) : t \in {IntT, Scalar("char")}}

TypeOK ==
    /\ phase \in {"idle", "need", "have", "args"}
    /\ \A i \in DOMAIN es : es[i].t \in Types /\ es[i].et \in {"lv", "rv"}
    /\ Len(fpu) <= 8
    /\ \A i \in DOMAIN stk : stk[i].k \in {"i", "f", "d", "args"}
    /\ Len(ctl) <= MaxDepth /\ stmts \in 0..MaxStmts
    /\ errored \in BOOLEAN /\ lastAssign \in BOOLEAN

\* The source values a frame's pushR0 calls pushed, in order.
PushedValues(fr) ==
    CASE fr.k \in {"bin", "index"} -> <<fr.l>>
      [] fr.k = "assign"   -> <<fr.lv>>
      [] fr.k = "opassign" -> <<fr.lv, fr.l>>
      [] fr.k = "call"     -> <<fr.fn>>
      [] OTHER             -> <<>>

FrameWords(fr) ==
    FlattenSeq([j \in DOMAIN fr.pushed |-> Words(PushedValues(fr)[j], fr.pushed[j].t)])
    \o (IF fr.k = "call" THEN <<W(fr.sargs, "args")>> ELSE <<>>)

\* Between any two steps of the parser, the machine's word stack holds
\* exactly what the pending frames pushed (each operand in the words its
\* type takes, the argument areas with the arguments stored so far) and
\* mExpressionStack holds one entry per pushed operand plus R0, unchanged
\* since the push.  pushR0/popR0, over, genOp, setupFloatOperands and the
\* call sequence each move esp and the type stack; one of them out of step
\* shifts every later operand.
StackMirrorsTypes ==
    ~errored =>
    LET ts == FlattenSeq([i \in DOMAIN ctl |-> ctl[i].pushed])
    IN /\ stk = FlattenSeq([i \in DOMAIN ctl |-> FrameWords(ctl[i])])
       /\ Len(es) = Len(ts) + 1
       /\ \A i \in DOMAIN ts : es[i] = ts[i]

\* Every store, test and call the emitted code performs is the one the
\* source expression denotes: the same address, the same value as a term
\* over the loads, literals and conversions (x87 operand order, pointer
\* scaling, int/float conversions and the stored arguments included).
ObservablesMatch == ~errored => mobs = sobs

\* When a statement ends, the x87 register stack is empty: no float value
\* of an expression statement or a comma operand is left in st(0).
FpuEmptyAtStatementEnd == phase = "idle" => fpu = <<>>

====
