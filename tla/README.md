# TLA+ models of libacc

libacc (`src/src/system/core/libacc/acc.cpp`) is a one-pass compiler for a
subset of C. It emits ARM or x86 machine code into memory. These modules
model its stateful parts: the parts where the order of operations decides
whether the output is correct. One module (`InitServices`) models the
service supervisor of `init` (`src/src/system/core/init/init.c`), the one
other program in the tree whose correctness is a matter of interleavings,
and one (`AdbListeners`) models the port-forwarding listeners of the adb
host server (`src/src/system/core/adb/adb.c`), whose lifetime is tied to
devices that come and go. The remaining programs are listed under
"Not modelled".

## The system's parts and how they interact

| Part | Code (acc.cpp) | State | Operations |
|---|---|---|---|
| Arena allocator | `Arena`, 3399-3515 | chunk vector `mData`, `mCurrentChunk`, each chunk's `mSize`/`mOffset` | `alloc`, `mark`, `freeToMark` |
| Token table | `TokenTable`, `Token`, 3519-3604 | interned tokens; per token the slots `mpMacroDefinition`, `mpVariableInfo`, `mpStructInfo` | `intern` |
| Symbol stacks | `SymbolStack`, 3813-3918 | `mStack` of `VariableInfo*`, `mLevelStack` of marks | `pushLevel`, `popLevel`, `add`, `addStructTag` |
| Lexer and macros | `inp`, `next`, `doDefine`, `MacroState`, 3920-4590 | `ch`, `macroState[]`, `macroLevel` | read a character, read a token, expand a macro |
| Types and struct layout | `createType`, `acceptStruct`, `alignmentOf`, `sizeOf` | `Type` records | build a struct layout member by member |
| Parser and driver | `unary`, `binaryOp`, `block`, `localDeclarations`, `globalDeclarations`, `compile` | `rsym`, `loc`, `mpCurrentSymbolStack`, `mpCurrentArena`, `mErrorBuf` | one function per grammar rule |
| Code generator contract | `CodeGenerator`, 327-721 | the type stack that mirrors the operand stack | `pushR0`, `popR0`, `gjmp`, `gtst`, `gsym`, `leaForward`, ... |
| ARM backend | `ARMCodeGenerator`, 974-2460 | emitted words, forward-reference chains stored in the words | emit the instructions of each operation, patch chains |
| ARM peephole buffer | `ARMCodeBuf`, 764-972 | a 16-word `CircularQueue` in front of the `CodeBuf` | `o4` (queue a word and rewrite), `flush` |
| x86 backend | `X86CodeGenerator`, 2464-3180 | emitted bytes, absolute-address chains | as for ARM |
| Statement compiler | `block`, 5016-5110 | the chain heads of open `if`/loop frames, `rsym` | one branch per statement |
| Expression compiler (x86) | `unary`, `binaryOp`, `doIncDec`, the `X86CodeGenerator` handlers 2464-3000 | `mExpressionStack`, `eax`, `ecx`, `esp` stack, x87 stack | one handler per operator, operand and call |
| adb forwarding (adb.c) | `install_listener`, `remove_listener`, `free_listener`, `handle_host_request` | `listener_list`, each transport's disconnect list | forward, killforward, accept, device online/offline |

How the parts interact:

- The driver allocates every `Type`, every `VariableInfo` and every token
  from an arena. `compile` selects the global arena for the whole compile.
  A function body switches `mpCurrentArena` and `mpCurrentSymbolStack` to
  the local pair.
- `mLocals.pushLevel()` records an arena mark, and `popLevel()` rolls the
  arena back to it. This is the only way local memory is ever reclaimed.
- The symbol stacks never hold a binding themselves. A binding lives in the
  token's slot, and each `VariableInfo` remembers the definition it shadowed.
- A use of a name that has no address yet emits a placeholder (`leaForward`).
  That placeholder is chained through the unpatched code words on the
  `VariableInfo`. The chain is patched when the function is defined
  (`resolveForward`), or reported at the end of the compile.
- On ARM, every word goes through the peephole queue before it reaches the
  code buffer. Patching and taking labels (`getPC`) flush that queue first.

## Modules

Modules follow the usual layout:

- `AccX.tla` is the specification of one part. It has its `CONSTANTS`,
  `VARIABLES`, `Init`, one action per handler, and `Next`.
- `MC_AccX.tla` fixes the constants for TLC, and `*.cfg` names what a run
  checks.
- Each definition keeps the name of the code it models (`popLevel`,
  `addLocalSymbol`, `remainingCapacity`, ...).
- `PROJECT.json` "map" gives the lines of code behind each definition.

### AccArena: `Arena`

- **State.** `mData` is a sequence of `[mSize, mOffset]` chunks, and
  `mCurrentChunk` is an index into it.
- **Marks.** `marks` holds the marks taken and not yet freed. The code only
  uses marks through `SymbolStack::pushLevel`/`popLevel`, so they nest, and
  `freeToMark` always rolls back to the innermost one.
- **Ghost variable.** `live` holds every block handed out and not rolled
  back: chunk, aligned start, size, and mark depth.
- **Actions.**
  - `alloc(size)` models the whole `alloc(size, 8)`. The `while` loop becomes
    the recursive `fitChunk`, which finds the first chunk with room or pushes a
    new chunk of `max(CHUNK_SIZE, size+7)`. `Chunk::allocate` then bumps the
    offset.
  - `mark` and `freeToMark` are the two `Arena` methods.
- **Abstraction.** Byte counts are scaled: `CHUNK_SIZE` is 16 instead of
  128K. The alignment stays 8, the value the code always passes.

### AccSymbols: `SymbolStack`, the token slots, and the handlers that use them

- **State.**
  - `VariableInfo`s are records in `vi`, and a pointer is an index into it.
  - `slotV` and `slotS` are `Token::mpVariableInfo` and `mpStructInfo`.
  - `gStack`, `lStack` and `lMarks` are the `mStack`s of `mGlobals` and
    `mLocals`, and `mLocals.mLevelStack`. `mGlobals` never pushes a level.
  - `pAddress` is abstracted to "non-NULL".
  - `pForward` becomes the set of placeholder sites chained on the definition.
  - `freed` holds the `VariableInfo`s whose local-arena memory `popLevel`
    gave back.
- **Actions.** Each action is one handler, with its adds and checks in code
  order:
  - `GlobalDeclaration`: the variable or prototype branch of
    `globalDeclarations`.
  - `FunctionDefinition`: `resolveForward`, the address, `pushLevel`, and
    the parameter loop.
  - `FunctionEnd`: `popLevel` and the switch back to the global stack.
  - `BlockOpen` and `BlockClose`: `{` and `}` of a nested block.
  - `LocalDeclaration`: `addLocalSymbol` and a stack slot, or a local
    prototype.
  - `UseIdentifier`: the identifier branch of `unary`, which runs
    `mGlobals.add`, `linkGlobal` and `leaForward`.
  - `StructTag`: the tag handling of `acceptStruct`.
  - `Finish`: `checkForUndefinedForwardReferences`.
- **Inputs.** Identifiers are model values. `External` is the set of names
  the host's lookup callback resolves, as `dlsym` resolves `printf` for the
  `acc` driver.

### AccStructLayout: the member loop of `acceptStruct`, `alignmentOf`, `sizeOf`

- **State.** `structs` holds the struct types built so far, each with
  `length`, `alignment`, whether it is a struct or a union, and its
  members with their offsets. `cur` is the body being parsed, or `NoBody`.
- **Actions.**
  - `ForwardDeclaration`: `struct S;`, which gives a type of length -1.
  - `BeginBody`: the opening brace of a struct or union body.
  - `Member(t)`: one pass of the member loop. It aligns the running offset
    with `(offset + alignment - 1) & ~(alignment - 1)` in size_t
    arithmetic, and adds `sizeOf`.
  - `EndBody`: stores the final offset as the length, and the largest
    member alignment.
- **Abstraction.** `alignmentOf` and `sizeOf` are the ARM versions,
  written as recursive operators. size_t is scaled to `Width` = 16 bits,
  so wraparound still happens.
- **Option.** `ValidCOnly` restricts members to complete types, which is
  the case a valid C program is in.

### AccMacro: `inp`, the identifier branch of `next`, `doDefine`

- **State.**
  - `text` is the rest of the source, as tokens.
  - `macroState` is the stack of macro bodies being read, with a flag for
    a body read to its end.
  - `defs` is the `mpMacroDefinition` slot of each token.
  - `out` is the tokens `next` returned.
- **Action.** `ReadToken` is one call of `next`. The recursive
  `nextToken` follows the code's loop:
  - it pops finished levels (`inp`);
  - it handles `#define` (`doDefine`);
  - it tests `currentlyBeingExpanded`;
  - it either pushes a body or reports "Too many levels of macro
    recursion".
- **Reference.** `RefFile` expands the same text the way the spec
  describes: a macro is not re-expanded inside its own expansion.
  `ExpandsLikeReference` compares the two.
- **Faithfulness.** `currentlyBeingExpanded` is translated as written. It
  compares `macroState[macroLevel]`, the innermost level, on every
  iteration of its loop.

### AccArmCodeBuf: `ARMCodeBuf`, `CircularQueue`, `CodeBuf::o4`, and the integer handlers

- **State.**
  - `mBuf`, `mHead` and `mCount` are the ring buffer of `mQ`.
  - `code` is the words the `CodeBuf` holds, and `overflowed` is its
    `mOverflowed`.
  - Two ghost variables: `emitted` holds every word passed to `o4`, and
    `labels` holds each answer of `getPC` with the position in `emitted`
    it stands for.
- **Words.**
  - A word is a record `[k, f]`. `k` names the instruction that the
    patterns compare against a constant (`push` for `0xE92D0001`, `movr0`
    for `0xE3A00000|imm`, ...). `f` is the field they extract.
  - A literal-pool word is `data`. A literal whose bits equal an
    instruction is that instruction, exactly as the matcher sees it.
- **Actions.** Each action is one handler and emits its words through
  `o4`, one call per word:
  - `li`/`liReg`: mov, mvn, or `ldr; b; .word`;
  - `pushR0`;
  - `genOp` for two ints, including `callRuntime(runtime_DIV)`;
  - `genOpPointer` for pointer + int;
  - `leaR0Local` and `leaR0Global`;
  - `loadR0FromR0`;
  - `getPC`, which flushes the queue;
  - `functionExit`: `loc` rounded to `STACK_ALIGNMENT`, the range check
    of the frame allocation (an error past 255 bytes), and the epilogue,
    abstracted to one `ret` word no pattern matches.
- **Frame.** `loc` is `Compiler::loc`: `leaR0Local` of a local deeper than
  any before declares it (`localDeclarations` grows `loc`), and `errored`
  records the errors `leaR0` and `functionExit` report.
- **Property.** `CompiledFunctionComputesSource`: after a `functionExit`
  with no error, the code computes what the handlers' words compute. The
  frame-load fold copies `sub`'s rotated immediate into `ldr`'s plain
  offset, which is wrong from 256 bytes on (a local at 260 becomes, in
  the 16-bit scaling, an offset of 1857); the property holds because `functionExit` rejects
  every frame that deep, and fails when that check is weakened.
- **`o4`.** `o4` commits the front when the queue is full, then pushes,
  then runs the whole `do/while(didPeep)` loop. Each pass runs the four
  patterns in code order.
- **Immediates.** `encode12BitImmediate` and `decode12BitImmediate` keep
  their rotate loop, on a word scaled to 16 bits.
- **Interpreter.** `Step`/`Exec`/`Outcome` are an interpreter of the
  emitted instructions. It is the reference for what a word sequence
  computes, and it is not mapped to code. `ldr rN,.L` reads the word two
  further on, `b .L99` skips one, and executing a data word faults.

### AccBranches and AccJumpTable: the jump chains of `block`, `binaryOp` and the function calls

- **State.**
  - `mem` is the code that holds jump fields, as a function from address to
    `[op, f]`. On x86 the address is that of the 32-bit field (one byte past
    the opcode), and on ARM it is the branch word.
  - `stack` is the chain of nested `if`/loop frames that `block` keeps on
    the C stack: the chain head `a` that each frame passes down by pointer,
    and the loop's continue target `n`.
  - `rsym` is `Compiler::rsym`, the chain of the current function's `return`s.
  - `fwd` and `addr` are each function's `pForward` and `pAddress`.
- **Actions.** One action per statement that `block` compiles (`IfOpen`,
  `Else`, `IfEnd`, `WhileOpen`, `ForOpen`, `LoopEnd`, `Break`, `Continue`,
  `Return`, `ExprStmt`), plus:
  - `LogicalExpr`, the `&&`/`||` branch of `binaryOp`;
  - `RefForward`, a use of a function not yet defined (`leaForward`);
  - `FunctionBegin` and `FunctionEnd`, which wrap `resolveForward`, the
    prologue and the final `gsym(rsym)`;
  - `CompileEnd`, `checkForUndefinedForwardReferences`.
- **Backends.** `arch` is chosen once in `Init`. Each backend has its own
  `gjmp`, `gtst`, `gsym`, `resolveForward` and `leaForward`, with the code's
  instruction sizes.
  - ARM chain links are `encodeAddress`d offsets from the code base, masked
    to 24 bits.
  - x86 links are absolute addresses.
- **Patching.** `gsym` walks a chain and patches every word of it. The
  model first collects the chain (`armChain`, `x86Chain`) and then patches
  the collected words (`PatchAll`). That is the code's loop, because each
  step reads the link before overwriting it.
- **Abstract specification.** `AccJumpTable` is the side table of spec §8:
  - slots of pending jump sites;
  - the target of each resolved site;
  - the labels the compiler named.
  A step may add sites to a slot from the code it emits, or resolve a whole
  slot at one new label. A resolved target never changes.
- **Refinement.** `AccBranches` decodes its code words into that table:
  - a slot's pending set is the chain from the frame's `a`, or from `rsym`;
  - a resolved site's target is its decoded branch.
  `JumpTableRefinement` asserts the abstract `Spec` through
  `INSTANCE AccJumpTable WITH`.
- **Abstractions.**
  - An expression is a fixed number of bytes of code with no jumps.
  - Return values, `for` initialisers and float compares are left out.
  - On ARM the peephole queue is flushed before every patch, because
    `gsym` and `getPC` flush it. The words that reach the buffer are
    therefore the words the model writes.
  - `MaxPC` bounds the code size. A step that would go past it is disabled;
    the model does not reproduce the `check()` overflow error.

### AccScopes: `mLocals` and `mLocalArena` together

- **Composition.** `AccScopes` instantiates `AccSymbols` (as `Sym`) and
  `AccArena` (as `LocalArena`, `INSTANCE ... WITH` renaming the arena's
  variables to `lData`, `lChunk`, `lArenaMarks`). Each action is a step of
  `Sym` conjoined with the local-arena calls the same compiler code makes,
  in the code's order: `pushLevel` takes `mark()`, `popLevel` ends with
  `freeToMark`, `addLocalSymbol` allocates a `VariableInfo`, and
  `createType`/`createPtrType` allocate a `Type` while
  `mpCurrentArena == &mLocalArena`.
- **Ghost variable.** `viBlock` gives the arena block of every
  `VariableInfo` that lives in the local arena.
- **Property.** `ReachableSymbolsNotReused`: every `VariableInfo` a token
  slot or `mLocals` can still reach lies in a block that is live and that
  no other live block overlaps. It holds only if `popLevel`'s unwinding and
  `freeToMark` agree on what a level owns.

### InitServices: the service supervisor of `init`

- **State.** Per service: `flags` (`RUNNING`, `RESTARTING`, `DISABLED`),
  `pid`, `nr_crashed`, and the ages of `time_started` and `time_crashed`
  (seconds since, saturating just past the constant they are compared
  with). Global: `deadline` (`process_needs_restart`, relative to now),
  the children alive (`procs`) and exited but not reaped (`zombies`),
  `sigPending` (a byte on the signal socket), `loop` (where the main loop
  is), and `rebooted`.
- **Actions.**
  - `RestartProcesses`: `restart_processes` over every `RESTARTING`
    service (`restart_service_if_needed`, with `service_start` in full),
    then the timeout computation of the loop.
  - `PollTimeout`, `SignalReady`, `WaitForOneProcess`: the `poll` that
    times out, the signal branch, and one `wait_for_one_process(0)` of the
    loop that runs until it finds nothing.
  - `ProcessExit(p)`: a child exits; `sigchld_handler` writes the byte.
  - `CtlStart`, `CtlStop`: `ctl.start`/`ctl.stop` through
    `handle_control_message`, handled between two loop iterations.
  - `Tick`: one second passes.
- **Abstraction.** pids are a small set; `fork` returns the least free one,
  and a pid is free only once its zombie was reaped. `crashLog` is a ghost
  of the recent crash ages, used only by the properties.

### AccX86Expr: the expression compiler on x86, with the type stack

- **State.** `es` is `mExpressionStack`, one `[t, et]` per entry, the last
  being R0. The machine is `eax`, `stk` (the word stack at `esp`, a double
  taking two words) and `fpu` (the x87 stack). Values are terms, so the
  machine computes the term its instructions compute. `ctl` holds the
  parser's pending frames (its recursion through `unary` and `binaryOp`),
  and `phase` says whether an operand is expected or R0 holds one.
- **Actions.** One per parser rule and the handlers it calls, in the
  code's order: literals and names (`li`, `leaR0`/`loadR0`), prefix
  operators and casts (`genUnaryOp`, `convertR0`, `forceR0RVal`),
  post-increment (`doIncDec`), binary operators and comparisons (`pushR0`,
  `genOp`, `gcmp`, pointer scaling), `&&`/`||`, indexing, assignment and
  compound assignment (`storeR0ToTOS`), calls with their argument stores
  (`beginFunctionCallArguments`, `storeR0ToArg`, the call itself as
  an observable, without `callForward`'s encoding), the comma operator, and the statement that starts and
  ends an expression (`commaExpr`, `test_expr`).
- **Checking the code against the source.** `src` is the term the source
  denotes; a store, a test and a call are observable, `mobs` recording what
  the machine does and `sobs` what the source says.
- **Abstraction.** Stores to `short` and `char` are not truncated. A
  pointer never meets a float operand (`WellTyped`): `genOp` would type
  that result as the pointer, which C forbids anyway. After `error()` the
  machine operations are total but meaningless, and `MC_View` collapses
  every errored state into one.

### AdbListeners: the adb server's forwarding listeners

- **State.** `lst` is `listener_list` in order; `lis` maps each live
  `alistener` (an element of `Ids`, its address) to its local name,
  `connect_to` and transport. `disc` is each transport's disconnect list,
  `online` the devices the server holds, `opened` the sockets a listener
  accepted, and `last` the last host request with its reply.
- **Actions.** `Forward(create, local, remote)` is the `forward:` /
  `killforward:` branch of `handle_host_request`, with `install_listener`
  (rebind of an existing name, refusal to repurpose the smartsocket, bind
  failure) or `remove_listener` in full. `Accept` is the two
  `fdevent` callbacks. `Offline` is `handle_offline`, running the
  disconnect list, each node calling `listener_disconnect` and so
  `free_listener`. `Online` is a device registering.
- **Abstraction.** Names and remotes are model values. The transport code
  (`add_transport_disconnect`, `remove_transport_disconnect`,
  `register_transport`) is not in the repository and is modelled from its
  use: a doubly linked list append and unlink. `calloc` failure ends the
  server (`fatal`) and is not modelled.

## Runs

| Run | Checks | Expect | What it shows |
|---|---|---|---|
| `symbols_forward` | `ForwardReferencesLinked` | violation | `{ int f(); f(); }` chains the call on a local `VariableInfo`. `popLevel` drops it, and the end-of-compile check only walks `mGlobals`, so the compile succeeds with the call unpatched. |
| `struct_pass` | `TypeOK`, `MembersDisjoint` | pass | For structs and unions of complete member types, including nested structs and arrays, members of a struct never overlap and every member lies inside the stored length. |
| `macro_pass` | `TypeOK`, `ExpandsLikeReference` | pass | For texts of up to four tokens with self-referential, chained and empty macros, `next` yields the reference expansion. |
| `armbuf_pass` | `TypeOK`, `CompiledFunctionComputesSource` | pass | For every body of up to six words from the integer handlers, with one `getPC` flush anywhere and locals 4 and 260 bytes below `fp`, a function that passes `functionExit` without error computes what the unrewritten words compute, from the start and from the label. |
| `armbuf_literal` | `PeepholePreservesSemantics` | violation | A literal whose bits are `stmfd sp!,{r0}` (the int -382926847) is folded with the following `mov r0,#129; ldmfd {r1}; add`. The `ldr` then loads the folded `add`, the `b` skips it, and in `y + (-382926847, 129)` the value `y` is left on the stack. |
| `scopes_pass` | `TypeOK`, `SlotsAreInnermost`, `NoSilentRedefinition`, `AllocInBounds`, `LiveDisjoint`, `ReachableSymbolsNotReused` | pass | With the symbol tables and the local arena stepping together, every slot is its innermost live definition, a same-level redefinition is reported, live blocks stay in their chunk and never overlap, and every reachable `VariableInfo` sits in live memory no later `alloc` hands out. |
| `init_pass` | `PidsNameOwnChild`, `RecoveryOnlyAfterCrashBurst`, `ZombiesReaped`, `ExitedServiceRestarted` | pass | Under crashes at any time, coalesced SIGCHLDs and control messages between loop iterations, a service's pid names its own child, recovery follows only a burst of more than the threshold, and (under the fairness below) every zombie is reaped and every exited restartable service restarted. |
| `branches_pass` | `TypeOK`, `ForwardReferencesResolved`, `JumpTableRefinement` | pass | With `if`/`else`, `while` and `for` nested two deep, `break`, `continue` and `return` on both backends, the chains threaded through the code refine the jump table. Every x86 forward reference is patched to its function's address. |
| `branches_logic` | `ForwardReferencesResolved`, `JumpTableRefinement` | pass | Straight-line bodies in a larger buffer: `&&`/`||` chains, several returns and forward references across two functions refine the table too. |
| `x86expr_pass` | `TypeOK`, `StackMirrorsTypes`, `ObservablesMatch` | pass | For every expression statement or condition of up to two operands and three nested parser frames, over a float, a pointer to short and a float function of a double, the word stack and `mExpressionStack` stay in step, and the code performs the stores, tests and calls the source denotes (an assignment's value being discarded). |
| `adb_listeners_pass` | `TypeOK`, `DisconnectsMatchListeners`, `StreamsOnLiveTransports`, `SmartsocketKept`, `ForwardHonoured` | pass | With two devices coming and going and forward/killforward requests in any order, each forward sits exactly once on its own device's disconnect list, no accepted socket goes to a device that is gone, the smartsocket on tcp:5037 is never repurposed, and an OKAY reply means the forward is in place. |
| `init_two` | `AtMostOneInstance` | violation | `ctl.stop` clears `RUNNING` without waiting for the exit, so a `ctl.start` before the SIGCHLD forks a second instance of the service. |

Ten reproductions are kept beside the runs, each for a finding in
`PROJECT.json` (run `""`):

- `arena_overflow.cfg` (`AllocInBounds`): an oversized request gets a
  chunk of `size+7` bytes. `remainingCapacity` rounds that size up, so the
  next small request runs up to 7 bytes past the `malloc`'d chunk.
- `macro_cycle.cfg` (`ExpandsLikeReference`): `#define A B` /
  `#define B A`. `currentlyBeingExpanded` only looks at the innermost
  level, so `A` nests until the limit and fails with an error the
  reference does not give.
- `x86expr_assign_value.cfg` (`ObservablesMatch` with `UseAssignValue`):
  `storeR0ToTOS` stores a float with `fstps (%ecx)`, which pops the x87
  stack, yet R0 stays typed float. `if (f = 1)` then tests the
  empty-stack NaN, not 1.
- `x86expr_fpu_leak.cfg` (`FpuEmptyAtStatementEnd`): a float expression
  statement such as `1.5;` or `f();` for a float function leaves its value
  on the x87 stack. After eight, every x87 load yields NaN.
- `arena_leak.cfg` (`FreeRestoresMark`): `freeToMark` resets only the
  marked chunk. Chunks filled after the mark keep their offsets, so that
  space is never reused.
- `struct_overlap.cfg` (`MembersDisjoint`): a member of an incomplete or
  empty struct type has alignment 0. The mask becomes all ones and the
  offset resets to 0, so `struct S { char c; struct S a[3]; }` puts `a`
  over `c` with no error.
- `branches_fwdref.cfg` (`ForwardReferencesResolved`, ARM, two references
  allowed): the second use of an undefined function emits
  `ldr r0,[pc,#offset]` with `offset = (pc-ea-8)>>2`. That is a positive
  word count used as a byte offset forward, while the literal lies behind.
  After the definition the call loads a code word, not the function's
  address, and no error is reported.
- `struct_size.cfg` (`SizeMultipleOfAlignment`:
the struct size is not rounded to its alignment, spec §8, so
`struct { int a; char b; }` has size 5), `init_fork_failure.cfg`
(`ExitedServiceRestarted` with `ForkCanFail`: a failed fork in a restart
leaves the service neither running nor restarting, and it is never
restarted), and `init_crash_window.cfg` (`CrashBurstForcesRecovery`: the
crash window restarts at the first crash outside it, so a burst spanning
two windows escapes recovery).

### Bounds

- **Arena.** The violation runs use three chunks and two nested levels;
  the overflow run uses sizes {2,10}, the smallest request that gets an
  oversized chunk followed by one that overruns it.
- **Scopes.** Two identifiers, one of them external. Parameter lists are
  `()`, `(a)` and `(a, a)`. Up to 3 `VariableInfo`s, two local levels, one
  placeholder site, and a local arena of two 16-byte chunks with
  `VariableInfo`s of 4 and `Type`s of 2 bytes. That is enough for shadowing
  across two levels, a struct tag and a variable of the same name, a
  duplicate parameter, and a block whose allocations spill into the second
  chunk and are rolled back by `}`. `symbols_forward` uses 4
  `VariableInfo`s on the symbols alone.
- **init.** Two services: a critical one and a oneshot that starts
  disabled. Four pids, so a pid can be reused after a reap while another
  zombie is pending. The constants are scaled: restart delay 1 s (5 s in
  the code), crash window 3 s (240 s) and threshold 2 (4); what matters is
  that the threshold is reachable inside one window and the window can
  close between crashes. Two control messages.

- **Struct layout.** The scalars are `char`, `int` and `double`, with
  arrays of length 3, up to two structs and three members each. That is
  enough for padding before an int or a double, a nested struct, an array
  of a struct, and an incomplete member. `Width` = 16 keeps the size_t
  wraparound of length -1.
- **Macros.** Three macros, each with two candidate bodies: a chain, a
  self-reference, and an empty body. Texts have up to four tokens.
  `NestingMax` is 2 in the passing run, so the nesting error is reached,
  and 32 (the code's value) in the cycle run.
- **ARM buffer.** The queue has 8 slots (16 in the code). The six-word
  constant-index pattern needs at least 8, and the size must be a power of
  two. Up to six words are emitted, so every pattern fires, including the
  constant-index fold and its "product does not encode" path (129 × 12).
  The queue never fills in the passing run, so the commit-when-full branch
  of `o4` is only reached by flushes. `CodeSize` = 5 words, so the
  overflow path of `CodeBuf::o4` is taken. A body calls `getPC` once
  (`MaxLabels` = 1), at any point. Locals are 4 and 260 bytes deep: 260
  is past 255 and its `sub` immediate needs a rotation. The
  literal run needs seven words and restricts the inputs to those the
  collision uses.

- **x86 expressions.** Three variables (float, pointer to short, float
  function of a double), one integer literal, operators `+ - < >=`, prefix
  `-` and `!`, an `int` cast, up to two operands per statement
  (`MaxLeaves`) and three nested frames. That covers int/float conversion
  on both sides, pointer scaling, an x87 compare, a call with a converted
  argument, and an assignment through a pointer. Without `MaxLeaves`
  left-associative and prefix chains are unbounded.
- **adb listeners.** Three listener addresses, the smartsocket name and
  two port names, two remotes, two devices. That is enough for two
  forwards on one device going offline together, a rebind that changes
  the remote, the device or both, and a forward on the smartsocket's
  port. Devices, remotes and addresses are symmetric (no definition names
  one, and every property of the run is safety), which brings the run to
  about 10 s.

### Fairness

The compiler is single-threaded and synchronous (spec §5), and its runs
check no liveness. `init_pass` does: `Spec` assumes weak fairness of
`Tick` (the clock advances) and of the main loop's own steps
(`RestartProcesses`, `PollTimeout`, `SignalReady`, `WaitForOneProcess`),
because `init` runs that loop forever and `poll` returns when its timeout
expires or the signal socket is readable. Children exiting and control
messages get no fairness: nothing forces a service to crash or an operator
to send `ctl.start`. There is no symmetry, which would be unsound with
liveness. `init` stops for good after its recovery reboot, so `init_pass`
turns deadlock checking off too. The symbol, struct, macro and branch runs turn deadlock checking off, because a
compile really stops: once `Finish` has run, once every body is closed at
the bound, or once the text is consumed.

- **Branches.** Two functions and both backends. `branches_pass` has a code
  buffer of 32 bytes from base 4 and nesting depth 2. That is enough for
  a `break` inside an `if` inside a loop, a `for` with test and increment,
  and an `else`. `branches_logic` uses 56 bytes and no nesting, which an
  `&&` chain of two tests plus the function frame needs. ARM allows one
  forward reference per function (`RefBound`), because the second one
  meets the bug above; x86 allows two, so a chain of references is
  patched. Symmetry over the two function names is sound: the checked
  properties are all safety.

## Plan, most important first

1. Done: `AccArena`, `AccSymbols`, `AccScopes`, `AccStructLayout`,
   `AccMacro`, `AccArmCodeBuf`, `InitServices`, `AccBranches`.
2. Done: `AccBranches` refines `AccJumpTable`. Next, compose it with
   `AccArmCodeBuf`: the branch words, too, pass through the peephole queue.
3. `binaryOp` precedence against a reference evaluator.
4. Done: the type-stack discipline of the code generator, in
   `AccX86Expr`. Next, the same parser over the ARM handlers.
5. The lexer's number and escape decoding, as pure operators checked
   against reference definitions.
6. An implicit declaration followed by a definition: `linkGlobal` gives
   the function type `int()`, and it keeps that type.

## Not modelled

- Of `adb`: the packet and socket layer (`handle_packet` calls
  `sockets.c` and `transport.c`, which are not in the repository), the
  other host services, the command-line client (`commandline.c`, argument
  parsing and I/O) and the sync watcher (`watcher.c`, inotify I/O).
  `debuggerd`, `apriori`, `atree`: separate daemons and build tools. The
  spec excludes them (§1).
- Of `init`: parsing `init.rc`, the action queue and triggers, `onrestart`
  commands, sockets, device, property and keychord handling, bootcharting.
  `InitServices` starts from the services the boot actions started.
- The host API (`accCreateScript`, `accGetProgramBinary`, ...): a data
  exchange boundary with no state machine of its own.
- Instruction encodings, except where the peephole matches on them.
- Of the x86 backend: struct member offsets (`addStructOffsetR0`),
  function entry and exit, operators other than `+ - < >=` and the prefix
  ones listed, and mixing pointers with floats (see `WellTyped`).
- The VFP branch of the frame-load peephole (`flds`). Only integer
  handlers feed the ARM model.
- The epilogue words of `functionExit` one by one, and function entry.
