------------------------------ MODULE AccMacro ------------------------------
(***************************************************************************)
(* Object-like macro expansion in the libacc lexer: Compiler::inp,        *)
(* the identifier branch of Compiler::next, currentlyBeingExpanded and    *)
(* doDefine.  The input is abstracted to tokens: an identifier never      *)
(* spans the end of a macro body, because the character saved in dch when *)
(* the macro name was read is not an identifier character.  A level of    *)
(* macroState is [name, rest, done]: rest is what dptr still points at    *)
(* and done is dptr == NULL, a finished body that inp leaves on the stack *)
(* until the next character is read.                                      *)
(***************************************************************************)
EXTENDS Naturals, Sequences

CONSTANTS
    Names,       \* identifiers that may be #defined (model values)
    Plain,       \* other tokens
    DefChoices,  \* #define directives the input may contain: [name, body]
    Inputs,      \* the source texts: sequences of tokens and directives
    NestingMax   \* MACRO_NESTING_MAX

Tokens == Names \cup Plain
ASSUME \A d \in DefChoices : d.name \in Names /\ d.body \in Seq(Tokens)

VARIABLES
    input,       \* the whole source text (fixed by Init)
    text,        \* the part of the file not yet read
    macroState,  \* macroState[0..macroLevel], innermost last
    defs,        \* Token::mpMacroDefinition of each name: on = non-NULL
    out,         \* the tokens next() has returned to the parser
    hasError,    \* "Too many levels of macro recursion." was reported
    nullRead     \* inp dereferenced the dptr of a finished body

vars == <<input, text, macroState, defs, out, hasError, nullRead>>

None == [none |-> TRUE]          \* EOF, no token
Undefined == [on |-> FALSE, body |-> << >>]
Definition(body) == [on |-> TRUE, body |-> body]
IsDefine(item) == item \in DefChoices

\* Mutant: no check for a macro already being expanded
currentlyBeingExpandedNever(ms, t) == FALSE

\* currentlyBeingExpanded: the loop over 0..macroLevel compares
\* macroState[macroLevel].name, not macroState[i].name
currentlyBeingExpanded(ms, t) ==
    \E i \in 1..Len(ms) : ms[Len(ms)].name = t

\* The while loop at the top of inp: drop the finished levels on top
RECURSIVE popFinished(_)
popFinished(ms) ==
    IF ms # << >> /\ ms[Len(ms)].done
    THEN popFinished(SubSeq(ms, 1, Len(ms) - 1))
    ELSE ms

\* Mutant: the nesting check off by one (macroLevel >= MACRO_NESTING_MAX)
tooDeepOffByOne(ms) == Len(ms) >= NestingMax + 1

\* The nesting check of next(): macroLevel >= MACRO_NESTING_MAX-1, where
\* macroLevel = Len(ms) - 1
tooDeep(ms) == Len(ms) >= NestingMax

(* next(), up to the token it returns: the whitespace loop (a '#define'  *)
(* line runs doDefine), then an identifier read from the innermost live  *)
(* body, marking the body done when it is used up, or from the file; a   *)
(* defined macro not being expanded either reports the nesting error or  *)
(* is pushed as a new level and next() starts over.  EOF is None.        *)
RECURSIVE nextToken(_)
nextToken(st) ==
    LET ms == popFinished(st.ms)
        fromMacro == ms # << >>
        top == ms[Len(ms)]
        ms1 == IF fromMacro
               THEN [ms EXCEPT ![Len(ms)] = [top EXCEPT !.rest = Tail(top.rest),
                                                        !.done = Len(top.rest) = 1]]
               ELSE ms
        t == IF fromMacro THEN Head(top.rest) ELSE Head(st.text)
        st1 == [st EXCEPT !.ms = ms1, !.text = IF fromMacro THEN @ ELSE Tail(@)]
    IN CASE fromMacro /\ top.done -> [st EXCEPT !.null = TRUE]
         [] ~fromMacro /\ st.text = << >> -> [st EXCEPT !.ms = ms, !.tok = None]
         [] ~fromMacro /\ IsDefine(t) ->
              nextToken([st1 EXCEPT !.d[t.name] = Definition(t.body)])
         [] ~st.d[t].on \/ currentlyBeingExpanded(ms1, t) -> [st1 EXCEPT !.tok = t]
         [] tooDeep(ms1) -> [st1 EXCEPT !.err = TRUE, !.tok = t]
         [] OTHER ->
              nextToken([st1 EXCEPT !.ms = Append(ms1, [name |-> t, rest |-> st.d[t].body,
                                                        done |-> st.d[t].body = << >>])])

Init ==
    /\ input \in Inputs
    /\ text = input
    /\ macroState = << >>
    /\ defs = [n \in Tokens |-> Undefined]
    /\ out = << >>
    /\ hasError = FALSE
    /\ nullRead = FALSE

\* The parser asks Compiler::next for one token
ReadToken ==
    /\ ~nullRead
    /\ popFinished(macroState) # << >> \/ text # << >>
    /\ LET r == nextToken([ms |-> macroState, text |-> text, d |-> defs,
                           err |-> hasError, null |-> FALSE, tok |-> None])
       IN /\ macroState' = r.ms
          /\ text' = r.text
          /\ defs' = r.d
          /\ hasError' = r.err
          /\ nullRead' = r.null
          /\ out' = IF r.tok = None THEN out ELSE Append(out, r.tok)
    /\ UNCHANGED input

Next == ReadToken

Spec == Init /\ [][Next]_vars

-----------------------------------------------------------------------------

(* The reference expansion: a defined name is replaced by its body,       *)
(* rescanned with every macro it is nested in "active" and never expanded *)
(* again (spec 4.1); nesting deeper than NestingMax is the error.         *)
RECURSIVE RefTok(_, _, _, _), RefSeq(_, _, _, _)
RefTok(t, d, active, depth) ==
    IF ~d[t].on \/ t \in active THEN [out |-> << t >>, err |-> FALSE]
    ELSE IF depth >= NestingMax THEN [out |-> << t >>, err |-> TRUE]
    ELSE RefSeq(d[t].body, d, active \cup {t}, depth + 1)
RefSeq(ts, d, active, depth) ==
    IF ts = << >> THEN [out |-> << >>, err |-> FALSE]
    ELSE LET h == RefTok(Head(ts), d, active, depth)
             r == RefSeq(Tail(ts), d, active, depth)
         IN [out |-> h.out \o r.out, err |-> h.err \/ r.err]

RECURSIVE RefFile(_, _)
RefFile(items, d) ==
    IF items = << >> THEN [out |-> << >>, err |-> FALSE]
    ELSE IF IsDefine(Head(items))
    THEN RefFile(Tail(items), [d EXCEPT ![Head(items).name] = Definition(Head(items).body)])
    ELSE LET h == RefTok(Head(items), d, {}, 0)
             r == RefFile(Tail(items), d)
         IN [out |-> h.out \o r.out, err |-> h.err \/ r.err]

Finished == popFinished(macroState) = << >> /\ text = << >>

TypeOK ==
    /\ Len(macroState) <= NestingMax
    /\ \A i \in 1..Len(macroState) :
          macroState[i].name \in Names /\ macroState[i].rest \in Seq(Tokens)
          /\ macroState[i].done \in BOOLEAN
    /\ out \in Seq(Tokens)
    /\ \A n \in Tokens : defs[n].on \in BOOLEAN /\ defs[n].body \in Seq(Tokens)

\* Once the whole text is read, next() has handed the parser exactly the
\* tokens of the reference expansion and reported the nesting error exactly
\* when the reference nests too deep: a macro is not expanded again inside
\* its own expansion, however many other macros lie in between.
ExpandsLikeReference ==
    Finished =>
        LET r == RefFile(input, [n \in Tokens |-> Undefined])
        IN out = r.out /\ hasError = r.err


=============================================================================
