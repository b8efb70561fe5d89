------------------------------ MODULE AccArena ------------------------------
(***************************************************************************)
(* The bump allocator class Arena of libacc (acc.cpp, class Arena).        *)
(* An arena is a vector of chunks; each chunk has a size mSize and a fill  *)
(* offset mOffset. alloc(size) always uses alignment 8.  mark() records    *)
(* (mCurrentChunk, mOffset) and freeToMark() rolls back to it.  The        *)
(* compiler only uses marks in LIFO order, through SymbolStack::pushLevel  *)
(* and popLevel, so the marks taken and not yet freed form a stack.        *)
(*                                                                         *)
(* Bytes are abstracted to small integers: ChunkSize stands for           *)
(* CHUNK_SIZE (128K) and Sizes for the sizes the compiler asks for.  The  *)
(* ghost variable live records every allocation not yet rolled back, so   *)
(* that properties can talk about the memory handed out.                  *)
(***************************************************************************)
EXTENDS Naturals, Sequences, FiniteSets

CONSTANTS
    ChunkSize,   \* CHUNK_SIZE, scaled down
    Sizes,       \* allocation sizes requested by the callers
    MaxChunks,   \* bound on the length of mData
    MaxMarks     \* bound on the nesting of pushLevel

ASSUME ChunkSize \in Nat \ {0} /\ Sizes \subseteq Nat \ {0}
ASSUME MaxChunks \in Nat \ {0} /\ MaxMarks \in Nat

\* alloc(size) calls alloc(size, 8)
Alignment == 8

VARIABLES
    mData,          \* sequence of chunks [mSize, mOffset]
    mCurrentChunk,  \* index into mData (1-based here, 0-based in the code)
    marks,          \* Arena::Mark values taken and not yet freed, innermost last
    live            \* ghost: allocations [chunk, start, size, depth] not rolled back

vars == <<mData, mCurrentChunk, marks, live>>

Chunk(size) == [mSize |-> size, mOffset |-> 0]

\* Chunk::aligned: (v + mask) & ~mask for a power-of-two alignment
aligned(v, alignment) == ((v + alignment - 1) \div alignment) * alignment

\* Mutant: the free space measured from mOffset instead of the aligned offset
remainingCapacityUnaligned(c, alignment) ==
    aligned(c.mSize, alignment) - c.mOffset

\* Chunk::remainingCapacity: both ends rounded up to the alignment
remainingCapacity(c, alignment) ==
    aligned(c.mSize, alignment) - aligned(c.mOffset, alignment)

\* The size of a chunk appended by alloc when none of the existing ones fit
newChunkSize(size, alignment) ==
    IF ChunkSize < size + alignment - 1 THEN size + alignment - 1 ELSE ChunkSize

\* The while loop of alloc: from chunk c, advance while the request does not
\* fit; Len(data)+1 stands for "push a new chunk".
RECURSIVE fitChunk(_, _, _, _)
fitChunk(data, c, size, alignment) ==
    IF size <= remainingCapacity(data[c], alignment) THEN c
    ELSE IF c + 1 <= Len(data) THEN fitChunk(data, c + 1, size, alignment)
    ELSE Len(data) + 1

Init ==
    /\ mData = << Chunk(ChunkSize) >>
    /\ mCurrentChunk = 1
    /\ marks = << >>
    /\ live = {}

\* Arena::mark: the current chunk and its fill; fill records every chunk's
\* mOffset for the property FreeRestoresMark only.
markOf(data, cur) ==
    [chunk |-> cur, offset |-> data[cur].mOffset,
     fill |-> [i \in 1..Len(data) |-> data[i].mOffset]]

\* Arena::mark, as called by SymbolStack::pushLevel
mark ==
    /\ Len(marks) < MaxMarks
    /\ marks' = Append(marks, markOf(mData, mCurrentChunk))
    /\ UNCHANGED <<mData, mCurrentChunk, live>>

\* Mutant: the chunk index restored one past the mark
rollbackNextChunk(data, m) ==
    [mData |-> [data EXCEPT ![m.chunk].mOffset = m.offset],
     mCurrentChunk |-> m.chunk + 1]

\* The body of Arena::freeToMark: back to the marked chunk and its fill
rollback(data, m) ==
    [mData |-> [data EXCEPT ![m.chunk].mOffset = m.offset],
     mCurrentChunk |-> m.chunk]

\* Arena::freeToMark, as called by SymbolStack::popLevel with the innermost
\* mark; every block allocated since that mark is given back.
freeToMark ==
    /\ marks # << >>
    /\ LET r == rollback(mData, marks[Len(marks)]) IN
         /\ mCurrentChunk' = r.mCurrentChunk
         /\ mData' = r.mData
    /\ marks' = SubSeq(marks, 1, Len(marks) - 1)
    /\ live' = {a \in live : a.depth < Len(marks)}

\* Mutant: the new fill computed from the unaligned offset
allocateNoAlign(c, size, alignment) ==
    [c EXCEPT !.mOffset = c.mOffset + size]

\* Chunk::allocate
allocate(c, size, alignment) ==
    [c EXCEPT !.mOffset = aligned(c.mOffset, alignment) + size]

\* Arena::alloc(size, 8) on the chunk vector data with current chunk cur:
\* the chunk search, possibly a new chunk, then Chunk::allocate.  The
\* result also names the block handed out (its chunk and aligned start).
allocIn(data, cur, size) ==
    LET c == fitChunk(data, cur, size, Alignment)
        d == IF c = Len(data) + 1
             THEN Append(data, Chunk(newChunkSize(size, Alignment)))
             ELSE data
    IN [mData |-> [d EXCEPT ![c] = allocate(d[c], size, Alignment)],
        mCurrentChunk |-> c,
        block |-> [chunk |-> c, start |-> aligned(d[c].mOffset, Alignment),
                   size |-> size]]

\* Arena::alloc(size), recording the block as live at the current depth
alloc(size) ==
    LET r == allocIn(mData, mCurrentChunk, size) IN
    /\ Len(r.mData) <= MaxChunks
    /\ mCurrentChunk' = r.mCurrentChunk
    /\ mData' = r.mData
    /\ live' = live \cup {[chunk |-> r.block.chunk, start |-> r.block.start,
                        size |-> size, depth |-> Len(marks)]}
    /\ UNCHANGED marks

Next ==
    \/ mark
    \/ freeToMark
    \/ \E size \in Sizes : alloc(size)

Spec == Init /\ [][Next]_vars

-----------------------------------------------------------------------------

TypeOK ==
    /\ mData \in Seq([mSize : Nat, mOffset : Nat])
    /\ mCurrentChunk \in 1..Len(mData)
    /\ \A i \in 1..Len(marks) :
          /\ marks[i].chunk \in 1..Len(mData) /\ marks[i].offset \in Nat
          /\ marks[i].fill \in [1..Len(marks[i].fill) -> Nat]
    /\ live \subseteq [chunk : Nat, start : Nat, size : Nat, depth : Nat]

\* Every block alloc has handed out and that no freeToMark has rolled back
\* lies inside the malloc'd storage of its chunk (mSize bytes): the pointer
\* returned by Chunk::allocate plus the requested size never passes the end.
AllocInBounds ==
    \A a \in live : a.start + a.size <= mData[a.chunk].mSize

\* Two blocks that are both still live never share a byte: freeToMark only
\* lets alloc reuse memory of blocks that were rolled back with it.
LiveDisjoint ==
    \A a, b \in live :
        a # b /\ a.chunk = b.chunk =>
            a.start + a.size <= b.start \/ b.start + b.size <= a.start

\* freeToMark gives back everything allocated since the matching mark: after
\* it every chunk holds the fill (mOffset) it had when mark() was called, and
\* chunks appended since then are empty again.  Otherwise a pushLevel /
\* popLevel cycle per compiled function leaks the memory it used.
FreeRestoresMark ==
    [][freeToMark =>
         LET f == marks[Len(marks)].fill IN
         \A i \in 1..Len(mData') :
             mData'[i].mOffset = IF i \in DOMAIN f THEN f[i] ELSE 0]_vars

=============================================================================
