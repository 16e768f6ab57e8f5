------------------------------- MODULE Arena -------------------------------
(***************************************************************************)
(* The index arithmetic of immortal/src/id.rs: how the n-th slot (or arena *)
(* unit) of a shard is placed in buckets (or chunks) of doubling size, and *)
(* where the bump arena of a shard puts the next unsized value.            *)
(***************************************************************************)
EXTENDS Integers, FiniteSetsExt

CONSTANTS
    FirstChunk,   \* FIRST_CHUNK: units of chunk 0, a power of two
    Chunks,       \* CHUNKS: number of chunk pointers of a shard
    OffsetLimit   \* 2^32: an offset must fit in a u32

ASSUME ArenaAssumption ==
    /\ FirstChunk \in Nat \ {0}
    /\ Chunks \in Nat \ {0}
    /\ OffsetLimit \in Nat \ {0}

\* u64::ilog2
Ilog2(x) == CHOOSE e \in 0..x : 2^e <= x /\ x < 2^(e + 1)

\* split: bucket b and index i within it of the n-th slot, where bucket b
\* holds first * 2^b slots and first is a power of two.
Split(n, first) ==
    LET x == n + first
        b == Ilog2(x) - Ilog2(first)
    IN <<b, x - first * 2^b>>

\* The first offset of chunk c.
ChunkStart(c) == FirstChunk * (2^c - 1)

\* Where the loop of store_slice stops for n > 0 units when the arena's next
\* free offset is `next`: it skips the rest of every chunk the value does not
\* fit in, and gives up past the last chunk. `next` keeps what was skipped,
\* also when the value is refused.
StoreSlice(next, n) ==
    LET c    == Split(next, FirstChunk)[1]
        i    == Split(next, FirstChunk)[2]
        fits == {d \in c..(Chunks - 1) :
                    (IF d = c THEN i ELSE 0) + n <= FirstChunk * 2^d}
        d    == Min(fits)
        off  == IF d = c THEN next ELSE ChunkStart(d)
        past == IF c >= Chunks THEN next ELSE ChunkStart(Chunks)
        no(p) == [ok |-> FALSE, chunk |-> Chunks, off |-> p, next |-> p]
    IN CASE n >= OffsetLimit   -> no(next)
         [] n < OffsetLimit /\ n = 0 ->
                [ok |-> TRUE, chunk |-> Chunks, off |-> 0, next |-> next]
         [] n < OffsetLimit /\ n > 0 /\ fits = {} -> no(past)
         [] n < OffsetLimit /\ n > 0 /\ fits # {} ->
                IF off >= OffsetLimit
                THEN no(off)
                ELSE [ok |-> TRUE, chunk |-> d, off |-> off, next |-> off + n]
=============================================================================
