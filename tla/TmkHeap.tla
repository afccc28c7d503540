------------------------------ MODULE TmkHeap ------------------------------
(***************************************************************************)
(* The shared-memory allocator (Tmk/src/sh_malloc.c), with the            *)
(* distribution of the private pointer "table" by the first process that  *)
(* uses it (Tmk/src/distribute.c).                                         *)
(*                                                                         *)
(* Addresses are offsets in the shared memory.  An operation holds        *)
(* TABLE_LOCK from its acquire to its release, so it is one step here      *)
(* (TmkLock shows the lock exclusive); only the first one, which waits for *)
(* every other process in Tmk_distribute, takes several.                   *)
(***************************************************************************)
EXTENDS Integers, Sequences, FiniteSetsExt, SequencesExt, TLC

CONSTANTS
  NProcs,       \* Tmk_nprocs
  NPages,       \* Tmk_npages
  MallocSizes,  \* the sizes the programs ask Tmk_malloc for
  SbrkSizes,    \* and those they ask Tmk_sbrk for
  MaxOps        \* bound: calls of the allocator

VARIABLES
  table,    \* table[p]: whether p's pointer "table" is set (not NULL)
  holder,   \* the process inside table_initialize, or NoOne
  call,     \* the call it goes on with afterwards
  untold,   \* the processes its Tmk_distribute has not reached yet
  heap,     \* the allocator's shared state: curbrk, nextfit, chunk indices
  chunks,   \* what the programs hold from Tmk_malloc: chain -> size asked
  areas,    \* what they hold from Tmk_sbrk: vadr -> size asked, rounded up
  ops       \* calls so far

vars == <<table, holder, call, untold, heap, chunks, areas, ops>>

Procs == 0 .. NProcs - 1
NoOne == -1
NoCall == <<"none", 0>>
PageSize == 4096
Word == 4                               \* sizeof(chain->index)
EndOfMemory == NPages * PageSize        \* page_array_[Tmk_npages].vadr
BUCKET_BEGIN == 8
BUCKET_END == 59
Buckets == BUCKET_BEGIN .. BUCKET_END - 1
TableBytes == Word * (1 + BUCKET_END)   \* sizeof(struct Table)

BUCKET_SIZE(i) == (2 + (i % 2)) * 2 ^ (i \div 2)

RoundDown(a, unit) == a - (a % unit)

\* The loops of table_initialize and Tmk_malloc: the first bucket of at
\* least that many bytes.  (Sizes stay below 2^30, the last bucket's.)
BucketFor(bytes) ==
  CHOOSE b \in Buckets : /\ BUCKET_SIZE(b) >= bytes
                         /\ b = BUCKET_BEGIN \/ BUCKET_SIZE(b - 1) < bytes

EmptyTable == [curbrk  |-> BUCKET_SIZE(BucketFor(TableBytes)),
               nextfit |-> [b \in Buckets |-> <<>>],
               index   |-> <<>>]

Init ==
  /\ table = [p \in Procs |-> FALSE]
  /\ holder = NoOne
  /\ call = NoCall
  /\ untold = {}
  /\ heap = EmptyTable
  /\ chunks = <<>>
  /\ areas = <<>>
  /\ ops = 0

-----------------------------------------------------------------------------
(* The free lists: nextfit[b] is a stack of chunks of BUCKET_SIZE(b) bytes. *)

\* chain->index = b ^ C_xor_index; push chain on nextfit[b]
Push(h, b, chain) ==
  [h EXCEPT !.nextfit[b] = <<chain>> \o @, !.index = (chain :> b) @@ @]

Pop(h, b) == [h EXCEPT !.nextfit[b] = Tail(@)]

\* The piece before the two of bucket "start", when a chunk of start + 3 is
\* cut in three.
ThirdPiece(h, chain, start) == Push(h, start - (start % 2), chain)

\* Mutant: the second piece starts where the bucket's smaller neighbour ends.
PieceShort(h, b, chain) ==
  Push(Push(h, b, chain), b, chain + BUCKET_SIZE(b - 1))

TwoPieces(h, b, chain) == Push(Push(h, b, chain), b, chain + BUCKET_SIZE(b))

\* One round of the while loop of sh_resize: cut the first chunk of b.
Split(h, b, start) ==
  LET chain == Head(h.nextfit[b])
  IN IF b - 2 = start + 1
     THEN TwoPieces(ThirdPiece(Pop(h, b), chain, start), start,
                    chain + BUCKET_SIZE(start - (start % 2)))
     ELSE TwoPieces(Pop(h, b), b - 2, chain)

\* The buckets sh_resize(start) can split, and what it leaves of the heap
\* once it has cut the smallest: one round for b, b - 2, ... above start + 1.
Splittable(h, start) ==
  {b \in start + 2 .. BUCKET_END - 1 : h.nextfit[b] # <<>>}

sh_resize(h, start) ==
  LET b == Min(Splittable(h, start))
  IN FoldLeft(LAMBDA g, k : Split(g, b - 2 * (k - 1), start), h,
              [k \in 1 .. (b - start) \div 2 |-> k])

-----------------------------------------------------------------------------
(* Fresh memory: the end of the used part, curbrk. *)

\* Where Tmk_malloc puts the index of a chunk it carves off: a chunk of a
\* page or more has its user part page aligned, any other double-word aligned.
ChainAt(curbrk, b) ==
  LET at == IF BUCKET_SIZE(b) >= PageSize
            THEN RoundDown(curbrk + PageSize, PageSize) - Word ELSE curbrk
  IN at + IF (at \div Word) % 2 = 0 THEN Word ELSE 0

-----------------------------------------------------------------------------
(* The calls, each from the acquire of TABLE_LOCK to its release. *)

Tmk_malloc(size) ==
  LET b == BucketFor(size + Word)
      ready == IF heap.nextfit[b] = <<>> /\ Splittable(heap, b) # {}
               THEN sh_resize(heap, b) ELSE heap
      taken == Head(ready.nextfit[b])
      chain == ChainAt(heap.curbrk, b)
      fits == chain + BUCKET_SIZE(b) <= EndOfMemory
  IN /\ IF ready.nextfit[b] # <<>>
        THEN /\ heap' = Pop(ready, b)
             /\ chunks' = (taken :> size) @@ chunks
        ELSE /\ heap' = [heap EXCEPT
                           !.curbrk = IF fits THEN chain + BUCKET_SIZE(b) ELSE chain,
                           !.index = (chain :> b) @@ @]
             /\ chunks' = IF fits THEN (chain :> size) @@ chunks ELSE chunks
     /\ UNCHANGED areas

\* Tmk_free of a chunk the programs hold: its index names its bucket.
Tmk_free(chain) ==
  /\ heap' = IF heap.index[chain] < BUCKET_END
             THEN Push(heap, heap.index[chain], chain) ELSE heap
  /\ chunks' = [c \in DOMAIN chunks \ {chain} |-> chunks[c]]
  /\ UNCHANGED areas

SbrkAt(curbrk) == RoundDown(curbrk + 7, 8)

Tmk_sbrk(asked) ==
  LET size == RoundDown(asked + 7, 8)
      vadr == SbrkAt(heap.curbrk)
      fits == vadr + size <= EndOfMemory
  IN /\ heap' = IF fits THEN [heap EXCEPT !.curbrk = vadr + size] ELSE heap
     /\ areas' = IF fits THEN (vadr :> size) @@ areas ELSE areas
     /\ UNCHANGED chunks

Perform(c) ==
  \/ c[1] = "malloc" /\ Tmk_malloc(c[2])
  \/ c[1] = "free" /\ Tmk_free(c[2])
  \/ c[1] = "sbrk" /\ Tmk_sbrk(c[2])

-----------------------------------------------------------------------------
(* The first call initialises the table, and tells the other processes one *)
(* after the other, each acknowledged before the next.                     *)

\* Tmk_distribute returns once all have answered.
Distributed == untold = {}

Call(p, c) ==
  /\ holder = NoOne
  /\ ops < MaxOps
  /\ table[p]
  /\ Perform(c)
  /\ ops' = ops + 1
  /\ UNCHANGED <<table, holder, call, untold>>

table_initialize(p, c) ==
  /\ holder = NoOne
  /\ ops < MaxOps
  /\ ~ table[p]
  /\ holder' = p
  /\ call' = c
  /\ table' = [table EXCEPT ![p] = TRUE]
  /\ untold' = Procs \ {p}
  /\ heap' = EmptyTable
  /\ ops' = ops + 1
  /\ UNCHANGED <<chunks, areas>>

\* Tmk_distribute_sigio_handler at the next process.
Distribute ==
  /\ untold # {}
  /\ table' = [table EXCEPT ![Min(untold)] = TRUE]
  /\ untold' = untold \ {Min(untold)}
  /\ UNCHANGED <<holder, call, heap, chunks, areas, ops>>

Initialised ==
  /\ holder # NoOne
  /\ Distributed
  /\ Perform(call)
  /\ holder' = NoOne
  /\ call' = NoCall
  /\ UNCHANGED <<table, untold, ops>>

Calls == ({"malloc"} \X MallocSizes) \cup ({"sbrk"} \X SbrkSizes)
           \cup ({"free"} \X DOMAIN chunks)

Next ==
  \/ \E p \in Procs, c \in Calls : Call(p, c) \/ table_initialize(p, c)
  \/ Distribute
  \/ Initialised

Spec == Init /\ [][Next]_vars

-----------------------------------------------------------------------------
(* Properties *)

Addresses == 0 .. EndOfMemory + PageSize

TypeOK ==
  /\ table \in [Procs -> BOOLEAN]
  /\ holder \in Procs \cup {NoOne}
  /\ untold \subseteq Procs
  /\ heap.curbrk \in Addresses
  /\ heap.nextfit \in [Buckets -> Seq(Addresses)]
  /\ \A a \in DOMAIN heap.index : a \in Addresses /\ heap.index[a] \in Buckets
  /\ DOMAIN chunks \subseteq DOMAIN heap.index
  /\ ops \in 0 .. MaxOps

\* The memory in use, as <<from, to>> ranges: the table, what the programs
\* asked for, the headers of their chunks, and the free chunks.
InUse ==
  {<<0, TableBytes>>}
    \cup {<<c, c + Word + chunks[c]>> : c \in DOMAIN chunks}
    \cup {<<a, a + areas[a]>> : a \in DOMAIN areas}

Free == UNION {{<<c, c + BUCKET_SIZE(b)>> : c \in ToSet(heap.nextfit[b])} : b \in Buckets}

Apart(r, s) == r[2] <= s[1] \/ s[2] <= r[1]

\* Whatever the programs allocate, free and split, and whichever process
\* initialises the table, no byte of shared memory is handed out twice: the
\* table, the memory the programs asked for and the chunks on the free lists
\* (each on one list, once) do not overlap, lie inside the shared memory and
\* below curbrk, where the next chunk is carved off; and every chunk, held or
\* free, has its user part double-word aligned.
HeapSound ==
  /\ \A r, s \in InUse \cup Free : r = s \/ Apart(r, s)
  /\ InUse \cap Free = {}
  /\ \A b \in Buckets : IsInjective(heap.nextfit[b])
  /\ \A r \in InUse \cup Free : r[2] <= heap.curbrk /\ r[2] <= EndOfMemory
  /\ \A c \in DOMAIN chunks \cup {r[1] : r \in Free} : (c + Word) % (2 * Word) = 0

\* "Assert: Tmk_malloc returns a page aligned address if the request is for
\* one or more pages." (Tmk/src/mmap.c, Tmk_mmap)
PageAligned ==
  \A c \in DOMAIN chunks : (chunks[c] >= PageSize /\ chunks[c] % PageSize = 0)
                             => (c + Word) % PageSize = 0
=============================================================================
