----------------------------- MODULE FatVolume ------------------------------
(***************************************************************************)
(* The FAT16 volume of SD/src/utility/SdVolume.cpp: the file allocation    *)
(* table and everything else are reached through one block of cache.       *)
(*                                                                         *)
(* Blocks: 0 boot, 1 the FAT, 2 its mirror, 3 the root directory, then one *)
(* block per cluster, the first cluster being number 2.  The FAT fits in a *)
(* block, a cluster is a block, the root directory is a block.             *)
(***************************************************************************)
EXTENDS SdCard, FiniteSets, Sequences, SequencesExt

CONSTANTS Clusters,     \* clusters on the card
          BlockUnits,   \* units of data in a block
          BlockEntries  \* directory entries in a block
ASSUME VolumeAssumption ==
  Clusters \in Nat \ {0} /\ BlockUnits \in Nat \ {0} /\ BlockEntries \in Nat \ {0, 1, 2}

Boot == 0
FatBlock == 1
MirrorBlock == 2
RootBlock == 3
Invalid == 99          \* 0XFFFFFFFF, the number of no block
NoMirror == 0          \* cacheMirrorBlock_ when there is nothing to mirror
EOC == 90              \* end of chain
Cluster == 2..(Clusters + 1)
AllBlocks == 0..(Clusters + 3)
ClusterStartBlock(c) == c + 2

Junk == 0
EmptyData == [i \in 1..BlockUnits |-> Junk]
FreeEntry == [name |-> "free", dir |-> FALSE, first |-> 0, size |-> 0]
ZeroBlock == [i \in 1..BlockEntries |-> FreeEntry]

\* cacheMirrorBlockFlush
CacheMirrorBlockFlush(s) ==
  IF s.mirror = NoMirror THEN Ok(s)
  ELSE Then(WriteBlock(s, s.mirror, s.data), LAMBDA t : [t EXCEPT !.mirror = NoMirror])

\* cacheFlush: a non-blocking flush starts the write and leaves the block dirty.
CacheFlush(s, blocking) ==
  IF ~s.dirty THEN Ok(s)
  ELSE Then(WriteBlock(s, s.blk, s.data), LAMBDA t :
         IF ~blocking THEN t
         ELSE Then(CacheMirrorBlockFlush(t), LAMBDA u : [u EXCEPT !.dirty = FALSE]))

\* cacheRawBlock(b, CACHE_FOR_WRITE or CACHE_FOR_READ)
CacheRawBlock(s, b, write) ==
  Then(IF s.blk = b THEN Ok(s)
       ELSE Then(CacheFlush(s, TRUE), LAMBDA t :
              Then(ReadBlock(t, b), LAMBDA u : [u EXCEPT !.blk = b, !.data = u.val])),
       LAMBDA t : [t EXCEPT !.dirty = @ \/ write])

\* cacheZeroBlock
CacheZeroBlock(s, b) ==
  Then(CacheFlush(s, TRUE), LAMBDA t :
    [t EXCEPT !.blk = b, !.data = ZeroBlock, !.dirty = TRUE])

\* fatGet: the entry is in s.val.
FatGet(s, c) ==
  IF c > Clusters + 1 THEN Fail(s)
  ELSE Then(CacheRawBlock(s, FatBlock, FALSE), LAMBDA t : [t EXCEPT !.val = t.data[c]])

\* fatPut, of several entries at once: the FAT is in the cache from the first on.
FatPutAll(s, values) ==
  IF DOMAIN values \subseteq Cluster
  THEN Then(CacheRawBlock(s, FatBlock, FALSE), LAMBDA t :
         [t EXCEPT !.data = [c \in DOMAIN @ |-> IF c \in DOMAIN values THEN values[c] ELSE @[c]],
                   !.dirty = TRUE, !.mirror = MirrorBlock])
  ELSE Fail(s)

\* The clusters of a chain in order, as far as its links are clusters it has not
\* been to.
RECURSIVE ChainFrom(_, _, _)
ChainFrom(fat, c, before) ==
  IF c \in Cluster /\ c \notin ToSet(before) THEN ChainFrom(fat, fat[c], Append(before, c)) ELSE before

Chain(fat, first) == ChainFrom(fat, first, <<>>)

\* Where the chain leads after its last cluster: EOC, or 0 when it is broken.
ChainEnd(fat, first) ==
  LET chain == Chain(fat, first)
  IN IF chain = <<>> THEN first ELSE fat[Last(chain)]

\* allocContiguous(1, &cur): the first free cluster from cur + 1, or from where
\* the last search for a first cluster ended, with wrap; s.val is the cluster.
AllocContiguous(s, cur) ==
  Then(FatGet(s, 2), LAMBDA t :
    LET from == IF cur # 0 THEN cur + 1 ELSE t.start
        free == {c \in Cluster : t.data[c] = 0}
        at == {c \in free : c >= from}
        first == CHOOSE c \in (IF at # {} THEN at ELSE free) :
                   \A d \in (IF at # {} THEN at ELSE free) : c <= d
    IN IF free = {} THEN Fail(t)
       ELSE [FatPutAll(t, [c \in {first, cur} \ {0} |-> IF c = first THEN EOC ELSE first])
               EXCEPT !.val = first, !.start = IF cur = 0 THEN first + 1 ELSE @])

\* Mutant: only the first cluster of the chain is freed.
FreeChainFirst(s, first) ==
  Then(FatGet([s EXCEPT !.start = 2], first), LAMBDA t :
    FatPutAll(t, first :> 0))

\* freeChain: a chain that ends at a free cluster goes on to entries 0 and 1,
\* which fatPut refuses.
FreeChain(s, first) ==
  Then(FatGet([s EXCEPT !.start = 2], first), LAMBDA t :
    LET chain == Chain(t.data, first)
    IN Then(FatPutAll(t, [c \in ToSet(chain) |-> 0]), LAMBDA u :
         [u EXCEPT !.ok = (ChainEnd(t.data, first) = EOC)]))

\* chainSize, in blocks; s.val is the size.
ChainSize(s, first) ==
  Then(FatGet(s, first), LAMBDA t : [t EXCEPT !.val = Len(Chain(t.data, first))])

\* init: partition one is tried, then a card without partitions.  Both look at
\* block 0 through the cache, which is not reset; allocSearchStart_ stays.
VolumeInit(s) == CacheRawBlock(s, Boot, FALSE)
=============================================================================
