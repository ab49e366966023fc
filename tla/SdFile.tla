------------------------------- MODULE SdFile -------------------------------
(***************************************************************************)
(* Files and directories of SD/src/utility/SdFile.cpp.  s.f is the SdFile  *)
(* a member function runs on, s.d the directory it is given.  Sizes and     *)
(* positions count units of BlockUnits to the block; a directory's size    *)
(* counts its blocks.  Time stamps, volume labels and long names are left  *)
(* out; names are 8.3 names already.                                       *)
(***************************************************************************)
EXTENDS FatVolume

Closed == [type |-> "closed", blk |-> 0, idx |-> 0, first |-> 0, cur |-> 0, pos |-> 0,
           size |-> 0, flags |-> {}, dirDirty |-> FALSE, added |-> FALSE]

IsOpen(f) == f.type # "closed"
IsDir(f) == f.type \in {"root", "subdir"}

\* openRoot
Root == [Closed EXCEPT !.type = "root", !.flags = {"R"}, !.size = 1]

Swap(s) == [s EXCEPT !.f = s.d, !.d = s.f]

\* addCluster
AddCluster(s) ==
  Then(AllocContiguous(s, s.f.cur), LAMBDA t :
    [t EXCEPT !.f.cur = t.val, !.f.added = TRUE,
              !.f.first = IF @ = 0 THEN t.val ELSE @,
              !.f.dirDirty = @ \/ s.f.first = 0])

\* addDirCluster
AddDirCluster(s) ==
  Then(AddCluster(s), LAMBDA t :
    Then(CacheZeroBlock(t, ClusterStartBlock(t.f.cur)), LAMBDA u : [u EXCEPT !.f.size = @ + 1]))

\* Mutant: the entry's block is cached for reading.
CacheDirEntryForRead(s) == CacheRawBlock(s, s.f.blk, FALSE)

\* cacheDirEntry(CACHE_FOR_WRITE): the entry of s.f is data[s.f.idx] then.
CacheDirEntry(s) == CacheRawBlock(s, s.f.blk, TRUE)

\* sync
Sync(s, blocking) ==
  IF ~IsOpen(s.f) THEN Fail(s)
  ELSE LET entry == IF ~s.f.dirDirty THEN Ok(s)
                    ELSE Then(CacheDirEntry(s), LAMBDA t :
                           [t EXCEPT !.data[s.f.idx].first = s.f.first,
                                     !.data[s.f.idx].size = IF IsDir(s.f) THEN @ ELSE s.f.size,
                                     !.f.dirDirty = FALSE])
       IN Then(entry, LAMBDA t :
            CacheFlush(t, blocking))

\* close
Close(s) == Then(Sync(s, TRUE), LAMBDA t : [t EXCEPT !.f.type = "closed"])

\* n steps along the FAT from the current cluster
RECURSIVE Follow(_, _)
Follow(s, n) ==
  IF n = 0 THEN Ok(s)
  ELSE Then(FatGet(s, s.f.cur), LAMBDA t : Follow([t EXCEPT !.f.cur = t.val], n - 1))

\* Mutant: pos, not pos - 1, gives the cluster to walk to.
SeekSetPast(s, pos) ==
  IF ~IsOpen(s.f) \/ pos > s.f.size THEN Fail(s)
  ELSE IF pos = 0 THEN Ok([s EXCEPT !.f.cur = 0, !.f.pos = 0])
  ELSE LET nCur == (s.f.pos - 1) \div BlockUnits
           nNew == pos \div BlockUnits
           walk == IF s.f.pos = 0 \/ nNew < nCur
                   THEN Follow([s EXCEPT !.f.cur = s.f.first], nNew)
                   ELSE Follow(s, nNew - nCur)
       IN Then(walk, LAMBDA t : [t EXCEPT !.f.pos = pos])

\* seekSet
SeekSet(s, pos) ==
  IF ~IsOpen(s.f) \/ pos > s.f.size THEN Fail(s)
  ELSE IF pos = 0 THEN Ok([s EXCEPT !.f.cur = 0, !.f.pos = 0])
  ELSE LET nCur == (s.f.pos - 1) \div BlockUnits
           nNew == (pos - 1) \div BlockUnits
           walk == IF s.f.pos = 0 \/ nNew < nCur
                   THEN Follow([s EXCEPT !.f.cur = s.f.first], nNew)
                   ELSE Follow(s, nNew - nCur)
       IN Then(walk, LAMBDA t : [t EXCEPT !.f.pos = pos])

\* truncate(0); the position is 0 afterwards.
Truncate(s) ==
  IF s.f.type # "file" \/ "W" \notin s.f.flags THEN Fail(s)
  ELSE IF s.f.size = 0 THEN Ok(s)
  ELSE Then(FreeChain(SeekSet(s, 0), s.f.first), LAMBDA t :
         Sync([t EXCEPT !.f.first = 0, !.f.size = 0, !.f.dirDirty = TRUE], TRUE))

\* remove()
Remove83(s) ==
  Then(Truncate(s), LAMBDA t :
    Then(CacheDirEntry(t), LAMBDA u :
      CacheFlush([u EXCEPT !.data[s.f.idx].name = "deleted", !.f.type = "closed"], TRUE)))

\* openCachedEntry: the entry's block is in the cache.
OpenCachedEntry(s, idx, oflag) ==
  LET e == s.data[idx]
      f == [Closed EXCEPT !.blk = s.blk, !.idx = idx, !.first = e.first,
                          !.flags = oflag \cap {"R", "W", "APPEND"}]
      opened == IF e.dir
                THEN Then(ChainSize(s, e.first), LAMBDA t :
                       [t EXCEPT !.f = [f EXCEPT !.type = "subdir", !.size = t.val]])
                ELSE [s EXCEPT !.f = [f EXCEPT !.type = "file", !.size = e.size]]
  IN IF e.dir /\ oflag \cap {"W", "TRUNC"} # {} THEN Fail(s)
     ELSE Then(opened, LAMBDA t : IF "TRUNC" \in oflag THEN Truncate(t) ELSE t)

\* The scan of open() and of rmDir(): block by block through the directory s.d,
\* which is read like a file, up to the entry called name or the first that was
\* never used.  s.scan holds where the name is, the first slot to reuse, and
\* whether the directory holds anything but . and .. so far.
NoScan == [at |-> 0, slot |-> <<0, 0>>, used |-> FALSE, done |-> FALSE]

LeastOf(S) == CHOOSE i \in S : \A j \in S : i <= j

\* readDirCache: block k of the directory comes into the cache.
ReadDirCache(s, k) ==
  Then(CASE s.d.type = "root" -> Ok(s)
         [] s.d.type # "root" /\ k = 1 -> Ok([s EXCEPT !.d.cur = s.d.first])
         [] OTHER -> Then(FatGet(s, s.d.cur), LAMBDA t : [t EXCEPT !.d.cur = t.val]),
       LAMBDA t : CacheRawBlock(t, IF t.d.type = "root" THEN RootBlock
                                   ELSE ClusterStartBlock(t.d.cur), FALSE))

RECURSIVE ScanFrom(_, _, _)
ScanFrom(s, k, name) ==
  IF ~s.ok \/ s.scan.done \/ k > s.d.size THEN s
  ELSE Then(ReadDirCache(s, k), LAMBDA u :
         LET e == u.data
             stops == {i \in DOMAIN e : e[i].name \in {name, "free"}}
             stop == IF stops = {} THEN BlockEntries ELSE LeastOf(stops)
             unused == {i \in 1..stop : e[i].name \in {"free", "deleted"}}
             used == \E i \in 1..stop : e[i].name \notin {"free", "deleted", ".", ".."}
         IN ScanFrom([u EXCEPT !.scan =
              [at |-> IF stops # {} /\ e[stop].name = name THEN stop ELSE 0,
               slot |-> IF @.slot = <<0, 0>> /\ unused # {}
                        THEN <<u.blk, LeastOf(unused)>> ELSE @.slot,
               used |-> @.used \/ used,
               done |-> stops # {} \/ (name = "free" /\ used)]], k + 1, name))

Scan(s, name) == ScanFrom(Ok([s EXCEPT !.scan = NoScan, !.d.cur = 0]), 1, name)

\* A place for a new entry: a slot that was free, or the first of another cluster.
FindSlot(s) ==
  IF s.scan.slot # <<0, 0>>
  THEN Then(CacheRawBlock(s, s.scan.slot[1], TRUE), LAMBDA t : [t EXCEPT !.f.idx = s.scan.slot[2]])
  ELSE IF s.d.type = "root" THEN Fail(s)
  ELSE Then(AddDirCluster(Swap(s)), LAMBDA t : [Swap(t) EXCEPT !.f.idx = 1])

NewEntry(s, name) ==
  Then(FindSlot(s), LAMBDA t :
    CacheFlush([t EXCEPT !.data[t.f.idx] = [FreeEntry EXCEPT !.name = name]], TRUE))

\* open(dirFile, fileName, oflag): s.f is closed before.
Open(s, name, oflag) ==
  LET Find(t) ==
        IF t.scan.at # 0
        THEN IF {"CREAT", "EXCL"} \subseteq oflag THEN Fail(t)
             ELSE [t EXCEPT !.f.idx = t.scan.at]
        ELSE IF ~({"CREAT", "W"} \subseteq oflag) THEN Fail(t)
        ELSE NewEntry(t, name)
  IN Then(Then(Scan(s, name), Find), LAMBDA t : OpenCachedEntry(t, t.f.idx, oflag))

\* makeDir(dir, name): an empty file first, turned into a directory.
MakeDir(s, name) ==
  Then(Open(s, name, {"CREAT", "EXCL", "R", "W"}), LAMBDA t :
    Then(AddDirCluster([t EXCEPT !.f.flags = {"R"}, !.f.type = "subdir"]), LAMBDA u :
      Then(Sync(u, TRUE), LAMBDA v :
        Then(CacheDirEntry(v), LAMBDA c :
          LET w == [c EXCEPT !.data[c.f.idx].dir = TRUE]
              dot == [name |-> ".", dir |-> TRUE, first |-> w.f.first, size |-> 0]
              dotdot == [dot EXCEPT !.name = "..", !.first = s.d.first]
          IN Then(CacheRawBlock(w, ClusterStartBlock(w.f.first), TRUE), LAMBDA x :
               CacheFlush([x EXCEPT !.data[1] = dot, !.data[2] = dotdot], TRUE))))))

\* rmDir: an empty directory is removed as if it were a file.
RmDir(s) ==
  IF s.f.type # "subdir" THEN Fail(s)
  ELSE Then(Swap(Scan(Swap(s), "free")), LAMBDA t :
         IF t.scan.used THEN Fail(t)
         ELSE Remove83([t EXCEPT !.f.type = "file", !.f.flags = @ \cup {"W"}]))

\* read()'s loop: up to the end of the block in a turn.
RECURSIVE ReadChunks(_)
ReadChunks(s) ==
  IF ~s.ok \/ s.left = 0 THEN s
  ELSE LET offset == s.f.pos % BlockUnits
           n == IF s.left > BlockUnits - offset THEN BlockUnits - offset ELSE s.left
           cur == IF offset # 0 THEN Ok(s)
                  ELSE IF s.f.pos = 0 THEN Ok([s EXCEPT !.f.cur = s.f.first])
                  ELSE Follow(s, 1)
       IN Then(cur, LAMBDA t :
            LET b == ClusterStartBlock(t.f.cur)
                got == IF n = BlockUnits /\ b # t.blk THEN ReadBlock(t, b)
                       ELSE Then(CacheRawBlock(t, b, FALSE), LAMBDA u : [u EXCEPT !.val = u.data])
            IN Then(got, LAMBDA u :
                 ReadChunks([u EXCEPT !.buf = @ \o SubSeq(u.val, offset + 1, offset + n),
                                      !.f.pos = @ + n, !.left = @ - n])))

\* read(buf, n): the bytes are in s.buf.
Read(s, n) ==
  IF ~IsOpen(s.f) \/ "R" \notin s.f.flags THEN Fail(s)
  ELSE LET rest == s.f.size - s.f.pos
           want == IF s.f.pos <= s.f.size /\ n > rest THEN rest ELSE n
       IN ReadChunks(Ok([s EXCEPT !.left = want, !.buf = <<>>]))

\* readDir of entry k of the directory s.d, which comes into the cache; the first
\* of a block may be in another cluster.
ReadDir(s, k) ==
  IF k % BlockEntries = 0 THEN ReadDirCache(s, (k \div BlockEntries) + 1)
  ELSE CacheRawBlock(s, IF s.d.type = "root" THEN RootBlock ELSE ClusterStartBlock(s.d.cur), FALSE)

\* The cluster write() is to go on in.
WriteCluster(s) ==
  IF s.f.pos % BlockUnits # 0 THEN Ok(s)
  ELSE IF s.f.cur = 0
       THEN IF s.f.first = 0 THEN AddCluster(s) ELSE Ok([s EXCEPT !.f.cur = s.f.first])
       ELSE Then(FatGet(s, s.f.cur), LAMBDA t :
              IF t.val = EOC THEN AddCluster(t) ELSE [t EXCEPT !.f.cur = t.val])

\* write()'s loop.  A whole block goes to the card directly; if the
\* cache held it, the cache forgets its number, not that it is dirty.
RECURSIVE WriteChunks(_)
WriteChunks(s) ==
  IF ~s.ok \/ s.left = 0 THEN s
  ELSE LET offset == s.f.pos % BlockUnits
           n == IF s.left > BlockUnits - offset THEN BlockUnits - offset ELSE s.left
           part == SubSeq(s.buf, 1, n)
       IN Then(WriteCluster(s), LAMBDA t :
            LET b == ClusterStartBlock(t.f.cur)
                put == IF n = BlockUnits
                       THEN WriteBlock([t EXCEPT !.blk = IF @ = b THEN Invalid ELSE @], b, part)
                       ELSE Then(IF offset = 0 /\ t.f.pos >= t.f.size
                                 THEN Then(CacheFlush(t, TRUE), LAMBDA u :
                                        [u EXCEPT !.blk = b, !.dirty = TRUE, !.data = EmptyData])
                                 ELSE CacheRawBlock(t, b, TRUE),
                                 LAMBDA u : [u EXCEPT !.data =
                                   [i \in 1..BlockUnits |->
                                      IF i \in (offset + 1)..(offset + n) THEN part[i - offset] ELSE @[i]]])
            IN Then(put, LAMBDA u :
                 WriteChunks([u EXCEPT !.f.pos = @ + n, !.left = @ - n,
                                       !.buf = SubSeq(@, n + 1, Len(@))])))

\* write(buf, n)
Write(s, data) ==
  IF s.f.type # "file" \/ "W" \notin s.f.flags THEN Fail(s)
  ELSE LET at == IF "APPEND" \in s.f.flags /\ s.f.pos # s.f.size THEN SeekSet(s, s.f.size) ELSE Ok(s)
       IN Then(at, LAMBDA t :
            Then(WriteChunks([t EXCEPT !.left = Len(data), !.buf = data]),
                 LAMBDA u : IF u.f.pos > u.f.size
                            THEN [u EXCEPT !.f.size = u.f.pos, !.f.dirDirty = TRUE] ELSE u))

\* availableForWrite: s.val is what a write takes without waiting.  busy: the card
\* is still programming.  A write after a positive answer does not wait for the
\* card either; what it does to the file is the same.
AvailableForWrite(s, busy) ==
  IF s.f.type # "file" \/ "W" \notin s.f.flags THEN [Ok(s) EXCEPT !.val = 0]
  ELSE LET at == IF "APPEND" \in s.f.flags /\ s.f.pos # s.f.size THEN SeekSet(s, s.f.size) ELSE Ok(s)
       IN IF ~at.ok \/ busy THEN [Ok(at) EXCEPT !.val = 0]
          ELSE IF at.f.added THEN [Ok(Sync(at, FALSE)) EXCEPT !.f.added = FALSE, !.val = 0]
          ELSE IF at.mirror # NoMirror THEN [Ok(CacheMirrorBlockFlush(at)) EXCEPT !.val = 0]
          ELSE [at EXCEPT !.val = BlockUnits - (at.f.pos % BlockUnits)]
=============================================================================
