------------------------------ MODULE SdFiles -------------------------------
(***************************************************************************)
(* The SD library as a sketch uses it (SD/src/SD.cpp, SD/src/File.cpp) on   *)
(* the volume of FatVolume and the files of SdFile.  Every call is a step; *)
(* in any of them the card may stop answering after any number of block    *)
(* accesses, and then the call returns its error or the power is gone.     *)
(***************************************************************************)
EXTENDS SdFile

CONSTANTS Handle,    \* File objects of the sketch
          Name,      \* names of files in the root directory
          Dir,       \* names of directories in the root directory
          SubName,   \* names of files in them
          Mode,      \* sets of open flags the sketch uses
          MaxFaults, \* bound: calls in which the card stops answering
          MaxChanges, \* bound: calls that change what is on the card, and faults
          Length,    \* bound: units in a read or a write
          SeekTo,    \* bound: positions the sketch seeks to
          NoPath, NoFile

Path == {<<n>> : n \in Name} \cup {<<d, n>> : d \in Dir, n \in SubName}

VARIABLES
  vol,     \* the card's blocks, SdVolume's cache and its search start
  file,    \* the SdFile of each handle, with the path it was opened by
  begun,   \* SDClass::root is open
  moved,   \* what the last call read or wrote
  listed,  \* the directory the last call listed and what it showed, or <<>>
  unsaved, \* history: paths written since their last flush
  lost,    \* history: paths a call failed on
  full,    \* history: a write or a mkdir has failed for want of space
  cut,     \* history: the last fault hit a call that frees clusters
  content, \* derived from vol and file: what each path names
  faults, changes

vars == <<vol, file, begun, moved, listed, unsaved, lost, full, cut, content, faults, changes>>

Changing == {"create", "truncate", "write", "mkdir", "rmdir", "remove"}
Freeing == {"truncate", "remove", "rmdir"}
NoHandle == [sd |-> Closed, path |-> NoPath]

\* The record the operators of SdFile work on, at the start of a call.
Begun(f, x) ==
  [disk |-> vol.disk, blk |-> vol.blk, data |-> vol.data, dirty |-> vol.dirty,
   mirror |-> vol.mirror, start |-> vol.start,
   f |-> f, d |-> Root, io |-> x[1], torn |-> x[2], met |-> FALSE, ok |-> TRUE,
   val |-> 0, left |-> 0, buf |-> <<>>, scan |-> NoScan]

\* After the power came back: the card as it was left, the library's memory reset.
Restarted(disk) == [disk |-> disk, blk |-> Invalid, data |-> EmptyData, dirty |-> FALSE,
                    mirror |-> NoMirror, start |-> 2]

Init ==
  /\ vol = Restarted([b \in AllBlocks |->
                        CASE b \in {FatBlock, MirrorBlock} -> [c \in 0..(Clusters + 1) |-> IF c < 2 THEN EOC ELSE 0]
                          [] b = RootBlock -> ZeroBlock
                          [] OTHER -> EmptyData])
  /\ file = [h \in Handle |-> NoHandle]
  /\ begun = FALSE /\ moved = <<>> /\ listed = <<>> /\ unsaved = {} /\ lost = {}
  /\ cut = FALSE /\ full = FALSE /\ faults = 0 /\ changes = 0
  /\ content = [p \in Path |-> NoFile]

-----------------------------------------------------------------------------
(* What is on the volume: the card's blocks under the cached one, the         *)
(* entries under the open files.                                             *)

Logical(v, b) == IF v.blk = b THEN v.data ELSE v.disk[b]

EntriesIn(v, blocks) ==
  {[blk |-> b, idx |-> i, e |-> Logical(v, b)[i]] : b \in blocks, i \in 1..BlockEntries}

InUse(entries) == {x \in entries : x.e.name \notin {"free", "deleted", ".", ".."}}

InRoot(v) == InUse(EntriesIn(v, {RootBlock}))

\* The entries of the directory whose entry is d.
InDir(v, d) ==
  InUse(EntriesIn(v, {ClusterStartBlock(c) : c \in ToSet(Chain(Logical(v, FatBlock), d.e.first))}))

Live(v) == LET root == InRoot(v) IN root \cup UNION {InDir(v, d) : d \in {x \in root : x.e.dir}}

\* The entries a path leads to: one, or none.
EntryOf(v, p) ==
  IF Len(p) = 1 THEN {x \in InRoot(v) : x.e.name = p[1] /\ ~x.e.dir}
  ELSE {x \in UNION {InDir(v, d) : d \in {y \in InRoot(v) : y.e.name = p[1] /\ y.e.dir}} :
          x.e.name = p[2]}

\* The entry, or the file open on it, gives the first cluster and the size.
Seen(f, x) ==
  LET on == {h \in Handle : f[h].sd.type = "file" /\ f[h].sd.blk = x.blk /\ f[h].sd.idx = x.idx}
  IN IF on = {} THEN x.e ELSE f[CHOOSE h \in on : TRUE].sd

\* An entry whose chain does not end or is shorter than its size, or a directory
\* without a cluster.
Broken(v, f, x) ==
  LET y == Seen(f, x)
      fat == Logical(v, FatBlock)
  IN \/ y.first # 0 /\ ChainEnd(fat, y.first) # EOC
     \/ y.first = 0 /\ x.e.dir
     \/ ~x.e.dir /\ y.size > BlockUnits * Len(Chain(fat, y.first))

Damaged(v, f) == \E x \in Live(v) : Broken(v, f, x)

DataOf(v, y) ==
  LET chain == Chain(Logical(v, FatBlock), y.first)
      unit(i) == Logical(v, ClusterStartBlock(chain[(i \div BlockUnits) + 1]))[(i % BlockUnits) + 1]
  IN [i \in 1..y.size |-> unit(i - 1)]

\* What a path names: the data of a file, or no file.
ContentOf(v, f, p) ==
  LET xs == EntryOf(v, p)
      x == CHOOSE y \in xs : TRUE
  IN IF xs = {} THEN NoFile
     ELSE IF Broken(v, f, x) THEN <<>> ELSE DataOf(v, Seen(f, x))

Contents(v, f) == [p \in Path |-> ContentOf(v, f, p)]

\* A whole-block write over a dirty cached block leaves a dirty cache without a
\* number: every call that touches the card fails from then on, SD.begin too.
Wedged == vol.blk = Invalid /\ vol.dirty

\* The sketch names paths through directories.
Usable(p) == Len(p) = 2 => \A x \in InRoot(vol) : x.e.name = p[1] => x.e.dir

Idle(p) == \A h \in Handle : file[h].path # p

-----------------------------------------------------------------------------
(* SD.cpp *)

\* getParentDir: the directory of the path; those on the way are closed, which
\* flushes the cache.
RECURSIVE Descend(_, _)
Descend(s, p) ==
  IF Len(p) = 1 THEN s
  ELSE Then(Open([s EXCEPT !.f = Closed], Head(p), {"R"}), LAMBDA t :
         Descend(Ok([CacheFlush(t, TRUE) EXCEPT !.d = t.f, !.f = Closed]), Tail(p)))

GetParentDir(s, p) == Descend([s EXCEPT !.d = Root, !.f = Closed], p)

\* SDClass::open
OpenPath(s, p, mode) ==
  Then(GetParentDir(s, p), LAMBDA t :
    Then(Open(t, Last(p), mode), LAMBDA u :
      LET v == Ok(CacheFlush(u, TRUE))
      IN IF {"APPEND", "W"} \subseteq mode THEN Ok(SeekSet(v, v.f.size)) ELSE v))

\* callback_pathExists on the directory s.d
PathExists(s, name) ==
  Then(Open([s EXCEPT !.f = Closed], name, {"R"}), LAMBDA t : Ok(CacheFlush(t, TRUE)))

MakeDirPath(s, name) ==
  OrElse(PathExists(s, name), LAMBDA t : MakeDir(Ok([t EXCEPT !.f = Closed]), name))

RemovePath(s, name) == Then(Open([s EXCEPT !.f = Closed], name, {"W"}), Remove83)

RemoveDirPath(s, name) == Then(Open([s EXCEPT !.f = Closed], name, {"R"}), RmDir)

\* The callback of a call on a path
Visit(call, s, name) ==
  CASE call = "exists" -> PathExists(s, name)
    [] call = "mkdir" -> MakeDirPath(s, name)
    [] call = "remove" -> RemovePath(s, name)
    [] call = "rmdir" -> RemoveDirPath(s, name)

\* walkPath: the callback is called with every component or, for remove and rmdir,
\* does something at the last one only.  A parent below the root is closed,
\* which flushes the cache.
Leave(s, depth) == IF depth > 0 THEN [CacheFlush(s, TRUE) EXCEPT !.ok = s.ok] ELSE s

RECURSIVE WalkFrom(_, _, _, _)
WalkFrom(s, p, call, depth) ==
  Then(Leave(IF call \in {"remove", "rmdir"} /\ Len(p) > 1 THEN s ELSE Visit(call, s, Head(p)), depth),
       LAMBDA t : IF Len(p) = 1 THEN t
                  ELSE Then(Open([t EXCEPT !.f = Closed], Head(p), {"R"}), LAMBDA u :
                         WalkFrom([u EXCEPT !.d = u.f], Tail(p), call, depth + 1)))

WalkPath(s, p, call) == WalkFrom([s EXCEPT !.d = Root], p, call, 0)

\* openNextFile until it returns no file, from entry k of the directory s.d on,
\* each file closed again: a file is opened by the name just read, which looks
\* through the directory from its start.  The names are added to s.buf.
RECURSIVE OpenNextFile(_, _)
OpenNextFile(s, k) ==
  IF k = BlockEntries * s.d.size THEN s
  ELSE Then(ReadDir(s, k), LAMBDA t :
         LET name == t.data[(k % BlockEntries) + 1].name
         IN CASE name = "free" -> t
              [] name \in {"deleted", ".", ".."} -> OpenNextFile(t, k + 1)
              [] OTHER -> Then(Open([t EXCEPT !.f = Closed], name, {"R"}), LAMBDA u :
                            OpenNextFile(Ok([Close(u) EXCEPT !.buf = Append(@, name)]), k + 1)))

\* The directory is opened, listed and closed.
ListDir(s, p) ==
  Then(IF p = <<>> THEN [s EXCEPT !.f = Root] ELSE OpenPath(s, p, {"R"}), LAMBDA t :
    Then(OpenNextFile([t EXCEPT !.d = t.f], 0), LAMBDA u : Ok(CacheFlush(u, TRUE))))

\* File::peek
Peek(s) ==
  Then(Read(s, 1), LAMBDA t :
    IF t.buf = <<>> THEN t ELSE Ok(SeekSet(t, t.f.pos - 1)))

-----------------------------------------------------------------------------
(* A call makes r of the volume.  A call in which the card failed returns, or *)
(* the power is gone.                                                        *)

\* Of the results r of a call, by the access the card fails at: those of a card
\* that does not fail and of one that fails at any access the call makes.
Outcomes(r) ==
  LET access == IF faults = MaxFaults \/ changes + faults = MaxChanges THEN {}
                ELSE 0..(Always - r[<<Always, FALSE>>].io - 1)
  IN {[r[x] EXCEPT !.val = 0, !.io = 0, !.torn = FALSE] : x \in {<<Always, FALSE>>} \cup (access \X BOOLEAN)}

\* What a call can make of a file f.
Results(f, do(_)) == Outcomes([x \in (0..Always) \X BOOLEAN |-> do(Begun(f, x))])

Kept(r) == [disk |-> r.disk, blk |-> r.blk, data |-> r.data, dirty |-> r.dirty,
            mirror |-> r.mirror, start |-> r.start]

Within(call) == call \in Changing => changes + faults < MaxChanges

Returns(r, call) ==
  /\ Within(call)
  /\ vol' = Kept(r)
  /\ faults' = IF r.met THEN faults + 1 ELSE faults
  /\ changes' = IF call \in Changing THEN changes + 1 ELSE changes
  /\ cut' = IF r.met THEN call \in Freeing ELSE cut
  /\ full' = (full \/ (call \in {"write", "mkdir"} /\ ~r.ok /\ ~r.met))

PowerGoes(r, call) ==
  /\ r.met /\ Within(call)
  /\ vol' = Restarted(r.disk)
  /\ file' = [h \in Handle |-> NoHandle]
  /\ begun' = FALSE /\ moved' = <<>> /\ unsaved' = {} /\ lost' = {}
  /\ cut' = (call \in Freeing) /\ faults' = faults + 1
  /\ UNCHANGED <<full, changes>>

\* SDClass::begin
CardAndVolumeInit(s) == Then(CardInit(s), VolumeInit)

BeginSD ==
  /\ ~begun
  /\ \E r \in Results(Closed, CardAndVolumeInit) :
       \/ /\ Returns(r, "begin")
          /\ begun' = r.ok /\ moved' = <<>>
          /\ UNCHANGED <<file, unsaved, lost>>
       \/ PowerGoes(r, "begin")

\* SDClass::end, with every file closed: the root stays open when the flush fails.
EndSD ==
  /\ begun /\ \A h \in Handle : file[h].path = NoPath
  /\ \E r \in Results(Root, Close) :
       \/ /\ Returns(r, "end")
          /\ begun' = ~r.ok /\ moved' = <<>>
          /\ UNCHANGED <<file, unsaved, lost>>
       \/ PowerGoes(r, "end")

\* A call on an open file: do makes the record r, h becomes then, and data moved
\* when the call succeeds.
OnFile(h, call, do(_), then(_), data(_)) ==
  LET p == file[h].path
  IN /\ begun /\ p # NoPath
     /\ \E r \in Results(file[h].sd, do) :
          \/ /\ Returns(r, call)
             /\ file' = [file EXCEPT ![h] = then(r)]
             /\ moved' = IF r.ok THEN data(r) ELSE <<>>
             /\ unsaved' = CASE call = "write" -> unsaved \cup {p}
                             [] call \in {"flush", "close"} /\ r.ok -> unsaved \ {p}
                             [] OTHER -> unsaved
             /\ lost' = IF r.ok /\ ~r.met THEN lost ELSE lost \cup {p}
             /\ UNCHANGED begun
          \/ PowerGoes(r, call)

Nothing(r) == <<>>
Handled(h, r) == [file[h] EXCEPT !.sd = r.f]

\* File::write
WriteFile(h, n) ==
  /\ "W" \in file[h].sd.flags
  /\ LET data == [i \in 1..n |-> n]
     IN OnFile(h, "write", LAMBDA s : Write(s, data), LAMBDA r : Handled(h, r), LAMBDA r : data)

\* File::read
ReadFile(h, n) ==
  /\ "R" \in file[h].sd.flags
  /\ OnFile(h, "read", LAMBDA s : Read(s, n), LAMBDA r : Handled(h, r), LAMBDA r : r.buf)

PeekFile(h) ==
  /\ "R" \in file[h].sd.flags
  /\ OnFile(h, "peek", Peek, LAMBDA r : Handled(h, r), LAMBDA r : r.buf)

\* File::seek
SeekFile(h, pos) ==
  /\ pos <= file[h].sd.size
  /\ OnFile(h, "seek", LAMBDA s : SeekSet(s, pos), LAMBDA r : Handled(h, r), Nothing)

\* File::flush
FlushFile(h) == OnFile(h, "flush", LAMBDA s : Sync(s, TRUE), LAMBDA r : Handled(h, r), Nothing)

\* File::close frees the SdFile whatever SdFile::close returned.
CloseFile(h) == OnFile(h, "close", Close, LAMBDA r : NoHandle, Nothing)

\* File::availableForWrite
PollFile(h, busy) ==
  OnFile(h, "poll", LAMBDA s : AvailableForWrite(s, busy), LAMBDA r : Handled(h, r), Nothing)

\* SDClass::open
OpenFile(h, p, mode) ==
  /\ begun /\ file[h].path = NoPath /\ Idle(p) /\ Usable(p)
  /\ LET call == CASE "TRUNC" \in mode -> "truncate" [] "CREAT" \in mode -> "create" [] OTHER -> "open"
     IN \E r \in Results(Closed, LAMBDA s : OpenPath(s, p, mode)) :
          \/ /\ Returns(r, call)
             /\ file' = [file EXCEPT ![h] = IF r.ok THEN [sd |-> r.f, path |-> p] ELSE NoHandle]
             /\ moved' = <<>>
             /\ unsaved' = IF r.ok /\ "TRUNC" \in mode THEN unsaved \ {p} ELSE unsaved
             /\ lost' = IF r.ok THEN lost \ {p} ELSE IF r.met THEN lost \cup {p} ELSE lost
             /\ UNCHANGED begun
          \/ PowerGoes(r, call)

\* A call on a path of the card that is not open; S is {p} when it may change p.
OnPath(p, call, do(_), S) ==
  /\ begun /\ Idle(p) /\ Usable(p)
  /\ \E r \in Results(Closed, do) :
       \/ /\ Returns(r, call)
          /\ moved' = <<>>
          /\ unsaved' = IF r.ok THEN unsaved \ S ELSE unsaved
          /\ lost' = IF r.ok THEN lost \ S ELSE IF r.met THEN lost \cup S ELSE lost
          /\ UNCHANGED <<file, begun>>
       \/ PowerGoes(r, call)

\* SDClass::exists, remove, mkdir and rmdir: each walks the path with its callback.
PathCall(call, p) ==
  OnPath(p, call, LAMBDA s : WalkPath(s, p, call), IF call = "remove" THEN {p} ELSE {})

PathCalls == ({"exists", "remove"} \X Path) \cup ({"mkdir", "rmdir"} \X {<<d>> : d \in Dir})

\* The sketch lists the directory p.  A listing the card cut short looks like a
\* whole one to the sketch; here it counts as none.
ListFiles(p) ==
  /\ begun
  /\ \E r \in Results(Closed, LAMBDA s : ListDir(s, p)) :
       \/ /\ Returns(r, "list")
          /\ listed' = IF r.ok THEN <<p>> \o [i \in DOMAIN r.buf |-> Append(p, r.buf[i])] ELSE <<>>
          /\ moved' = <<>>
          /\ UNCHANGED <<file, begun, unsaved, lost>>
       \/ PowerGoes(r, "list") /\ listed' = <<>>

Step ==
  \/ BeginSD
  \/ EndSD
  \/ \E h \in Handle :
       \/ \E p \in Path, mode \in Mode : OpenFile(h, p, mode)
       \/ \E n \in Length : WriteFile(h, n) \/ ReadFile(h, n)
       \/ \E pos \in SeekTo : SeekFile(h, pos)
       \/ \E busy \in BOOLEAN : PollFile(h, busy)
       \/ PeekFile(h)
       \/ FlushFile(h)
       \/ CloseFile(h)
  \/ \E x \in PathCalls : PathCall(x[1], x[2])

\* Behaviours end at a damaged card and at a wedged cache.
Next ==
  /\ ~Damaged(vol, file) /\ ~Wedged
  /\ \/ Step /\ listed' = <<>>
     \/ \E p \in {<<>>} \cup {<<d>> : d \in Dir} : ListFiles(p)
  /\ content' = Contents(vol', file')

Spec == Init /\ [][Next]_vars

-----------------------------------------------------------------------------
(* Properties *)

\* Types; the current cluster is one of the card's, except after a failed write,
\* whose position beyond the size lets a read walk past the end of the chain.
TypeOK ==
  /\ vol.blk \in AllBlocks \cup {Invalid} /\ vol.dirty \in BOOLEAN
  /\ vol.mirror \in {NoMirror, MirrorBlock} /\ vol.start \in 2..(Clusters + 2)
  /\ \A h \in Handle : /\ file[h].path \in Path \cup {NoPath}
                       /\ file[h].sd.type \in {"closed", "file"}
                       /\ \/ file[h].sd.cur \in Cluster \cup {0}
                          \/ file[h].sd.cur = EOC /\ file[h].path \in lost
  /\ unsaved \subseteq Path /\ lost \subseteq Path
  /\ begun \in BOOLEAN /\ full \in BOOLEAN /\ cut \in BOOLEAN
  /\ faults \in 0..MaxFaults /\ changes \in 0..MaxChanges

Owned(x) == ToSet(Chain(Logical(vol, FatBlock), Seen(file, x).first))
Allocated == {c \in Cluster : Logical(vol, FatBlock)[c] # 0}

\* No cluster belongs to two files or directories, and none is freed that still
\* belongs to one, except that a truncation, a remove or an rmdir that the card
\* or the power cut short leaves an entry without its clusters (the FAT is
\* written before the entry).  Clusters nobody owns are left by a fault or by a
\* write or a mkdir that failed, by nothing else.
ClustersOwned ==
  LET live == Live(vol)
  IN IF Damaged(vol, file) THEN cut
     ELSE /\ \A x, y \in live : x # y => Owned(x) \cap Owned(y) = {}
          /\ full \/ Wedged \/ faults > 0 \/ Allocated = UNION {Owned(x) : x \in live}

\* Between calls the two FATs differ only while the first one is in the cache to
\* be written, unless a fault came between the two writes.
FatsAgree ==
  \/ vol.disk[FatBlock] = vol.disk[MirrorBlock]
  \/ vol.blk = FatBlock /\ vol.dirty
  \/ faults > 0

Promise == INSTANCE Files WITH
  open <- [h \in Handle |-> [path |-> file[h].path, pos |-> file[h].sd.pos]]

\* Every call reads or changes the file it names and no other, reads what was
\* written, and what was flushed is found after a power failure: the library
\* implements Files.
KeepsPromise == Promise!Spec

\* Clusters, FATs and entries fit together.
VolumeSound == ClustersOwned /\ FatsAgree
=============================================================================
