------------------------------- MODULE Files --------------------------------
(***************************************************************************)
(* What the SD library promises of its files: a path has a content or does *)
(* not exist; a call reads or changes the file it names and no other; what *)
(* was flushed is there after the power came back.  A call that fails       *)
(* leaves its own file uncertain until the file is opened again.           *)
(***************************************************************************)
EXTENDS Naturals, Sequences

CONSTANTS Handle, Path, NoFile, NoPath

VARIABLES content, \* of each path: a sequence of units, or NoFile
          open,    \* of each handle: the path and the position, or NoPath
          unsaved, \* paths changed since their last flush
          lost,    \* paths a call failed on
          moved,   \* what the last call read or wrote
          listed   \* the directory the last call listed and what it showed, or <<>>

vars == <<content, open, unsaved, lost, moved, listed>>

Init ==
  /\ content = [p \in Path |-> NoFile]
  /\ open = [h \in Handle |-> [path |-> NoPath, pos |-> 0]]
  /\ unsaved = {} /\ lost = {} /\ moved = <<>> /\ listed = <<>>

\* No content but that of S changes; that of a lost file is not known anyway.
OthersKept(S) == \A q \in Path \ (S \cup lost) : content'[q] = content[q]

Trusted(p) == p \notin lost

Put(data, pos, part) ==
  SubSeq(data, 1, pos) \o part \o SubSeq(data, pos + Len(part) + 1, Len(data))

Others(h) == \A g \in Handle \ {h} : open'[g] = open[g]

\* Opening finds what is there, or an empty file.
Open(h, p) ==
  /\ open[h].path = NoPath /\ open'[h].path = p /\ Others(h)
  /\ lost' = lost \ {p}
  /\ unsaved' \in {unsaved, unsaved \ {p}}
  /\ moved' = <<>>
  /\ content'[p] # NoFile
  /\ open'[h].pos \in {0, Len(content'[p])}
  /\ Trusted(p) => content'[p] \in {content[p], <<>>}
  /\ OthersKept({p})

\* In place, or at the end when the file was opened to append.
Write(h) ==
  LET p == open[h].path
  IN /\ p # NoPath /\ open'[h].path = p /\ Others(h)
     /\ unsaved' = unsaved \cup {p} /\ lost' = lost
     /\ moved' # <<>>
     /\ Trusted(p) =>
          \E pos \in {open[h].pos, Len(content[p])} :
            /\ open'[h].pos = pos + Len(moved')
            /\ content'[p] = Put(content[p], pos, moved')
     /\ OthersKept({p})

Read(h) ==
  LET p == open[h].path
  IN /\ p # NoPath /\ open'[h].path = p /\ Others(h)
     /\ UNCHANGED <<lost, unsaved>>
     /\ Trusted(p) => /\ open'[h].pos = open[h].pos + Len(moved')
                      /\ moved' = SubSeq(content[p], open[h].pos + 1, open'[h].pos)
     /\ OthersKept({})

\* The unit at the position, if there is one; the position stays.
Peek(h) ==
  LET p == open[h].path
  IN /\ p # NoPath /\ open'[h].path = p /\ Others(h)
     /\ UNCHANGED <<lost, unsaved>>
     /\ Trusted(p) => /\ open'[h].pos = open[h].pos
                      /\ moved' = IF open[h].pos < Len(content[p]) THEN <<content[p][open[h].pos + 1]>>
                                                                   ELSE <<>>
     /\ OthersKept({})

Seek(h) ==
  LET p == open[h].path
  IN /\ p # NoPath /\ open'[h].path = p /\ Others(h)
     /\ moved' = <<>> /\ UNCHANGED <<lost, unsaved>>
     /\ Trusted(p) => open'[h].pos \in 0..Len(content[p])
     /\ OthersKept({})

Flush(h) ==
  LET p == open[h].path
  IN /\ p # NoPath /\ moved' = <<>>
     /\ unsaved' = unsaved \ {p} /\ lost' = lost
     /\ open' \in {open, [open EXCEPT ![h] = [path |-> NoPath, pos |-> 0]]}
     /\ OthersKept({})

Remove(p) ==
  /\ \A h \in Handle : open[h].path # p
  /\ moved' = <<>> /\ open' = open
  /\ unsaved' = unsaved \ {p} /\ lost' = lost \ {p}
  /\ content'[p] = NoFile
  /\ OthersKept({p})

\* The listing of a directory shows each of its files once.
List ==
  /\ moved' = <<>> /\ UNCHANGED <<open, unsaved, lost>>
  /\ listed' # <<>>
  /\ \A i, j \in DOMAIN listed' : listed'[i] = listed'[j] => i = j
  /\ \A p \in Path :
       (Trusted(p) /\ SubSeq(p, 1, Len(p) - 1) = listed'[1]) =>
         ((\E i \in DOMAIN listed' : listed'[i] = p) <=> content[p] # NoFile)
  /\ OthersKept({})

\* A call on p that returns false, or one that leaves no trace here.
Other(S) ==
  /\ moved' = <<>>
  /\ lost' \in {lost, lost \cup S}
  /\ unsaved' \in {unsaved, unsaved \cup S, unsaved \ S}
  /\ \A h \in Handle : open'[h] = open[h] \/ open[h].path \in S
  /\ OthersKept(IF lost' = lost THEN {} ELSE S)

\* The power fails, possibly in a call on one of S.
PowerFailure(S) ==
  /\ \A h \in Handle : open'[h].path = NoPath
  /\ lost' = {} /\ unsaved' = {} /\ moved' = <<>>
  /\ OthersKept(unsaved \cup S)

Next ==
  \/ List
  \/ /\ \/ \E h \in Handle : \/ \E p \in Path : Open(h, p)
                             \/ Write(h) \/ Read(h) \/ Peek(h) \/ Seek(h) \/ Flush(h)
        \/ \E p \in Path : Remove(p)
        \/ \E S \in {{}} \cup {{p} : p \in Path} : Other(S) \/ PowerFailure(S)
     /\ listed' = <<>>

Spec == Init /\ [][Next]_vars
=============================================================================
