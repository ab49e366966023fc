------------------------------- MODULE Templates -------------------------------
(***************************************************************************)
(* The templates of AsyncAbstractResponse: names between percent signs in  *)
(* a file are replaced while it is read into a buffer, and two percent     *)
(* signs stand for one.  A name or a value that does not fit the buffer    *)
(* goes on in _cache, which is read before the file: rest is both.         *)
(* Characters are bytes of WebResponse.                                    *)
(***************************************************************************)
EXTENDS Integers, Sequences, SequencesExt

CONSTANTS NameMax,   \* TEMPLATE_PARAM_NAME_LENGTH
          Values     \* what the processor makes of each name it knows

Character == {"body"} \X Nat
Mark == <<"body", 0>>

\* The loop looks at a value once more after it was put in place: one that holds
\* its own placeholder is replaced for ever.  The processor's values have none.
ASSUME TemplateAssumption ==
  /\ NameMax \in Nat
  /\ \A name \in DOMAIN Values : Values[name] \in Seq(Character) /\ Mark \notin ToSet(Values[name])

ValueOf(name) == IF name \in DOMAIN Values THEN Values[name] ELSE <<>>

Least(m, n) == IF m < n THEN m ELSE n
Upto(s, n) == SubSeq(s, 1, n)
From(s, n) == SubSeq(s, n + 1, Len(s))

FirstOf(I) == CHOOSE i \in I : \A j \in I : i <= j
Marks(text, from) == {i \in from..Len(text) : text[i] = Mark}

\* The buffer, of which room bytes may be used, and what is to come.  met is what
\* went wrong: see Turn and Replace.
Buffer(data, rest, met) == [data |-> data, rest |-> rest, met |-> met]
Spoilt == {"doubled", "cut", "long"}
Buffers(room) == [data : {d \in Seq(Character) : Len(d) <= room}, rest : Seq(Character), met : SUBSET Spoilt]

\* _readDataFromCacheOrContent: n more bytes behind the buffer's.
ReadMore(b, n) ==
  LET k == Least(n, Len(b.rest)) IN Buffer(b.data \o Upto(b.rest, k), From(b.rest, k), b.met)

\* The placeholder from i to e becomes its value; what does not fit is put back.
\* A value too long for the buffer with nothing behind the placeholder is cut
\* where the data ended.
Replace(b, i, e, value, room) ==
  LET all == Upto(b.data, i - 1) \o value \o From(b.data, e)
      overruns == i - 1 + Len(value) > room
      cut == overruns /\ e = Len(b.data) /\ e < room
  IN IF cut THEN Buffer(Upto(all, e), From(all, room) \o b.rest, b.met \cup {"cut"})
     ELSE IF Len(value) < e - i + 1 THEN ReadMore(Buffer(all, b.rest, b.met), room - Len(all))
     ELSE LET fits == Least(room, Len(all)) IN Buffer(Upto(all, fits), From(all, fits) \o b.rest, b.met)

\* The bytes read ahead for the end of a name that begins at i.
Ahead(b, i) == Upto(b.rest, Least(NameMax + 1 - (Len(b.data) - i), Len(b.rest)))

\* Where the loop is: the buffer, and from where on it looks.
At(buffer, at) == [buffer |-> buffer, at |-> at]
Scans(room) == [buffer : Buffers(room), at : Nat \ {0}]

\* A turn of the loop, at the percent sign i.  Of two percent signs that the end of
\* the buffer divides the second is dropped and the first looked at again: it may
\* begin a name.  A name is cut to its limit when both its signs are in the buffer.
Turn(b, i, room) ==
  LET e == FirstOf(Marks(b.data, i + 1))
      known == From(b.data, i)
      ahead == Ahead(b, i)
      end == FirstOf(Marks(ahead, 1))
      name == known \o Upto(ahead, end - 1)
      behind == From(b.rest, end)
      met == IF e - i - 1 > NameMax THEN b.met \cup {"long"} ELSE b.met
  IN IF Marks(b.data, i + 1) # {}
     THEN IF e = i + 1 THEN At(ReadMore(Buffer(Upto(b.data, i) \o From(b.data, e), b.rest, b.met), 1), i + 1)
          ELSE At(Replace(Buffer(b.data, b.rest, met), i, e,
                          ValueOf(SubSeq(b.data, i + 1, Least(e - 1, i + NameMax))), room), i)
     ELSE IF Len(known) > NameMax \/ Marks(ahead, 1) = {} THEN At(b, i + 1)
     ELSE IF name = <<>> THEN At(Buffer(b.data, behind, b.met \cup {"doubled"}), i)
     ELSE At(Replace(Buffer(b.data, behind, b.met), i, Len(b.data), ValueOf(name), room), i)

Processed(x, room) ==
  LET loop[y \in Scans(room)] ==
        LET marks == Marks(y.buffer.data, y.at)
        IN IF marks = {} THEN y.buffer ELSE loop[Turn(y.buffer, FirstOf(marks), room)]
  IN loop[x]

\* _fillBufferAndProcessTemplates
FillTemplates(content, room) ==
  Processed(At(ReadMore(Buffer(<<>>, content, {}), room), 1), room)

\* What a text is meant to become.
Expanded[text \in Seq(Character)] ==
  LET i == FirstOf(Marks(text, 1))
      e == FirstOf(Marks(text, i + 1))
      value == IF e = i + 1 THEN <<Mark>> ELSE ValueOf(SubSeq(text, i + 1, e - 1))
  IN IF Marks(text, 1) = {} THEN text
     ELSE IF Marks(text, i + 1) = {} \/ e - i - 1 > NameMax
     THEN Upto(text, i) \o Expanded[From(text, i)]
     ELSE (Upto(text, i - 1) \o value) \o Expanded[From(text, e)]
=============================================================================
