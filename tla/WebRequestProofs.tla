------------------------------ MODULE WebRequestProofs ------------------------------
(*****************************************************************************)
(* Proofs about WebRequest, for any handlers, rewrites, messages, bounds     *)
(* and cuts of what is sent.                                                 *)
(*                                                                           *)
(* Three layers.  Kept: what a segment of a body, whatever its bytes, does   *)
(* not change, or changes only so that the buffer of an upload keeps room    *)
(* and a refused request stays untold.  Reads: the same of a head, up to     *)
(* the choice of a handler.  Did: the same of a handler that is called at    *)
(* the end, which may also switch the network; NetInv is what keeps the      *)
(* device's pages served there.  Settled puts them together: a handler is    *)
(* called only while the port is open, since a request that is not at its    *)
(* end has come through it and nothing else closes it.                       *)
(*                                                                           *)
(* The loops over bytes, handlers, attempts and units are recursive          *)
(* functions of a position.  That each exists is proved from the least       *)
(* position where it would not (Least), and a fact about all its values      *)
(* from the least position where the fact would fail.                        *)
(*                                                                           *)
(* Digests are apart: the checks of one depend on nothing but its parts.     *)
(*****************************************************************************)
EXTENDS WebRequest, SequenceTheorems, NaturalsInduction, WellFoundedInduction, TLAPS

-----------------------------------------------------------------------------
(* Numbers *)

\* A set of numbers that is not empty has a least one.
LEMMA Least ==
  ASSUME NEW T \in SUBSET Nat, T # {}
  PROVE  \E n \in T : \A m \in T : n <= m
<1> DEFINE R == OpToRel(<, Nat)
<1>1. IsWellFoundedOn(R, Nat)
  BY NatLessThanWellFounded
<1>2. \A x, y \in Nat : <<x, y>> \in R <=> x < y
  BY DEF OpToRel
<1> HIDE DEF R
<1>3. PICK n \in T : \A m \in T : <<m, n>> \notin R
  BY <1>1, WFMin
<1>4. n \in Nat /\ \A m \in T : m \in Nat /\ ~(m < n)
  BY <1>2, <1>3
<1> QED BY <1>4

-----------------------------------------------------------------------------
(* What is kept *)

\* The fields the invariant speaks of.
RequestFields == {"parseState", "dead", "handler", "itemBuffer", "answers", "method", "authorization", "got", "boundaryPosition"}
Shaped(s) ==
  /\ {"q", "v", "luck"} \subseteq DOMAIN s
  /\ RequestFields \subseteq DOMAIN s.q
  /\ {"request", "body", "file"} \subseteq DOMAIN s.q.got
  /\ {"wifi", "gzipStats"} \subseteq DOMAIN s.v
  /\ s.q.answers \in Seq(Nat) /\ s.q.boundaryPosition \in Nat

\* A sequence of anything.
IsText(x) == \E T : x \in Seq(T)

\* Texts one behind the other are a text.
LEMMA TextConcat ==
  ASSUME NEW x, NEW y, IsText(x), IsText(y)
  PROVE  IsText(x \o y) /\ Len(x \o y) = Len(x) + Len(y)
<1>1. PICK S : x \in Seq(S)
  BY DEF IsText
<1>2. PICK T : y \in Seq(T)
  BY DEF IsText
<1>3. x \in Seq(S \cup T) /\ y \in Seq(S \cup T)
  BY <1>1, <1>2, SeqMonotonic
<1>4. x \o y \in Seq(S \cup T) /\ Len(x \o y) = Len(x) + Len(y)
  BY <1>3, ConcatProperties
<1> QED BY <1>4 DEF IsText

\* A part of a text is one, of the length its ends say.
LEMMA TextPart ==
  ASSUME NEW x, IsText(x), NEW i \in Int, NEW j \in Int, 1 <= i, j <= Len(x)
  PROVE  IsText(SubSeq(x, i, j)) /\ Len(SubSeq(x, i, j)) = IF i <= j THEN j - i + 1 ELSE 0
<1>1. PICK S : x \in Seq(S)
  BY DEF IsText
<1>2. \A k \in i..j : x[k] \in S
  BY <1>1, ElementOfSeq, LenProperties
<1>3. SubSeq(x, i, j) \in Seq(S) /\ Len(SubSeq(x, i, j)) = IF i <= j THEN j - i + 1 ELSE 0
  BY <1>2, SubSeqProperties
<1> QED BY <1>3 DEF IsText

\* A text has a length and its positions.
LEMMA TextLength ==
  ASSUME NEW x, IsText(x)
  PROVE  Len(x) \in Nat /\ DOMAIN x = 1..Len(x)
BY LenProperties DEF IsText

\* The buffer of an upload has room for one byte more.
Buffered(q) == IsText(q.itemBuffer) /\ Len(q.itemBuffer) < UploadMax

\* A function behind a password that does not let the request through has been
\* told nothing, and the browser nothing but that.
Refused(q) == HandlerOf(q.handler).kind = "callback" /\ ~LetsThrough(q, HandlerOf(q.handler))
Silent(q) == q.got.body = <<>> /\ q.got.file = <<>> /\ \A i \in DOMAIN q.answers : q.answers[i] = 401

\* The same request further on.
SameRequest(q, p) ==
  /\ p.parseState = q.parseState /\ p.handler = q.handler
  /\ p.method = q.method /\ p.authorization = q.authorization
  /\ (Buffered(q) => Buffered(p)) /\ (Refused(q) /\ Silent(q) => Silent(p))

\* The same request further on, on a device whose network is the same.
Kept(s, t) ==
  /\ Shaped(t) /\ SameRequest(s.q, t.q) /\ t.luck = s.luck
  /\ t.v.wifi = s.v.wifi /\ t.v.gzipStats = s.v.gzipStats

\* A state keeps what it has.
LEMMA KeptSame == ASSUME NEW s, Shaped(s) PROVE Kept(s, s)
BY DEF Kept, SameRequest

\* Whether a request is refused depends on its handler, method and authorization.
LEMMA RefusedSame ==
  ASSUME NEW q, NEW p, p.handler = q.handler, p.method = q.method, p.authorization = q.authorization
  PROVE  Refused(q) <=> Refused(p)
BY DEF Refused, LetsThrough, Authenticate

\* What two steps keep, both together keep.
LEMMA KeptOn ==
  ASSUME NEW s, NEW t, NEW u, Kept(s, t), Kept(t, u)
  PROVE  Kept(s, u)
<1>1. Refused(s.q) <=> Refused(t.q)
  BY RefusedSame DEF Kept, SameRequest
<1> QED BY <1>1 DEF Kept, SameRequest

\* Nothing that the invariant speaks of is changed.
Like(s, t) ==
  /\ {"q", "v", "luck"} \subseteq DOMAIN t /\ RequestFields \subseteq DOMAIN t.q
  /\ {"wifi", "gzipStats"} \subseteq DOMAIN t.v /\ {"request", "body", "file"} \subseteq DOMAIN t.q.got
  /\ t.luck = s.luck /\ t.v.wifi = s.v.wifi /\ t.v.gzipStats = s.v.gzipStats
  /\ t.q.parseState = s.q.parseState /\ t.q.handler = s.q.handler
  /\ t.q.method = s.q.method /\ t.q.authorization = s.q.authorization
  /\ t.q.itemBuffer = s.q.itemBuffer /\ t.q.answers = s.q.answers
  /\ t.q.got.body = s.q.got.body /\ t.q.got.file = s.q.got.file
  /\ t.q.boundaryPosition \in Nat

\* A step that changes nothing of it keeps it.
LEMMA LikeKept ==
  ASSUME NEW s, Shaped(s), NEW t, Like(s, t)
  PROVE  Kept(s, t)
BY DEF Like, Kept, Shaped, SameRequest, Buffered, Silent

-----------------------------------------------------------------------------
(* Answers *)

\* send: a refused request hears only 401.
LEMMA SendKeeps ==
  ASSUME NEW s, Shaped(s), NEW code \in Nat, Refused(s.q) => code = 401
  PROVE  Kept(s, Send(s, code))
<1> DEFINE t == Send(s, code)
<1>1. /\ {"q", "v", "luck"} \subseteq DOMAIN t /\ RequestFields \subseteq DOMAIN t.q
      /\ t.v = s.v /\ t.luck = s.luck /\ t.q.got = s.q.got /\ t.q.answers = Append(s.q.answers, code)
      /\ t.q.parseState = s.q.parseState /\ t.q.handler = s.q.handler /\ t.q.method = s.q.method
      /\ t.q.authorization = s.q.authorization /\ t.q.boundaryPosition = s.q.boundaryPosition
      /\ t.q.itemBuffer = s.q.itemBuffer
  BY DEF Send, Shaped, RequestFields
<1>2. Append(s.q.answers, code) \in Seq(Nat) /\ Len(Append(s.q.answers, code)) = Len(s.q.answers) + 1
      /\ \A i \in 1..Len(s.q.answers) + 1 : Append(s.q.answers, code)[i] = IF i = Len(s.q.answers) + 1 THEN code ELSE s.q.answers[i]
  BY AppendProperties DEF Shaped
<1>3. DOMAIN s.q.answers = 1..Len(s.q.answers) /\ DOMAIN Append(s.q.answers, code) = 1..Len(s.q.answers) + 1 /\ Len(s.q.answers) \in Nat
  BY <1>2, LenProperties DEF Shaped
<1>4. Refused(s.q) /\ Silent(s.q) => Silent(t.q)
  BY <1>1, <1>2, <1>3 DEF Silent
<1>5. Shaped(t)
  BY <1>1, <1>2 DEF Shaped
<1> HIDE DEF t
<1>6. Kept(s, t)
  BY <1>1, <1>4, <1>5 DEF Kept, SameRequest, Buffered
<1> QED BY <1>6 DEF t

\* requestAuthentication sends 401, whatever the request.
LEMMA RefusalKeeps ==
  ASSUME NEW s, Shaped(s)
  PROVE  Kept(s, RequestAuthentication(s))
BY SendKeeps DEF RequestAuthentication

\* A crash leaves the request as it was.
LEMMA DiesKeeps ==
  ASSUME NEW s, Shaped(s)
  PROVE  Kept(s, Dies(s))
<1>1. Like(s, Dies(s))
  BY DEF Dies, Like, Shaped, RequestFields
<1> QED BY <1>1, LikeKept

-----------------------------------------------------------------------------
(* The bodies and files *)

\* A function is told a piece of a body only behind its password.
LEMMA BodyToldKeeps ==
  ASSUME NEW s, Shaped(s), NEW data, NEW index, HandlerOf(s.q.handler).kind = "callback"
  PROVE  Kept(s, CallbackHandleBody(s, HandlerOf(s.q.handler), data, index))
<1> DEFINE h == HandlerOf(s.q.handler)
           u == [s EXCEPT !.q.got.gap = @ \/ index # Len(s.q.got.body), !.q.got.body = @ \o data]
           t == CallbackHandleBody(s, h, data, index)
<1>1. CASE Refused(s.q)
  <2>1. t = RequestAuthentication(s)
    BY <1>1 DEF CallbackHandleBody, Refused
  <2> QED BY <2>1, RefusalKeeps
<1>2. CASE ~Refused(s.q) /\ h.onBody
  <2>1. t = u
    BY <1>2 DEF CallbackHandleBody, Refused
  <2>2. /\ {"q", "v", "luck"} \subseteq DOMAIN u /\ RequestFields \subseteq DOMAIN u.q /\ DOMAIN u.q.got = DOMAIN s.q.got
        /\ u.v = s.v /\ u.luck = s.luck /\ u.q.answers = s.q.answers
        /\ u.q.parseState = s.q.parseState /\ u.q.handler = s.q.handler /\ u.q.method = s.q.method
        /\ u.q.authorization = s.q.authorization /\ u.q.boundaryPosition = s.q.boundaryPosition
      /\ u.q.itemBuffer = s.q.itemBuffer
    BY DEF Shaped, RequestFields
  <2> HIDE DEF u, t
  <2>3. Kept(s, u)
    BY <1>2, <2>2 DEF Kept, Shaped, SameRequest, Buffered
  <2> QED BY <2>1, <2>3 DEF t
<1>3. CASE ~Refused(s.q) /\ ~h.onBody
  <2>1. t = s
    BY <1>3 DEF CallbackHandleBody, Refused
  <2> QED BY <2>1, KeptSame
<1> QED BY <1>1, <1>2, <1>3

\* The JSON handler gathers a body in the request.
LEMMA JsonBodyKeeps ==
  ASSUME NEW s, Shaped(s), NEW h, NEW data, NEW index, NEW total
  PROVE  Kept(s, JsonHandleBody(s, h, data, index, total))
<1> DEFINE buffer == IF s.q.tempObject = Nothing /\ total > 0 /\ total < MaxJson
                     THEN [i \in 1..total |-> "?"] ELSE s.q.tempObject
           With(x) == [s EXCEPT !.v.jsonLength = total, !.q.tempObject = x]
<1>1. ASSUME NEW x PROVE Like(s, With(x))
  BY DEF Like, Shaped, RequestFields
<1>2. ASSUME NEW x, NEW y PROVE Like(s, [With(x) EXCEPT !.q.tempObject = y])
  BY DEF Like, Shaped, RequestFields
<1>3. ASSUME NEW x PROVE Kept(s, With(x)) /\ Shaped(With(x))
  BY <1>1, LikeKept DEF Kept
<1>4. ASSUME NEW x PROVE Kept(s, Dies(With(x)))
  <2> HIDE DEF With
  <2>1. Kept(With(x), Dies(With(x)))
    BY <1>3, DiesKeeps
  <2> QED BY <1>3, <2>1, KeptOn
<1>5. ASSUME NEW x, NEW y PROVE Kept(s, [With(x) EXCEPT !.q.tempObject = y])
  BY <1>2, LikeKept
<1> HIDE DEF buffer
<1> DEFINE y == [i \in 1..total |-> IF i \in index + 1..index + Len(data) THEN data[i - index] ELSE buffer[i]]
<1>6. \/ JsonHandleBody(s, h, data, index, total) = s
      \/ JsonHandleBody(s, h, data, index, total) = With(buffer)
      \/ JsonHandleBody(s, h, data, index, total) = Dies(With(buffer))
      \/ JsonHandleBody(s, h, data, index, total) = [With(buffer) EXCEPT !.q.tempObject = y]
  BY DEF JsonHandleBody, buffer
<1> DEFINE t == JsonHandleBody(s, h, data, index, total)
<1> HIDE DEF With, y, t
<1>7. Kept(s, t)
  BY <1>3, <1>4, <1>5, <1>6, KeptSame DEF t
<1> QED BY <1>7 DEF t

\* Every handler's handleBody keeps what the invariant speaks of.
LEMMA BodyKeeps ==
  ASSUME NEW s, Shaped(s), NEW data, NEW index, NEW total
  PROVE  Kept(s, HandleBody(s, data, index, total))
<1> DEFINE h == HandlerOf(s.q.handler)
<1>1. CASE h.kind = "callback"
  <2>1. HandleBody(s, data, index, total) = CallbackHandleBody(s, h, data, index)
    BY <1>1 DEF HandleBody
  <2> QED BY <1>1, <2>1, BodyToldKeeps
<1>2. CASE h.kind = "json"
  <2>1. HandleBody(s, data, index, total) = JsonHandleBody(s, h, data, index, total)
    BY <1>2 DEF HandleBody
  <2> QED BY <2>1, JsonBodyKeeps
<1>3. CASE h.kind \notin {"callback", "json"}
  <2>1. HandleBody(s, data, index, total) = s
    BY <1>3 DEF HandleBody
  <2> QED BY <2>1, KeptSame
<1> QED BY <1>1, <1>2, <1>3

\* A function is told a piece of a file only behind its password.
LEMMA FileToldKeeps ==
  ASSUME NEW s, Shaped(s), NEW filename, NEW index, NEW data, NEW final, HandlerOf(s.q.handler).kind = "callback"
  PROVE  Kept(s, CallbackHandleUpload(s, HandlerOf(s.q.handler), filename, index, data, final))
<1> DEFINE h == HandlerOf(s.q.handler)
           t == CallbackHandleUpload(s, h, filename, index, data, final)
           Given(x) == [s EXCEPT !.q.got.file = x]
           gap == [s EXCEPT !.q.got.gap = TRUE]
<1>1. CASE Refused(s.q)
  <2>1. t = RequestAuthentication(s)
    BY <1>1 DEF CallbackHandleUpload, Refused
  <2> QED BY <2>1, RefusalKeeps
<1>2. CASE ~Refused(s.q)
  <2>1. ASSUME NEW x PROVE Kept(s, Given(x))
    <3>1. /\ {"q", "v", "luck"} \subseteq DOMAIN Given(x) /\ RequestFields \subseteq DOMAIN Given(x).q
          /\ DOMAIN Given(x).q.got = DOMAIN s.q.got
          /\ Given(x).v = s.v /\ Given(x).luck = s.luck /\ Given(x).q.answers = s.q.answers
          /\ Given(x).q.parseState = s.q.parseState /\ Given(x).q.handler = s.q.handler /\ Given(x).q.method = s.q.method
          /\ Given(x).q.authorization = s.q.authorization /\ Given(x).q.boundaryPosition = s.q.boundaryPosition
      /\ Given(x).q.itemBuffer = s.q.itemBuffer
      BY DEF Shaped, RequestFields
    <3> HIDE DEF Given
    <3> QED BY <1>2, <3>1 DEF Kept, Shaped, SameRequest, Buffered
  <2>2. Kept(s, gap)
    <3>1. Like(s, gap)
      BY DEF Like, Shaped, RequestFields
    <3> QED BY <3>1, LikeKept
  <2>3. t = s \/ t = gap \/ \E x : t = Given(x)
    BY <1>2 DEF CallbackHandleUpload, Refused
  <2> HIDE DEF Given, gap, t
  <2>4. Kept(s, t)
    BY <2>1, <2>2, <2>3, KeptSame
  <2> QED BY <2>4 DEF t
<1> QED BY <1>1, <1>2

\* Files are outside the invariant.
LEMMA WriteFileKeeps ==
  ASSUME NEW s, Shaped(s), NEW path, NEW content
  PROVE  Kept(s, WriteFile(s, path, content)) /\ Shaped(WriteFile(s, path, content))
<1>1. Like(s, WriteFile(s, path, content))
  BY DEF Like, Shaped, RequestFields, WriteFile
<1> QED BY <1>1, LikeKept DEF Kept

\* The editor's uploads change files.
LEMMA EditorUploadKeeps ==
  ASSUME NEW s, Shaped(s), NEW h, NEW filename, NEW index, NEW data, NEW final
  PROVE  Kept(s, EditorHandleUpload(s, h, filename, index, data, final))
<1>1. Kept(s, OpenUpload(s, h, filename, index))
  <2> DEFINE u == WriteFile(s, filename, <<>>)
             t == [u EXCEPT !.q.tempFile = filename, !.v.authenticated = TRUE]
  <2>1. OpenUpload(s, h, filename, index) = s \/ OpenUpload(s, h, filename, index) = t
    BY DEF OpenUpload
  <2>2. Kept(s, u) /\ Shaped(u)
    BY WriteFileKeeps
  <2> HIDE DEF u
  <2>3. Like(u, t)
    BY <2>2 DEF Like, Shaped, RequestFields
  <2> HIDE DEF t
  <2>4. Kept(u, t)
    BY <2>2, <2>3, LikeKept
  <2> QED BY <2>1, <2>2, <2>4, KeptOn, KeptSame
<1>2. ASSUME NEW r, Shaped(r) PROVE Kept(r, WriteUpload(r, data, final))
  <2> DEFINE path == r.q.tempFile
             w == WriteFile(r, path, r.v.files[path] \o data)
             u == IF Exists(r, path) THEN w ELSE r
             t == [u EXCEPT !.q.tempFile = IF final THEN Nothing ELSE @]
  <2>1. WriteUpload(r, data, final) = r \/ WriteUpload(r, data, final) = t
    BY DEF WriteUpload
  <2>2. Kept(r, u) /\ Shaped(u)
    <3>1. Kept(r, w) /\ Shaped(w)
      BY <1>2, WriteFileKeeps
    <3> HIDE DEF w
    <3> QED BY <1>2, <3>1, KeptSame
  <2> HIDE DEF u
  <2>3. Like(u, t)
    BY <2>2 DEF Like, Shaped, RequestFields
  <2> HIDE DEF t
  <2>4. Kept(u, t)
    BY <2>2, <2>3, LikeKept
  <2> QED BY <1>2, <2>1, <2>2, <2>4, KeptOn, KeptSame
<1> DEFINE o == OpenUpload(s, h, filename, index)
           e == WriteUpload(o, data, final)
<1>3. EditorHandleUpload(s, h, filename, index, data, final) = e
  BY DEF EditorHandleUpload
<1>4. Shaped(o)
  BY <1>1 DEF Kept
<1>5. Kept(o, e)
  <2> HIDE DEF o
  <2> QED BY <1>2, <1>4
<1> HIDE DEF e, o
<1> QED BY <1>1, <1>3, <1>5, KeptOn DEF o

\* Every handler's handleUpload keeps what the invariant speaks of.
LEMMA UploadKeeps ==
  ASSUME NEW s, Shaped(s), NEW filename, NEW index, NEW data, NEW final
  PROVE  Kept(s, HandleUpload(s, filename, index, data, final))
<1> DEFINE h == HandlerOf(s.q.handler)
<1>1. CASE h.kind = "callback"
  <2>1. HandleUpload(s, filename, index, data, final) = CallbackHandleUpload(s, h, filename, index, data, final)
    BY <1>1 DEF HandleUpload
  <2> QED BY <1>1, <2>1, FileToldKeeps
<1>2. CASE h.kind = "editor"
  <2>1. HandleUpload(s, filename, index, data, final) = EditorHandleUpload(s, h, filename, index, data, final)
    BY <1>2 DEF HandleUpload
  <2> QED BY <2>1, EditorUploadKeeps
<1>3. CASE h.kind \notin {"callback", "editor"}
  <2>1. HandleUpload(s, filename, index, data, final) = s
    BY <1>3 DEF HandleUpload
  <2> QED BY <2>1, KeptSame
<1> QED BY <1>1, <1>2, <1>3

-----------------------------------------------------------------------------
(* The items of a body *)

\* A byte of a file: the buffer is given away when it is full, so it has room again.
LEMMA ByteKeeps ==
  ASSUME NEW s, Shaped(s), NEW data, NEW last
  PROVE  Kept(s, HandleUploadByte(s, data, last))
<1> DEFINE buffer == Append(s.q.itemBuffer, data)
           t == [s EXCEPT !.q.itemBuffer = Append(@, data)]
           u == HandleUpload(t, t.q.itemFilename, t.q.itemSize - Len(t.q.itemBuffer), t.q.itemBuffer, FALSE)
           v == [u EXCEPT !.q.itemBuffer = <<>>]
<1>1. /\ {"q", "v", "luck"} \subseteq DOMAIN t /\ RequestFields \subseteq DOMAIN t.q
      /\ t.v = s.v /\ t.luck = s.luck /\ t.q.got = s.q.got /\ t.q.answers = s.q.answers
      /\ t.q.parseState = s.q.parseState /\ t.q.handler = s.q.handler /\ t.q.method = s.q.method
      /\ t.q.authorization = s.q.authorization /\ t.q.boundaryPosition = s.q.boundaryPosition
      /\ t.q.itemBuffer = buffer
  BY DEF Shaped, RequestFields
<1>2. HandleUploadByte(s, data, last) = IF last \/ Len(t.q.itemBuffer) = UploadMax THEN v ELSE t
  BY DEF HandleUploadByte
<1>3. Buffered(s.q) => IsText(buffer) /\ Len(buffer) = Len(s.q.itemBuffer) + 1 /\ Len(s.q.itemBuffer) \in Nat
  <2> SUFFICES ASSUME Buffered(s.q) PROVE IsText(buffer) /\ Len(buffer) = Len(s.q.itemBuffer) + 1 /\ Len(s.q.itemBuffer) \in Nat
    OBVIOUS
  <2>1. PICK T : s.q.itemBuffer \in Seq(T)
    BY DEF Buffered, IsText
  <2>2. s.q.itemBuffer \in Seq(T \cup {data})
    BY <2>1, SeqMonotonic
  <2>3. buffer \in Seq(T \cup {data}) /\ Len(buffer) = Len(s.q.itemBuffer) + 1
    BY <2>2, AppendProperties
  <2> QED BY <2>2, <2>3, LenProperties DEF IsText
<1> HIDE DEF buffer
<1>4. Shaped(t) /\ (Refused(t.q) <=> Refused(s.q)) /\ (Silent(t.q) <=> Silent(s.q))
  <2> HIDE DEF t
  <2> QED BY <1>1, RefusedSame DEF Shaped, Silent
<1>5. Kept(t, u)
  <2> HIDE DEF t
  <2> QED BY <1>4, UploadKeeps
<1> HIDE DEF u
<1>6. /\ {"q", "v", "luck"} \subseteq DOMAIN v /\ RequestFields \subseteq DOMAIN v.q
      /\ v.v = u.v /\ v.luck = u.luck /\ v.q.got = u.q.got /\ v.q.answers = u.q.answers
      /\ v.q.parseState = u.q.parseState /\ v.q.handler = u.q.handler /\ v.q.method = u.q.method
      /\ v.q.authorization = u.q.authorization /\ v.q.boundaryPosition = u.q.boundaryPosition
      /\ v.q.itemBuffer = <<>>
  BY <1>5 DEF Kept, Shaped, RequestFields
<1>7. Buffered(v.q)
  <2>1. v.q.itemBuffer \in Seq({}) /\ Len(v.q.itemBuffer) = 0
    BY <1>6, EmptySeq
  <2> QED BY <2>1, RequestAssumption DEF Buffered, IsText
<1> HIDE DEF v, t
<1>8. Kept(s, v)
  <2>1. Refused(u.q) <=> Refused(t.q)
    BY <1>5, RefusedSame DEF Kept, SameRequest
  <2>2. Refused(s.q) /\ Silent(s.q) => Silent(v.q)
    BY <1>4, <1>5, <1>6, <2>1 DEF Kept, SameRequest, Silent
  <2> QED BY <1>1, <1>5, <1>6, <1>7, <2>2 DEF Kept, SameRequest, Shaped
<1>9. Len(buffer) # UploadMax => Kept(s, t)
  <2>1. Len(buffer) # UploadMax /\ Buffered(s.q) => Buffered(t.q)
    BY <1>1, <1>3, RequestAssumption DEF Buffered
  <2> QED BY <1>1, <1>4, <2>1 DEF Kept, SameRequest
<1> DEFINE w == HandleUploadByte(s, data, last)
<1> HIDE DEF w
<1>10. Kept(s, w)
  BY <1>1, <1>2, <1>8, <1>9 DEF w
<1> QED BY <1>10 DEF w

\* A byte of an item.
LEMMA ItemByteKeeps ==
  ASSUME NEW s, Shaped(s), NEW byte, NEW last
  PROVE  Kept(s, ItemByte(s, byte, last))
<1> DEFINE t == [s EXCEPT !.q.itemSize = @ + 1]
           u == [t EXCEPT !.q.itemValue = Append(@, byte)]
           w == HandleUploadByte(t, byte, last)
<1>1. Like(s, t) /\ Like(s, u)
  BY DEF Like, Shaped, RequestFields
<1>2. Kept(s, t) /\ Kept(s, u)
  BY <1>1, LikeKept
<1>3. Shaped(t)
  BY <1>2 DEF Kept
<1>4. ItemByte(s, byte, last) = w \/ ItemByte(s, byte, last) = u
  BY DEF ItemByte
<1>5. Kept(t, w)
  <2> HIDE DEF t
  <2> QED BY <1>3, ByteKeeps
<1> HIDE DEF t, u, w
<1>6. Kept(s, w)
  BY <1>2, <1>5, KeptOn
<1> QED BY <1>2, <1>4, <1>6

\* g[i] is the request after i bytes of an item.
Writes(g, n, s, bytes, last) == g = [i \in 0..n |-> IF i = 0 THEN s ELSE ItemByte(g[i - 1], bytes[i], last)]

\* A run of bytes of an item is a recursion on their number: it exists.
LEMMA WritesExist ==
  ASSUME NEW s, NEW bytes, NEW last, NEW n \in Nat
  PROVE  \E g : Writes(g, n, s, bytes, last)
<1> DEFINE Bad == {k \in Nat : ~\E g : Writes(g, k, s, bytes, last)}
<1> SUFFICES ASSUME Bad # {} PROVE FALSE
  OBVIOUS
<1>1. PICK k \in Bad : \A m \in Bad : k <= m
  BY Least
<1>2. CASE k = 0
  <2> DEFINE g == [i \in 0..0 |-> s]
  <2>1. Writes(g, 0, s, bytes, last)
    BY DEF Writes
  <2> QED BY <1>2, <2>1
<1>3. CASE k # 0
  <2>1. k \in Nat /\ k - 1 \in Nat /\ k - 1 \notin Bad
    BY <1>1, <1>3
  <2>2. PICK h : Writes(h, k - 1, s, bytes, last)
    BY <2>1
  <2> DEFINE g == [i \in 0..k |-> IF i < k THEN h[i] ELSE ItemByte(h[k - 1], bytes[k], last)]
  <2>3. Writes(g, k, s, bytes, last)
    <3>1. ASSUME NEW i \in 0..k PROVE g[i] = IF i = 0 THEN s ELSE ItemByte(g[i - 1], bytes[i], last)
      <4>1. CASE i = k
        BY <1>3, <2>1, <4>1
      <4>2. CASE i < k
        <5>1. h[i] = IF i = 0 THEN s ELSE ItemByte(h[i - 1], bytes[i], last)
          BY <2>1, <2>2, <4>2 DEF Writes
        <5> QED BY <2>1, <4>2, <5>1
      <4> QED BY <2>1, <4>1, <4>2
    <3> QED BY <3>1 DEF Writes
  <2> QED BY <1>1, <2>3
<1> QED BY <1>2, <1>3

\* itemWriteByte, byte after byte, is the last of it.
LEMMA ItemWriteIs ==
  ASSUME NEW s, NEW bytes, NEW last, Len(bytes) \in Nat
  PROVE  \E g : Writes(g, Len(bytes), s, bytes, last) /\ ItemWrite(s, bytes, last) = g[Len(bytes)]
<1> DEFINE g == CHOOSE g : Writes(g, Len(bytes), s, bytes, last)
<1>1. Writes(g, Len(bytes), s, bytes, last)
  BY WritesExist
<1>2. ItemWrite(s, bytes, last) = g[Len(bytes)]
  BY DEF ItemWrite, Writes
<1> QED BY <1>1, <1>2

\* By the first byte that would not.
LEMMA ItemWriteKeeps ==
  ASSUME NEW s, Shaped(s), NEW bytes, NEW last, Len(bytes) \in Nat
  PROVE  Kept(s, ItemWrite(s, bytes, last))
<1>1. PICK g : Writes(g, Len(bytes), s, bytes, last) /\ ItemWrite(s, bytes, last) = g[Len(bytes)]
  BY ItemWriteIs
<1> DEFINE Bad == {i \in Nat : i <= Len(bytes) /\ ~Kept(s, g[i])}
<1>2. CASE Bad = {}
  BY <1>1, <1>2
<1>3. CASE Bad # {}
  <2>1. PICK i \in Bad : \A j \in Bad : i <= j
    BY <1>3, Least
  <2>2. i # 0
    BY <1>1, <2>1, KeptSame DEF Writes
  <2>3. i - 1 \in 0..Len(bytes) /\ Kept(s, g[i - 1])
    BY <2>1, <2>2
  <2>4. g[i] = ItemByte(g[i - 1], bytes[i], last)
    BY <1>1, <2>1, <2>2 DEF Writes
  <2>5. Kept(g[i - 1], g[i])
    BY <2>3, <2>4, ItemByteKeeps DEF Kept
  <2> QED BY <2>1, <2>3, <2>5, KeptOn
<1> QED BY <1>2, <1>3

-----------------------------------------------------------------------------
(* The parser of a body *)

\* The parser's state is outside the invariant.
LEMMA BecomesKeeps ==
  ASSUME NEW s, Shaped(s), NEW state
  PROVE  Kept(s, Becomes(s, state)) /\ Shaped(Becomes(s, state))
<1>1. Like(s, Becomes(s, state))
  BY DEF Like, Shaped, RequestFields, Becomes
<1> QED BY <1>1, LikeKept DEF Kept

\* A byte inside an item.
LEMMA InItemKeeps ==
  ASSUME NEW s, Shaped(s), NEW data, NEW last
  PROVE  Kept(s, InItem(s, data, last))
<1>1. Like(s, [s EXCEPT !.q.multi = "EXPECT_FEED1"])
  BY DEF Like, Shaped, RequestFields
<1>2. Kept(s, [s EXCEPT !.q.multi = "EXPECT_FEED1"])
  BY <1>1, LikeKept
<1>3. Kept(s, ItemWrite(s, <<data>>, last))
  BY ItemWriteKeeps
<1> QED BY <1>2, <1>3 DEF InItem

\* Bytes given back to the item.
LEMMA RollBackKeeps ==
  ASSUME NEW s, Shaped(s), NEW bytes, Len(bytes) \in Nat, NEW data, NEW last
  PROVE  Kept(s, RollBack(s, bytes, data, last))
<1> DEFINE t == [s EXCEPT !.q.multi = "WAIT_FOR_RETURN1"]
           u == ItemWrite(t, bytes, last)
           w == InItem(u, data, last)
<1>1. Like(s, t)
  BY DEF Like, Shaped, RequestFields
<1>2. RollBack(s, bytes, data, last) = w
  BY DEF RollBack
<1> HIDE DEF t
<1>3. Kept(s, t) /\ Shaped(t)
  BY <1>1, LikeKept DEF Kept
<1>4. Kept(t, u) /\ Shaped(u)
  BY <1>3, ItemWriteKeeps DEF Kept
<1> HIDE DEF u
<1>5. Kept(u, w)
  BY <1>4, InItemKeeps
<1> HIDE DEF w
<1>6. Kept(s, w)
  BY <1>3, <1>4, <1>5, KeptOn
<1> QED BY <1>2, <1>6

\* Parameters are outside the invariant.
LEMMA AddParamKeeps ==
  ASSUME NEW s, Shaped(s), NEW name, NEW value, NEW post, NEW file, NEW size
  PROVE  Kept(s, AddParam(s, name, value, post, file, size))
<1>1. Like(s, AddParam(s, name, value, post, file, size))
  BY DEF Like, Shaped, RequestFields, AddParam
<1> QED BY <1>1, LikeKept

\* The end of an item, which gives the rest of the buffer away.
LEMMA EndItemKeeps ==
  ASSUME NEW s, Shaped(s)
  PROVE  Kept(s, EndItem(s))
<1> DEFINE q == s.q
           t == Becomes(s, "DASH3_OR_RETURN2")
           given == HandleUpload(t, q.itemFilename, q.itemSize - Len(q.itemBuffer), q.itemBuffer, TRUE)
           v == [given EXCEPT !.q.itemBuffer = <<>>]
           w == AddParam(v, q.itemName, q.itemFilename, TRUE, TRUE, q.itemSize)
           p == AddParam(t, q.itemName, q.itemValue, TRUE, FALSE, 0)
<1>1. EndItem(s) = p \/ EndItem(s) = t \/ EndItem(s) = w
  BY DEF EndItem
<1>2. Kept(s, t) /\ Shaped(t)
  BY BecomesKeeps
<1> HIDE DEF t, q
<1>3. Kept(t, p) /\ Kept(t, given) /\ Shaped(given)
  <2>1. Kept(t, p)
    BY <1>2, AddParamKeeps
  <2>2. Kept(t, given)
    BY <1>2, UploadKeeps
  <2> HIDE DEF p, given
  <2> QED BY <2>1, <2>2 DEF Kept
<1> HIDE DEF given, p
<1>4. Kept(given, v)
  <2>1. /\ {"q", "v", "luck"} \subseteq DOMAIN v /\ RequestFields \subseteq DOMAIN v.q
        /\ v.v = given.v /\ v.luck = given.luck /\ v.q.got = given.q.got /\ v.q.answers = given.q.answers
        /\ v.q.parseState = given.q.parseState /\ v.q.handler = given.q.handler /\ v.q.method = given.q.method
        /\ v.q.authorization = given.q.authorization /\ v.q.boundaryPosition = given.q.boundaryPosition
      /\ v.q.itemBuffer = <<>>
    BY <1>3 DEF Shaped, RequestFields
  <2>2. v.q.itemBuffer \in Seq({}) /\ Len(v.q.itemBuffer) = 0
    BY <2>1, EmptySeq
  <2>3. Buffered(v.q)
    BY <2>2, RequestAssumption DEF Buffered, IsText
  <2> HIDE DEF v
  <2>4. Silent(given.q) => Silent(v.q)
    BY <2>1 DEF Silent
  <2>5. Shaped(v)
    BY <1>3, <2>1 DEF Shaped
  <2> QED BY <2>1, <2>3, <2>4, <2>5 DEF Kept, SameRequest
<1> HIDE DEF v
<1>5. Kept(v, w)
  <2>1. Shaped(v)
    BY <1>4 DEF Kept
  <2> QED BY <2>1, AddParamKeeps
<1> HIDE DEF w
<1>6. Kept(s, w) /\ Kept(s, p)
  BY <1>2, <1>3, <1>4, <1>5, KeptOn
<1> QED BY <1>1, <1>2, <1>6

\* The line end and dashes in front of a boundary are a text.
LEMMA DashesText == IsText(Dashes)
<1>1. Dashes \in Seq({CR, LF, "-"})
  BY DEF Dashes
<1> QED BY <1>1 DEF IsText

\* The first boundary, and those that follow.
LEMMA BoundaryKeeps ==
  ASSUME NEW s, Shaped(s), NEW data, NEW last
  PROVE  Kept(s, ExpectBoundary(s, data)) /\ Kept(s, BoundaryOrData(s, data, last))
<1>1. Kept(s, ExpectBoundary(s, data))
  <2> DEFINE t == Becomes(s, "PARSE_HEADERS")
             u == [t EXCEPT !.q.itemIsFile = FALSE]
             e == Becomes(s, "PARSE_ERROR")
  <2>1. ExpectBoundary(s, data) = s \/ ExpectBoundary(s, data) = u \/ ExpectBoundary(s, data) = e
    BY DEF ExpectBoundary, Error
  <2>2. Kept(s, e)
    BY BecomesKeeps
  <2>3. Like(s, u)
    BY DEF Like, Shaped, RequestFields, Becomes
  <2> HIDE DEF u, e
  <2> QED BY <2>1, <2>2, <2>3, LikeKept, KeptSame
<1>2. Kept(s, BoundaryOrData(s, data, last))
  <2> DEFINE p == s.q.boundaryPosition
             bytes == Dashes \o SubSeq(Boundary, 1, p)
             u == [s EXCEPT !.q.boundaryPosition = @ + 1]
             r == RollBack(s, bytes, data, last)
  <2>1. \/ p < Len(Boundary) /\ BoundaryOrData(s, data, last) = r
        \/ BoundaryOrData(s, data, last) = EndItem(s) \/ BoundaryOrData(s, data, last) = u
    BY DEF BoundaryOrData
  <2>2. Like(s, u)
    BY DEF Like, Shaped, RequestFields
  <2>3. p < Len(Boundary) => Kept(s, r)
    <3>1. p < Len(Boundary) => Len(bytes) \in Nat
      <4>1. IsText(Boundary) /\ Len(Boundary) \in Nat
        BY RequestAssumption, TextLength DEF IsText
      <4>2. p < Len(Boundary) => IsText(SubSeq(Boundary, 1, p))
        BY <4>1, TextPart DEF Shaped
      <4>3. IsText(Dashes)
        BY DashesText
      <4> QED BY <4>2, <4>3, TextConcat, TextLength
    <3> HIDE DEF bytes
    <3> QED BY <3>1, RollBackKeeps
  <2> HIDE DEF u, r
  <2> QED BY <2>1, <2>2, <2>3, EndItemKeeps, LikeKept
<1> QED BY <1>1, <1>2

\* The head of a part, at whose end the buffer is made anew.
LEMMA PartHeadersKeeps ==
  ASSUME NEW s, Shaped(s), NEW data
  PROVE  Kept(s, PartHeaders(s, data))
<1> DEFINE text == s.q.temp
           a == [s EXCEPT !.q.temp = IF data = CR THEN @ ELSE Append(@, data)]
           t == [s EXCEPT !.q.temp = <<>>]
           d == Disposition[text[1]]
           b == [t EXCEPT !.q.itemIsFile = TRUE]
           c == [t EXCEPT !.q.itemName = d.name,
                          !.q.itemFilename = IF d.filename = Nothing THEN @ ELSE d.filename,
                          !.q.itemIsFile = @ \/ d.filename # Nothing]
           w == Becomes(s, "WAIT_FOR_RETURN1")
           e == [w EXCEPT !.q.itemSize = 0, !.q.itemValue = <<>>, !.q.itemBuffer = IF s.q.itemIsFile THEN <<>> ELSE @]
<1>1. PartHeaders(s, data) = a \/ PartHeaders(s, data) = PartHeader(s, text) \/ PartHeaders(s, data) = e
  BY DEF PartHeaders
<1>2. PartHeader(s, text) = b \/ PartHeader(s, text) = t \/ PartHeader(s, text) = c
  BY DEF PartHeader
<1>3. Like(s, a) /\ Like(s, t) /\ Like(s, b)
  BY DEF Like, Shaped, RequestFields
<1>4. Like(s, c)
  <2> HIDE DEF d
  <2> QED BY DEF Like, Shaped, RequestFields
<1>5. Kept(s, e)
  <2>1. /\ {"q", "v", "luck"} \subseteq DOMAIN e /\ RequestFields \subseteq DOMAIN e.q
        /\ e.v = s.v /\ e.luck = s.luck /\ e.q.got = s.q.got /\ e.q.answers = s.q.answers
        /\ e.q.parseState = s.q.parseState /\ e.q.handler = s.q.handler /\ e.q.method = s.q.method
        /\ e.q.authorization = s.q.authorization /\ e.q.boundaryPosition = s.q.boundaryPosition
        /\ e.q.itemBuffer = <<>> \/ e.q.itemBuffer = s.q.itemBuffer
    BY DEF Shaped, RequestFields, Becomes
  <2>2. Len(<<>>) = 0 /\ IsText(<<>>)
    BY EmptySeq DEF IsText
  <2>3. Buffered(s.q) => Buffered(e.q)
    BY <2>1, <2>2, RequestAssumption DEF Buffered
  <2> HIDE DEF e
  <2>4. Silent(s.q) => Silent(e.q)
    BY <2>1 DEF Silent
  <2>5. Shaped(e)
    BY <2>1 DEF Shaped
  <2> QED BY <2>1, <2>3, <2>4, <2>5 DEF Kept, SameRequest
<1> HIDE DEF a, b, c, e, t
<1> QED BY <1>1, <1>2, <1>3, <1>4, <1>5, LikeKept

\* What follows a boundary.
LEMMA DashKeeps ==
  ASSUME NEW s, Shaped(s), NEW data, NEW last
  PROVE  Kept(s, Dash3OrReturn2(s, data, last))
<1> DEFINE t == IF data = "-" THEN [s EXCEPT !.q.contentLength = s.q.parsedLength + 4] ELSE s
           r == RollBack(t, Dashes \o Boundary, data, last)
<1>1. Like(s, t)
  BY DEF Like, Shaped, RequestFields
<1>2. \/ Dash3OrReturn2(s, data, last) = Becomes(t, "EXPECT_FEED2")
      \/ Dash3OrReturn2(s, data, last) = Becomes(t, "PARSING_FINISHED")
      \/ Dash3OrReturn2(s, data, last) = r
  BY DEF Dash3OrReturn2
<1> HIDE DEF t
<1>3. Kept(s, t) /\ Shaped(t)
  BY <1>1, LikeKept DEF Kept
<1>4. Kept(t, r)
  <2>1. Len(Dashes \o Boundary) \in Nat
    BY DashesText, RequestAssumption, TextConcat, TextLength DEF IsText
  <2> QED BY <1>3, <2>1, RollBackKeeps
<1> HIDE DEF r
<1> QED BY <1>2, <1>3, <1>4, BecomesKeeps, KeptOn

\* Any byte in any state of the parser.
LEMMA MultipartByteKeeps ==
  ASSUME NEW s, Shaped(s), NEW data, NEW last
  PROVE  Kept(s, MultipartByte(s, data, last))
<1> DEFINE b == Becomes(s, "EXPECT_BOUNDARY")
           c == [b EXCEPT !.q.temp = <<>>, !.q.itemName = <<>>, !.q.itemFilename = Nothing]
           t == IF s.q.parsedLength = 0 THEN c ELSE s
           d == Becomes(t, "BOUNDARY_OR_DATA")
           e == [d EXCEPT !.q.boundaryPosition = 0]
           h == Becomes(t, "PARSE_HEADERS")
           f == [h EXCEPT !.q.itemIsFile = FALSE]
           m == MultipartByte(s, data, last)
<1>1. Like(s, t)
  BY DEF Like, Shaped, RequestFields, Becomes
<1>2. \/ m = ExpectBoundary(t, data) \/ m = PartHeaders(t, data) \/ m = InItem(t, data, last)
      \/ m = Becomes(t, "EXPECT_DASH1") \/ m = RollBack(t, <<CR>>, data, last)
      \/ m = Becomes(t, "EXPECT_DASH2") \/ m = RollBack(t, <<CR, LF>>, data, last)
      \/ m = e \/ m = RollBack(t, <<CR, LF, "-">>, data, last)
      \/ m = BoundaryOrData(t, data, last) \/ m = Dash3OrReturn2(t, data, last)
      \/ m = f \/ m = RollBack(t, Dashes \o Boundary \o <<CR>>, data, last) \/ m = t
  BY DEF MultipartByte
<1> HIDE DEF t, m
<1>3. Kept(s, t) /\ Shaped(t)
  BY <1>1, LikeKept DEF Kept
<1>4. Like(t, e) /\ Like(t, f)
  BY <1>3 DEF Like, Shaped, RequestFields, Becomes
<1> HIDE DEF e, f
<1>5. Kept(t, e) /\ Kept(t, f) /\ Kept(t, t)
  BY <1>3, <1>4, LikeKept, KeptSame
<1>6. Len(<<CR>>) \in Nat /\ Len(<<CR, LF>>) \in Nat /\ Len(<<CR, LF, "-">>) \in Nat
  OBVIOUS
<1>7. Len(Dashes \o Boundary \o <<CR>>) \in Nat
  <2>1. <<CR>> \in Seq({CR})
    OBVIOUS
  <2>2. IsText(<<CR>>) /\ IsText(Boundary)
    BY <2>1, RequestAssumption DEF IsText
  <2> QED BY <2>2, DashesText, TextConcat, TextLength
<1>8. /\ Kept(t, RollBack(t, <<CR>>, data, last)) /\ Kept(t, RollBack(t, <<CR, LF>>, data, last))
      /\ Kept(t, RollBack(t, <<CR, LF, "-">>, data, last)) /\ Kept(t, RollBack(t, Dashes \o Boundary \o <<CR>>, data, last))
  BY <1>3, <1>6, <1>7, RollBackKeeps
<1>9. Kept(t, ExpectBoundary(t, data)) /\ Kept(t, BoundaryOrData(t, data, last))
  BY <1>3, BoundaryKeeps
<1>10. Kept(t, PartHeaders(t, data)) /\ Kept(t, InItem(t, data, last)) /\ Kept(t, Dash3OrReturn2(t, data, last))
  BY <1>3, PartHeadersKeeps, InItemKeeps, DashKeeps
<1>11. Kept(t, Becomes(t, "EXPECT_DASH1")) /\ Kept(t, Becomes(t, "EXPECT_DASH2"))
  BY <1>3, BecomesKeeps
<1>12. Kept(t, m)
  BY <1>2, <1>5, <1>8, <1>9, <1>10, <1>11
<1>13. Kept(s, m)
  BY <1>3, <1>12, KeptOn
<1> QED BY <1>13 DEF m

\* A byte, and the count of it.
LEMMA ParsedKeeps ==
  ASSUME NEW s, Shaped(s), NEW data, NEW last
  PROVE  Kept(s, Parsed(s, data, last))
<1> DEFINE t == MultipartByte(s, data, last)
           u == [t EXCEPT !.q.parsedLength = @ + 1]
<1>1. Parsed(s, data, last) = u
  BY DEF Parsed
<1>2. Kept(s, t) /\ Shaped(t)
  BY MultipartByteKeeps DEF Kept
<1> HIDE DEF t
<1>3. Like(t, u)
  BY <1>2 DEF Like, Shaped, RequestFields
<1> HIDE DEF u
<1> QED BY <1>1, <1>2, <1>3, LikeKept, KeptOn

\* g[i] is the request after i bytes of a body.
Parses(g, n, s, bytes) == g = [i \in 0..n |-> IF i = 0 THEN s ELSE Parsed(g[i - 1], bytes[i], i = Len(bytes))]

\* A segment of bytes is a recursion on their number: it exists.
LEMMA ParsesExist ==
  ASSUME NEW s, NEW bytes, NEW n \in Nat
  PROVE  \E g : Parses(g, n, s, bytes)
<1> DEFINE Bad == {k \in Nat : ~\E g : Parses(g, k, s, bytes)}
<1> SUFFICES ASSUME Bad # {} PROVE FALSE
  OBVIOUS
<1>1. PICK k \in Bad : \A m \in Bad : k <= m
  BY Least
<1>2. CASE k = 0
  <2> DEFINE g == [i \in 0..0 |-> s]
  <2>1. Parses(g, 0, s, bytes)
    BY DEF Parses
  <2> QED BY <1>2, <2>1
<1>3. CASE k # 0
  <2>1. k \in Nat /\ k - 1 \in Nat /\ k - 1 \notin Bad
    BY <1>1, <1>3
  <2>2. PICK h : Parses(h, k - 1, s, bytes)
    BY <2>1
  <2> DEFINE g == [i \in 0..k |-> IF i < k THEN h[i] ELSE Parsed(h[k - 1], bytes[k], k = Len(bytes))]
  <2>3. Parses(g, k, s, bytes)
    <3>1. ASSUME NEW i \in 0..k PROVE g[i] = IF i = 0 THEN s ELSE Parsed(g[i - 1], bytes[i], i = Len(bytes))
      <4>1. CASE i = k
        BY <1>3, <2>1, <4>1
      <4>2. CASE i < k
        <5>1. h[i] = IF i = 0 THEN s ELSE Parsed(h[i - 1], bytes[i], i = Len(bytes))
          BY <2>1, <2>2, <4>2 DEF Parses
        <5> QED BY <2>1, <4>2, <5>1
      <4> QED BY <2>1, <4>1, <4>2
    <3> QED BY <3>1 DEF Parses
  <2> QED BY <1>1, <2>3
<1> QED BY <1>2, <1>3

\* _onData's loop over the bytes is the last of it.
LEMMA MultipartIs ==
  ASSUME NEW s, NEW bytes, Len(bytes) \in Nat
  PROVE  \E g : Parses(g, Len(bytes), s, bytes) /\ Multipart(s, bytes) = g[Len(bytes)]
<1> DEFINE g == CHOOSE g : Parses(g, Len(bytes), s, bytes)
<1>1. Parses(g, Len(bytes), s, bytes)
  BY ParsesExist
<1>2. Multipart(s, bytes) = g[Len(bytes)]
  BY DEF Multipart, Parses
<1> QED BY <1>1, <1>2

\* By the first byte that would not.
LEMMA MultipartKeeps ==
  ASSUME NEW s, Shaped(s), NEW bytes, Len(bytes) \in Nat
  PROVE  Kept(s, Multipart(s, bytes))
<1>1. PICK g : Parses(g, Len(bytes), s, bytes) /\ Multipart(s, bytes) = g[Len(bytes)]
  BY MultipartIs
<1> DEFINE Bad == {i \in Nat : i <= Len(bytes) /\ ~Kept(s, g[i])}
<1>2. CASE Bad = {}
  BY <1>1, <1>2
<1>3. CASE Bad # {}
  <2>1. PICK i \in Bad : \A j \in Bad : i <= j
    BY <1>3, Least
  <2>2. i # 0
    BY <1>1, <2>1, KeptSame DEF Parses
  <2>3. i - 1 \in 0..Len(bytes) /\ Kept(s, g[i - 1])
    BY <2>1, <2>2
  <2>4. g[i] = Parsed(g[i - 1], bytes[i], i = Len(bytes))
    BY <1>1, <2>1, <2>2 DEF Parses
  <2>5. Kept(g[i - 1], g[i])
    BY <2>3, <2>4, ParsedKeeps DEF Kept
  <2> QED BY <2>1, <2>3, <2>5, KeptOn
<1> QED BY <1>2, <1>3

-----------------------------------------------------------------------------
(* Plain forms, and the choice *)

\* A segment of a body of any kind keeps what the invariant speaks of.
LEMMA BodyPhaseKeeps ==
  ASSUME NEW s, Shaped(s), NEW buf, IsText(buf)
  PROVE  Kept(s, Body(s, buf))
<1> DEFINE Skip(u) == [u EXCEPT !.q.parsedLength = @ + Len(buf)]
           t == IF s.q.parsedLength = 0 THEN [s EXCEPT !.q.isPlainPost = @ \/ LooksPlain(s.q, buf)] ELSE s
           b == HandleBody(t, buf, t.q.parsedLength, t.q.contentLength)
<1>1. Like(s, t)
  BY DEF Like, Shaped, RequestFields
<1>2. \/ Body(s, buf) = Multipart(s, buf) \/ Body(s, buf) = Skip(s) \/ Body(s, buf) = Skip(b)
      \/ Body(s, buf) = PlainPost(t, buf) \/ Body(s, buf) = Skip(t)
  BY DEF Body
<1> HIDE DEF t
<1>3. Kept(s, t) /\ Shaped(t)
  BY <1>1, LikeKept DEF Kept
<1>4. Kept(t, b)
  BY <1>3, BodyKeeps
<1>5. Shaped(b)
  BY <1>4 DEF Kept
<1> HIDE DEF b
<1>6. ASSUME NEW u, Shaped(u) PROVE Kept(u, Skip(u))
  <2>1. Like(u, Skip(u))
    BY <1>6 DEF Like, Shaped, RequestFields
  <2> HIDE DEF Skip
  <2> QED BY <1>6, <2>1, LikeKept
<1>7. Kept(t, PlainPost(t, buf))
  <2>1. PICK p : PlainPost(t, buf) = [t EXCEPT !.q.parsedLength = @ + Len(buf), !.q.temp = p.temp, !.q.params = p.params]
    BY DEF PlainPost
  <2> DEFINE v == [t EXCEPT !.q.parsedLength = @ + Len(buf), !.q.temp = p.temp, !.q.params = p.params]
  <2>2. Like(t, v)
    BY <1>3 DEF Like, Shaped, RequestFields
  <2> HIDE DEF v
  <2>3. Kept(t, v)
    BY <1>3, <2>2, LikeKept
  <2> QED BY <2>1, <2>3 DEF v
<1>8. Kept(s, Multipart(s, buf))
  BY MultipartKeeps, TextLength
<1>9. Kept(s, Skip(s)) /\ Kept(t, Skip(t)) /\ Kept(b, Skip(b))
  BY <1>3, <1>5, <1>6
<1> HIDE DEF Skip
<1>10. Kept(s, Skip(t)) /\ Kept(s, Skip(b)) /\ Kept(s, PlainPost(t, buf))
  BY <1>3, <1>4, <1>7, <1>9, KeptOn
<1> QED BY <1>2, <1>8, <1>9, <1>10

-----------------------------------------------------------------------------
(* The network *)

\* The objects are numbered, an open port belongs to one that has its handlers and
\* has not lost its pcb, and the access point has one.
NetFields == {"ssid", "object", "listener", "objects", "routes", "stale", "isAP", "isFirstStart", "mode", "last", "restarts"}
NetInv(w) ==
  /\ NetFields \subseteq DOMAIN w
  /\ w.objects \in Nat /\ w.routes \subseteq 1..w.objects /\ w.stale \subseteq 1..w.objects
  /\ w.object \in 1..w.objects \cup {NoObject} /\ w.listener \in 1..w.objects \cup {NoObject}
  /\ w.isAP \in BOOLEAN /\ (w.isAP => w.object # NoObject)
  /\ w.listener # NoObject => w.listener \in w.routes /\ w.listener \notin w.stale

\* clear_var closes the current object's port and forgets the object.
LEMMA ClearVarNet ==
  ASSUME NEW w, NetInv(w), NEW luck
  PROVE  LET c == ClearVar(w, luck) IN
         /\ NetFields \subseteq DOMAIN c /\ c.objects = w.objects /\ c.isAP = w.isAP /\ c.object = NoObject
         /\ c.routes \subseteq w.routes /\ c.stale = w.stale
         /\ c.listener \in {NoObject, w.listener}
         /\ c.listener # NoObject => c.listener \in c.routes
<1> DEFINE r == Reset(w, w.object)
           d == DeleteServer(w, luck)
           x == IF w.object = NoObject \/ w.isFirstStart THEN w ELSE d
           c == [x EXCEPT !.object = NoObject, !.mode = "off"]
<1>1. /\ NetFields \subseteq DOMAIN r /\ r.objects = w.objects /\ r.isAP = w.isAP /\ r.stale = w.stale
      /\ r.routes = w.routes \ {w.object} /\ r.listener = w.listener
  BY DEF NetInv, NetFields, Reset
<1>2. d = IF w.object \in r.stale THEN [r EXCEPT !.restarts = @ \/ luck.freed = "astray"]
          ELSE [r EXCEPT !.listener = IF @ = w.object THEN NoObject ELSE @]
  BY DEF DeleteServer, ServerEnd
<1> HIDE DEF r
<1>3. /\ NetFields \subseteq DOMAIN d /\ d.objects = w.objects /\ d.isAP = w.isAP /\ d.stale = w.stale
      /\ d.routes = r.routes
      /\ d.listener = IF w.object \in w.stale \/ w.listener # w.object THEN w.listener ELSE NoObject
  <2> HIDE DEF d
  <2>1. CASE w.object \in r.stale
    BY <1>1, <1>2, <2>1 DEF NetFields
  <2>2. CASE w.object \notin r.stale
    BY <1>1, <1>2, <2>2 DEF NetFields
  <2> QED BY <2>1, <2>2
<1> HIDE DEF d
<1>4. /\ NetFields \subseteq DOMAIN x /\ x.objects = w.objects /\ x.isAP = w.isAP /\ x.stale = w.stale
      /\ x.routes \subseteq w.routes /\ x.listener \in {NoObject, w.listener}
      /\ x.listener # NoObject => x.listener \in x.routes
  BY <1>1, <1>3 DEF NetInv
<1>5. ClearVar(w, luck) = c
  BY DEF ClearVar, d
<1> HIDE DEF x
<1>6. /\ NetFields \subseteq DOMAIN c /\ c.objects = x.objects /\ c.isAP = x.isAP /\ c.object = NoObject
      /\ c.routes = x.routes /\ c.stale = x.stale /\ c.listener = x.listener
  BY <1>4 DEF NetFields
<1> HIDE DEF c
<1> QED BY <1>4, <1>5, <1>6

\* The second half of setupAP: a new object, whose port is open unless another's is.
LEMMA SetupAPNet ==
  ASSUME NEW c, NetFields \subseteq DOMAIN c, c.objects \in Nat, c.routes \subseteq 1..c.objects,
         c.stale \subseteq 1..c.objects, c.listener \in 1..c.objects \cup {NoObject},
         c.listener # NoObject => c.listener \in c.routes /\ c.listener \notin c.stale
  PROVE  LET s == [WebServerBegin(CreateServer([c EXCEPT !.mode = "ap"])) EXCEPT !.isAP = TRUE]
         IN NetInv(s) /\ s.listener # NoObject
<1> DEFINE n == c.objects + 1
           a == CreateServer([c EXCEPT !.mode = "ap"])
           b == [a EXCEPT !.routes = @ \cup {a.object}]
           e == WebServerBegin(a)
           s == [e EXCEPT !.isAP = TRUE]
<1>1. /\ NetFields \subseteq DOMAIN a /\ a.objects = n /\ a.object = n /\ a.routes = c.routes
      /\ a.stale = c.stale /\ a.listener = c.listener
  BY DEF CreateServer, NetFields
<1>2. e = IF b.listener # NoObject THEN [b EXCEPT !.stale = @ \cup {a.object}] ELSE [b EXCEPT !.listener = a.object]
  BY DEF WebServerBegin, ServerBegin, BindFails, Listen
<1> HIDE DEF a, e
<1>3. /\ NetFields \subseteq DOMAIN b /\ b.objects = n /\ b.object = n /\ b.routes = c.routes \cup {n}
      /\ b.stale = c.stale /\ b.listener = c.listener
  BY <1>1 DEF NetFields
<1> HIDE DEF b
<1>4. /\ NetFields \subseteq DOMAIN e /\ e.objects = n /\ e.object = n /\ e.routes = c.routes \cup {n}
      /\ \/ c.listener # NoObject /\ e.listener = c.listener /\ e.stale = c.stale \cup {n}
         \/ c.listener = NoObject /\ e.listener = n /\ e.stale = c.stale
  <2>1. CASE c.listener # NoObject
    BY <1>1, <1>2, <1>3, <2>1 DEF NetFields
  <2>2. CASE c.listener = NoObject
    BY <1>1, <1>2, <1>3, <2>2 DEF NetFields
  <2> QED BY <2>1, <2>2
<1>5. /\ NetFields \subseteq DOMAIN s /\ s.objects = n /\ s.object = n /\ s.routes = e.routes
      /\ s.stale = e.stale /\ s.listener = e.listener /\ s.isAP = TRUE
  BY <1>4 DEF NetFields
<1>6. n \in Nat \ {0} /\ n # NoObject /\ n \in 1..n /\ 1..c.objects \subseteq 1..n /\ n \notin 1..c.objects
  BY ObjectAssumption
<1> HIDE DEF s, n
<1>7. NetInv(s) /\ s.listener # NoObject
  <2>1. s.routes \subseteq 1..n /\ s.stale \subseteq 1..n /\ s.listener \in 1..n /\ s.listener # NoObject
    BY <1>4, <1>5, <1>6
  <2>2. s.listener \in s.routes /\ s.listener \notin s.stale
    BY <1>4, <1>5, <1>6
  <2> QED BY <1>5, <1>6, <2>1, <2>2 DEF NetInv
<1> QED BY <1>7 DEF s, e, a

\* setupAP leaves a port open.
LEMMA OpenedNet ==
  ASSUME NEW w, NetInv(w), NEW luck
  PROVE  NetInv(SetupAP(w, luck)) /\ SetupAP(w, luck).listener # NoObject
<1> DEFINE c == ClearVar(w, luck)
<1>1. /\ NetFields \subseteq DOMAIN c /\ c.objects \in Nat /\ c.routes \subseteq 1..c.objects
      /\ c.stale \subseteq 1..c.objects /\ c.listener \in 1..c.objects \cup {NoObject}
      /\ c.listener # NoObject => c.listener \in c.routes /\ c.listener \notin c.stale
  <2>1. /\ NetFields \subseteq DOMAIN c /\ c.objects = w.objects
        /\ c.routes \subseteq w.routes /\ c.stale = w.stale
        /\ c.listener \in {NoObject, w.listener}
        /\ c.listener # NoObject => c.listener \in c.routes
    BY ClearVarNet
  <2> HIDE DEF c
  <2> QED BY <2>1 DEF NetInv
<1>2. SetupAP(w, luck) = [WebServerBegin(CreateServer([c EXCEPT !.mode = "ap"])) EXCEPT !.isAP = TRUE]
  BY DEF SetupAP
<1> HIDE DEF c
<1> QED BY <1>1, <1>2, SetupAPNet

\* One call of smoothConnect.  One that succeeds has left a port open, a first one that
\* fails in the access point too.
LEMMA AttemptNet ==
  ASSUME NEW x, {"done", "w", "ssid"} \subseteq DOMAIN x, NetInv(x.w), x.w.listener = NoObject => ~x.w.isAP,
         NEW connects, NEW luck
  PROVE  LET a == Attempt(x, connects, luck) IN
         /\ {"done", "w", "ssid"} \subseteq DOMAIN a /\ NetInv(a.w) /\ (a.w.listener = NoObject => ~a.w.isAP)
         /\ x.done => a = x
         /\ ~x.done /\ connects => a.done /\ a.w.listener = x.w.listener
<1> DEFINE cleared == ClearVar(x.w, luck)
           went == [SmoothConnect(x.w, TRUE) EXCEPT !.ssid = x.ssid, !.isFirstStart = FALSE]
           opened == [SetupAP(x.w, luck) EXCEPT !.ssid = x.w.ssid]
           a == Attempt(x, connects, luck)
<1> SUFFICES /\ {"done", "w", "ssid"} \subseteq DOMAIN a /\ NetInv(a.w) /\ (a.w.listener = NoObject => ~a.w.isAP)
             /\ x.done => a = x
             /\ ~x.done /\ connects => a.done /\ a.w.listener = x.w.listener
  OBVIOUS
<1> HIDE DEF a
<1>1. CASE x.done
  <2>1. a = x
    BY <1>1 DEF a, Attempt
  <2> QED BY <1>1, <2>1
<1>2. CASE ~x.done /\ connects
  <2>1. a = [x EXCEPT !.done = TRUE, !.w = went]
    BY <1>2 DEF a, Attempt
  <2>2. /\ NetFields \subseteq DOMAIN went /\ went.objects = x.w.objects /\ went.routes = x.w.routes
        /\ went.stale = x.w.stale /\ went.object = x.w.object /\ went.listener = x.w.listener /\ went.isAP = FALSE
    BY DEF SmoothConnect, NetInv, NetFields
  <2> HIDE DEF went
  <2>3. NetInv(went)
    BY <2>2 DEF NetInv
  <2>4. {"done", "w", "ssid"} \subseteq DOMAIN a /\ a.done = TRUE /\ a.w = went
    BY <2>1
  <2> QED BY <1>2, <2>2, <2>3, <2>4
<1>3. CASE ~x.done /\ ~connects /\ x.w.isAP
  <2>1. a = [x EXCEPT !.done = TRUE, !.w = opened]
    BY <1>3 DEF a, Attempt
  <2> DEFINE u == SetupAP(x.w, luck)
  <2>2. NetInv(u) /\ u.listener # NoObject
    BY OpenedNet
  <2> HIDE DEF u
  <2>3. /\ NetFields \subseteq DOMAIN [u EXCEPT !.ssid = x.w.ssid] /\ NetInv([u EXCEPT !.ssid = x.w.ssid])
        /\ [u EXCEPT !.ssid = x.w.ssid].listener # NoObject
    BY <2>2 DEF NetInv, NetFields
  <2>4. NetInv(opened) /\ opened.listener # NoObject
    BY <2>3 DEF u
  <2> HIDE DEF opened
  <2>5. {"done", "w", "ssid"} \subseteq DOMAIN a /\ a.done = TRUE /\ a.w = opened
    BY <2>1
  <2> QED BY <1>3, <2>4, <2>5
<1>4. CASE ~x.done /\ ~connects /\ ~x.w.isAP
  <2>1. a = [done |-> cleared.restarts, w |-> cleared, ssid |-> x.w.ssid]
    BY <1>4 DEF a, Attempt
  <2>2. /\ NetFields \subseteq DOMAIN cleared /\ cleared.objects = x.w.objects /\ cleared.isAP = x.w.isAP
        /\ cleared.object = NoObject /\ cleared.routes \subseteq x.w.routes /\ cleared.stale = x.w.stale
        /\ cleared.listener \in {NoObject, x.w.listener}
        /\ cleared.listener # NoObject => cleared.listener \in cleared.routes
    BY ClearVarNet
  <2> HIDE DEF cleared
  <2>3. NetInv(cleared)
    BY <1>4, <2>2 DEF NetInv
  <2>4. {"done", "w", "ssid"} \subseteq DOMAIN a /\ a.w = cleared
    BY <2>1
  <2> QED BY <1>4, <2>2, <2>3, <2>4
<1> QED BY <1>1, <1>2, <1>3, <1>4

\* g[i] is the switch after i attempts.
Before(w, ssid) == [done |-> FALSE, w |-> w, ssid |-> ssid]
Tried(g, n, w, ssid, luck) ==
  g = [i \in 0..n |-> IF i = 0 THEN Before(w, ssid) ELSE Attempt(g[i - 1], luck.tries[i], luck)]

\* The attempts are a recursion on their number: they exist.
LEMMA TriedExist ==
  ASSUME NEW w, NEW ssid, NEW luck, NEW n \in Nat
  PROVE  \E g : Tried(g, n, w, ssid, luck)
<1> DEFINE Bad == {k \in Nat : ~\E g : Tried(g, k, w, ssid, luck)}
           base == Before(w, ssid)
<1> SUFFICES ASSUME Bad # {} PROVE FALSE
  OBVIOUS
<1>1. PICK k \in Bad : \A m \in Bad : k <= m
  BY Least
<1>2. CASE k = 0
  <2> DEFINE g == [i \in 0..0 |-> base]
  <2>1. Tried(g, 0, w, ssid, luck)
    BY DEF Tried
  <2> QED BY <1>2, <2>1
<1>3. CASE k # 0
  <2>1. k \in Nat /\ k - 1 \in Nat /\ k - 1 \notin Bad
    BY <1>1, <1>3
  <2>2. PICK h : Tried(h, k - 1, w, ssid, luck)
    BY <2>1
  <2> DEFINE g == [i \in 0..k |-> IF i < k THEN h[i] ELSE Attempt(h[k - 1], luck.tries[k], luck)]
  <2>3. Tried(g, k, w, ssid, luck)
    <3>1. ASSUME NEW i \in 0..k PROVE g[i] = IF i = 0 THEN base ELSE Attempt(g[i - 1], luck.tries[i], luck)
      <4> HIDE DEF base
      <4>1. CASE i = k
        BY <1>3, <2>1, <4>1
      <4>2. CASE i < k
        <5>1. h[i] = IF i = 0 THEN base ELSE Attempt(h[i - 1], luck.tries[i], luck)
          BY <2>1, <2>2, <4>2 DEF Tried, base
        <5> QED BY <2>1, <4>2, <5>1
      <4> QED BY <2>1, <4>1, <4>2
    <3> QED BY <3>1 DEF Tried
  <2> QED BY <1>1, <2>3
<1> QED BY <1>2, <1>3

\* What a browser sees: PagesServed of w.
Pages(w) == IF w.listener = NoObject THEN ~w.isAP /\ w.last = "failed" ELSE w.listener \in w.routes

\* setNetwork, begun with a port open, by the first attempt that would break it.
LEMMA SetNetworkNet ==
  ASSUME NEW w, NetInv(w), w.listener # NoObject, NEW ssid, NEW luck, Len(luck.tries) \in Nat
  PROVE  NetInv(SetNetwork(w, ssid, luck)) /\ Pages(SetNetwork(w, ssid, luck))
<1> DEFINE n == Len(luck.tries)
           g == CHOOSE g : Tried(g, n, w, ssid, luck)
           last == IF n > 0 /\ luck.tries[1] THEN "connected" ELSE "failed"
           s == [g[n].w EXCEPT !.restarts = @ \/ ~g[n].done, !.last = last]
           Fits(i) == /\ {"done", "w", "ssid"} \subseteq DOMAIN g[i] /\ NetInv(g[i].w)
                      /\ g[i].w.listener = NoObject => ~g[i].w.isAP /\ i # 0
                      /\ i # 0 /\ luck.tries[1] => g[i].done /\ g[i].w.listener # NoObject
           Bad == {i \in Nat : i <= n /\ ~Fits(i)}
<1>1. Tried(g, n, w, ssid, luck)
  BY TriedExist
<1>2. SetNetwork(w, ssid, luck) = s
  BY DEF SetNetwork, Tried, Before
<1> HIDE DEF g
<1>3. CASE Bad # {}
  <2>1. PICK i \in Bad : \A j \in Bad : i <= j
    BY <1>3, Least
  <2>2. g[0] = [done |-> FALSE, w |-> w, ssid |-> ssid]
    BY <1>1 DEF Tried, Before
  <2>3. Fits(0)
    BY <2>2
  <2>4. i # 0 /\ i \in 1..n /\ i - 1 \in Nat /\ i - 1 <= n
    BY <2>1, <2>3
  <2>5. Fits(i - 1)
    BY <2>1, <2>4
  <2> DEFINE a == Attempt(g[i - 1], luck.tries[i], luck)
  <2>6. g[i] = a
    <3>1. g = [j \in 0..n |-> IF j = 0 THEN Before(w, ssid) ELSE Attempt(g[j - 1], luck.tries[j], luck)]
      BY <1>1 DEF Tried
    <3>2. i \in 0..n /\ i # 0
      BY <2>4
    <3> HIDE DEF n
    <3> QED BY Zenon, <3>1, <3>2
  <2>7. /\ {"done", "w", "ssid"} \subseteq DOMAIN a /\ NetInv(a.w) /\ (a.w.listener = NoObject => ~a.w.isAP)
        /\ g[i - 1].done => a = g[i - 1]
        /\ ~g[i - 1].done /\ luck.tries[i] => a.done /\ a.w.listener = g[i - 1].w.listener
    BY <2>5, AttemptNet
  <2> HIDE DEF a
  <2>8. i - 1 = 0 => i = 1 /\ ~g[i - 1].done /\ g[i - 1].w.listener # NoObject
    BY <2>2, <2>4
  <2>9. Fits(i)
    BY <2>4, <2>5, <2>6, <2>7, <2>8
  <2> QED BY <2>1, <2>9
<1>4. CASE Bad = {}
  <2>1. Fits(n)
    BY <1>4
  <2> DEFINE v == g[n].w
  <2>2. /\ NetFields \subseteq DOMAIN s /\ s.objects = v.objects /\ s.routes = v.routes /\ s.stale = v.stale
        /\ s.object = v.object /\ s.listener = v.listener /\ s.isAP = v.isAP /\ s.last = last
    BY <2>1 DEF NetInv, NetFields
  <2> HIDE DEF s
  <2>3. NetInv(s)
    BY <2>1, <2>2 DEF NetInv
  <2>4. s.listener = NoObject => ~s.isAP /\ s.last = "failed"
    BY <2>1, <2>2
  <2> QED BY <1>2, <2>3, <2>4 DEF Pages, NetInv
<1> QED BY <1>3, <1>4

-----------------------------------------------------------------------------
(* What a handler does with a request *)

\* The network, too, may be another, of which the invariant holds.
Did(s, t) ==
  /\ Shaped(t) /\ SameRequest(s.q, t.q) /\ t.luck = s.luck /\ t.v.gzipStats = s.v.gzipStats
  /\ NetInv(t.v.wifi) /\ Pages(t.v.wifi)

\* A request's handler is called while the device shows its pages.
Ready(s) ==
  /\ Shaped(s) /\ NetInv(s.v.wifi) /\ s.v.wifi.listener # NoObject
  /\ Len(s.luck.tries) \in Nat

\* What is kept is done, on a device that stays ready.
LEMMA KeptDid ==
  ASSUME NEW s, Ready(s), NEW t, Kept(s, t)
  PROVE  Did(s, t) /\ Ready(t)
BY DEF Did, Ready, Kept, Pages, NetInv

\* What is done after a step that keeps is done from its start.
LEMMA DidOn ==
  ASSUME NEW s, NEW t, NEW u, Kept(s, t), Did(t, u)
  PROVE  Did(s, u)
<1>1. Refused(s.q) <=> Refused(t.q)
  BY RefusedSame DEF Kept, SameRequest
<1> QED BY <1>1 DEF Did, Kept, SameRequest

\* What is kept after it is done.
LEMMA DidThen ==
  ASSUME NEW s, NEW t, NEW u, Did(s, t), Kept(t, u)
  PROVE  Did(s, u)
<1>1. Refused(s.q) <=> Refused(t.q)
  BY RefusedSame DEF Did, SameRequest
<1> QED BY <1>1 DEF Did, Kept, SameRequest

\* Nothing else is changed than what the function was told.
Told(s, t) ==
  /\ {"q", "v", "luck"} \subseteq DOMAIN t /\ RequestFields \subseteq DOMAIN t.q
  /\ {"wifi", "gzipStats"} \subseteq DOMAIN t.v /\ {"request", "body", "file"} \subseteq DOMAIN t.q.got
  /\ t.luck = s.luck /\ t.v.wifi = s.v.wifi /\ t.v.gzipStats = s.v.gzipStats
  /\ t.q.parseState = s.q.parseState /\ t.q.handler = s.q.handler
  /\ t.q.method = s.q.method /\ t.q.authorization = s.q.authorization
  /\ t.q.itemBuffer = s.q.itemBuffer /\ t.q.answers = s.q.answers
  /\ t.q.boundaryPosition \in Nat

\* A request that is let through may be told of anything.
LEMMA ToldKept ==
  ASSUME NEW s, Shaped(s), ~Refused(s.q), NEW t, Told(s, t)
  PROVE  Kept(s, t)
BY DEF Told, Kept, Shaped, SameRequest, Buffered

\* One that is let through may hear any answer, after a change outside the invariant,
LEMMA AnswerKeeps ==
  ASSUME NEW s, Shaped(s), ~Refused(s.q), NEW code \in Nat, NEW t, Like(s, t)
  PROVE  Kept(s, Send(t, code))
<1>1. Kept(s, t)
  BY LikeKept
<1>2. Shaped(t) /\ ~Refused(t.q)
  BY <1>1, RefusedSame DEF Kept, SameRequest
<1>3. Kept(t, Send(t, code))
  BY <1>2, SendKeeps
<1> QED BY <1>1, <1>3, KeptOn

\* or at once.
LEMMA PlainAnswerKeeps ==
  ASSUME NEW s, Shaped(s), ~Refused(s.q), NEW code \in Nat
  PROVE  Kept(s, Send(s, code))
BY SendKeeps

\* /switch_wifi, the one function that changes the network.
LEMMA SwitchWifiDoes ==
  ASSUME NEW s, Ready(s), ~Refused(s.q)
  PROVE  Did(s, SwitchWifi(s))
<1> DEFINE w == SetNetwork(s.v.wifi, Arg(s.q, <<"ssid">>), s.luck)
           t == SwitchNetwork(s, Arg(s.q, <<"ssid">>))
           code == IF t.v.wifi.last = "connected" THEN 200 ELSE 500
<1>1. NetInv(w) /\ Pages(w)
  BY SetNetworkNet DEF Ready
<1>2. t = [s EXCEPT !.v.wifi = w]
  BY DEF SwitchNetwork
<1>3. \/ SwitchWifi(s) = Dies(s) \/ SwitchWifi(s) = Dies(t) \/ SwitchWifi(s) = Send(t, code)
  BY DEF SwitchWifi
<1> HIDE DEF w, t
<1>4. /\ {"q", "v", "luck"} \subseteq DOMAIN t /\ t.q = s.q /\ t.luck = s.luck /\ DOMAIN t.v = DOMAIN s.v
      /\ t.v.wifi = w /\ t.v.gzipStats = s.v.gzipStats
  BY <1>2 DEF Ready, Shaped
<1>5. Did(s, t) /\ Shaped(t) /\ ~Refused(t.q)
  BY <1>1, <1>4 DEF Did, Ready, Shaped, SameRequest
<1>6. Kept(t, Dies(t)) /\ Kept(s, Dies(s))
  BY <1>5, DiesKeeps DEF Ready
<1>7. code \in Nat
  OBVIOUS
<1> HIDE DEF code
<1>8. Kept(t, Send(t, code))
  BY <1>5, <1>7, SendKeeps
<1>9. Did(s, Dies(s))
  BY <1>6, KeptDid
<1> QED BY <1>3, <1>5, <1>6, <1>8, <1>9, DidThen

\* Every function of the sketch.
LEMMA ActDoes ==
  ASSUME NEW s, Ready(s), ~Refused(s.q), NEW act \in Acts
  PROVE  Did(s, Act(s, act))
<1>1. Shaped(s)
  BY DEF Ready
<1>2. Kept(s, Send(s, 200)) /\ Kept(s, Send(s, 404)) /\ Kept(s, Send(s, 500))
  BY <1>1, PlainAnswerKeeps
<1>3. Kept(s, s) /\ Kept(s, Dies(s)) /\ Kept(s, RequestAuthentication(s))
  BY <1>1, KeptSame, DiesKeeps, RefusalKeeps
<1>4. ASSUME NEW path, NEW download PROVE Kept(s, SendPath(s, path, download))
  <2> DEFINE t == ResponseOfPath(s, path, download)
  <2>1. Like(s, t)
    BY <1>1 DEF Like, Shaped, RequestFields, ResponseOfPath
  <2>2. SendPath(s, path, download) = Send(t, 200) \/ SendPath(s, path, download) = Send(s, 404)
    BY DEF SendPath
  <2> HIDE DEF t
  <2> QED BY <1>1, <1>2, <2>1, <2>2, AnswerKeeps
<1>5. Kept(s, SendSource(s, FALSE, 200)) /\ Kept(s, SendNull(s))
  BY <1>2, <1>3 DEF SendSource, SendNull
<1>6. CASE act = "switch"
  <2>1. Act(s, act) = SwitchWifi(s)
    BY <1>6 DEF Act
  <2> QED BY <2>1, SwitchWifiDoes
<1>7. CASE act # "switch"
  <2>1. Kept(s, Act(s, act))
    <3>1. act \in {"send", "not found", "file", "source", "null", "hash", "quiet"}
      BY <1>7 DEF Acts
    <3> QED BY <1>2, <1>3, <1>4, <1>5, <3>1 DEF Act
  <2> QED BY <2>1, KeptDid
<1> QED BY <1>6, <1>7

\* A handler of files.
LEMMA StaticDoes ==
  ASSUME NEW s, Shaped(s), ~Refused(s.q), NEW h
  PROVE  Kept(s, StaticHandleRequest(s, h))
<1> DEFINE t == [s EXCEPT !.q.tempObject = Nothing]
           u == [t EXCEPT !.q.tempFile = Nothing]
           r == ResponseOfFile(t, s.q.tempObject, FALSE)
<1>1. Like(s, t) /\ Like(s, u) /\ Like(s, r)
  BY DEF Like, Shaped, RequestFields, ResponseOfFile
<1>2. \/ StaticHandleRequest(s, h) = Send(t, 401) \/ StaticHandleRequest(s, h) = Send(t, 404)
      \/ StaticHandleRequest(s, h) = Send(u, 304) \/ StaticHandleRequest(s, h) = Send(r, 200)
  <2> DEFINE etag == ToString(Len(s.v.files[s.q.tempFile]))
             same == \/ h.lastModified # "" /\ h.lastModified = Header(s.q, "If-Modified-Since")
                     \/ h.cacheControl # "" /\ HasHeader(s.q, "If-None-Match") /\ Header(s.q, "If-None-Match") = etag
  <2>1. StaticHandleRequest(s, h) =
          IF ~LetsThrough(s.q, h) THEN RequestAuthentication(t)
          ELSE IF s.q.tempFile = Nothing THEN Send(t, 404)
          ELSE IF same THEN Send(u, 304)
          ELSE Send(r, 200)
    BY DEF StaticHandleRequest
  <2>2. RequestAuthentication(t) = Send(t, 401)
    BY DEF RequestAuthentication
  <2> HIDE DEF t, u, r, same
  <2> QED BY <2>1, <2>2
<1> HIDE DEF t, u, r
<1> QED BY <1>1, <1>2, AnswerKeeps

\* The editor.
LEMMA EditorDoes ==
  ASSUME NEW s, Shaped(s), ~Refused(s.q), NEW h
  PROVE  Kept(s, EditorHandleRequest(s, h))
<1>1. Like(s, s)
  BY DEF Like, Shaped
<1>2. Kept(s, List(s))
  <2> DEFINE v == [s.v EXCEPT !.excludes = IF s.v.files = <<>> THEN @ ELSE Excludes(s.v)]
             u == [v EXCEPT !.listed = {name \in DOMAIN v.files : ~IsExcluded(v, name)}]
             t == [s EXCEPT !.v = u]
  <2>1. List(s) = Send(t, 200)
    BY DEF List
  <2>2. DOMAIN v = DOMAIN s.v /\ v.wifi = s.v.wifi /\ v.gzipStats = s.v.gzipStats
    BY DEF Shaped
  <2> HIDE DEF v
  <2>3. DOMAIN u = DOMAIN v /\ u.wifi = v.wifi /\ u.gzipStats = v.gzipStats
    BY <2>2 DEF Shaped
  <2> HIDE DEF u
  <2>4. Like(s, t)
    BY <2>2, <2>3 DEF Like, Shaped, RequestFields
  <2> HIDE DEF t
  <2> QED BY <2>1, <2>4, AnswerKeeps
<1>3. Kept(s, Get(s))
  <2>1. ASSUME NEW path, NEW download PROVE Kept(s, SendFile(s, path, download))
    <3> DEFINE t == ResponseOfFile(s, path, download)
    <3>1. Like(s, t)
      BY DEF Like, Shaped, RequestFields, ResponseOfFile
    <3>2. SendFile(s, path, download) = Send(t, 200) \/ SendFile(s, path, download) = Send(s, 404)
      BY DEF SendFile
    <3> HIDE DEF t
    <3> QED BY <1>1, <3>1, <3>2, AnswerKeeps
  <2>2. Kept(s, Send(s, 304)) /\ Kept(s, Send(s, 200))
    BY PlainAnswerKeeps
  <2> QED BY <1>2, <2>1, <2>2 DEF Get
<1>4. Kept(s, Delete(s))
  <2> DEFINE t == [s EXCEPT !.v.files = [p \in DOMAIN @ \ {Path(s.q)} |-> @[p]]]
  <2>1. Like(s, t)
    BY DEF Like, Shaped, RequestFields
  <2>2. Delete(s) = Send(s, 404) \/ Delete(s) = Send(t, 200)
    BY DEF Delete
  <2> HIDE DEF t
  <2> QED BY <1>1, <2>1, <2>2, AnswerKeeps
<1>5. Kept(s, Stored(s))
  <2> DEFINE code == IF HasParam(s.q, <<"data">>, TRUE, TRUE) /\ Exists(s, GetParam(s.q, <<"data">>, TRUE, TRUE))
                     THEN 200 ELSE 500
  <2>1. Stored(s) = Send(s, code)
    BY DEF Stored
  <2>2. code \in Nat
    OBVIOUS
  <2> HIDE DEF code
  <2> QED BY <2>1, <2>2, PlainAnswerKeeps
<1>6. Kept(s, Put(s))
  <2> DEFINE t == WriteFile(s, Path(s.q), <<"NUL">>)
  <2>1. Like(s, t)
    BY DEF Like, Shaped, RequestFields, WriteFile
  <2>2. Put(s) = Send(s, 400) \/ Put(s) = Send(s, 200) \/ Put(s) = Send(t, 200)
    <3>1. CASE ~HasParam(s.q, <<"path">>, TRUE, FALSE)
      BY <3>1 DEF Put
    <3>2. CASE HasParam(s.q, <<"path">>, TRUE, FALSE) /\ Exists(s, Path(s.q))
      BY <3>2 DEF Put
    <3>3. CASE HasParam(s.q, <<"path">>, TRUE, FALSE) /\ ~Exists(s, Path(s.q))
      BY <3>3 DEF Put
    <3> QED BY <3>1, <3>2, <3>3
  <2> HIDE DEF t
  <2> QED BY <1>1, <2>1, <2>2, AnswerKeeps
<1>7. Kept(s, s) /\ Kept(s, RequestAuthentication(s))
  BY KeptSame, RefusalKeeps
<1> QED BY <1>2, <1>3, <1>4, <1>5, <1>6, <1>7 DEF EditorHandleRequest

\* A function of the sketch behind its password: the only handler that may be refused.
LEMMA CallbackDoes ==
  ASSUME NEW s, Ready(s), NEW h, HandlerOf(s.q.handler) = h, h.kind = "callback", h.act \in Acts \cup {Nothing}
  PROVE  Did(s, CallbackHandleRequest(s, h))
<1>1. Refused(s.q) <=> ~LetsThrough(s.q, h)
  BY DEF Refused
<1>2. Shaped(s)
  BY DEF Ready
<1>3. CASE Refused(s.q)
  <2>1. CallbackHandleRequest(s, h) = RequestAuthentication(s)
    BY <1>1, <1>3 DEF CallbackHandleRequest
  <2> QED BY <1>2, <2>1, RefusalKeeps, KeptDid
<1>4. CASE ~Refused(s.q) /\ h.act = Nothing
  <2>1. CallbackHandleRequest(s, h) = Send(s, 500)
    BY <1>1, <1>4 DEF CallbackHandleRequest
  <2>2. Kept(s, Send(s, 500))
    BY <1>2, <1>4, PlainAnswerKeeps
  <2> QED BY <2>1, <2>2, KeptDid
<1>5. CASE ~Refused(s.q) /\ h.act # Nothing
  <2>1. CallbackHandleRequest(s, h) = Act(s, h.act)
    BY <1>1, <1>5 DEF CallbackHandleRequest
  <2> QED BY <1>5, <2>1, ActDoes
<1> QED BY <1>3, <1>4, <1>5

\* The JSON handler.
LEMMA JsonDoes ==
  ASSUME NEW s, Ready(s), ~Refused(s.q), NEW h, h.act \in Acts \cup {Nothing}
  PROVE  Did(s, JsonHandleRequest(s, h))
<1> DEFINE t == [s EXCEPT !.q.got.body = s.q.tempObject]
           code == IF s.v.jsonLength > MaxJson THEN 413 ELSE 400
<1>1. Shaped(s)
  BY DEF Ready
<1>2. \/ JsonHandleRequest(s, h) = Send(s, 500) \/ JsonHandleRequest(s, h) = Send(s, code)
      \/ h.act # Nothing /\ JsonHandleRequest(s, h) = Act(t, h.act)
  BY DEF JsonHandleRequest
<1>3. Told(s, t)
  BY <1>1 DEF Told, Shaped, RequestFields
<1>4. code \in Nat
  OBVIOUS
<1> HIDE DEF t, code
<1>5. Kept(s, t)
  BY <1>1, <1>3, ToldKept
<1>6. Ready(t) /\ ~Refused(t.q)
  <2>1. Refused(t.q) <=> Refused(s.q)
    BY <1>5, RefusedSame DEF Kept, SameRequest
  <2> QED BY <1>5, <2>1, KeptDid
<1>7. h.act # Nothing => Did(s, Act(t, h.act))
  BY <1>5, <1>6, ActDoes, DidOn
<1>8. Kept(s, Send(s, 500)) /\ Kept(s, Send(s, code))
  BY <1>1, <1>4, PlainAnswerKeeps
<1> QED BY <1>2, <1>7, <1>8, KeptDid

\* A web socket's handler and an event source's.
LEMMA SocketDoes ==
  ASSUME NEW s, Shaped(s), ~Refused(s.q), NEW h
  PROVE  Kept(s, SocketHandleRequest(s, h)) /\ Kept(s, EventsHandleRequest(s, h))
<1> DEFINE code == IF Header(s.q, "Sec-WebSocket-Version") = "13" THEN 101 ELSE 400
<1>1. \/ SocketHandleRequest(s, h) = Send(s, 400) \/ SocketHandleRequest(s, h) = RequestAuthentication(s)
      \/ SocketHandleRequest(s, h) = Send(s, code)
  BY DEF SocketHandleRequest
<1>2. EventsHandleRequest(s, h) = Send(s, 200) \/ EventsHandleRequest(s, h) = RequestAuthentication(s)
  BY DEF EventsHandleRequest
<1>3. code \in Nat
  OBVIOUS
<1> HIDE DEF code
<1>4. Kept(s, Send(s, 400)) /\ Kept(s, Send(s, 200)) /\ Kept(s, Send(s, code))
  BY <1>3, PlainAnswerKeeps
<1> QED BY <1>1, <1>2, <1>4, RefusalKeeps

\* handleRequest of any handler.
LEMMA RequestDoes ==
  ASSUME NEW s, Ready(s), s.q.handler \in 0..Len(Handlers)
  PROVE  Did(s, HandleRequest(s))
<1> DEFINE h == HandlerOf(s.q.handler)
           t == [s EXCEPT !.q.got.request = @ + 1]
           r == HandleRequest(s)
<1>1. h.kind \in Kinds /\ (h.kind \in {"callback", "json"} => h.act \in Acts \cup {Nothing})
  BY HandlerAssumption
<1>2. Shaped(s)
  BY DEF Ready
<1>3. Like(s, t)
  BY <1>2 DEF Like, Shaped, RequestFields
<1>4. /\ h.kind = "callback" => r = CallbackHandleRequest(t, h)
      /\ h.kind = "static" => r = StaticHandleRequest(t, h)
      /\ h.kind = "editor" => r = EditorHandleRequest(t, h)
      /\ h.kind = "json" => r = JsonHandleRequest(t, h)
      /\ h.kind = "socket" => r = SocketHandleRequest(t, h)
      /\ h.kind = "events" => r = EventsHandleRequest(t, h)
  BY DEF HandleRequest
<1> HIDE DEF t, r
<1>5. Kept(s, t)
  BY <1>2, <1>3, LikeKept
<1>6. Ready(t) /\ Shaped(t) /\ HandlerOf(t.q.handler) = h
  BY <1>5, KeptDid DEF Kept, SameRequest
<1>7. h.kind # "callback" => ~Refused(t.q)
  BY <1>6 DEF Refused
<1> HIDE DEF h
<1>8. Did(t, r)
  <2>1. CASE h.kind = "callback"
    BY <1>1, <1>4, <1>6, <2>1, CallbackDoes
  <2>2. CASE h.kind = "json"
    BY <1>1, <1>4, <1>6, <1>7, <2>2, JsonDoes
  <2>3. CASE h.kind \in {"static", "editor", "socket", "events"}
    <3>1. Kept(t, r)
      BY <1>4, <1>6, <1>7, <2>3, StaticDoes, EditorDoes, SocketDoes
    <3> QED BY <1>6, <3>1, KeptDid
  <2> QED BY <1>1, <2>1, <2>2, <2>3 DEF Kinds
<1>9. Did(s, r)
  BY <1>5, <1>8, DidOn
<1> QED BY <1>9 DEF r

-----------------------------------------------------------------------------
(* The head of a request *)

\* The function has been told nothing yet.
Untold(q) == q.answers = <<>> /\ q.got.body = <<>> /\ q.got.file = <<>>

\* Reading the head and choosing a handler leave these alone.
Alike(s, t) ==
  /\ {"q", "v", "luck"} \subseteq DOMAIN t /\ RequestFields \subseteq DOMAIN t.q
  /\ {"wifi", "gzipStats"} \subseteq DOMAIN t.v /\ {"request", "body", "file"} \subseteq DOMAIN t.q.got
  /\ t.luck = s.luck /\ t.v.wifi = s.v.wifi /\ t.v.gzipStats \in 0..255
  /\ t.q.itemBuffer = s.q.itemBuffer /\ t.q.answers = s.q.answers
  /\ t.q.got.body = s.q.got.body /\ t.q.got.file = s.q.got.file
  /\ t.q.boundaryPosition \in Nat

\* The same request, on the same handler, in the same state.
Reads(s, t) == Alike(s, t) /\ t.q.handler = s.q.handler /\ t.q.parseState = s.q.parseState

\* What two steps read, both together read.
LEMMA ReadsOn ==
  ASSUME NEW s, NEW t, NEW u, Reads(s, t), Reads(t, u)
  PROVE  Reads(s, u)
BY DEF Reads, Alike

\* The list of interesting headers is outside the invariant.
LEMMA AddInterestingReads ==
  ASSUME NEW s, Reads(s, s), NEW names
  PROVE  Reads(s, AddInteresting(s, names))
BY DEF Reads, Alike, AddInteresting, RequestFields

\* The statistics of compressed files stay in a byte.
LEMMA GzipStatsByte ==
  ASSUME NEW v, v.gzipStats \in 0..255, NEW found \in 0..1
  PROVE  GzipStats(v, found) \in 0..255
<1> DEFINE g == v.gzipStats
           r == (g * 2) % 256
<1>1. g \in Nat /\ g <= 255
  OBVIOUS
<1> HIDE DEF g
<1>2. r = IF g < 128 THEN g * 2 ELSE g * 2 - 256
  BY <1>1
<1>3. r \in 0..254
  BY <1>1, <1>2
<1>4. GzipStats(v, found) = r + found
  BY DEF GzipStats, g
<1> HIDE DEF r
<1> QED BY <1>3, <1>4

\* Looking for a file changes the statistics.
LEMMA FileExistsReads ==
  ASSUME NEW s, Reads(s, s), NEW path
  PROVE  Reads(s, FileExists(s, path).s)
<1> DEFINE gz == Append(path, ".gz")
           order == IF s.v.gzipFirst THEN <<gz, path>> ELSE <<path, gz>>
           there == {i \in 1..2 : Exists(s, order[i])}
           file == order[First(there)]
           stats == GzipStats(s.v, IF file = gz THEN 1 ELSE 0)
           first == CountBits(stats) > 4
           none == [s EXCEPT !.q.tempFile = Nothing]
           some == [s EXCEPT !.q.tempFile = file, !.q.tempObject = path, !.v.gzipStats = stats, !.v.gzipFirst = first]
<1>1. FileExists(s, path) = IF there = {} THEN Answer(FALSE, none) ELSE Answer(TRUE, some)
  BY DEF FileExists
<1>2. stats \in 0..255
  <2> DEFINE found == IF file = gz THEN 1 ELSE 0
  <2>1. found \in 0..1
    OBVIOUS
  <2> HIDE DEF found
  <2>2. GzipStats(s.v, found) \in 0..255
    BY <2>1, GzipStatsByte DEF Reads, Alike
  <2> QED BY <2>2 DEF found
<1> HIDE DEF file, stats, first, there
<1>3. Reads(s, none)
  BY DEF Reads, Alike, RequestFields
<1>4. Reads(s, some)
  BY <1>2 DEF Reads, Alike, RequestFields
<1> HIDE DEF none, some
<1>5. FileExists(s, path).s = none \/ FileExists(s, path).s = some
  BY <1>1 DEF Answer
<1> QED BY <1>3, <1>4, <1>5

\* Looking for it, and for the default file.
LEMMA GetFileReads ==
  ASSUME NEW s, Reads(s, s), NEW h
  PROVE  Reads(s, GetFile(s, h).s)
<1> DEFINE rest == SubSeq(s.q.url, Len(h.uri) + 1, Len(s.q.url))
           path == h.path \o rest
           skip == (h.isDir /\ rest = <<>>) \/ EndsWith(rest, <<"/">>)
           slashed == IF path # <<>> /\ EndsWith(path, <<"/">>) THEN path ELSE Append(path, "/")
           a == IF skip THEN Answer(FALSE, s) ELSE FileExists(s, path)
           b == FileExists(a.s, slashed \o h.defaultFile)
<1>1. GetFile(s, h) = a \/ GetFile(s, h) = b
  BY DEF GetFile
<1> HIDE DEF path, skip, slashed
<1>2. a.s = s \/ a.s = FileExists(s, path).s
  BY DEF Answer
<1>3. Reads(s, a.s)
  BY <1>2, FileExistsReads
<1> HIDE DEF a
<1>4. Reads(a.s, a.s)
  BY <1>3 DEF Reads, Alike
<1>5. Reads(s, b.s)
  BY <1>3, <1>4, FileExistsReads, ReadsOn
<1> HIDE DEF b
<1> QED BY <1>1, <1>3, <1>5

\* canHandle of a handler of files,
LEMMA StaticReads ==
  ASSUME NEW s, Reads(s, s), NEW h
  PROVE  Reads(s, StaticCanHandle(s, h).s)
<1> DEFINE kept == (IF h.lastModified # "" THEN {"If-Modified-Since"} ELSE {})
                     \cup (IF h.cacheControl # "" THEN {"If-None-Match"} ELSE {})
           f == GetFile(s, h)
           i == AddInteresting(f.s, kept)
           c == StaticCanHandle(s, h)
<1>1. c = Answer(FALSE, s) \/ c = Answer(TRUE, i) \/ c = f
  BY DEF StaticCanHandle
<1>2. Reads(s, f.s)
  BY GetFileReads
<1> HIDE DEF f, kept
<1>3. Reads(f.s, f.s)
  BY <1>2 DEF Reads, Alike
<1>4. Reads(f.s, i)
  BY <1>3, AddInterestingReads
<1> HIDE DEF i, c
<1>5. c.s = s \/ c.s = i \/ c.s = f.s
  BY <1>1 DEF Answer
<1>6. Reads(s, c.s)
  BY <1>2, <1>4, <1>5, ReadsOn
<1> QED BY <1>6 DEF c

\* of the editor,
LEMMA EditorReads ==
  ASSUME NEW s, Reads(s, s)
  PROVE  Reads(s, EditorCanHandle(s).s)
<1> DEFINE name == IF HasParam(s.q, <<"download">>, FALSE, FALSE) THEN Arg(s.q, <<"download">>) ELSE Arg(s.q, <<"edit">>)
           o == [s EXCEPT !.q.tempFile = name]
           i == AddInteresting(s, {"If-Modified-Since"})
           j == AddInteresting(o, {"If-Modified-Since"})
           c == EditorCanHandle(s)
<1>1. c = Answer(FALSE, s) \/ c = Answer(TRUE, s) \/ c = Answer(TRUE, i) \/ c = Answer(TRUE, j)
  BY DEF EditorCanHandle
<1> HIDE DEF name
<1>2. Reads(s, o)
  BY DEF Reads, Alike, RequestFields
<1> HIDE DEF o
<1>3. Reads(o, o)
  BY <1>2 DEF Reads, Alike
<1>4. Reads(s, i) /\ Reads(o, j)
  BY <1>3, AddInterestingReads
<1> HIDE DEF i, j, c
<1>5. c.s = s \/ c.s = i \/ c.s = j
  BY <1>1 DEF Answer
<1>6. Reads(s, c.s)
  BY <1>2, <1>4, <1>5, ReadsOn
<1> QED BY <1>6 DEF c

\* and of any handler.
LEMMA CanHandleReads ==
  ASSUME NEW s, Reads(s, s), NEW h, h.kind \in Kinds
  PROVE  Reads(s, CanHandle(s, h).s)
<1>1. ASSUME NEW names PROVE Reads(s, Answer(FALSE, s).s) /\ Reads(s, Answer(TRUE, AddInteresting(s, names)).s)
  BY AddInterestingReads DEF Answer
<1>2. CASE h.kind = "callback"
  <2>1. \/ CallbackCanHandle(s, h) = Answer(FALSE, s) \/ CallbackCanHandle(s, h) = Answer(TRUE, AddInteresting(s, {"ANY"}))
    BY DEF CallbackCanHandle
  <2>2. CanHandle(s, h) = CallbackCanHandle(s, h)
    BY <1>2 DEF CanHandle
  <2> QED BY <1>1, <2>1, <2>2
<1>3. CASE h.kind = "json"
  <2>1. \/ JsonCanHandle(s, h) = Answer(FALSE, s) \/ JsonCanHandle(s, h) = Answer(TRUE, AddInteresting(s, {"ANY"}))
    BY DEF JsonCanHandle
  <2>2. CanHandle(s, h) = JsonCanHandle(s, h)
    BY <1>3 DEF CanHandle
  <2> QED BY <1>1, <2>1, <2>2
<1>4. CASE h.kind = "socket"
  <2>1. \/ SocketCanHandle(s, h) = Answer(FALSE, s) \/ SocketCanHandle(s, h) = Answer(TRUE, AddInteresting(s, SocketHeaders))
    BY DEF SocketCanHandle
  <2>2. CanHandle(s, h) = SocketCanHandle(s, h)
    BY <1>4 DEF CanHandle
  <2> QED BY <1>1, <2>1, <2>2
<1>5. CASE h.kind = "events"
  <2>1. \/ EventsCanHandle(s, h) = Answer(FALSE, s) \/ EventsCanHandle(s, h) = Answer(TRUE, AddInteresting(s, {"Last-Event-ID"}))
    BY DEF EventsCanHandle
  <2>2. CanHandle(s, h) = EventsCanHandle(s, h)
    BY <1>5 DEF CanHandle
  <2> QED BY <1>1, <2>1, <2>2
<1>6. CASE h.kind = "static"
  BY <1>6, StaticReads DEF CanHandle
<1>7. CASE h.kind = "editor"
  BY <1>7, EditorReads DEF CanHandle
<1> QED BY <1>2, <1>3, <1>4, <1>5, <1>6, <1>7 DEF Kinds

\* g[i] is the answer after i handlers were asked.
NoAnswer(s) == Answer(FALSE, s)
Asked(g, n, s) == g = [i \in 0..n |-> IF i = 0 THEN NoAnswer(s) ELSE Ask(g[i - 1], i)]

\* Asking the handlers in order is a recursion on their number: it exists.
LEMMA AskedExist ==
  ASSUME NEW s, NEW n \in Nat
  PROVE  \E g : Asked(g, n, s)
<1> DEFINE Bad == {k \in Nat : ~\E g : Asked(g, k, s)}
           base == NoAnswer(s)
<1> SUFFICES ASSUME Bad # {} PROVE FALSE
  OBVIOUS
<1>1. PICK k \in Bad : \A m \in Bad : k <= m
  BY Least
<1>2. CASE k = 0
  <2> DEFINE g == [i \in 0..0 |-> base]
  <2>1. Asked(g, 0, s)
    BY DEF Asked
  <2> QED BY <1>2, <2>1
<1>3. CASE k # 0
  <2>1. k \in Nat /\ k - 1 \in Nat /\ k - 1 \notin Bad
    BY <1>1, <1>3
  <2>2. PICK h : Asked(h, k - 1, s)
    BY <2>1
  <2> DEFINE g == [i \in 0..k |-> IF i < k THEN h[i] ELSE Ask(h[k - 1], k)]
  <2>3. Asked(g, k, s)
    <3>1. ASSUME NEW i \in 0..k PROVE g[i] = IF i = 0 THEN base ELSE Ask(g[i - 1], i)
      <4> HIDE DEF base
      <4>1. CASE i = k
        BY <1>3, <2>1, <4>1
      <4>2. CASE i < k
        <5>1. h[i] = IF i = 0 THEN base ELSE Ask(h[i - 1], i)
          BY <2>1, <2>2, <4>2 DEF Asked, base
        <5> QED BY <2>1, <4>2, <5>1
      <4> QED BY <2>1, <4>1, <4>2
    <3> QED BY <3>1 DEF Asked
  <2> QED BY <1>1, <2>3
<1> QED BY <1>2, <1>3

\* The request gets a handler: the first that says yes, or the last resort.
LEMMA AttachHandlerReads ==
  ASSUME NEW s, Reads(s, s)
  PROVE  /\ Alike(s, AttachHandler(s)) /\ AttachHandler(s).q.parseState = s.q.parseState
         /\ AttachHandler(s).q.handler \in 0..Len(Handlers)
<1> DEFINE n == Len(Handlers)
           g == CHOOSE g : Asked(g, n, s)
           u == [g[n].s EXCEPT !.q.handler = 0]
           z == AddInteresting(u, {"ANY"})
           Fits(i) == /\ Alike(s, g[i].s) /\ g[i].s.q.parseState = s.q.parseState
                      /\ g[i].yes => g[i].s.q.handler \in 0..n
           Bad == {i \in Nat : i <= n /\ ~Fits(i)}
<1>0. n \in Nat
  BY HandlerAssumption
<1>1. Asked(g, n, s)
  BY <1>0, AskedExist
<1>2. AttachHandler(s) = IF g[n].yes THEN g[n].s ELSE z
  BY DEF AttachHandler, Asked, NoAnswer
<1> HIDE DEF g
<1>3. CASE Bad # {}
  <2>1. PICK i \in Bad : \A j \in Bad : i <= j
    BY <1>3, Least
  <2>2. g[0].s = s /\ g[0].yes = FALSE
    BY <1>0, <1>1 DEF Asked, Answer, NoAnswer
  <2>3. Fits(0)
    BY <2>2 DEF Reads
  <2>4. i # 0 /\ i \in 1..n /\ i - 1 \in Nat /\ i - 1 <= n
    BY <1>0, <2>1, <2>3
  <2>5. Fits(i - 1)
    BY <2>1, <2>4
  <2> DEFINE a == g[i - 1]
             next == CanHandle(a.s, Handlers[i])
             v == [next.s EXCEPT !.q.handler = i]
  <2>6. g[i] = Ask(a, i)
    BY <1>0, <1>1, <2>4 DEF Asked
  <2>7. \/ g[i] = a
        \/ next.yes /\ g[i] = Answer(TRUE, v)
        \/ ~next.yes /\ g[i] = next
    <3>1. Ask(a, i) = IF a.yes THEN a ELSE IF next.yes THEN Answer(TRUE, v) ELSE next
      BY DEF Ask
    <3> HIDE DEF a, next, v
    <3> QED BY <2>6, <3>1
  <2>8. Handlers[i].kind \in Kinds
    <3>1. HandlerOf(i) = Handlers[i]
      BY <2>4 DEF HandlerOf
    <3> QED BY <1>0, <2>4, <3>1, HandlerAssumption
  <2>9. Reads(a.s, a.s)
    BY <2>5 DEF Reads, Alike
  <2> HIDE DEF a
  <2>10. Reads(a.s, next.s)
    BY <2>8, <2>9, CanHandleReads
  <2> HIDE DEF next
  <2>11. Alike(s, next.s) /\ next.s.q.parseState = s.q.parseState
    BY <2>5, <2>10 DEF Reads, Alike, a
  <2>12. Alike(s, v) /\ v.q.parseState = s.q.parseState /\ v.q.handler = i
    BY <2>11 DEF Alike, RequestFields
  <2> HIDE DEF v
  <2>13. CASE g[i] = a
    BY <2>5, <2>13 DEF a
  <2>14. CASE next.yes /\ g[i] = Answer(TRUE, v)
    <3>1. g[i].s = v
      BY <2>14 DEF Answer
    <3> QED BY <1>0, <2>4, <2>12, <3>1
  <2>15. CASE ~next.yes /\ g[i] = next
    BY <2>11, <2>15
  <2> QED BY <2>7, <2>13, <2>14, <2>15
<1>4. CASE Bad = {}
  <2>1. Fits(n)
    BY <1>0, <1>4
  <2>2. Alike(s, u) /\ u.q.parseState = s.q.parseState /\ u.q.handler = 0
    BY <2>1 DEF Alike, RequestFields
  <2> HIDE DEF u
  <2>3. Reads(u, u)
    BY <2>2 DEF Reads, Alike
  <2>4. Reads(u, z)
    BY <2>3, AddInterestingReads
  <2> HIDE DEF z
  <2>5. Alike(s, z) /\ z.q.parseState = s.q.parseState /\ z.q.handler = 0
    BY <2>2, <2>4 DEF Alike, Reads
  <2> QED BY <1>0, <1>2, <2>1, <2>5
<1> QED BY <1>3, <1>4

\* Rewrites change the URL and add parameters.
LEMMA RewriteRequestReads ==
  ASSUME NEW s, Reads(s, s)
  PROVE  Reads(s, RewriteRequest(s))
<1>1. PICK url, added : RewriteRequest(s) = [s EXCEPT !.q.url = url, !.q.params = @ \o added]
  BY DEF RewriteRequest
<1> DEFINE t == [s EXCEPT !.q.url = url, !.q.params = @ \o added]
<1>2. Reads(s, t)
  BY DEF Reads, Alike, RequestFields
<1> HIDE DEF t
<1>3. RewriteRequest(s) = t
  BY <1>1 DEF t
<1> QED BY <1>2, <1>3

\* Pruning the headers.
LEMMA RemoveReads ==
  ASSUME NEW s, Reads(s, s)
  PROVE  Reads(s, RemoveNotInteresting(s))
<1> DEFINE With(x) == [s EXCEPT !.q.headers = x]
<1>1. \/ RemoveNotInteresting(s) = s \/ RemoveNotInteresting(s) = Dies(s)
      \/ \E x : RemoveNotInteresting(s) = With(x)
  BY DEF RemoveNotInteresting
<1>2. ASSUME NEW x PROVE Reads(s, With(x))
  BY DEF Reads, Alike, RequestFields
<1>3. Reads(s, Dies(s))
  BY DEF Reads, Alike, RequestFields, Dies
<1> HIDE DEF With
<1> QED BY <1>1, <1>2, <1>3

\* The first line of a head.
LEMMA ParseReqHeadReads ==
  ASSUME NEW s, Reads(s, s), NEW m
  PROVE  Reads(s, ParseReqHead(s, m))
<1>1. PICK method, url, params :
        ParseReqHead(s, m) = [[s EXCEPT !.q.method = method, !.q.url = url, !.q.line = <<>>, !.q.version = 1] EXCEPT
                                !.q.params = @ \o params]
  BY DEF ParseReqHead, AddGetParams
<1> DEFINE t == [s EXCEPT !.q.method = method, !.q.url = url, !.q.line = <<>>, !.q.version = 1]
           u == [t EXCEPT !.q.params = @ \o params]
<1>2. Reads(s, u)
  BY DEF Reads, Alike, RequestFields
<1>3. ParseReqHead(s, m) = u
  BY <1>1
<1> HIDE DEF u
<1> QED BY <1>2, <1>3

\* A header's line.
LEMMA ParseReqHeaderReads ==
  ASSUME NEW s, Reads(s, s), NEW m, NEW header
  PROVE  Reads(s, ParseReqHeader(s, m, header))
<1> DEFINE t == [s EXCEPT !.q.headers = Append(@, header), !.q.line = <<>>]
           Typed(x, y) == [t EXCEPT !.q.contentType = x, !.q.isMultipart = y]
           Sized(x) == [t EXCEPT !.q.contentLength = x]
           Expecting(x) == [t EXCEPT !.q.expectingContinue = x]
           Authorized(x) == [t EXCEPT !.q.authorization = x]
           Connected(x) == [t EXCEPT !.q.reqconntype = x]
           r == ParseReqHeader(s, m, header)
<1>1. Reads(s, t)
  BY DEF Reads, Alike, RequestFields
<1>2. \/ r = t \/ (\E x, y : r = Typed(x, y)) \/ (\E x : r = Sized(x) \/ r = Expecting(x) \/ r = Authorized(x) \/ r = Connected(x))
  BY DEF ParseReqHeader
<1> HIDE DEF t
<1>3. ASSUME NEW x, NEW y PROVE Reads(s, Typed(x, y))
  BY <1>1 DEF Reads, Alike, RequestFields
<1>4. ASSUME NEW x PROVE Reads(s, Sized(x)) /\ Reads(s, Expecting(x)) /\ Reads(s, Connected(x))
  BY <1>1 DEF Reads, Alike, RequestFields
<1>5. ASSUME NEW x PROVE Reads(s, Authorized(x))
  BY <1>1 DEF Reads, Alike, RequestFields
<1> HIDE DEF r, Typed, Sized, Expecting, Authorized, Connected
<1>6. Reads(s, r)
  BY <1>1, <1>2, <1>3, <1>4, <1>5
<1> QED BY <1>6 DEF r

-----------------------------------------------------------------------------
(* What a browser sends is a sequence *)

\* Nothing is a text,
LEMMA EmptyText == IsText(<<>>) /\ Len(<<>>) = 0
BY EmptySeq DEF IsText

\* so is one piece,
LEMMA SingleText ==
  ASSUME NEW x
  PROVE  IsText(<<x>>)
<1>1. <<x>> \in Seq({x})
  OBVIOUS
<1> QED BY <1>1 DEF IsText

\* so are three,
LEMMA TripleText ==
  ASSUME NEW x, NEW y, NEW z
  PROVE  IsText(<<x, y, z>>)
<1>1. <<x, y, z>> \in Seq({x, y, z})
  OBVIOUS
<1> QED BY <1>1 DEF IsText

\* and as many as a function has.
LEMMA FunctionText ==
  ASSUME NEW n \in Nat, NEW f, f = [i \in 1..n |-> f[i]]
  PROVE  IsText(f) /\ Len(f) = n
<1> DEFINE S == {f[i] : i \in 1..n}
<1>1. f \in [1..n -> S]
  OBVIOUS
<1> HIDE DEF S
<1>2. f \in Seq(S)
  BY <1>1, SeqDef
<1>3. Len(f) \in Nat /\ DOMAIN f = 1..Len(f) /\ DOMAIN f = 1..n
  BY <1>1, <1>2, LenProperties
<1>4. Len(f) = n
  <2>1. Len(f) > 0 => Len(f) \in 1..n
    BY <1>3
  <2>2. n > 0 => n \in 1..Len(f)
    BY <1>3
  <2> QED BY <1>3, <2>1, <2>2
<1> QED BY <1>2, <1>4 DEF IsText

\* g[i] is the first i texts in a row.
Joined(y, z) == y \o z
Flat(g, n, x) == g = [i \in 1..n |-> IF i = 1 THEN x[i] ELSE Joined(g[i - 1], x[i])]

\* Texts in a row are a recursion on their number: it exists.
LEMMA FlatExist ==
  ASSUME NEW x, NEW n \in Nat
  PROVE  \E g : Flat(g, n, x)
<1> DEFINE Bad == {k \in Nat : ~\E g : Flat(g, k, x)}
<1> SUFFICES ASSUME Bad # {} PROVE FALSE
  OBVIOUS
<1>1. PICK k \in Bad : \A m \in Bad : k <= m
  BY Least
<1>2. CASE k = 0
  <2> DEFINE g == [i \in 1..0 |-> x[i]]
  <2>1. g = [i \in 1..0 |-> IF i = 1 THEN x[i] ELSE Joined(g[i - 1], x[i])]
    OBVIOUS
  <2> HIDE DEF g
  <2>2. Flat(g, 0, x)
    BY <2>1 DEF Flat
  <2> QED BY <1>2, <2>2
<1>3. CASE k # 0
  <2>1. k \in Nat /\ k - 1 \in Nat /\ k - 1 \notin Bad
    BY <1>1, <1>3
  <2>2. PICK h : Flat(h, k - 1, x)
    BY <2>1
  <2> DEFINE g == [i \in 1..k |-> IF i < k THEN h[i] ELSE IF k = 1 THEN x[1] ELSE Joined(h[k - 1], x[k])]
  <2>3. Flat(g, k, x)
    <3>1. ASSUME NEW i \in 1..k PROVE g[i] = IF i = 1 THEN x[i] ELSE Joined(g[i - 1], x[i])
      <4>1. CASE i = k
        BY <1>3, <2>1, <4>1
      <4>2. CASE i < k
        <5>1. h[i] = IF i = 1 THEN x[i] ELSE Joined(h[i - 1], x[i])
          BY <2>1, <2>2, <4>2 DEF Flat
        <5> QED BY <2>1, <4>2, <5>1
      <4> QED BY <2>1, <4>1, <4>2
    <3> QED BY <3>1 DEF Flat
  <2> QED BY <1>1, <2>3
<1> QED BY <1>2, <1>3

\* Texts in a row are a text.
LEMMA FlattenText ==
  ASSUME NEW x, IsText(x), \A i \in DOMAIN x : IsText(x[i])
  PROVE  IsText(FlattenSeq(x))
<1> DEFINE n == Len(x)
           g == CHOOSE g : Flat(g, n, x)
           Bad == {i \in Nat : i \in 1..n /\ ~IsText(g[i])}
<1>1. n \in Nat /\ DOMAIN x = 1..n
  BY TextLength
<1>2. Flat(g, n, x)
  BY <1>1, FlatExist
<1>3. FlattenSeq(x) = IF n = 0 THEN x ELSE g[n]
  BY DEF FlattenSeq, Flat, Joined
<1> HIDE DEF g
<1>4. CASE Bad = {}
  <2>1. n # 0 => IsText(g[n])
    BY <1>1, <1>4
  <2> QED BY <1>3, <2>1
<1>5. CASE Bad # {}
  <2>1. PICK i \in Bad : \A j \in Bad : i <= j
    BY <1>5, Least
  <2>2. i \in 1..n /\ ~IsText(g[i]) /\ IsText(x[i])
    BY <1>1
  <2>3. g[i] = IF i = 1 THEN x[i] ELSE Joined(g[i - 1], x[i])
    BY <1>2, <2>2 DEF Flat
  <2>4. i # 1 => i - 1 \in Nat /\ i - 1 \in 1..n /\ i - 1 \notin Bad
    BY <1>1, <2>1, <2>2
  <2>5. i # 1 => IsText(g[i - 1])
    BY <2>4
  <2> QED BY <2>2, <2>3, <2>5, TextConcat DEF Joined
<1> QED BY <1>4, <1>5

\* A text with its escapes is one.
LEMMA EncodedText ==
  ASSUME NEW x, IsText(x)
  PROVE  IsText(UrlEncode(x))
<1> DEFINE f == [i \in DOMAIN x |-> UrlEncodeChar(x[i])]
<1>1. ASSUME NEW c PROVE IsText(UrlEncodeChar(c))
  <2> DEFINE e == CHOOSE e \in DOMAIN Escapes : Escapes[e] = c
  <2>1. UrlEncodeChar(c) = <<"%", e[1], e[2]>> \/ UrlEncodeChar(c) = <<"+">> \/ UrlEncodeChar(c) = <<c>>
    BY DEF UrlEncodeChar
  <2> HIDE DEF e
  <2> QED BY <2>1, SingleText, TripleText
<1>2. UrlEncode(x) = FlattenSeq(f)
  BY DEF UrlEncode
<1>3. DOMAIN x = 1..Len(x) /\ Len(x) \in Nat
  BY TextLength
<1>4. IsText(f) /\ \A i \in DOMAIN f : IsText(f[i])
  <2>1. f = [i \in 1..Len(x) |-> f[i]]
    BY <1>3
  <2> QED BY <1>1, <1>3, <2>1, FunctionText
<1> HIDE DEF f
<1> QED BY <1>2, <1>4, FlattenText

\* A sequence is a text, of its length.
LEMMA SeqText ==
  ASSUME NEW S, NEW x \in Seq(S)
  PROVE  IsText(x) /\ DOMAIN x = 1..Len(x) /\ Len(x) \in Nat /\ \A i \in DOMAIN x : x[i] \in S
BY LenProperties, ElementOfSeq DEF IsText

\* A form's fields make a text.
LEMMA FormTextIsText ==
  ASSUME NEW fields \in Seq(FieldText)
  PROVE  IsText(FormText(fields))
<1> DEFINE Piece(i) == (IF i = 1 THEN <<>> ELSE <<"&">>) \o UrlEncode(fields[i].name) \o <<"=">> \o UrlEncode(fields[i].value)
           f == [i \in DOMAIN fields |-> Piece(i)]
<1>1. DOMAIN fields = 1..Len(fields) /\ Len(fields) \in Nat /\ \A i \in DOMAIN fields : fields[i] \in FieldText
  BY SeqText
<1>2. ASSUME NEW i \in DOMAIN fields PROVE IsText(Piece(i))
  <2>1. IsText(fields[i].name) /\ IsText(fields[i].value)
    <3>1. fields[i].name \in Seq(STRING) /\ fields[i].value \in Seq(STRING)
      BY <1>1 DEF FieldText, Text
    <3> QED BY <3>1, SeqText
  <2>2. IsText(UrlEncode(fields[i].name)) /\ IsText(UrlEncode(fields[i].value))
    BY <2>1, EncodedText
  <2>3. IsText(<<"&">>) /\ IsText(<<"=">>) /\ IsText(<<>>)
    BY SingleText, EmptyText
  <2> DEFINE amp == IF i = 1 THEN <<>> ELSE <<"&">>
  <2>4. IsText(amp)
    BY <2>3
  <2> HIDE DEF amp
  <2>5. IsText(amp \o UrlEncode(fields[i].name))
    BY <2>2, <2>4, TextConcat
  <2>6. IsText(amp \o UrlEncode(fields[i].name) \o <<"=">>)
    BY <2>3, <2>5, TextConcat
  <2>7. IsText(amp \o UrlEncode(fields[i].name) \o <<"=">> \o UrlEncode(fields[i].value))
    BY <2>2, <2>6, TextConcat
  <2> QED BY <2>7 DEF amp
<1>3. FormText(fields) = FlattenSeq(f)
  BY DEF FormText
<1> HIDE DEF Piece
<1>4. IsText(f) /\ \A i \in DOMAIN f : IsText(f[i])
  <2>1. f = [i \in 1..Len(fields) |-> f[i]]
    BY <1>1
  <2>2. IsText(f)
    BY <1>1, <2>1, FunctionText
  <2> QED BY <1>2, <2>2
<1> HIDE DEF f
<1> QED BY <1>3, <1>4, FlattenText

\* So do a part's head and data.
LEMMA ItemTextIsText ==
  ASSUME NEW item, IsText(item.data)
  PROVE  IsText(ItemText(item))
<1> DEFINE a == <<"-", "-">>
           b == <<CR, LF, item.line, CR, LF>>
           c == IF item.typed THEN <<"Content-Type", CR, LF>> ELSE <<>>
           d == <<CR, LF>>
<1>1. ItemText(item) = a \o Boundary \o b \o c \o d \o item.data \o d
  BY DEF ItemText
<1>2. IsText(a) /\ IsText(b) /\ IsText(c) /\ IsText(d) /\ IsText(Boundary)
  <2>1. a \in Seq({"-"})
    OBVIOUS
  <2>2. b \in Seq({CR, LF, item.line})
    OBVIOUS
  <2>3. d \in Seq({CR, LF})
    OBVIOUS
  <2> HIDE DEF a, b, d
  <2> QED BY <2>1, <2>2, <2>3, TripleText, EmptyText, RequestAssumption DEF IsText
<1> HIDE DEF a, b, c, d
<1>3. IsText(a \o Boundary)
  BY <1>2, TextConcat
<1>4. IsText(a \o Boundary \o b)
  BY <1>2, <1>3, TextConcat
<1>5. IsText(a \o Boundary \o b \o c)
  BY <1>2, <1>4, TextConcat
<1>6. IsText(a \o Boundary \o b \o c \o d)
  BY <1>2, <1>5, TextConcat
<1>7. IsText(a \o Boundary \o b \o c \o d \o item.data)
  BY <1>6, TextConcat
<1>8. IsText(a \o Boundary \o b \o c \o d \o item.data \o d)
  BY <1>2, <1>7, TextConcat
<1> QED BY <1>1, <1>8

\* What a browser means to send is a message.
LEMMA MessageType ==
  ASSUME NEW i \in DOMAIN Messages
  PROVE  Messages[i] \in Message
BY MessageAssumption, SeqText

\* The body of a message is a text.
LEMMA BodyTextIsText ==
  ASSUME NEW m \in Message
  PROVE  IsText(BodyText(m))
<1>1. /\ m.fields \in Seq(FieldText) /\ m.data \in Seq(STRING) /\ m.tail \in Seq(STRING)
      /\ m.items \in Seq([line : STRING, typed : BOOLEAN, data : Seq(STRING)])
  BY DEF Message, Text
<1>2. IsText(MultipartText(m))
  <2> DEFINE f == [i \in DOMAIN m.items |-> ItemText(m.items[i])]
             a == <<"-", "-">>
  <2>1. MultipartText(m) = FlattenSeq(f) \o a \o Boundary \o a \o m.tail
    BY DEF MultipartText
  <2>2. /\ DOMAIN m.items = 1..Len(m.items) /\ Len(m.items) \in Nat
        /\ \A i \in DOMAIN m.items : m.items[i] \in [line : STRING, typed : BOOLEAN, data : Seq(STRING)]
    BY <1>1, SeqText
  <2>3. ASSUME NEW i \in DOMAIN m.items PROVE IsText(ItemText(m.items[i]))
    <3>1. m.items[i].data \in Seq(STRING)
      BY <2>2
    <3>2. IsText(m.items[i].data)
      BY <3>1, SeqText
    <3> QED BY <3>2, ItemTextIsText
  <2>4. IsText(f) /\ \A i \in DOMAIN f : IsText(f[i])
    <3>1. f = [i \in 1..Len(m.items) |-> f[i]]
      BY <2>2
    <3>2. IsText(f)
      BY <2>2, <3>1, FunctionText
    <3> QED BY <2>3, <3>2
  <2> HIDE DEF f
  <2>5. IsText(FlattenSeq(f))
    BY <2>4, FlattenText
  <2>6. IsText(a) /\ IsText(Boundary) /\ IsText(m.tail)
    <3>1. a \in Seq({"-"})
      OBVIOUS
    <3> HIDE DEF a
    <3> QED BY <1>1, <3>1, RequestAssumption DEF IsText
  <2> HIDE DEF a
  <2>7. IsText(FlattenSeq(f) \o a)
    BY <2>5, <2>6, TextConcat
  <2>8. IsText(FlattenSeq(f) \o a \o Boundary)
    BY <2>6, <2>7, TextConcat
  <2>9. IsText(FlattenSeq(f) \o a \o Boundary \o a)
    BY <2>6, <2>8, TextConcat
  <2>10. IsText(FlattenSeq(f) \o a \o Boundary \o a \o m.tail)
    BY <2>6, <2>9, TextConcat
  <2> QED BY <2>1, <2>10
<1>3. IsText(FormText(m.fields))
  BY <1>1, FormTextIsText
<1>4. IsText(m.data) /\ IsText(<<>>)
  BY <1>1, EmptyText, SeqText
<1> QED BY <1>2, <1>3, <1>4 DEF BodyText

\* So are the lines of its head.
LEMMA LinesAreText ==
  ASSUME NEW m \in Message
  PROVE  IsText(Lines(m))
<1> DEFINE length == Len(BodyText(m))
           a == <<Field("", "")>>
           b == IF length > 0 THEN <<Field("Content-Length", ""), Field("Content-Type", m.body)>> ELSE <<>>
           c == IF m.auth.scheme # "none" THEN <<Field("Authorization", "")>> ELSE <<>>
<1>1. Lines(m) = a \o b \o c \o m.headers
  BY DEF Lines
<1>2. IsText(a) /\ IsText(b) /\ IsText(c)
  <2>1. ASSUME NEW x, NEW y PROVE IsText(<<x, y>>)
    <3>1. <<x, y>> \in Seq({x, y})
      OBVIOUS
    <3> QED BY <3>1 DEF IsText
  <2> QED BY <2>1, SingleText, EmptyText
<1>3. IsText(m.headers)
  BY SeqText DEF Message
<1> HIDE DEF a, b, c
<1>4. IsText(a \o b)
  BY <1>2, TextConcat
<1>5. IsText(a \o b \o c)
  BY <1>2, <1>4, TextConcat
<1>6. IsText(a \o b \o c \o m.headers)
  BY <1>3, <1>5, TextConcat
<1> QED BY <1>1, <1>6

\* What a message is on the wire is a text.
LEMMA WireIsText ==
  ASSUME NEW i \in DOMAIN Messages
  PROVE  IsText(Wires[i])
<1> DEFINE m == Messages[i]
           a == [j \in 1..m.blank |-> <<Unit(LF, 0, 0)>>]
           b == [k \in DOMAIN Lines(m) |-> LineText(k)]
           c == <<Unit(LF, 0, 0)>>
           d == [j \in DOMAIN BodyText(m) |-> Unit(BodyText(m)[j], 0, 0)]
           e == [j \in 1..m.excess |-> Unit("x", 0, 0)]
<1>1. m \in Message
  BY MessageType
<1>2. Wires[i] = FlattenSeq(a) \o FlattenSeq(b) \o c \o d \o e
  BY DEF Wires, Wire
<1> HIDE DEF m
<1>3. m.blank \in Nat /\ m.excess \in Nat
  BY <1>1 DEF Message
<1>4. IsText(FlattenSeq(a))
  <2>1. a = [j \in 1..m.blank |-> a[j]]
    OBVIOUS
  <2>2. \A j \in DOMAIN a : a[j] = c
    OBVIOUS
  <2>3. IsText(c)
    BY SingleText
  <2> HIDE DEF a, c
  <2>4. IsText(a)
    BY <1>3, <2>1, FunctionText
  <2> QED BY <2>2, <2>3, <2>4, FlattenText
<1>5. IsText(FlattenSeq(b))
  <2>1. DOMAIN Lines(m) = 1..Len(Lines(m)) /\ Len(Lines(m)) \in Nat
    BY <1>1, LinesAreText, TextLength
  <2>2. b = [k \in 1..Len(Lines(m)) |-> b[k]]
    BY <2>1
  <2>3. \A k \in DOMAIN b : IsText(b[k])
    <3>1. ASSUME NEW k PROVE IsText(LineText(k))
      BY TripleText DEF LineText
    <3> QED BY <3>1
  <2> HIDE DEF b
  <2>4. IsText(b)
    BY <2>1, <2>2, FunctionText
  <2> QED BY <2>3, <2>4, FlattenText
<1>6. IsText(d)
  <2>1. DOMAIN BodyText(m) = 1..Len(BodyText(m)) /\ Len(BodyText(m)) \in Nat
    BY <1>1, BodyTextIsText, TextLength
  <2>2. d = [j \in 1..Len(BodyText(m)) |-> d[j]]
    BY <2>1
  <2> HIDE DEF d
  <2> QED BY <2>1, <2>2, FunctionText
<1>7. IsText(e)
  <2>1. e = [j \in 1..m.excess |-> e[j]]
    OBVIOUS
  <2> HIDE DEF e
  <2> QED BY <1>3, <2>1, FunctionText
<1>8. IsText(c)
  BY SingleText
<1> HIDE DEF a, b, c, d, e
<1>9. IsText(FlattenSeq(a) \o FlattenSeq(b))
  BY <1>4, <1>5, TextConcat
<1>10. IsText(FlattenSeq(a) \o FlattenSeq(b) \o c)
  BY <1>8, <1>9, TextConcat
<1>11. IsText(FlattenSeq(a) \o FlattenSeq(b) \o c \o d)
  BY <1>6, <1>10, TextConcat
<1>12. IsText(FlattenSeq(a) \o FlattenSeq(b) \o c \o d \o e)
  BY <1>7, <1>11, TextConcat
<1> QED BY <1>2, <1>12

-----------------------------------------------------------------------------
(* A segment *)

\* The invariant, of a request and the device it is on.
Settled(s) ==
  /\ Shaped(s) /\ Buffered(s.q) /\ Len(s.luck.tries) \in Nat
  /\ s.v.gzipStats \in 0..255 /\ NetInv(s.v.wifi) /\ Pages(s.v.wifi)
  /\ s.q.parseState \in {"start", "headers", "body", "end", "fail"}
  /\ s.q.handler \in 0..Len(Handlers) \cup {Nothing}
  /\ s.q.parseState \in {"body", "end"} => s.q.handler # Nothing
  /\ s.q.parseState # "end" => s.v.wifi.listener # NoObject
  /\ s.q.parseState \notin {"body", "end"} => Untold(s.q)
  /\ Refused(s.q) => Silent(s.q)

\* Where nothing was told there is nothing to be seen.
LEMMA UntoldSilent ==
  ASSUME NEW q, Untold(q)
  PROVE  Silent(q)
<1>1. DOMAIN <<>> = {}
  BY EmptySeq, LenProperties
<1> QED BY <1>1 DEF Untold, Silent

\* The invariant has the shape that reading needs.
LEMMA SettledReads ==
  ASSUME NEW s, Settled(s)
  PROVE  Reads(s, s)
BY DEF Settled, Shaped, Reads, Alike

\* Reading a head keeps the invariant, once a handler is there where the state needs one.
LEMMA AlikeSettles ==
  ASSUME NEW s, Settled(s), Untold(s.q), s.q.parseState # "end", NEW t, Alike(s, t),
         t.q.parseState \in {"start", "headers", "body", "fail"},
         t.q.handler \in 0..Len(Handlers) \cup {Nothing}, t.q.parseState = "body" => t.q.handler # Nothing
  PROVE  Settled(t) /\ Untold(t.q) /\ t.luck = s.luck
<1>1. Untold(t.q)
  BY DEF Alike, Untold
<1>2. Silent(t.q)
  BY <1>1, UntoldSilent
<1>3. Shaped(t) /\ Buffered(t.q)
  BY DEF Alike, Settled, Shaped, Buffered
<1> QED BY <1>1, <1>2, <1>3 DEF Settled, Alike

\* A segment of a body keeps it.
LEMMA KeptSettles ==
  ASSUME NEW s, Settled(s), s.q.parseState = "body", NEW t, Kept(s, t)
  PROVE  Settled(t) /\ t.q.parseState = "body" /\ t.luck = s.luck
<1>1. Refused(s.q) <=> Refused(t.q)
  BY RefusedSame DEF Kept, SameRequest
<1> QED BY <1>1 DEF Settled, Kept, SameRequest

\* The end of a request, at which its handler is called.
LEMMA EndSettles ==
  ASSUME NEW s, Settled(s), s.q.parseState # "end", s.q.handler \in 0..Len(Handlers)
  PROVE  LET t == HandleRequest([s EXCEPT !.q.parseState = "end"])
         IN Settled(t) /\ t.luck = s.luck
<1> DEFINE e == [s EXCEPT !.q.parseState = "end"]
           t == HandleRequest(e)
<1>1. /\ {"q", "v", "luck"} \subseteq DOMAIN e /\ RequestFields \subseteq DOMAIN e.q
      /\ e.v = s.v /\ e.luck = s.luck /\ e.q.got = s.q.got /\ e.q.answers = s.q.answers
      /\ e.q.parseState = "end" /\ e.q.handler = s.q.handler /\ e.q.method = s.q.method
      /\ e.q.authorization = s.q.authorization /\ e.q.boundaryPosition = s.q.boundaryPosition
      /\ e.q.itemBuffer = s.q.itemBuffer
  BY DEF Settled, Shaped, RequestFields
<1> HIDE DEF e
<1>2. Shaped(e) /\ Buffered(e.q)
  BY <1>1 DEF Settled, Shaped, Buffered
<1>3. Ready(e)
  BY <1>1, <1>2 DEF Ready, Settled
<1>4. Refused(e.q) => Silent(e.q)
  <2>1. Refused(e.q) <=> Refused(s.q)
    BY <1>1, RefusedSame
  <2>2. Refused(s.q) => Silent(s.q)
    BY DEF Settled
  <2> QED BY <1>1, <2>1, <2>2 DEF Silent
<1>5. Did(e, t)
  BY <1>1, <1>3, RequestDoes
<1> HIDE DEF t
<1>6. Refused(t.q) <=> Refused(e.q)
  BY <1>5, RefusedSame DEF Did, SameRequest
<1>7. /\ t.q.handler = s.q.handler /\ t.q.parseState = "end" /\ t.luck = s.luck
      /\ t.v.gzipStats = s.v.gzipStats /\ Shaped(t) /\ Buffered(t.q) /\ NetInv(t.v.wifi) /\ Pages(t.v.wifi)
      /\ Refused(t.q) => Silent(t.q)
  BY <1>1, <1>2, <1>4, <1>5, <1>6 DEF Did, SameRequest
<1>8. Settled(t)
  <2>1. Len(s.luck.tries) \in Nat /\ s.v.gzipStats \in 0..255
    BY DEF Settled
  <2>2. t.q.handler # Nothing
    BY <1>7, NothingAssumption
  <2> QED BY <1>7, <2>1, <2>2 DEF Settled
<1> QED BY <1>7, <1>8 DEF t, e

\* A line, at its newline, and the whole of a head.
LEMMA LineSettles ==
  ASSUME NEW s, Settled(s), s.q.parseState \in {"start", "headers"}, NEW m
  PROVE  Settled(ParseLine(s, m)) /\ ParseLine(s, m).luck = s.luck
<1>1. Untold(s.q) /\ Reads(s, s)
  BY SettledReads DEF Settled
<1>2. CASE s.q.parseState = "start" /\ s.q.line = <<>>
  <2> DEFINE t == [s EXCEPT !.q.parseState = "fail"]
  <2>1. ParseLine(s, m) = t
    BY <1>2 DEF ParseLine
  <2>2. Alike(s, t) /\ t.q.parseState = "fail" /\ t.q.handler = s.q.handler
    BY <1>1 DEF Reads, Alike, RequestFields
  <2> HIDE DEF t
  <2>3. Settled(t) /\ t.luck = s.luck
    BY <1>1, <1>2, <2>2, AlikeSettles DEF Settled
  <2> QED BY <2>1, <2>3
<1>3. CASE s.q.parseState = "start" /\ s.q.line # <<>>
  <2> DEFINE t == [s EXCEPT !.q.parseState = "headers"]
             u == ParseReqHead(t, m)
  <2>1. ParseLine(s, m) = u
    BY <1>3 DEF ParseLine
  <2>2. Alike(s, t) /\ t.q.parseState = "headers" /\ t.q.handler = s.q.handler
    BY <1>1 DEF Reads, Alike, RequestFields
  <2> HIDE DEF t
  <2>3. Reads(t, t)
    BY <2>2 DEF Reads, Alike
  <2>4. Reads(t, u)
    BY <2>3, ParseReqHeadReads
  <2> HIDE DEF u
  <2>5. Alike(s, u) /\ u.q.parseState = "headers" /\ u.q.handler = s.q.handler
    BY <2>2, <2>4 DEF Reads, Alike
  <2>6. Settled(u) /\ u.luck = s.luck
    BY <1>1, <1>3, <2>5, AlikeSettles DEF Settled
  <2> QED BY <2>1, <2>6
<1>4. CASE s.q.parseState = "headers" /\ s.q.line # <<>>
  <2> DEFINE header == Lines(m)[s.q.line[1].line]
             u == ParseReqHeader(s, m, header)
  <2>1. ParseLine(s, m) = u
    BY <1>4 DEF ParseLine
  <2>2. Reads(s, u)
    BY <1>1, ParseReqHeaderReads
  <2> HIDE DEF u
  <2>3. Alike(s, u) /\ u.q.parseState = "headers" /\ u.q.handler = s.q.handler
    BY <1>4, <2>2 DEF Reads
  <2>4. s.q.handler \in 0..Len(Handlers) \cup {Nothing}
    BY DEF Settled
  <2>5. Settled(u) /\ u.luck = s.luck
    BY <1>1, <1>4, <2>3, <2>4, AlikeSettles
  <2> QED BY <2>1, <2>5
<1>5. CASE s.q.parseState = "headers" /\ s.q.line = <<>>
  <2> DEFINE a == RewriteRequest(s)
             b == AttachHandler(a)
             c == RemoveNotInteresting(b)
             d == IF c.q.expectingContinue THEN [c EXCEPT !.q.continues = @ + 1] ELSE c
             e == [d EXCEPT !.q.parseState = "body"]
             f == HandleRequest([d EXCEPT !.q.parseState = "end"])
             r == ParseLine(s, m)
  <2>1. r = c \/ r = e \/ r = f
    <3>1. r = ExpectBody(c)
      BY <1>5 DEF ParseLine, EndOfHeaders
    <3> HIDE DEF c
    <3>2. ExpectBody(c) = IF c.q.dead THEN c ELSE IF c.q.contentLength > 0 THEN e ELSE f
      BY Zenon DEF ExpectBody
    <3> HIDE DEF r, d, e, f
    <3>3. CASE c.q.dead
      BY <3>1, <3>2, <3>3
    <3>4. CASE ~c.q.dead /\ c.q.contentLength > 0
      BY <3>1, <3>2, <3>4
    <3>5. CASE ~c.q.dead /\ ~(c.q.contentLength > 0)
      BY <3>1, <3>2, <3>5
    <3> QED BY <3>3, <3>4, <3>5
  <2>2. Reads(s, a)
    BY <1>1, RewriteRequestReads
  <2> HIDE DEF a
  <2>3. Reads(a, a)
    BY <2>2 DEF Reads, Alike
  <2>4. Alike(a, b) /\ b.q.parseState = a.q.parseState /\ b.q.handler \in 0..Len(Handlers)
    BY <2>3, AttachHandlerReads
  <2> HIDE DEF b
  <2>5. Reads(b, b)
    BY <2>4 DEF Reads, Alike
  <2>6. Reads(b, c)
    BY <2>5, RemoveReads
  <2> HIDE DEF c
  <2>7. Alike(s, c) /\ c.q.parseState = "headers" /\ c.q.handler \in 0..Len(Handlers)
    BY <1>5, <2>2, <2>4, <2>6 DEF Reads, Alike
  <2>8. Alike(s, d) /\ d.q.parseState = "headers" /\ d.q.handler \in 0..Len(Handlers)
    BY <2>7 DEF Alike, RequestFields
  <2> HIDE DEF d
  <2>9. Alike(s, e) /\ e.q.parseState = "body" /\ e.q.handler \in 0..Len(Handlers)
    BY <2>8 DEF Alike, RequestFields
  <2> HIDE DEF e
  <2>10. Settled(c) /\ c.luck = s.luck /\ Settled(d) /\ d.luck = s.luck
    BY <1>1, <1>5, <2>7, <2>8, AlikeSettles
  <2>11. e.q.handler # Nothing
    BY <2>9, NothingAssumption
  <2>12. Settled(e) /\ e.luck = s.luck
    BY <1>1, <1>5, <2>9, <2>11, AlikeSettles
  <2>13. Settled(f) /\ f.luck = s.luck
    <3>1. Settled(f) /\ f.luck = d.luck
      BY <2>8, <2>10, EndSettles
    <3> QED BY <2>10, <3>1
  <2> HIDE DEF f, r
  <2>14. Settled(r) /\ r.luck = s.luck
    BY <2>1, <2>10, <2>12, <2>13
  <2> QED BY <2>14 DEF r
<1> QED BY <1>2, <1>3, <1>4, <1>5

\* A unit of a segment: lines are read one unit after the other.
LEMMA UnitSettles ==
  ASSUME NEW p, {"n", "s"} \subseteq DOMAIN p, Settled(p.s), NEW unit, NEW m
  PROVE  LET r == LineUnit(p, unit, m) IN
         /\ {"n", "s"} \subseteq DOMAIN r /\ Settled(r.s) /\ r.s.luck = p.s.luck
         /\ \/ r = p /\ (p.s.q.dead \/ p.s.q.parseState \notin {"start", "headers"})
            \/ r.n = p.n + 1
<1> DEFINE r == LineUnit(p, unit, m)
           l == [p.s EXCEPT !.q.line = Append(@, unit)]
           x == IF unit.c = LF THEN ParseLine(p.s, m) ELSE l
<1> SUFFICES /\ {"n", "s"} \subseteq DOMAIN r /\ Settled(r.s) /\ r.s.luck = p.s.luck
             /\ \/ r = p /\ (p.s.q.dead \/ p.s.q.parseState \notin {"start", "headers"})
                \/ r.n = p.n + 1
  OBVIOUS
<1> HIDE DEF r
<1>1. CASE p.s.q.dead \/ p.s.q.parseState \notin {"start", "headers"}
  BY <1>1 DEF r, LineUnit
<1>2. CASE ~p.s.q.dead /\ p.s.q.parseState \in {"start", "headers"}
  <2>1. r = [n |-> p.n + 1, s |-> x]
    BY <1>2 DEF r, LineUnit
  <2>2. Settled(l) /\ l.luck = p.s.luck
    <3>1. Untold(p.s.q) /\ Reads(p.s, p.s)
      BY <1>2, SettledReads DEF Settled
    <3>2. Reads(p.s, l)
      BY <3>1 DEF Reads, Alike, RequestFields
    <3> HIDE DEF l
    <3> QED BY <1>2, <3>1, <3>2, AlikeSettles DEF Settled, Reads
  <2> HIDE DEF l
  <2>3. Settled(x) /\ x.luck = p.s.luck
    BY <1>2, <2>2, LineSettles
  <2> HIDE DEF x
  <2> QED BY <2>1, <2>3
<1> QED BY <1>1, <1>2

\* g[i] is the request after i units.
AtStart(s) == [n |-> 0, s |-> s]
Units(g, n, s, m, buf) == g = [i \in 0..n |-> IF i = 0 THEN AtStart(s) ELSE LineUnit(g[i - 1], buf[i], m)]

\* The units of a segment are a recursion on their number: it exists.
LEMMA UnitsExist ==
  ASSUME NEW s, NEW m, NEW buf, NEW n \in Nat
  PROVE  \E g : Units(g, n, s, m, buf)
<1> DEFINE Bad == {k \in Nat : ~\E g : Units(g, k, s, m, buf)}
           base == AtStart(s)
<1> SUFFICES ASSUME Bad # {} PROVE FALSE
  OBVIOUS
<1>1. PICK k \in Bad : \A j \in Bad : k <= j
  BY Least
<1>2. CASE k = 0
  <2> DEFINE g == [i \in 0..0 |-> base]
  <2>1. Units(g, 0, s, m, buf)
    BY DEF Units
  <2> QED BY <1>2, <2>1
<1>3. CASE k # 0
  <2>1. k \in Nat /\ k - 1 \in Nat /\ k - 1 \notin Bad
    BY <1>1, <1>3
  <2>2. PICK h : Units(h, k - 1, s, m, buf)
    BY <2>1
  <2> DEFINE g == [i \in 0..k |-> IF i < k THEN h[i] ELSE LineUnit(h[k - 1], buf[k], m)]
  <2>3. Units(g, k, s, m, buf)
    <3>1. ASSUME NEW i \in 0..k PROVE g[i] = IF i = 0 THEN base ELSE LineUnit(g[i - 1], buf[i], m)
      <4> HIDE DEF base
      <4>1. CASE i = k
        BY <1>3, <2>1, <4>1
      <4>2. CASE i < k
        <5>1. h[i] = IF i = 0 THEN base ELSE LineUnit(h[i - 1], buf[i], m)
          BY <2>1, <2>2, <4>2 DEF Units, base
        <5> QED BY <2>1, <4>2, <5>1
      <4> QED BY <2>1, <4>1, <4>2
    <3> QED BY <3>1 DEF Units
  <2> QED BY <1>1, <2>3
<1> QED BY <1>2, <1>3

\* _onData: by the first unit that would not keep it, and then the rest as body.
LEMMA SegmentSettles ==
  ASSUME NEW s, Settled(s), NEW m, NEW buf, IsText(buf)
  PROVE  Settled(OnData(s, m, buf))
<1> DEFINE n == Len(buf)
           g == CHOOSE g : Units(g, n, s, m, buf)
           t == g[n].s
           rest == SubSeq(buf, g[n].n + 1, n)
           chars == [j \in DOMAIN rest |-> rest[j].c]
           r == OnData(s, m, buf)
           Fits(i) == /\ {"n", "s"} \subseteq DOMAIN g[i] /\ Settled(g[i].s) /\ g[i].n \in 0..i
                      /\ ~g[i].s.q.dead /\ g[i].s.q.parseState \in {"start", "headers"} => g[i].n = i
           Bad == {i \in Nat : i <= n /\ ~Fits(i)}
<1>1. n \in Nat
  BY TextLength
<1>2. Units(g, n, s, m, buf)
  BY <1>1, UnitsExist
<1>3. \/ r = t /\ (rest = <<>> \/ t.q.dead \/ t.q.parseState = "end")
      \/ r = Dies(t)
      \/ /\ rest # <<>> /\ ~t.q.dead /\ t.q.parseState \notin {"end", "fail"}
         /\ r = EndOfBody(Body(t, chars))
  <2> DEFINE x == Dies(t)
             y == EndOfBody(Body(t, chars))
  <2>1. r = IF rest = <<>> \/ t.q.dead \/ t.q.parseState = "end" THEN t
            ELSE IF t.q.parseState = "fail" THEN x ELSE y
    BY Zenon DEF OnData, Units, AtStart
  <2> HIDE DEF r, t, rest, x, y
  <2>2. CASE rest = <<>> \/ t.q.dead \/ t.q.parseState = "end"
    BY <2>1, <2>2
  <2>3. CASE ~(rest = <<>> \/ t.q.dead \/ t.q.parseState = "end") /\ t.q.parseState = "fail"
    <3>1. r = x
      BY <2>1, <2>3
    <3> QED BY <3>1 DEF x
  <2>4. CASE ~(rest = <<>> \/ t.q.dead \/ t.q.parseState = "end") /\ t.q.parseState # "fail"
    <3>1. r = y
      BY <2>1, <2>4
    <3> QED BY <3>1, <2>4 DEF y
  <2> QED BY <2>2, <2>3, <2>4
<1> HIDE DEF g
<1>4. CASE Bad # {}
  <2>1. PICK i \in Bad : \A j \in Bad : i <= j
    BY <1>4, Least
  <2>2. g[0] = [n |-> 0, s |-> s]
    BY <1>1, <1>2 DEF Units, AtStart
  <2>3. Fits(0)
    BY <2>2
  <2>4. i # 0 /\ i \in 1..n /\ i - 1 \in Nat /\ i - 1 <= n
    BY <1>1, <2>1, <2>3
  <2>5. Fits(i - 1)
    BY <2>1, <2>4
  <2> DEFINE p == g[i - 1]
             u == LineUnit(p, buf[i], m)
  <2>6. g[i] = u
    BY <1>1, <1>2, <2>4 DEF Units
  <2> HIDE DEF p
  <2>7. /\ {"n", "s"} \subseteq DOMAIN u /\ Settled(u.s)
        /\ \/ u = p /\ (p.s.q.dead \/ p.s.q.parseState \notin {"start", "headers"})
           \/ u.n = p.n + 1
    BY <2>5, UnitSettles DEF p
  <2> HIDE DEF u
  <2>8. p.n \in 0..(i - 1) /\ (~p.s.q.dead /\ p.s.q.parseState \in {"start", "headers"} => p.n = i - 1)
    BY <2>5 DEF p
  <2>9. u.n \in 0..i /\ (~u.s.q.dead /\ u.s.q.parseState \in {"start", "headers"} => u.n = i)
    <3>1. CASE u = p /\ (p.s.q.dead \/ p.s.q.parseState \notin {"start", "headers"})
      BY <2>4, <2>8, <3>1
    <3>2. CASE u.n = p.n + 1 /\ u # p
      <4>1. CASE p.s.q.dead \/ p.s.q.parseState \notin {"start", "headers"}
        BY <3>2, <4>1 DEF LineUnit, u
      <4>2. CASE ~p.s.q.dead /\ p.s.q.parseState \in {"start", "headers"}
        BY <2>4, <2>8, <3>2, <4>2
      <4> QED BY <4>1, <4>2
    <3>3. CASE u = p /\ ~(p.s.q.dead \/ p.s.q.parseState \notin {"start", "headers"})
      BY <2>4, <2>7, <2>8, <3>3
    <3> QED BY <2>7, <3>1, <3>2, <3>3
  <2>10. Fits(i)
    BY <2>6, <2>7, <2>9
  <2> QED BY <2>1, <2>10
<1>5. CASE Bad = {}
  <2>1. Fits(n)
    BY <1>1, <1>5
  <2>2. IsText(rest) /\ IsText(chars)
    <3>1. IsText(rest) /\ (g[n].n = n => rest = <<>>)
      BY <1>1, <2>1, TextPart, SubSeqEmpty
    <3> HIDE DEF rest
    <3>2. DOMAIN rest = 1..Len(rest) /\ Len(rest) \in Nat
      BY <3>1, TextLength
    <3>3. chars = [j \in 1..Len(rest) |-> chars[j]]
      BY <3>2
    <3> HIDE DEF chars
    <3> QED BY <3>1, <3>2, <3>3, FunctionText
  <2>3. g[n].n = n => rest = <<>>
    BY <1>1, SubSeqEmpty
  <2> HIDE DEF rest, chars
  <2>4. CASE r = t
    BY <2>1, <2>4
  <2>5. CASE r = Dies(t)
    <3> DEFINE d == Dies(t)
    <3>0. Settled(t)
      BY <2>1
    <3> HIDE DEF t
    <3>1. /\ {"q", "v", "luck"} \subseteq DOMAIN d /\ RequestFields \subseteq DOMAIN d.q
          /\ d.v = t.v /\ d.luck = t.luck /\ d.q.got = t.q.got /\ d.q.answers = t.q.answers
          /\ d.q.parseState = t.q.parseState /\ d.q.handler = t.q.handler /\ d.q.method = t.q.method
          /\ d.q.authorization = t.q.authorization /\ d.q.boundaryPosition = t.q.boundaryPosition
          /\ d.q.itemBuffer = t.q.itemBuffer
      BY <3>0 DEF Dies, Settled, Shaped, RequestFields
    <3> HIDE DEF d
    <3>2. Refused(d.q) <=> Refused(t.q)
      BY <3>1, RefusedSame
    <3>3. Shaped(d) /\ Buffered(d.q)
      BY <3>0, <3>1 DEF Settled, Shaped, Buffered
    <3>4. (Silent(t.q) => Silent(d.q)) /\ (Untold(t.q) => Untold(d.q))
      BY <3>1 DEF Silent, Untold
    <3>5. Settled(d)
      BY <3>0, <3>1, <3>2, <3>3, <3>4 DEF Settled
    <3> QED BY <2>5, <3>5 DEF d
  <2>6. CASE /\ rest # <<>> /\ ~t.q.dead /\ t.q.parseState \notin {"end", "fail"}
             /\ r = EndOfBody(Body(t, chars))
    <3> DEFINE b == Body(t, chars)
               e == HandleRequest([b EXCEPT !.q.parseState = "end"])
    <3>1. t.q.parseState = "body" /\ Settled(t) /\ Shaped(t)
      BY <2>1, <2>3, <2>6 DEF Settled
    <3> HIDE DEF t
    <3>2. Kept(t, b)
      BY <2>2, <3>1, BodyPhaseKeeps
    <3>3. r = b \/ r = e
      BY <2>6 DEF EndOfBody
    <3> HIDE DEF b, r
    <3>4. Settled(b) /\ b.q.parseState = "body"
      BY <3>1, <3>2, KeptSettles
    <3>5. b.q.handler \in 0..Len(Handlers)
      BY <3>4 DEF Settled
    <3>6. Settled(e)
      BY <3>4, <3>5, EndSettles
    <3> HIDE DEF e
    <3>7. Settled(r)
      BY <3>3, <3>4, <3>6
    <3> QED BY <3>7 DEF r
  <2> QED BY <1>3, <2>4, <2>5, <2>6
<1> QED BY <1>4, <1>5

-----------------------------------------------------------------------------
(* The connections *)

\* What outlives them.
DeviceInv(v) ==
  /\ {"wifi", "gzipStats"} \subseteq DOMAIN v /\ v.gzipStats \in 0..255
  /\ NetInv(v.wifi) /\ Pages(v.wifi)

\* The invariant of the system; what chance settles is for the handlers only.
NoLuck == [tries |-> <<>>, freed |-> "next"]
Inv ==
  /\ message \in DOMAIN Messages /\ arrived \in 0..Len(Wires[message]) /\ connections \in 0..Len(Turns)
  /\ DeviceInv(server)
  /\ request # Nothing => Settled([q |-> request, v |-> server, luck |-> NoLuck])

\* A device that starts opens the access point, and with it a port.
LEMMA BootFits ==
  ASSUME NEW files, NEW length
  PROVE  DeviceInv(Boot(files, length)) /\ Boot(files, length).wifi.listener # NoObject
<1> DEFINE luck == [freed |-> "next"]
           c == ClearVar(BeforeWiFi, luck)
           w == SetupAP(BeforeWiFi, luck)
           v == Boot(files, length)
<1>1. /\ NetFields \subseteq DOMAIN c /\ c.objects = 0 /\ c.routes = {} /\ c.stale = {} /\ c.listener = NoObject
  BY DEF ClearVar, BeforeWiFi, NetFields
<1>2. w = [WebServerBegin(CreateServer([c EXCEPT !.mode = "ap"])) EXCEPT !.isAP = TRUE]
  BY DEF SetupAP
<1> HIDE DEF c
<1>3. NetInv(w) /\ w.listener # NoObject
  <2>1. /\ c.objects \in Nat /\ c.routes \subseteq 1..c.objects /\ c.stale \subseteq 1..c.objects
        /\ c.listener \in 1..c.objects \cup {NoObject} /\ c.listener = NoObject
    BY <1>1
  <2>2. LET s == [WebServerBegin(CreateServer([c EXCEPT !.mode = "ap"])) EXCEPT !.isAP = TRUE]
        IN NetInv(s) /\ s.listener # NoObject
    BY <1>1, <2>1, SetupAPNet
  <2> QED BY <1>2, <2>2
<1>4. v.wifi = w /\ v.gzipStats = 248 /\ {"wifi", "gzipStats"} \subseteq DOMAIN v
  BY DEF Boot
<1> HIDE DEF w, v
<1>5. Pages(w)
  BY <1>3 DEF NetInv, Pages
<1> QED BY <1>3, <1>4, <1>5 DEF DeviceInv, v

\* What chance has settled is outside the invariant.
LEMMA LuckSettles ==
  ASSUME NEW s, Settled(s), NEW luck, Len(luck.tries) \in Nat
  PROVE  Settled([q |-> s.q, v |-> s.v, luck |-> luck])
<1> DEFINE t == [q |-> s.q, v |-> s.v, luck |-> luck]
<1>1. t.q = s.q /\ t.v = s.v /\ t.luck = luck /\ {"q", "v", "luck"} \subseteq DOMAIN t
  OBVIOUS
<1> HIDE DEF t
<1>2. Shaped(t)
  BY <1>1 DEF Settled, Shaped
<1>3. Settled(t)
  BY <1>1, <1>2 DEF Settled
<1> QED BY <1>3 DEF t

\* There is a first message.
LEMMA FirstMessage == 1 \in DOMAIN Messages
<1>1. Messages \in Seq(Message) /\ Messages # <<>>
  BY MessageAssumption, RequestAssumption
<1> QED BY <1>1, SeqText, EmptySeq, LenProperties

\* A message has a length on the wire.
LEMMA WireLength ==
  ASSUME NEW i \in DOMAIN Messages
  PROVE  Len(Wires[i]) \in Nat
BY WireIsText, TextLength

\* A new request, on a port that is open.
LEMMA NewSettles ==
  ASSUME NEW v, DeviceInv(v), v.wifi.listener # NoObject
  PROVE  Settled([q |-> NewRequest, v |-> v, luck |-> NoLuck])
<1> DEFINE t == [q |-> NewRequest, v |-> v, luck |-> NoLuck]
           n == NewRequest
<1>1. t.q = n /\ t.v = v /\ t.luck = NoLuck /\ {"q", "v", "luck"} \subseteq DOMAIN t
  OBVIOUS
<1>2. /\ RequestFields \subseteq DOMAIN n /\ n.parseState = "start" /\ n.handler = Nothing /\ n.itemBuffer = <<>>
      /\ n.answers = <<>> /\ n.got = NoCalls /\ n.boundaryPosition = 0
  BY DEF NewRequest, RequestFields
<1>3. {"request", "body", "file"} \subseteq DOMAIN NoCalls /\ NoCalls.body = <<>> /\ NoCalls.file = <<>>
  BY DEF NoCalls
<1> HIDE DEF t, n
<1>4. Shaped(t)
  BY <1>1, <1>2, <1>3, EmptySeq DEF Shaped, DeviceInv
<1>5. Buffered(n)
  BY <1>2, EmptyText, RequestAssumption DEF Buffered
<1>6. Untold(n) /\ Silent(n)
  BY <1>2, <1>3, UntoldSilent DEF Untold
<1>7. Len(NoLuck.tries) \in Nat
  BY EmptyText DEF NoLuck
<1>8. Settled(t)
  BY <1>1, <1>2, <1>4, <1>5, <1>6, <1>7 DEF Settled, DeviceInv
<1> QED BY <1>8 DEF t

\* The invariant holds at the start,
LEMMA InvInit == Init => Inv
<1> SUFFICES ASSUME Init PROVE Inv
  OBVIOUS
<1>1. message = 1 /\ arrived = 0 /\ request = Nothing /\ connections = 0
  BY DEF Init
<1>2. DeviceInv(server)
  <2>1. PICK length \in {0, MaxJson + 1} : server = Boot(InitialFiles, length)
    BY DEF Init
  <2> QED BY <2>1, BootFits
<1>3. message \in DOMAIN Messages /\ arrived \in 0..Len(Wires[message]) /\ connections \in 0..Len(Turns)
  <2>1. Len(Turns) \in Nat
    BY RequestAssumption, LenProperties
  <2> QED BY <1>1, <2>1, FirstMessage, WireLength
<1> QED BY <1>1, <1>2, <1>3 DEF Inv

\* when a browser connects,
LEMMA InvConnect == Inv /\ Connect => Inv'
<1> SUFFICES ASSUME Inv, Connect PROVE Inv'
  OBVIOUS
<1>1. connections' \in 0..Len(Turns) /\ message' \in DOMAIN Messages
  <2>1. Turns \in Seq(SUBSET DOMAIN Messages) /\ Len(Turns) \in Nat /\ DOMAIN Turns = 1..Len(Turns)
    BY RequestAssumption, LenProperties
  <2>2. connections + 1 \in DOMAIN Turns /\ connections' = connections + 1
    BY <2>1 DEF Connect, Inv
  <2>3. Turns[connections + 1] \subseteq DOMAIN Messages
    BY <2>1, <2>2, ElementOfSeq
  <2> QED BY <2>1, <2>2, <2>3 DEF Connect
<1>2. arrived' \in 0..Len(Wires[message'])
  BY <1>1, WireLength DEF Connect
<1>3. DeviceInv(server') /\ Settled([q |-> request', v |-> server', luck |-> NoLuck])
  BY NewSettles DEF Connect, Inv
<1> QED BY <1>1, <1>2, <1>3 DEF Inv

\* (chance settles finitely many attempts)
LEMMA LuckTries ==
  ASSUME NEW m, NEW luck \in Luck(m)
  PROVE  Len(luck.tries) \in Nat
<1>1. luck.tries \in Tries \cup {<<>>}
  BY DEF Luck
<1>2. CASE luck.tries = <<>>
  BY <1>2, EmptyText
<1>3. CASE luck.tries \in Tries
  <2>1. PICK failures \in 0..MaxTries + 1 : luck.tries = [i \in 1..MaxTries + 1 |-> i > failures]
    BY <1>3 DEF Tries
  <2> DEFINE n == MaxTries + 1
             f == luck.tries
  <2>2. n \in Nat /\ f = [i \in 1..n |-> f[i]]
    BY <2>1, RequestAssumption
  <2> HIDE DEF n, f
  <2>3. Len(f) = n
    BY <2>2, FunctionText
  <2> QED BY <2>2, <2>3 DEF f
<1> QED BY <1>1, <1>2, <1>3

\* when a segment arrives,
LEMMA InvReceive ==
  ASSUME NEW n \in 1..Len(Wires[message]), Inv, Receive(n)
  PROVE  Inv'
<1> DEFINE m == Messages[message]
           w == Wires[message]
           buf == SubSeq(w, arrived + 1, arrived + n)
           Reading(luck) == [q |-> request, v |-> server, luck |-> luck]
<1>1. /\ request # Nothing /\ message' = message /\ connections' = connections
      /\ arrived + n <= Len(w) /\ arrived' = arrived + n
  BY DEF Receive
<1>2. IsText(w) /\ Len(w) \in Nat /\ arrived \in 0..Len(w) /\ n \in 1..Len(w)
  BY WireIsText, WireLength DEF Inv
<1>3. PICK luck \in Luck(m) :
        request' = OnData(Reading(luck), m, buf).q /\ server' = OnData(Reading(luck), m, buf).v
  BY DEF Receive
<1> HIDE DEF m, w
<1>4. IsText(buf)
  BY <1>1, <1>2, TextPart
<1>5. Settled(Reading(luck))
  <2>1. Settled([q |-> request, v |-> server, luck |-> NoLuck])
    BY <1>1 DEF Inv
  <2> DEFINE s == [q |-> request, v |-> server, luck |-> NoLuck]
  <2>2. s.q = request /\ s.v = server
    OBVIOUS
  <2>3. Len(luck.tries) \in Nat
    BY <1>3, LuckTries
  <2> HIDE DEF s
  <2>4. Settled([q |-> s.q, v |-> s.v, luck |-> luck])
    BY <2>1, <2>3, LuckSettles DEF s
  <2> QED BY <2>2, <2>4
<1> DEFINE t == OnData(Reading(luck), m, buf)
<1> HIDE DEF Reading, buf
<1>6. Settled(t)
  BY <1>4, <1>5, SegmentSettles
<1>7. request' = t.q /\ server' = t.v
  BY <1>3
<1> HIDE DEF t
<1>8. Settled([q |-> request', v |-> server', luck |-> NoLuck])
  <2>1. Len(NoLuck.tries) \in Nat
    BY EmptyText DEF NoLuck
  <2>2. Settled([q |-> t.q, v |-> t.v, luck |-> NoLuck])
    BY <1>6, <2>1, LuckSettles
  <2> QED BY <1>7, <2>2
<1>9. DeviceInv(server')
  BY <1>6, <1>7 DEF Settled, Shaped, DeviceInv
<1>10. arrived' \in 0..Len(Wires[message'])
  BY <1>1, <1>2 DEF w
<1> QED BY <1>1, <1>8, <1>9, <1>10 DEF Inv

\* when the connection ends,
LEMMA InvGone == Inv /\ Gone => Inv'
<1> SUFFICES ASSUME Inv, Gone PROVE Inv'
  OBVIOUS
<1>1. message' \in DOMAIN Messages /\ arrived' \in 0..Len(Wires[message'])
  BY FirstMessage, WireLength DEF Gone
<1> QED BY <1>1 DEF Inv, Gone

\* when a response is through,
LEMMA InvAcked == Inv /\ Acked => Inv'
<1> SUFFICES ASSUME Inv, Acked PROVE Inv'
  OBVIOUS
<1>1. CASE Gone
  BY <1>1, InvGone
<1>2. CASE request' = [request EXCEPT !.response = Nothing] /\ UNCHANGED <<message, arrived, server, connections>>
  <2> DEFINE s == [q |-> request, v |-> server, luck |-> NoLuck]
             t == [q |-> request', v |-> server', luck |-> NoLuck]
             q == s.q
             d == t.q
  <2>1. Settled(s)
    BY DEF Acked, Inv
  <2>2. RequestFields \subseteq DOMAIN q
    BY <2>1 DEF Settled, Shaped
  <2>3. /\ RequestFields \subseteq DOMAIN d /\ d.got = q.got /\ d.answers = q.answers
        /\ d.parseState = q.parseState /\ d.handler = q.handler /\ d.method = q.method
        /\ d.authorization = q.authorization /\ d.boundaryPosition = q.boundaryPosition
        /\ d.itemBuffer = q.itemBuffer
    BY <1>2, <2>2 DEF RequestFields
  <2>4. t.v = s.v /\ t.luck = s.luck /\ {"q", "v", "luck"} \subseteq DOMAIN t
    BY <1>2
  <2> HIDE DEF s, t
  <2>5. Refused(d) <=> Refused(q)
    BY <2>3, RefusedSame
  <2>6. Shaped(t) /\ Buffered(d)
    BY <2>1, <2>3, <2>4 DEF Settled, Shaped, Buffered
  <2>7. (Silent(q) => Silent(d)) /\ (Untold(q) => Untold(d))
    BY <2>3 DEF Silent, Untold
  <2>8. Settled(t)
    BY <2>1, <2>3, <2>4, <2>5, <2>6, <2>7 DEF Settled
  <2> QED BY <1>2, <2>8 DEF Inv, t
<1> QED BY <1>1, <1>2 DEF Acked

\* when the device starts again,
LEMMA InvRestart == Inv /\ Restart => Inv'
<1> SUFFICES ASSUME Inv, Restart PROVE Inv'
  OBVIOUS
<1>1. message' \in DOMAIN Messages /\ arrived' \in 0..Len(Wires[message'])
  BY FirstMessage, WireLength DEF Restart
<1>2. DeviceInv(server')
  <2>1. PICK length \in {0, MaxJson + 1} : server' = Boot(server.files, length)
    BY DEF Restart
  <2> QED BY <2>1, BootFits
<1> QED BY <1>1, <1>2 DEF Inv, Restart

\* and so at every step.
LEMMA InvNext == Inv /\ [Next]_vars => Inv'
<1> SUFFICES ASSUME Inv, [Next]_vars PROVE Inv'
  OBVIOUS
<1>1. CASE Connect
  BY <1>1, InvConnect
<1>2. ASSUME NEW n \in 1..Len(Wires[message]), Receive(n) PROVE Inv'
  BY <1>2, InvReceive
<1>3. CASE Closed \/ Disconnect \/ Timeout
  BY <1>3, InvGone DEF Closed, Disconnect, Timeout
<1>4. CASE Acked
  BY <1>4, InvAcked
<1>5. CASE Restart
  BY <1>5, InvRestart
<1>6. CASE UNCHANGED vars
  BY <1>6 DEF vars, Inv
<1> QED BY <1>1, <1>2, <1>3, <1>4, <1>5, <1>6 DEF Next

\* It holds for ever.
LEMMA Invariant == Spec => []Inv
<1>1. Init => Inv
  BY InvInit
<1>2. Inv /\ [Next]_vars => Inv'
  BY InvNext
<1> QED BY <1>1, <1>2, PTL DEF Spec

-----------------------------------------------------------------------------
(* Digests *)

\* A digest's parts, in the order the browser sends them.
WholeParts(m) ==
  <<[name |-> "username", value |-> <<m.auth.user>>], [name |-> "realm", value |-> <<"realm">>],
    [name |-> "nonce", value |-> <<"nonce">>], [name |-> "uri", value |-> <<"uri">>],
    [name |-> "qop", value |-> <<"auth">>], [name |-> "nc", value |-> <<"1">>],
    [name |-> "cnonce", value |-> <<"cnonce">>], [name |-> "response", value |-> MD5Response(m)]>>

\* Four parts and four more, with nothing between them.
LEMMA FourAndFour ==
  ASSUME NEW p1, NEW p2, NEW p3, NEW p4, NEW q1, NEW q2, NEW q3, NEW q4
  PROVE  <<p1, p2, p3, p4>> \o <<>> \o <<q1, q2, q3, q4>> = <<p1, p2, p3, p4, q1, q2, q3, q4>>
<1> DEFINE S == {p1, p2, p3, p4, q1, q2, q3, q4}
           a == <<p1, p2, p3, p4>>
           b == <<q1, q2, q3, q4>>
           c == <<p1, p2, p3, p4, q1, q2, q3, q4>>
<1>1. a \in Seq(S) /\ Len(a) = 4 /\ a[1] = p1 /\ a[2] = p2 /\ a[3] = p3 /\ a[4] = p4
  OBVIOUS
<1>2. b \in Seq(S) /\ Len(b) = 4 /\ b[1] = q1 /\ b[2] = q2 /\ b[3] = q3 /\ b[4] = q4
  OBVIOUS
<1>3. /\ c \in Seq(S) /\ Len(c) = 8 /\ c[1] = p1 /\ c[2] = p2 /\ c[3] = p3 /\ c[4] = p4
      /\ c[5] = q1 /\ c[6] = q2 /\ c[7] = q3 /\ c[8] = q4
  OBVIOUS
<1> HIDE DEF a, b, c, S
<1>4. a \o <<>> = a
  BY <1>1, ConcatEmptySeq
<1>8. /\ a \o b \in Seq(S) /\ Len(a \o b) = Len(a) + Len(b)
      /\ \A i \in 1..Len(a) + Len(b) : (a \o b)[i] = IF i <= Len(a) THEN a[i] ELSE b[i - Len(a)]
  <2>1. a \in Seq(S) /\ b \in Seq(S)
    BY <1>1, <1>2
  <2> QED BY <2>1, ConcatProperties
<1>5. a \o b \in Seq(S) /\ Len(a \o b) = 8 /\ \A i \in 1..8 : (a \o b)[i] = IF i <= 4 THEN a[i] ELSE b[i - 4]
  <2>1. Len(a) = 4 /\ Len(b) = 4
    BY <1>1, <1>2
  <2> QED BY <2>1, <1>8
<1>6. \A i \in 1..8 : (a \o b)[i] = c[i]
  <2> TAKE i \in 1..8
  <2>1. i \in {1, 2, 3, 4, 5, 6, 7, 8}
    OBVIOUS
  <2> QED BY <2>1, <1>1, <1>2, <1>3, <1>5
<1>7. a \o b = c
  BY <1>3, <1>5, <1>6, SeqEqual
<1> QED BY <1>4, <1>7 DEF a, b, c

\* And with one between them: where it and those before it are.
LEMMA FourOneFour ==
  ASSUME NEW p1, NEW p2, NEW p3, NEW p4, NEW c, NEW q1, NEW q2, NEW q3, NEW q4
  PROVE  LET s == <<p1, p2, p3, p4>> \o <<c>> \o <<q1, q2, q3, q4>>
         IN Len(s) = 9 /\ DOMAIN s = 1..9 /\ s[2] = p2 /\ s[3] = p3 /\ s[4] = p4 /\ s[5] = c
<1> DEFINE S == {p1, p2, p3, p4, c, q1, q2, q3, q4}
           a == <<p1, p2, p3, p4>>
           d == <<c>>
           b == <<q1, q2, q3, q4>>
<1>1. a \in Seq(S) /\ Len(a) = 4 /\ a[2] = p2 /\ a[3] = p3 /\ a[4] = p4
  OBVIOUS
<1>2. d \in Seq(S) /\ Len(d) = 1 /\ d[1] = c
  OBVIOUS
<1>3. b \in Seq(S) /\ Len(b) = 4
  OBVIOUS
<1> HIDE DEF a, b, d, S
<1>8. /\ a \o d \in Seq(S) /\ Len(a \o d) = Len(a) + Len(d)
      /\ \A i \in 1..Len(a) + Len(d) : (a \o d)[i] = IF i <= Len(a) THEN a[i] ELSE d[i - Len(a)]
  <2>1. a \in Seq(S) /\ d \in Seq(S)
    BY <1>1, <1>2
  <2> QED BY <2>1, ConcatProperties
<1>4. a \o d \in Seq(S) /\ Len(a \o d) = 5 /\ \A i \in 1..5 : (a \o d)[i] = IF i <= 4 THEN a[i] ELSE d[i - 4]
  <2>1. Len(a) = 4 /\ Len(d) = 1
    BY <1>1, <1>2
  <2> QED BY <2>1, <1>8
<1> DEFINE e == a \o d
           s == e \o b
<1> HIDE DEF e
<1>9. /\ s \in Seq(S) /\ Len(s) = Len(e) + Len(b)
      /\ \A i \in 1..Len(e) + Len(b) : s[i] = IF i <= Len(e) THEN e[i] ELSE b[i - Len(e)]
  <2>1. e \in Seq(S) /\ b \in Seq(S)
    BY <1>3, <1>4 DEF e
  <2> QED BY <2>1, ConcatProperties
<1>5. s \in Seq(S) /\ Len(s) = 9 /\ \A i \in 1..9 : s[i] = IF i <= 5 THEN (a \o d)[i] ELSE b[i - 5]
  <2>1. Len(e) = 5 /\ Len(b) = 4
    BY <1>3, <1>4 DEF e
  <2> QED BY <2>1, <1>9 DEF e
<1>6. DOMAIN s = 1..9
  BY <1>5, LenProperties
<1>7. s[2] = p2 /\ s[3] = p3 /\ s[4] = p4 /\ s[5] = c
  <2>1. s[2] = (a \o d)[2] /\ s[3] = (a \o d)[3] /\ s[4] = (a \o d)[4] /\ s[5] = (a \o d)[5]
    <3> HIDE DEF s
    <3>1. \A i \in 1..9 : i <= 5 => s[i] = (a \o d)[i]
      BY <1>5
    <3>2. 2 \in 1..9 /\ 3 \in 1..9 /\ 4 \in 1..9 /\ 5 \in 1..9 /\ 2 <= 5 /\ 3 <= 5 /\ 4 <= 5 /\ 5 <= 5
      OBVIOUS
    <3> QED BY <3>1, <3>2, Zenon
  <2>2. (a \o d)[2] = a[2] /\ (a \o d)[3] = a[3] /\ (a \o d)[4] = a[4] /\ (a \o d)[5] = d[1]
    BY <1>4
  <2> QED BY <1>1, <1>2, <2>1, <2>2
<1> QED BY <1>5, <1>6, <1>7 DEF a, b, d, e

\* Without a comma a digest has its eight parts.
LEMMA PartsWhole ==
  ASSUME NEW m, m.auth.scheme = "digest", "parts" \in DOMAIN m.auth, ~m.comma
  PROVE  AuthorizationOf(m).parts = WholeParts(m)
<1> DEFINE R == MD5Response(m)
           p1 == [name |-> "username", value |-> <<m.auth.user>>]
           p2 == [name |-> "realm", value |-> <<"realm">>]
           p3 == [name |-> "nonce", value |-> <<"nonce">>]
           p4 == [name |-> "uri", value |-> <<"uri">>]
           q1 == [name |-> "qop", value |-> <<"auth">>]
           q2 == [name |-> "nc", value |-> <<"1">>]
           q3 == [name |-> "cnonce", value |-> <<"cnonce">>]
           q4 == [name |-> "response", value |-> R]
<1> HIDE DEF R
<1>1. AuthorizationOf(m).parts = <<p1, p2, p3, p4>> \o <<>> \o <<q1, q2, q3, q4>>
  BY DEF AuthorizationOf, R
<1>2. WholeParts(m) = <<p1, p2, p3, p4, q1, q2, q3, q4>>
  BY DEF WholeParts, R
<1> HIDE DEF p1, p2, p3, p4, q1, q2, q3, q4
<1> QED BY <1>1, <1>2, FourAndFour

\* With a comma the fifth part has no name.
LEMMA PartsCut ==
  ASSUME NEW m, m.auth.scheme = "digest", "parts" \in DOMAIN m.auth, m.comma
  PROVE  LET p == AuthorizationOf(m).parts
         IN Len(p) = 9 /\ DOMAIN p = 1..9 /\ p[5].name = "" /\ \A j \in 2..5 : p[j].name # ","
<1> DEFINE R == MD5Response(m)
           p1 == [name |-> "username", value |-> <<m.auth.user>>]
           p2 == [name |-> "realm", value |-> <<"realm">>]
           p3 == [name |-> "nonce", value |-> <<"nonce">>]
           p4 == [name |-> "uri", value |-> <<"uri">>]
           c == [name |-> "", value |-> <<>>]
           q1 == [name |-> "qop", value |-> <<"auth">>]
           q2 == [name |-> "nc", value |-> <<"1">>]
           q3 == [name |-> "cnonce", value |-> <<"cnonce">>]
           q4 == [name |-> "response", value |-> R]
           p == AuthorizationOf(m).parts
<1> HIDE DEF R
<1>1. p = <<p1, p2, p3, p4>> \o <<c>> \o <<q1, q2, q3, q4>>
  BY DEF AuthorizationOf, R
<1>2. p2.name = "realm" /\ p3.name = "nonce" /\ p4.name = "uri" /\ c.name = ""
  OBVIOUS
<1> HIDE DEF p1, p2, p3, p4, c, q1, q2, q3, q4, p
<1>3. Len(p) = 9 /\ DOMAIN p = 1..9 /\ p[2] = p2 /\ p[3] = p3 /\ p[4] = p4 /\ p[5] = c
  BY <1>1, FourOneFour
<1>4. \A j \in 2..5 : j \in {2, 3, 4, 5}
  OBVIOUS
<1>5. \A j \in 2..5 : p[j].name # ","
  BY <1>2, <1>3, <1>4
<1> QED BY <1>2, <1>3, <1>5 DEF p

\* Places before the last.
LEMMA PlacesBefore == \A i \in 1..8 : \A j \in 2..i : j \in 1..8
OBVIOUS

\* The last of one.
LEMMA LastOfOne == \A i \in 1..8 : (CHOOSE k \in {i} : \A j \in {i} : j <= k) = i
<1> TAKE i \in 1..8
<1>1. i <= i
  OBVIOUS
<1> QED BY <1>1

\* What Value finds in a digest that was not cut: each name is there once.
LEMMA ValueOnce ==
  ASSUME NEW p, NEW i \in 1..8, DOMAIN p = 1..8, \A j \in 1..8 : p[j].name # ",",
         \A j \in 1..8 : p[j].name = p[i].name => j = i
  PROVE  Named(p, p[i].name) = {i} /\ Value(p, p[i].name) = p[i].value
<1> DEFINE n == p[i].name
<1>1. \A k \in 1..8 : Read(p, k)
  BY PlacesBefore DEF Read
<1> HIDE DEF n
<1>2. \A j \in 1..8 : p[j].name = n <=> j = i
  BY DEF n
<1>3. Named(p, n) = {i}
  BY <1>1, <1>2 DEF Named
<1>5. (CHOOSE k \in {i} : \A j \in {i} : j <= k) = i
  BY LastOfOne
<1>6. Value(p, n) = p[i].value
  BY <1>3, <1>5 DEF Value
<1> QED BY <1>3, <1>6 DEF n

\* The values found in a digest that was not cut.
LEMMA ValuesWhole ==
  ASSUME NEW m
  PROVE  LET p == WholeParts(m) IN
         /\ Len(p) = 8 /\ DOMAIN p = 1..8 /\ \A i \in 1..8 : p[i].name \notin {"", ","}
         /\ Value(p, "username") = <<m.auth.user>> /\ Named(p, "username") = {1} /\ p[1].value = <<m.auth.user>>
         /\ Value(p, "realm") = <<"realm">> /\ Named(p, "realm") = {2} /\ p[2].value = <<"realm">>
         /\ Value(p, "nonce") = <<"nonce">> /\ Value(p, "uri") = <<"uri">> /\ Value(p, "qop") = <<"auth">>
         /\ Value(p, "nc") = <<"1">> /\ Value(p, "cnonce") = <<"cnonce">> /\ Value(p, "response") = MD5Response(m)
<1> DEFINE p == WholeParts(m)
           R == MD5Response(m)
<1> HIDE DEF R
<1>1. /\ p[1].name = "username" /\ p[2].name = "realm" /\ p[3].name = "nonce" /\ p[4].name = "uri"
      /\ p[5].name = "qop" /\ p[6].name = "nc" /\ p[7].name = "cnonce" /\ p[8].name = "response"
  BY DEF WholeParts, R
<1>2. /\ p[1].value = <<m.auth.user>> /\ p[2].value = <<"realm">> /\ p[3].value = <<"nonce">> /\ p[4].value = <<"uri">>
      /\ p[5].value = <<"auth">> /\ p[6].value = <<"1">> /\ p[7].value = <<"cnonce">> /\ p[8].value = R
  BY DEF WholeParts, R
<1>3. Len(p) = 8 /\ DOMAIN p = 1..8
  BY DEF WholeParts
<1> HIDE DEF p
<1>0. \A i \in 1..8 : i \in {1, 2, 3, 4, 5, 6, 7, 8}
  OBVIOUS
<1>4. \A i \in 1..8 : p[i].name \notin {"", ","}
  <2> TAKE i \in 1..8
  <2> QED BY <1>0, <1>1
<1>5. \A i, j \in 1..8 : p[j].name = p[i].name => j = i
  BY <1>0, <1>1
<1>6. \A i \in 1..8 : Named(p, p[i].name) = {i} /\ Value(p, p[i].name) = p[i].value
  BY <1>3, <1>4, <1>5, ValueOnce
<1>7. 1 \in 1..8 /\ 2 \in 1..8 /\ 3 \in 1..8 /\ 4 \in 1..8 /\ 5 \in 1..8 /\ 6 \in 1..8 /\ 7 \in 1..8 /\ 8 \in 1..8
  OBVIOUS
<1>8. /\ Value(p, "username") = <<m.auth.user>> /\ Named(p, "username") = {1}
      /\ Value(p, "realm") = <<"realm">> /\ Named(p, "realm") = {2}
  BY <1>1, <1>2, <1>6, <1>7
<1>9. /\ Value(p, "nonce") = <<"nonce">> /\ Value(p, "uri") = <<"uri">> /\ Value(p, "qop") = <<"auth">>
      /\ Value(p, "nc") = <<"1">> /\ Value(p, "cnonce") = <<"cnonce">> /\ Value(p, "response") = R
  BY <1>1, <1>2, <1>6, <1>7
<1> QED BY <1>2, <1>3, <1>4, <1>8, <1>9 DEF p, R

\* The terms that stand for MD5 sums differ where what was summed differs.
LEMMA SumsDiffer == ASSUME NEW x, NEW y PROVE MD5(x) = MD5(y) <=> x = y
BY DEF MD5

\* The response of the browser is the one the code computes from ha1.
LEMMA ResponseFrom ==
  ASSUME NEW m, NEW ha1
  PROVE  MD5Response(m) = ResponseTo(WholeParts(m), m.method, ha1)
           <=> MD5(<<<<m.auth.user>>, <<"realm">>, m.auth.password>>) = ha1
<1> DEFINE h == MD5(<<<<m.auth.user>>, <<"realm">>, m.auth.password>>)
           g == MD5(<<m.method, <<"uri">>>>)
<1> HIDE DEF h, g
<1>1. MD5Response(m) = MD5(<<h, <<"nonce">>, <<"1">>, <<"cnonce">>, <<"auth">>, g>>)
  BY DEF MD5Response, h, g
<1>2. ResponseTo(WholeParts(m), m.method, ha1) = MD5(<<ha1, <<"nonce">>, <<"1">>, <<"cnonce">>, <<"auth">>, g>>)
  BY ValuesWhole DEF ResponseTo, g
<1>3. <<h, <<"nonce">>, <<"1">>, <<"cnonce">>, <<"auth">>, g>> = <<ha1, <<"nonce">>, <<"1">>, <<"cnonce">>, <<"auth">>, g>>
        <=> h = ha1
  OBVIOUS
<1>4. MD5Response(m) = ResponseTo(WholeParts(m), m.method, ha1) <=> h = ha1
  BY <1>1, <1>2, <1>3, SumsDiffer
<1> QED BY <1>4 DEF h

-----------------------------------------------------------------------------
(* Theorems *)

\* Whatever is sent, cut and lost, the request is in a state its parser knows, on a
\* handler once its head is read, the buffer of an uploaded file has room for the
\* next byte, and the access point has a server.
THEOREM TypeCorrect == Spec => []TypeOK
<1>1. Inv => TypeOK
  <2> SUFFICES ASSUME Inv PROVE TypeOK
    OBVIOUS
  <2>1. /\ message \in DOMAIN Messages /\ arrived \in 0..Len(Wires[message]) /\ connections \in 0..Len(Turns)
        /\ server.gzipStats \in 0..255
    BY DEF Inv, DeviceInv
  <2>2. server.wifi.object \in 1..server.wifi.objects \cup IF server.wifi.isAP THEN {} ELSE {NoObject}
    BY DEF Inv, DeviceInv, NetInv
  <2>3. ASSUME Handling
        PROVE  /\ request.handler \in 0..Len(Handlers) \cup {Nothing}
               /\ request.parseState \in {"body", "end"} => request.handler # Nothing
               /\ Len(request.itemBuffer) < UploadMax
    BY <2>3 DEF Handling, Inv, Settled, Buffered
  <2> QED BY <2>1, <2>2, <2>3 DEF TypeOK
<1> QED BY <1>1, Invariant, PTL

\* However the network is switched, the device shows its pages, until a switch fails
\* that was begun in a station.
THEOREM PagesAreServed == Spec => []PagesServed
<1>1. Inv => PagesServed
  BY DEF Inv, DeviceInv, Pages, PagesServed
<1> QED BY <1>1, Invariant, PTL

\* A sketch's function is told neither the body nor the files of a request that its
\* password does not let through, at any time, and the browser nothing but 401.
THEOREM RefusedAreUnseen == Spec => []RefusedUnseen
<1>1. Inv => RefusedUnseen
  BY DEF Inv, Settled, RefusedUnseen, Handling, Serving, Refused, Silent
<1> QED BY <1>1, Invariant, PTL

\* A digest is let through exactly where it is of the user and the password asked for
\* and no comma cuts it; by a handler's password, and by the hash the sketch keeps.
THEOREM DigestsDecide ==
  ASSUME NEW m \in Message, m.auth.scheme = "digest", NEW user, NEW password
  PROVE  LET right == m.auth.user = user /\ m.auth.password = password /\ ~m.comma
             hash == GenerateDigestHash(user, <<"realm">>, password)
         IN /\ CheckPassword(AuthorizationOf(m), m.method, user, password) <=> right
            /\ CheckHash(AuthorizationOf(m), m.method, hash) <=> right
<1> DEFINE right == m.auth.user = user /\ m.auth.password = password /\ ~m.comma
           hash == GenerateDigestHash(user, <<"realm">>, password)
           a == AuthorizationOf(m)
<1>0. "parts" \in DOMAIN m.auth
  BY DEF Message
<1>1. CASE m.comma
  <2> DEFINE p == a.parts
  <2>0. DOMAIN p = 1..9 /\ p[5].name = "" /\ \A j \in 2..5 : p[j].name # ","
    BY <1>0, <1>1, PartsCut
  <2> HIDE DEF p
  <2>1. 5 \in DOMAIN p /\ Read(p, 5) /\ p[5].name = ""
    <3>1. Read(p, 5)
      BY <2>0 DEF Read
    <3>2. DOMAIN p = 1..9
      BY <2>0, Zenon
    <3>3. 5 \in DOMAIN p
      BY <3>2
    <3> QED BY <2>0, <3>1, <3>3, Zenon
  <2>2. ~(\A i \in DOMAIN p : Read(p, i) => p[i].name \notin {"", ","})
    BY <2>1
  <2> QED BY <1>1, <2>2 DEF CheckPassword, CheckHash, CheckDigest, p
<1>2. CASE ~m.comma
  <2> DEFINE p == WholeParts(m)
             ha1 == HashOf(<<user>>, <<"realm">>, password)
  <2>1. a.parts = p
    BY <1>0, <1>2, PartsWhole
  <2>2. /\ Len(p) > 1 /\ \A i \in DOMAIN p : p[i].name \notin {"", ","}
        /\ DOMAIN p = 1..8 /\ Named(p, "username") = {1} /\ p[1].value = <<m.auth.user>> /\ Value(p, "username") = <<m.auth.user>>
        /\ Named(p, "realm") = {2} /\ p[2].value = <<"realm">> /\ Value(p, "realm") = <<"realm">>
        /\ Value(p, "response") = MD5Response(m)
    <3>1. /\ Len(p) = 8 /\ DOMAIN p = 1..8 /\ \A i \in 1..8 : p[i].name \notin {"", ","}
          /\ Named(p, "username") = {1} /\ p[1].value = <<m.auth.user>> /\ Value(p, "username") = <<m.auth.user>>
          /\ Named(p, "realm") = {2} /\ p[2].value = <<"realm">> /\ Value(p, "realm") = <<"realm">>
          /\ Value(p, "response") = MD5Response(m)
      BY ValuesWhole
    <3> HIDE DEF p
    <3>2. Len(p) = 8
      BY <3>1, Zenon
    <3>3. Len(p) > 1
      BY <3>2
    <3> QED BY <3>1, <3>3, Zenon
  <2> HIDE DEF p
  <2>3. ASSUME NEW realms, realms = {} \/ realms = {<<"realm">>}, NEW h, NEW u
        PROVE  CheckDigest(a, m.method, u, realms, h)
                 <=> <<m.auth.user>> = <<u>> /\ MD5(<<<<m.auth.user>>, <<"realm">>, m.auth.password>>) = h
    <3>1. Value(p, "response") = ResponseTo(p, m.method, h)
            <=> MD5(<<<<m.auth.user>>, <<"realm">>, m.auth.password>>) = h
      BY <2>2, ResponseFrom DEF p
    <3> QED BY <2>1, <2>2, <2>3, <3>1 DEF CheckDigest
  <2>4. <<m.auth.user>> = <<user>> <=> m.auth.user = user
    OBVIOUS
  <2>5. \A x, y : MD5(<<<<x>>, <<"realm">>, m.auth.password>>) = HashOf(<<y>>, <<"realm">>, password)
          <=> x = y /\ m.auth.password = password
    <3> TAKE x, y
    <3>1. <<<<x>>, <<"realm">>, m.auth.password>> = <<<<y>>, <<"realm">>, password>>
            <=> x = y /\ m.auth.password = password
      OBVIOUS
    <3> QED BY <3>1, SumsDiffer DEF HashOf
  <2>6. CheckPassword(a, m.method, user, password) <=> right
    <3>1. CheckPassword(a, m.method, user, password)
            <=> CheckDigest(a, m.method, user, {}, HashOf(<<m.auth.user>>, <<"realm">>, password))
      BY <2>1, <2>2 DEF CheckPassword
    <3>2. CheckPassword(a, m.method, user, password)
            <=> <<m.auth.user>> = <<user>>
                /\ MD5(<<<<m.auth.user>>, <<"realm">>, m.auth.password>>) = HashOf(<<m.auth.user>>, <<"realm">>, password)
      BY <3>1, <2>3
    <3> HIDE DEF a
    <3> QED BY <1>2, <2>4, <2>5, <3>2
  <2>7. hash.user = user /\ hash.realm = <<"realm">> /\ hash.ha1 = ha1
    BY DEF GenerateDigestHash
  <2>8. CheckHash(a, m.method, hash) <=> right
    BY <1>2, <2>3, <2>4, <2>5, <2>7 DEF CheckHash
  <2> QED BY <2>6, <2>8
<1> QED BY <1>1, <1>2
=============================================================================
