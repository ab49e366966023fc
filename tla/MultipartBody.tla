----------------------------- MODULE MultipartBody -----------------------------
(***************************************************************************)
(* The bodies of a request: the parser of multipart/form-data, byte by     *)
(* byte, that of plain forms, and the choice between them.  A byte is a    *)
(* character, the text of a part's header line one character too.          *)
(***************************************************************************)
EXTENDS WebHandlers

CONSTANTS Boundary,     \* _boundary
          UploadMax,    \* 1460, the room of _itemBuffer
          Disposition   \* the Content-Disposition lines in use: name and file name of each

CR == "\r"
LF == "\n"

-----------------------------------------------------------------------------
(* The bytes of an item *)

\* Mutant: a full buffer waits for the end of the segment.
HandleUploadByteFull(s, data, last) ==
  LET t == [s EXCEPT !.q.itemBuffer = Append(@, data)]
      buffer == t.q.itemBuffer
  IN IF last
     THEN [HandleUpload(t, t.q.itemFilename, t.q.itemSize - Len(buffer), buffer, FALSE) EXCEPT !.q.itemBuffer = <<>>]
     ELSE t

\* The buffer goes to the handler when it is full and at the end of a segment.
HandleUploadByte(s, data, last) ==
  LET t == [s EXCEPT !.q.itemBuffer = Append(@, data)]
      buffer == t.q.itemBuffer
  IN IF last \/ Len(buffer) = UploadMax
     THEN [HandleUpload(t, t.q.itemFilename, t.q.itemSize - Len(buffer), buffer, FALSE) EXCEPT !.q.itemBuffer = <<>>]
     ELSE t

ItemByte(s, byte, last) ==
  LET t == [s EXCEPT !.q.itemSize = @ + 1]
  IN IF s.q.itemIsFile THEN HandleUploadByte(t, byte, last)
     ELSE [t EXCEPT !.q.itemValue = Append(@, byte)]

ItemWrite(s, bytes, last) ==
  LET at[i \in 0..Len(bytes)] == IF i = 0 THEN s ELSE ItemByte(at[i - 1], bytes[i], last)
  IN at[Len(bytes)]

InItem(s, data, last) ==
  IF data = CR THEN [s EXCEPT !.q.multi = "EXPECT_FEED1"] ELSE ItemWrite(s, <<data>>, last)

\* What looked like the end of the item belongs to it: bytes, and then data.
RollBack(s, bytes, data, last) ==
  InItem(ItemWrite([s EXCEPT !.q.multi = "WAIT_FOR_RETURN1"], bytes, last), data, last)

Dashes == <<CR, LF, "-", "-">>

-----------------------------------------------------------------------------
(* The states of the parser *)

Becomes(s, state) == [s EXCEPT !.q.multi = state]
Error(s) == Becomes(s, "PARSE_ERROR")

\* The first line: two dashes, the boundary and a line end, by position.
ExpectBoundary(s, data) ==
  LET p == s.q.parsedLength
      n == Len(Boundary)
  IN CASE p < 2 -> IF data = "-" THEN s ELSE Error(s)
       [] p \in 2..n + 1 -> IF Boundary[p - 1] = data THEN s ELSE Error(s)
       [] p = n + 2 -> IF data = CR THEN s ELSE Error(s)
       [] p = n + 3 -> IF data = LF THEN [Becomes(s, "PARSE_HEADERS") EXCEPT !.q.itemIsFile = FALSE] ELSE Error(s)
       [] OTHER -> s

\* A line of a part's head: its type, its name, or another.
PartHeader(s, text) ==
  LET line == text[1]
      t == [s EXCEPT !.q.temp = <<>>]
  IN IF line = "Content-Type" THEN [t EXCEPT !.q.itemIsFile = TRUE]
     ELSE IF line \notin DOMAIN Disposition THEN t
     ELSE LET d == Disposition[line]
          IN [t EXCEPT !.q.itemName = d.name,
                       !.q.itemFilename = IF d.filename = Nothing THEN @ ELSE d.filename,
                       !.q.itemIsFile = @ \/ d.filename # Nothing]

PartHeaders(s, data) ==
  LET text == s.q.temp IN
  IF data # LF THEN [s EXCEPT !.q.temp = IF data = CR THEN @ ELSE Append(@, data)]
  ELSE IF text # <<>> THEN PartHeader(s, text)
  ELSE [Becomes(s, "WAIT_FOR_RETURN1") EXCEPT !.q.itemSize = 0, !.q.itemValue = <<>>,
          !.q.itemBuffer = IF s.q.itemIsFile THEN <<>> ELSE @]

\* The boundary is there: an item ends.  An empty file is not told to anybody.
EndItem(s) ==
  LET q == s.q
      t == Becomes(s, "DASH3_OR_RETURN2")
      given == HandleUpload(t, q.itemFilename, q.itemSize - Len(q.itemBuffer), q.itemBuffer, TRUE)
  IN IF ~q.itemIsFile THEN AddParam(t, q.itemName, q.itemValue, TRUE, FALSE, 0)
     ELSE IF q.itemSize = 0 THEN t
     ELSE AddParam([given EXCEPT !.q.itemBuffer = <<>>], q.itemName, q.itemFilename, TRUE, TRUE, q.itemSize)

\* Mutant: the part of the boundary that matched is not given back.
BoundaryOrDataLost(s, data, last) ==
  LET p == s.q.boundaryPosition
  IN IF p < Len(Boundary) /\ Boundary[p + 1] # data THEN RollBack(s, Dashes, data, last)
     ELSE IF p = Len(Boundary) - 1 THEN EndItem(s)
     ELSE [s EXCEPT !.q.boundaryPosition = @ + 1]

BoundaryOrData(s, data, last) ==
  LET p == s.q.boundaryPosition
  IN IF p < Len(Boundary) /\ Boundary[p + 1] # data
     THEN RollBack(s, Dashes \o SubSeq(Boundary, 1, p), data, last)
     ELSE IF p = Len(Boundary) - 1 THEN EndItem(s)
     ELSE [s EXCEPT !.q.boundaryPosition = @ + 1]

\* A dash ends the body, which is taken to have four bytes from here, whatever
\* Content-Length says.
Dash3OrReturn2(s, data, last) ==
  LET t == IF data = "-" THEN [s EXCEPT !.q.contentLength = s.q.parsedLength + 4] ELSE s
  IN CASE data = CR -> Becomes(t, "EXPECT_FEED2")
       [] data = "-" -> Becomes(t, "PARSING_FINISHED")
       [] OTHER -> RollBack(t, Dashes \o Boundary, data, last)

MultipartByte(s, data, last) ==
  LET t == IF s.q.parsedLength = 0
           THEN [Becomes(s, "EXPECT_BOUNDARY") EXCEPT !.q.temp = <<>>, !.q.itemName = <<>>, !.q.itemFilename = Nothing]
           ELSE s
      state == t.q.multi
  IN CASE state = "EXPECT_BOUNDARY" -> ExpectBoundary(t, data)
       [] state = "PARSE_HEADERS" -> PartHeaders(t, data)
       [] state = "WAIT_FOR_RETURN1" -> InItem(t, data, last)
       [] state = "EXPECT_FEED1" -> IF data = LF THEN Becomes(t, "EXPECT_DASH1") ELSE RollBack(t, <<CR>>, data, last)
       [] state = "EXPECT_DASH1" -> IF data = "-" THEN Becomes(t, "EXPECT_DASH2") ELSE RollBack(t, <<CR, LF>>, data, last)
       [] state = "EXPECT_DASH2" ->
            IF data = "-" THEN [Becomes(t, "BOUNDARY_OR_DATA") EXCEPT !.q.boundaryPosition = 0]
            ELSE RollBack(t, <<CR, LF, "-">>, data, last)
       [] state = "BOUNDARY_OR_DATA" -> BoundaryOrData(t, data, last)
       [] state = "DASH3_OR_RETURN2" -> Dash3OrReturn2(t, data, last)
       [] state = "EXPECT_FEED2" ->
            IF data = LF THEN [Becomes(t, "PARSE_HEADERS") EXCEPT !.q.itemIsFile = FALSE]
            ELSE RollBack(t, Dashes \o Boundary \o <<CR>>, data, last)
       [] OTHER -> t

Parsed(s, data, last) == [MultipartByte(s, data, last) EXCEPT !.q.parsedLength = @ + 1]

Multipart(s, buf) ==
  LET at[i \in 0..Len(buf)] == IF i = 0 THEN s ELSE Parsed(at[i - 1], buf[i], i = Len(buf))
  IN at[Len(buf)]

-----------------------------------------------------------------------------
(* Plain forms *)

IsParamChar(c) == c \notin {"{", "[", "&", "="}

\* A parameter ends at an ampersand and at the end of the body; one with no name
\* is called body.
PlainPostChar(p, data, last) ==
  LET text == IF data = "&" THEN p.temp ELSE Append(p.temp, data)
      equal == IndexFrom(text, "=", 1)
      named == text # <<>> /\ text[1] \notin {"{", "["} /\ equal \in 2..Len(text)
      name == IF named THEN SubSeq(text, 1, equal - 1) ELSE <<"body">>
      value == IF named THEN SubSeq(text, equal + 1, Len(text)) ELSE text
  IN IF data = "&" \/ last
     THEN [temp |-> <<>>, params |-> Append(p.params, Param(UrlDecode(name), UrlDecode(value), TRUE, FALSE, 0))]
     ELSE [p EXCEPT !.temp = text]

PlainPost(s, buf) ==
  LET at[i \in 0..Len(buf)] ==
        IF i = 0 THEN [temp |-> s.q.temp, params |-> s.q.params]
        ELSE PlainPostChar(at[i - 1], buf[i], s.q.parsedLength + i = s.q.contentLength)
      end == at[Len(buf)]
  IN [s EXCEPT !.q.parsedLength = @ + Len(buf), !.q.temp = end.temp, !.q.params = end.params]

\* Text is taken for a form when its first segment has a name, an equals sign and
\* something behind it.
LooksPlain(q, buf) ==
  LET ends == {i \in DOMAIN buf : ~IsParamChar(buf[i])}
  IN \/ q.contentType = "form"
     \/ q.contentType = "text" /\ ends # {} /\ First(ends) > 1 /\ First(ends) < Len(buf) /\ buf[First(ends)] = "="

\* _onData of a request whose body is arriving.
Body(s, buf) ==
  LET needParse == ~IsRequestHandlerTrivial(HandlerOf(s.q.handler))
      t == IF s.q.parsedLength = 0 THEN [s EXCEPT !.q.isPlainPost = @ \/ LooksPlain(s.q, buf)] ELSE s
      Skip(u) == [u EXCEPT !.q.parsedLength = @ + Len(buf)]
  IN IF s.q.isMultipart THEN IF needParse THEN Multipart(s, buf) ELSE Skip(s)
     ELSE IF ~t.q.isPlainPost THEN Skip(HandleBody(t, buf, t.q.parsedLength, t.q.contentLength))
     ELSE IF needParse THEN PlainPost(t, buf) ELSE Skip(t)
=============================================================================
