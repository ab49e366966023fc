------------------------------ MODULE WebRequest ------------------------------
(***************************************************************************)
(* A connection of ESPAsyncWebSrv from its first byte to its response: the *)
(* request is parsed from segments cut anywhere, attached to a handler and *)
(* handled.  Connections follow one another; the device, its files and its *)
(* network outlive them.  How a response is sent is WebResponse's matter,  *)
(* what becomes of a web socket's connection WebPush's.                    *)
(*                                                                         *)
(* A message is what a browser means to send: see Lines and BodyText.      *)
(***************************************************************************)
EXTENDS MultipartBody

CONSTANTS Messages,        \* what browsers send, in order
          InitialFiles,    \* the files at the start, by path
          Hidden,          \* the lines of the exclude file among them
          Turns,           \* bound: the messages of each connection in turn
          Segments,        \* bound: lengths of a segment but the first and the last
          MaxTries         \* bound: attempts at the old network in a row

ASSUME RequestAssumption ==
  /\ Messages # <<>> /\ Boundary \in Seq(STRING)
  /\ Turns \in Seq(SUBSET DOMAIN Messages)
  /\ Segments \subseteq Nat /\ MaxTries \in Nat
  /\ LineMax \in Nat \ {0, 1} /\ UploadMax \in Nat \ {0} /\ MaxJson \in Nat

\* A browser's message; its luck is what chance may settle, its handler the one it
\* is meant for.
Text == Seq(STRING)
FieldText == [name : Text, value : Text]
Message ==
  [method : STRING, url : Text, query : Seq(FieldText), body : STRING, fields : Seq(FieldText),
   items : Seq([line : STRING, typed : BOOLEAN, data : Text]), data : Text, tail : Text,
   added : Seq([name : Text, value : Text, post : BOOLEAN, file : BOOLEAN, size : Nat]),
   headers : Seq([name : STRING, value : STRING]), comma : BOOLEAN, excess : Nat, blank : Nat,
   auth : [scheme : {"none", "basic", "digest"}, user : STRING, password : STRING, parts : {<<>>}],
   luck : SUBSET {"tries", "freed"}, to : 0..Len(Handlers)]
ASSUME MessageAssumption == Messages \in Seq(Message)

VARIABLES
  message,     \* what the browser sends on the connection, by its place in Messages
  arrived,     \* units of it that have arrived
  request,     \* the request, or Nothing
  server,      \* the handlers' state, the files and the network
  connections  \* so far

vars == <<message, arrived, request, server, connections>>

-----------------------------------------------------------------------------
(* What a browser sends: lines in two halves, and the characters of a body *)

Unit(c, line, half) == [c |-> c, line |-> line, half |-> half]

Field(name, value) == [name |-> name, value |-> value]

UrlEncodeChar(c) ==
  IF \E e \in DOMAIN Escapes : Escapes[e] = c
  THEN LET e == CHOOSE e \in DOMAIN Escapes : Escapes[e] = c IN <<"%", e[1], e[2]>>
  ELSE IF c = " " THEN <<"+">> ELSE <<c>>

UrlEncode(text) == FlattenSeq([i \in DOMAIN text |-> UrlEncodeChar(text[i])])

FormText(fields) ==
  FlattenSeq([i \in DOMAIN fields |->
    (IF i = 1 THEN <<>> ELSE <<"&">>) \o UrlEncode(fields[i].name) \o <<"=">> \o UrlEncode(fields[i].value)])

ItemText(item) ==
  <<"-", "-">> \o Boundary \o <<CR, LF, item.line, CR, LF>>
    \o (IF item.typed THEN <<"Content-Type", CR, LF>> ELSE <<>>) \o <<CR, LF>> \o item.data \o <<CR, LF>>

MultipartText(m) ==
  FlattenSeq([i \in DOMAIN m.items |-> ItemText(m.items[i])]) \o <<"-", "-">> \o Boundary \o <<"-", "-">> \o m.tail

BodyText(m) ==
  CASE m.body = "none" -> <<>>
    [] m.body = "form" -> FormText(m.fields)
    [] m.body = "multipart" -> MultipartText(m)
    [] OTHER -> m.data

MD5Response(m) ==
  LET auth == m.auth
  IN MD5(<<MD5(<<<<auth.user>>, <<"realm">>, auth.password>>), <<"nonce">>, <<"1">>, <<"cnonce">>, <<"auth">>,
           MD5(<<m.method, <<"uri">>>>)>>)

\* A comma in the URL cuts the digest's uri in two.
AuthorizationOf(m) ==
  LET Part(name, value) == [name |-> name, value |-> value]
  IN [m.auth EXCEPT !.parts =
        IF m.auth.scheme # "digest" THEN <<>>
        ELSE <<Part("username", <<m.auth.user>>), Part("realm", <<"realm">>), Part("nonce", <<"nonce">>),
               Part("uri", <<"uri">>)>> \o (IF m.comma THEN <<Part("", <<>>)>> ELSE <<>>)
             \o <<Part("qop", <<"auth">>), Part("nc", <<"1">>), Part("cnonce", <<"cnonce">>),
                  Part("response", MD5Response(m))>>]

\* The head line, and the header lines that some handler reads.
Lines(m) ==
  LET length == Len(BodyText(m))
  IN <<Field("", "")>>
     \o (IF length > 0 THEN <<Field("Content-Length", ""), Field("Content-Type", m.body)>> ELSE <<>>)
     \o (IF m.auth.scheme # "none" THEN <<Field("Authorization", "")>> ELSE <<>>) \o m.headers

LineText(k) == <<Unit("text", k, 1), Unit("text", k, 2), Unit(LF, 0, 0)>>

\* excess: bytes behind the body, of a client that sends more than it announced.
Wire(m) ==
  FlattenSeq([i \in 1..m.blank |-> <<Unit(LF, 0, 0)>>])
    \o FlattenSeq([k \in DOMAIN Lines(m) |-> LineText(k)]) \o <<Unit(LF, 0, 0)>>
    \o [i \in DOMAIN BodyText(m) |-> Unit(BodyText(m)[i], 0, 0)]
    \o [i \in 1..m.excess |-> Unit("x", 0, 0)]

Wires == [i \in DOMAIN Messages |-> Wire(Messages[i])]

-----------------------------------------------------------------------------
(* Parsing *)

\* The method, the URL up to a question mark, and the parameters behind it.
ParseReqHead(s, m) ==
  LET t == [s EXCEPT !.q.method = m.method, !.q.url = UrlDecode(UrlEncode(m.url)), !.q.line = <<>>, !.q.version = 1]
  IN AddGetParams(t, FormText(m.query))

ParseReqHeader(s, m, header) ==
  LET name == header.name
      t == [s EXCEPT !.q.headers = Append(@, header), !.q.line = <<>>]
  IN CASE name = "Content-Type" -> [t EXCEPT !.q.contentType = header.value, !.q.isMultipart = @ \/ header.value = "multipart"]
       [] name = "Content-Length" -> [t EXCEPT !.q.contentLength = Len(BodyText(m))]
       [] name = "Expect" -> [t EXCEPT !.q.expectingContinue = (header.value = "100-continue")]
       [] name = "Authorization" -> [t EXCEPT !.q.authorization = AuthorizationOf(m)]
       [] name = "Upgrade" /\ header.value = "websocket" -> [t EXCEPT !.q.reqconntype = "ws"]
       [] name = "Accept" /\ header.value = "text/event-stream" -> [t EXCEPT !.q.reqconntype = "event"]
       [] OTHER -> t

\* The loop removes the header it stands on and goes on from the freed node: to the
\* next header, to the end, or astray.
RemoveNotInteresting(s) ==
  LET q == s.q
      Kept(header) == ContainsIgnoreCase(q.interesting, header.name)
      gone == {i \in DOMAIN q.headers : ~Kept(q.headers[i])}
  IN IF ContainsIgnoreCase(q.interesting, "ANY") \/ gone = {} THEN s
     ELSE IF s.luck.freed = "astray" THEN Dies(s)
     ELSE IF s.luck.freed = "end"
     THEN [s EXCEPT !.q.headers = RemoveNode(@, First(gone))]
     ELSE [s EXCEPT !.q.headers = SelectSeq(@, Kept)]

\* 100 Continue, and then the body, or the request is complete.
ExpectBody(s) ==
  LET t == IF s.q.expectingContinue THEN [s EXCEPT !.q.continues = @ + 1] ELSE s
  IN IF s.q.dead THEN s
     ELSE IF s.q.contentLength > 0 THEN [t EXCEPT !.q.parseState = "body"]
     ELSE HandleRequest([t EXCEPT !.q.parseState = "end"])

EndOfHeaders(s) == ExpectBody(RemoveNotInteresting(AttachHandler(RewriteRequest(s))))

\* A line: two halves of the same one, or none.  An empty one in front of the
\* request closes the client, and with it deletes the request.
ParseLine(s, m) ==
  LET line == s.q.line
      k == line[1].line
  IN CASE s.q.parseState = "start" /\ line = <<>> -> [s EXCEPT !.q.parseState = "fail"]
       [] s.q.parseState = "start" /\ line # <<>> -> ParseReqHead([s EXCEPT !.q.parseState = "headers"], m)
       [] s.q.parseState = "headers" /\ line = <<>> -> EndOfHeaders(s)
       [] s.q.parseState = "headers" /\ line # <<>> -> ParseReqHeader(s, m, Lines(m)[k])

EndOfBody(s) ==
  IF s.q.dead \/ s.q.parsedLength # s.q.contentLength THEN s
  ELSE HandleRequest([s EXCEPT !.q.parseState = "end"])

\* A unit of a segment, as long as lines are read; n units are behind.
LineUnit(p, unit, m) ==
  IF p.s.q.dead \/ p.s.q.parseState \notin {"start", "headers"} THEN p
  ELSE [n |-> p.n + 1,
        s |-> IF unit.c = LF THEN ParseLine(p.s, m) ELSE [p.s EXCEPT !.q.line = Append(@, unit)]]

\* _onData: lines, each at its newline, then the rest of the segment as body.  What
\* is left of a segment behind an empty first line is parsed by a freed request.
OnData(s, m, buf) ==
  LET at[i \in 0..Len(buf)] == IF i = 0 THEN [n |-> 0, s |-> s] ELSE LineUnit(at[i - 1], buf[i], m)
      t == at[Len(buf)].s
      rest == SubSeq(buf, at[Len(buf)].n + 1, Len(buf))
  IN IF rest = <<>> \/ t.q.dead \/ t.q.parseState = "end" THEN t
     ELSE IF t.q.parseState = "fail" THEN Dies(t)
     ELSE EndOfBody(Body(t, [j \in DOMAIN rest |-> rest[j].c]))

-----------------------------------------------------------------------------
(* The connection *)

Boot(files, jsonLength) ==
  [files |-> files, gzipFirst |-> FALSE, gzipStats |-> 248, excludes |-> <<>>, listed |-> {},
   authenticated |-> FALSE, jsonLength |-> jsonLength, wifi |-> SetupAP(BeforeWiFi, [freed |-> "next"])]

\* The JSON handler's _contentLength starts as whatever is in memory.
Init ==
  /\ message = 1 /\ arrived = 0 /\ request = Nothing /\ connections = 0
  /\ \E length \in {0, MaxJson + 1} : server = Boot(InitialFiles, length)

\* The server's onClient: a new request, and the client's receive timeout.
Connect ==
  /\ request = Nothing /\ connections < Len(Turns) /\ server.wifi.listener # NoObject
  /\ message' \in Turns[connections + 1]
  /\ request' = NewRequest /\ arrived' = 0 /\ connections' = connections + 1
  /\ UNCHANGED server

Tries == {[i \in 1..MaxTries + 1 |-> i > failures] : failures \in 0..MaxTries + 1}

\* Chance matters to a switch of network and to a request whose headers are pruned.
Luck(m) ==
  [tries : IF "tries" \in m.luck THEN Tries ELSE {<<>>},
   freed : IF "freed" \in m.luck THEN {"next", "end", "astray"} ELSE {"next"}]

Receive(n) ==
  LET m == Messages[message] IN
  /\ request # Nothing /\ ~request.dead /\ request.parseState # "fail"
  /\ arrived + n <= Len(Wires[message]) /\ arrived' = arrived + n
  /\ arrived = 0 \/ n \in Segments \/ arrived' = Len(Wires[message])
  /\ \E s \in {OnData([q |-> request, v |-> server, luck |-> luck], m,
                     SubSeq(Wires[message], arrived + 1, arrived + n)) : luck \in Luck(m)} :
       request' = s.q /\ server' = s.v
  /\ UNCHANGED <<message, connections>>

\* The request is deleted with its client.
Gone == request' = Nothing /\ arrived' = 0 /\ message' = 1 /\ UNCHANGED <<server, connections>>

\* _parseLine closed the client.
Closed == request # Nothing /\ ~request.dead /\ request.parseState = "fail" /\ Gone

\* The peer, or the network, ends the connection at any time.
Disconnect == request # Nothing /\ ~request.dead /\ Gone

\* Nothing arrived for the receive timeout, which a response takes away.
Timeout == request # Nothing /\ ~request.dead /\ request.rxTimeout /\ Gone

\* _onAck and _onPoll of a response: one that is through is deleted; a 101 and an
\* event stream hand the connection over to a client of their own.
Acked ==
  /\ request # Nothing /\ ~request.dead /\ request.response # Nothing
  /\ IF request.response = 101 \/ HandlerOf(request.handler).kind = "events"
     THEN Gone
     ELSE request' = [request EXCEPT !.response = Nothing] /\ UNCHANGED <<message, arrived, server, connections>>

\* A crash restarts the device, with its files.
Restart ==
  /\ request # Nothing /\ request.dead
  /\ request' = Nothing /\ arrived' = 0 /\ message' = 1
  /\ \E length \in {0, MaxJson + 1} : server' = Boot(server.files, length)
  /\ UNCHANGED connections

Next ==
  \/ Connect
  \/ \E n \in 1..Len(Wires[message]) : Receive(n)
  \/ Closed \/ Disconnect \/ Timeout \/ Acked \/ Restart

Spec == Init /\ [][Next]_vars

-----------------------------------------------------------------------------
(* Properties *)

Handling == request # Nothing /\ ~request.dead
Handled == Handling /\ request.got.request > 0
Sent == Messages[message]
Serving == HandlerOf(request.handler)

TypeOK ==
  /\ message \in DOMAIN Messages /\ arrived \in 0..Len(Wires[message]) /\ connections \in 0..Len(Turns)
  /\ server.gzipStats \in 0..255 /\ server.wifi.object \in 1..server.wifi.objects
                                     \cup IF server.wifi.isAP THEN {} ELSE {NoObject}
  /\ Handling =>
       /\ request.handler \in 0..Len(Handlers) \cup {Nothing}
       /\ request.parseState \in {"body", "end"} => request.handler # Nothing
       /\ Len(request.itemBuffer) < UploadMax

\* What the fields and files of a message come to as parameters.
FieldParam(f, post) == [name |-> f.name, value |-> f.value, post |-> post, file |-> FALSE, size |-> 0]

ItemParams(item) ==
  LET d == Disposition[item.line]
  IN IF d.filename = Nothing
     THEN <<[name |-> d.name, value |-> item.data, post |-> TRUE, file |-> FALSE, size |-> 0]>>
     ELSE IF item.data = <<>> THEN <<>>
     ELSE <<[name |-> d.name, value |-> d.filename, post |-> TRUE, file |-> TRUE, size |-> Len(item.data)]>>

ParamsOf(m) ==
  [i \in DOMAIN m.query |-> FieldParam(m.query[i], FALSE)] \o m.added
    \o (IF m.body = "form" THEN [i \in DOMAIN m.fields |-> FieldParam(m.fields[i], TRUE)] ELSE <<>>)
    \o (IF m.body = "multipart" THEN FlattenSeq([i \in DOMAIN m.items |-> ItemParams(m.items[i])]) ELSE <<>>)

FilesOf(m) ==
  IF m.body # "multipart" THEN <<>>
  ELSE LET files == SelectSeq(m.items, LAMBDA item : Disposition[item.line].filename # Nothing /\ item.data # <<>>)
       IN [i \in DOMAIN files |-> [name |-> Disposition[files[i].line].filename, data |-> files[i].data, final |-> TRUE]]

\* A text may also be taken for a form of one field.
AsField(m) == LET n == IndexFrom(m.data, "=", 1)
              IN <<FieldParam([name |-> SubSeq(m.data, 1, n - 1), value |-> SubSeq(m.data, n + 1, Len(m.data))], TRUE)>>

WellFormed(m) == m.excess = 0 /\ m.blank = 0 /\ (m.body = "multipart" => m.tail = <<CR, LF>>)

\* However the request is cut into segments, it goes to the handler its URL names,
\* which is told of it once, when the last byte of the body is there and not
\* before, with the parameters, the body and the files that were sent.
HandledWhole ==
  LET q == request
      m == Sent
      told == q.got
      given == Serving.kind = "callback" /\ LetsThrough(q, Serving)
  IN Handling =>
     /\ q.got.request <= 1 /\ ~q.got.gap
     /\ Handled =>
          /\ q.handler = m.to
          /\ arrived >= Len(Wires[message]) - m.excess - (IF m.tail = <<CR, LF>> THEN 0 ELSE Len(m.tail))
          /\ \/ q.params = ParamsOf(m) /\ (given /\ Serving.onBody /\ m.body \in {"text", "other"} => told.body = m.data)
             \/ m.body = "text" /\ q.params = ParamsOf(m) \o AsField(m) /\ told.body = <<>>
          /\ given /\ Serving.onUpload => told.file = FilesOf(m)
     /\ WellFormed(m) /\ arrived = Len(Wires[message]) => Handled

\* What the sketch is told of a request on a handler with a password, and only
\* that: a request with the right one is not refused, unless a comma in its URL
\* cuts the digest; another is, and neither its body nor its files are told of.
AuthDecides ==
  LET hashed == Serving.act = "hash"
      right == IF hashed
               THEN Sent.auth.scheme = "digest" /\ GenerateDigestHash(Sent.auth.user, <<"realm">>, Sent.auth.password) = StoredHash
               ELSE Sent.auth.user = Serving.user /\ Sent.auth.password = Serving.password /\ Sent.auth.scheme # "none"
      refused == \E i \in DOMAIN request.answers : request.answers[i] = 401
      protected == hashed \/ Serving.user # ""
  IN Handled =>
     /\ refused => protected /\ ~(right /\ ~Sent.comma)
     /\ protected /\ ~right =>
          /\ \A i \in DOMAIN request.answers : request.answers[i] = 401
          /\ request.got.body = <<>> /\ request.got.file = <<>>

\* A sketch's function behind a password that does not let the request through is
\* told neither its body nor its files, however they arrive and before the request
\* is complete too, and the browser hears nothing but 401.
RefusedUnseen ==
  Handling /\ request.handler # Nothing /\ Serving.kind = "callback" /\ ~LetsThrough(request, Serving) =>
    /\ request.got.body = <<>> /\ request.got.file = <<>>
    /\ \A i \in DOMAIN request.answers : request.answers[i] = 401

\* A file that the editor says it has uploaded is the file that was sent.
UploadStored ==
  Handled /\ Serving.kind = "editor" /\ Sent.method = "POST" /\ request.answers = <<200>> =>
    \A i \in DOMAIN FilesOf(Sent) :
      LET f == FilesOf(Sent)[i] IN
      (\A j \in i + 1..Len(FilesOf(Sent)) : FilesOf(Sent)[j].name # f.name) => server.files[f.name] = f.data

Glob(pattern, text) ==
  LET matches[i \in 1..Len(pattern) + 1, j \in 1..Len(text) + 1] ==
        IF i > Len(pattern) THEN j > Len(text)
        ELSE IF pattern[i] = "*" THEN \E k \in j..Len(text) + 1 : matches[i + 1, k]
        ELSE j <= Len(text) /\ pattern[i] \in {"?", text[j]} /\ matches[i + 1, j + 1]
  IN matches[1, 1]

\* The listing hides what a line of the list matches, and nothing else.
ListHides ==
  Handled /\ Serving.kind = "editor" /\ HasParam(request, <<"list">>, FALSE, FALSE) /\ request.answers = <<200>> =>
    server.listed = {p \in DOMAIN server.files : \A i \in DOMAIN Hidden : ~Glob(Hidden[i], p)}

\* What a browser is told is compressed is so, and what it is not told of it asked
\* for by that name.
FilesGiven ==
  Handled /\ request.answers = <<200>> /\ request.file.name # Nothing =>
    /\ request.file.name \in DOMAIN server.files
    /\ request.file.gzip => EndsWith(request.file.name, <<".gz">>)
    /\ EndsWith(request.file.name, <<".gz">>) /\ ~request.file.gzip => Serving.kind = "editor"

\* The files are those that were sent, and the listing shows the ones it should.
FilesKept == UploadStored /\ ListHides /\ FilesGiven

\* The device shows its pages until a switch fails that was begun in a station;
\* a switch that succeeds, or fails in the access point, leaves them there.
PagesServed ==
  LET w == server.wifi IN
  IF w.listener = NoObject THEN ~w.isAP /\ w.last = "failed" ELSE w.listener \in w.routes
=============================================================================
