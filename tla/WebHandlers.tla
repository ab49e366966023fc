------------------------------ MODULE WebHandlers ------------------------------
(***************************************************************************)
(* The server's handlers: which one a request is attached to, and what it  *)
(* does with the request, its body and its uploads.  s is that of          *)
(* RequestState; s.luck is what chance settles: whether networks are       *)
(* reached and what freed memory holds.  A callback's act is what the      *)
(* sketch's function does; Nothing stands for no function.                 *)
(***************************************************************************)
EXTENDS SPIFFSEditor, WiFiManager, TLC

CONSTANTS Handlers,   \* _handlers, in order; at most one serves files
          CatchAll,   \* _catchAllHandler
          Rewrites,   \* _rewrites, in order
          MaxJson,    \* _maxContentLength
          StoredHash  \* what the sketch keeps of a user

HandlerOf(i) == IF i = 0 THEN CatchAll ELSE Handlers[i]

Kinds == {"callback", "static", "editor", "json", "socket", "events"}
Acts == {"send", "not found", "file", "source", "null", "switch", "hash", "quiet"}
ASSUME HandlerAssumption ==
  /\ Len(Handlers) \in Nat
  /\ \A i \in 0..Len(Handlers) :
       LET h == HandlerOf(i)
       IN h.kind \in Kinds /\ (h.kind \in {"callback", "json"} => h.act \in Acts \cup {Nothing})

-----------------------------------------------------------------------------
(* Files *)

\* The bits of the last eight lookups that found a file.
CountBits(w) == Cardinality({i \in 0..7 : (w \div 2 ^ i) % 2 = 1})

GzipStats(v, found) == ((v.gzipStats * 2) % 256) + found

FileExists(s, path) ==
  LET gz == Append(path, ".gz")
      order == IF s.v.gzipFirst THEN <<gz, path>> ELSE <<path, gz>>
      there == {i \in 1..2 : Exists(s, order[i])}
      file == order[First(there)]
      stats == GzipStats(s.v, IF file = gz THEN 1 ELSE 0)
  IN IF there = {} THEN Answer(FALSE, [s EXCEPT !.q.tempFile = Nothing])
     ELSE Answer(TRUE, [s EXCEPT !.q.tempFile = file, !.q.tempObject = path,
                                 !.v.gzipStats = stats, !.v.gzipFirst = CountBits(stats) > 4])

\* _getFile: the path itself unless it names a directory, and the default file in it.
GetFile(s, h) ==
  LET rest == SubSeq(s.q.url, Len(h.uri) + 1, Len(s.q.url))
      path == h.path \o rest
      skip == (h.isDir /\ rest = <<>>) \/ EndsWith(rest, <<"/">>)
      slashed == IF path # <<>> /\ EndsWith(path, <<"/">>) THEN path ELSE Append(path, "/")
      OrDefault(answer) == IF answer.yes \/ h.defaultFile = <<>> THEN answer
                           ELSE FileExists(answer.s, slashed \o h.defaultFile)
  IN OrDefault(IF skip THEN Answer(FALSE, s) ELSE FileExists(s, path))

StaticCanHandle(s, h) ==
  IF s.q.method # "GET" \/ ~StartsWith(s.q.url, h.uri) \/ ~IsExpectedConnType(s.q, {"default", "http"})
  THEN Answer(FALSE, s)
  ELSE LET kept == (IF h.lastModified # "" THEN {"If-Modified-Since"} ELSE {})
                     \cup (IF h.cacheControl # "" THEN {"If-None-Match"} ELSE {})
           Interested(answer) == IF answer.yes THEN Answer(TRUE, AddInteresting(answer.s, kept)) ELSE answer
       IN Interested(GetFile(s, h))

\* The entity tag is the size of the file.
StaticHandleRequest(s, h) ==
  LET t == [s EXCEPT !.q.tempObject = Nothing]
      etag == ToString(Len(s.v.files[s.q.tempFile]))
      same == \/ h.lastModified # "" /\ h.lastModified = Header(s.q, "If-Modified-Since")
              \/ h.cacheControl # "" /\ HasHeader(s.q, "If-None-Match") /\ Header(s.q, "If-None-Match") = etag
  IN IF ~LetsThrough(s.q, h) THEN RequestAuthentication(t)
     ELSE IF s.q.tempFile = Nothing THEN Send(t, 404)
     ELSE IF same THEN Send([t EXCEPT !.q.tempFile = Nothing], 304)
     ELSE Send(ResponseOfFile(t, s.q.tempObject, FALSE), 200)

-----------------------------------------------------------------------------
(* Functions of the sketch *)

UriMatches(uri, url) ==
  LET lastDot == CHOOSE i \in DOMAIN uri : uri[i] = "." /\ \A j \in i + 1..Len(uri) : uri[j] # "."
  IN IF StartsWith(uri, <<"/", "*", ".">>) THEN EndsWith(url, SubSeq(uri, lastDot, Len(uri)))
     ELSE IF EndsWith(uri, <<"*">>) THEN StartsWith(url, SubSeq(uri, 1, Len(uri) - 1))
     ELSE uri = <<>> \/ uri = url \/ StartsWith(url, Append(uri, "/"))

CallbackCanHandle(s, h) ==
  IF h.act = Nothing \/ s.q.method \notin h.methods \/ ~UriMatches(h.uri, s.q.url)
  THEN Answer(FALSE, s) ELSE Answer(TRUE, AddInteresting(s, {"ANY"}))

SwitchNetwork(s, ssid) == [s EXCEPT !.v.wifi = SetNetwork(@, ssid, s.luck)]

\* /switch_wifi: a missing parameter is a NULL pointer.
SwitchWifi(s) ==
  LET names == {<<"ssid">>, <<"password">>}
      Report(t) == IF t.v.wifi.restarts THEN Dies(t)
                   ELSE Send(t, IF t.v.wifi.last = "connected" THEN 200 ELSE 500)
  IN IF \E n \in names : ~HasParam(s.q, n, FALSE, FALSE) THEN Dies(s)
     ELSE Report(SwitchNetwork(s, Arg(s.q, <<"ssid">>)))

Act(s, act) ==
  CASE act = "send" -> Send(s, 200)
    [] act = "not found" -> Send(s, 404)
    [] act = "file" -> SendPath(s, Arg(s.q, <<"file">>), FALSE)
    [] act = "source" -> SendSource(s, FALSE, 200)
    [] act = "null" -> SendNull(s)
    [] act = "switch" -> SwitchWifi(s)
    [] act = "hash" -> IF AuthenticateHash(s.q, StoredHash) THEN Send(s, 200) ELSE RequestAuthentication(s)
    [] act = "quiet" -> s

\* Mutant: the function is called, refused or not.
CallbackHandleRequestAll(s, h) == Act(IF LetsThrough(s.q, h) THEN s ELSE RequestAuthentication(s), h.act)

CallbackHandleRequest(s, h) ==
  IF ~LetsThrough(s.q, h) THEN RequestAuthentication(s)
  ELSE IF h.act = Nothing THEN Send(s, 500)
  ELSE Act(s, h.act)

\* Mutant: the body is told whoever sends it.
CallbackHandleBodyAll(s, h, data, index) ==
  IF h.onBody THEN [s EXCEPT !.q.got.body = @ \o data] ELSE s

CallbackHandleBody(s, h, data, index) ==
  IF ~LetsThrough(s.q, h) THEN RequestAuthentication(s)
  ELSE IF ~h.onBody THEN s
  ELSE [s EXCEPT !.q.got.gap = @ \/ index # Len(s.q.got.body), !.q.got.body = @ \o data]

\* The pieces of a file follow each other from index 0 to the final one.
CallbackHandleUpload(s, h, filename, index, data, final) ==
  LET file == s.q.got.file
      last == file[Len(file)]
      fits == index = 0 \/ (file # <<>> /\ last.name = filename /\ ~last.final /\ Len(last.data) = index)
      begun == IF index = 0 THEN Append(file, [name |-> filename, data |-> <<>>, final |-> FALSE]) ELSE file
  IN IF ~LetsThrough(s.q, h) THEN RequestAuthentication(s)
     ELSE IF ~h.onUpload THEN s
     ELSE IF ~fits THEN [s EXCEPT !.q.got.gap = TRUE]
     ELSE [s EXCEPT !.q.got.file = [begun EXCEPT ![Len(begun)].data = @ \o data, ![Len(begun)].final = final]]

-----------------------------------------------------------------------------
(* JSON: the body is gathered in _tempObject; _contentLength is the handler's *)

JsonCanHandle(s, h) ==
  IF h.act = Nothing \/ s.q.method \notin h.methods \/ s.q.contentType # "json"
     \/ ~(h.uri = <<>> \/ h.uri = s.q.url \/ StartsWith(s.q.url, Append(h.uri, "/")))
  THEN Answer(FALSE, s) ELSE Answer(TRUE, AddInteresting(s, {"ANY"}))

\* A body with a hole, or cut, is not JSON.
JsonHandleRequest(s, h) ==
  IF h.act = Nothing THEN Send(s, 500)
  ELSE IF s.q.tempObject # Nothing /\ "?" \notin Range(s.q.tempObject)
  THEN Act([s EXCEPT !.q.got.body = s.q.tempObject], h.act)
  ELSE Send(s, IF s.v.jsonLength > MaxJson THEN 413 ELSE 400)

\* Bytes beyond the total are written past the buffer.
JsonHandleBody(s, h, data, index, total) ==
  LET buffer == IF s.q.tempObject = Nothing /\ total > 0 /\ total < MaxJson
                THEN [i \in 1..total |-> "?"] ELSE s.q.tempObject
      t == [s EXCEPT !.v.jsonLength = total, !.q.tempObject = buffer]
  IN IF h.act = Nothing THEN s
     ELSE IF buffer = Nothing THEN t
     ELSE IF index + Len(data) > total THEN Dies(t)
     ELSE [t EXCEPT !.q.tempObject =
             [i \in 1..total |-> IF i \in index + 1..index + Len(data) THEN data[i - index] ELSE buffer[i]]]

-----------------------------------------------------------------------------
(* Web sockets and event sources *)

SocketHeaders == {"Connection", "Upgrade", "Origin", "Sec-WebSocket-Version", "Sec-WebSocket-Key", "Sec-WebSocket-Protocol"}

SocketCanHandle(s, h) ==
  IF s.q.method # "GET" \/ s.q.url # h.uri \/ ~IsExpectedConnType(s.q, {"ws"})
  THEN Answer(FALSE, s) ELSE Answer(TRUE, AddInteresting(s, SocketHeaders))

SocketHandleRequest(s, h) ==
  IF ~HasHeader(s.q, "Sec-WebSocket-Version") \/ ~HasHeader(s.q, "Sec-WebSocket-Key") THEN Send(s, 400)
  ELSE IF ~LetsThrough(s.q, h) THEN RequestAuthentication(s)
  ELSE Send(s, IF Header(s.q, "Sec-WebSocket-Version") = "13" THEN 101 ELSE 400)

EventsCanHandle(s, h) ==
  IF s.q.method # "GET" \/ s.q.url # h.uri
  THEN Answer(FALSE, s) ELSE Answer(TRUE, AddInteresting(s, {"Last-Event-ID"}))

EventsHandleRequest(s, h) == IF LetsThrough(s.q, h) THEN Send(s, 200) ELSE RequestAuthentication(s)

-----------------------------------------------------------------------------
(* The server's choice, and the calls on the chosen one *)

CanHandle(s, h) ==
  CASE h.kind = "callback" -> CallbackCanHandle(s, h)
    [] h.kind = "static" -> StaticCanHandle(s, h)
    [] h.kind = "editor" -> EditorCanHandle(s)
    [] h.kind = "json" -> JsonCanHandle(s, h)
    [] h.kind = "socket" -> SocketCanHandle(s, h)
    [] h.kind = "events" -> EventsCanHandle(s, h)

\* The next handler is asked, unless one has said yes.
Ask(answer, i) ==
  LET next == CanHandle(answer.s, Handlers[i])
  IN IF answer.yes THEN answer
     ELSE IF next.yes THEN Answer(TRUE, [next.s EXCEPT !.q.handler = i])
     ELSE next

AttachHandler(s) ==
  LET asked[i \in 0..Len(Handlers)] == IF i = 0 THEN Answer(FALSE, s) ELSE Ask(asked[i - 1], i)
      last == asked[Len(Handlers)]
  IN IF last.yes THEN last.s ELSE AddInteresting([last.s EXCEPT !.q.handler = 0], {"ANY"})

\* Every rewrite that matches the URL as the ones before it left it.
RewriteRequest(s) ==
  LET url[i \in 0..Len(Rewrites)] ==
        IF i = 0 THEN s.q.url
        ELSE IF url[i - 1] = Rewrites[i].from THEN Rewrites[i].to
        ELSE url[i - 1]
      added == [i \in DOMAIN Rewrites |->
                  IF url[i - 1] = Rewrites[i].from THEN GetParams(Rewrites[i].params) ELSE <<>>]
  IN [s EXCEPT !.q.url = url[Len(Rewrites)], !.q.params = @ \o FlattenSeq(added)]

IsRequestHandlerTrivial(h) == h.kind \notin {"callback", "json", "editor"} \/ (h.kind # "editor" /\ h.act = Nothing)

HandleRequest(s) ==
  LET h == HandlerOf(s.q.handler)
      t == [s EXCEPT !.q.got.request = @ + 1]
  IN CASE h.kind = "callback" -> CallbackHandleRequest(t, h)
       [] h.kind = "static" -> StaticHandleRequest(t, h)
       [] h.kind = "editor" -> EditorHandleRequest(t, h)
       [] h.kind = "json" -> JsonHandleRequest(t, h)
       [] h.kind = "socket" -> SocketHandleRequest(t, h)
       [] h.kind = "events" -> EventsHandleRequest(t, h)

HandleBody(s, data, index, total) ==
  LET h == HandlerOf(s.q.handler)
  IN CASE h.kind = "callback" -> CallbackHandleBody(s, h, data, index)
       [] h.kind = "json" -> JsonHandleBody(s, h, data, index, total)
       [] OTHER -> s

HandleUpload(s, filename, index, data, final) ==
  LET h == HandlerOf(s.q.handler)
  IN CASE h.kind = "callback" -> CallbackHandleUpload(s, h, filename, index, data, final)
       [] h.kind = "editor" -> EditorHandleUpload(s, h, filename, index, data, final)
       [] OTHER -> s
=============================================================================
