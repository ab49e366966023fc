----------------------------- MODULE MCWebRequest -----------------------------
(***************************************************************************)
(* Every kind of handler and every way a request is parsed.  The first     *)
(* connection brings any message, the second one of those that find what   *)
(* the first has left: files, the network, the list of hidden files.       *)
(***************************************************************************)
EXTENDS WebRequest

MCEscapes == [e \in {<<"2", "6">>, <<"3", "D">>, <<"2", "B">>, <<"2", "5">>} |->
                CASE e = <<"2", "6">> -> "&" [] e = <<"3", "D">> -> "=" [] e = <<"2", "B">> -> "+" [] OTHER -> "%"]

Serves(kind, uri, methods, act) ==
  [kind |-> kind, uri |-> uri, methods |-> methods, act |-> act, onBody |-> FALSE, onUpload |-> FALSE,
   user |-> "", password |-> "", path |-> <<>>, isDir |-> FALSE, defaultFile |-> <<"index">>,
   cacheControl |-> "", lastModified |-> ""]
Full(h) == [h EXCEPT !.onBody = TRUE, !.onUpload = TRUE]
Locked(h) == [h EXCEPT !.user = "u", !.password = "w"]

MCHandlers == <<
  Full(Serves("callback", <<"/", "a">>, {"GET", "POST"}, "send")),
  Locked(Full(Serves("callback", <<"/", "p">>, {"GET", "POST"}, "send"))),
  Serves("callback", <<"/", "w", "*">>, {"GET"}, "file"),
  Serves("callback", <<"/", "*", ".", "x">>, {"GET"}, "source"),
  Serves("editor", <<>>, {}, "none"),
  Serves("socket", <<"/", "ws">>, {}, "none"),
  Serves("events", <<"/", "ev">>, {}, "none"),
  Serves("json", <<"/", "j">>, {"POST"}, "send"),
  Serves("callback", <<"/", "switch">>, {"GET"}, "switch"),
  [Serves("static", <<"/", "s">>, {}, "none") EXCEPT !.path = <<"/", "d">>, !.cacheControl = "c"],
  Serves("callback", <<"/", "n">>, {"GET"}, "null"),
  Serves("callback", <<"/", "q">>, {"GET"}, "quiet"),
  Serves("callback", <<"/", "h">>, {"GET"}, "hash") >>
MCCatchAll == Serves("callback", <<>>, {"GET", "POST", "DELETE", "PUT"}, "not found")
MCRewrites == <<[from |-> <<"/", "r">>, to |-> <<"/", "a">>, params |-> <<"k", "=", "v">>]>>

MCDisposition == [d \in {"field", "upload"} |->
  IF d = "field" THEN [name |-> <<"a">>, filename |-> Nothing] ELSE [name |-> <<"data">>, filename |-> <<"/", "g">>]]

MCExcludeFile == <<"/.exclude.files">>
MCBoundary == <<"B", "C">>
MCHidden == << <<"*", ".gz">>, <<"/", "?", "*", "e">> >>
MCFiles ==
  [p \in {<<"/", "d", "/", "t">>, <<"/", "d", "/", "z", ".gz">>, <<"/", "d", "/", "index">>, <<"/", "e">>,
          <<"/", "x", "e">>, <<"/", "x", "e", "l", "e">>, <<"/", "x", "e", "l">>, <<"/.exclude.files">>} |->
     IF p = <<"/.exclude.files">>
     THEN <<"*", ".gz", "\r", "\n", "/", "?", "*", "e", "\n">> ELSE <<"1", "2">>]

NoAuth == [scheme |-> "none", user |-> "", password |-> "", parts |-> <<>>]
Auth(scheme, password) == [scheme |-> scheme, user |-> "u", password |-> password, parts |-> <<>>]

Asks(url, to) ==
  [method |-> "GET", url |-> url, query |-> <<>>, added |-> <<>>, body |-> "none", fields |-> <<>>, items |-> <<>>,
   data |-> <<>>, tail |-> <<"\r", "\n">>, headers |-> <<>>, auth |-> NoAuth, comma |-> FALSE,
   excess |-> 0, blank |-> 0, luck |-> {}, to |-> to]
Posts(url, to, body) == [Asks(url, to) EXCEPT !.method = "POST", !.body = body]
Item(line, typed, data) == [line |-> line, typed |-> typed, data |-> data]
With(m, headers) == [m EXCEPT !.headers = headers]


Forms(url, to) == [Posts(url, to, "form") EXCEPT !.fields = <<Field(<<"a">>, <<"&", "%">>), Field(<<"b", "=">>, <<>>), Field(<<"c">>, <<" ", "+">>)>>]
Uploads(url, to, data) == [Posts(url, to, "multipart") EXCEPT !.items = <<Item("upload", TRUE, data)>>]
Mixed(url, to, data) == [Posts(url, to, "multipart") EXCEPT !.items = <<Item("field", FALSE, data), Item("upload", FALSE, data)>>]
Raw(url, to, body, data) == [Posts(url, to, body) EXCEPT !.data = data]
NamesG(m) == [m EXCEPT !.fields = <<Field(<<"path">>, <<"/", "g">>)>>]
Switches == [Asks(<<"/", "switch">>, 9) EXCEPT !.luck = {"tries", "freed"},
             !.query = <<Field(<<"ssid">>, <<"s">>), Field(<<"password">>, <<"w">>)>>]
Pruned(m) == [m EXCEPT !.luck = {"freed"}]
SocketHeader == <<Field("Connection", "Upgrade"), Field("Upgrade", "websocket"), Field("Host", "h"),
                  Field("Sec-WebSocket-Version", "13"), Field("Sec-WebSocket-Key", "k")>>

MCMessages == <<
  (* 1-6: what the second connection may bring *)
  [Asks(EditUrl, 5) EXCEPT !.query = <<Field(<<"list">>, <<"/">>)>>],
  Pruned(With(Asks(<<"/", "s", "/", "t">>, 10), <<Field("If-None-Match", "2"), Field("Host", "h")>>)),
  Asks(<<"/", "s", "/", "z">>, 10),
  Switches,
  Uploads(EditUrl, 5, <<"x", "y", "z">>),
  With(Posts(<<"/", "j">>, 8, "none"), <<Field("Content-Type", "json")>>),
  (* 7- *)
  Pruned(Asks(<<"/", "s", "/">>, 10)),
  Asks(<<"/", "s">>, 10),
  Asks(<<"/", "s", "/", "u">>, 0),
  [Asks(<<"/", "a", "/", "b">>, 1) EXCEPT !.query = <<Field(<<"k">>, <<"=", "%">>), Field(<<"l">>, <<>>)>>],
  [Asks(<<"/", "r">>, 1) EXCEPT !.added = <<[name |-> <<"k">>, value |-> <<"v">>, post |-> FALSE, file |-> FALSE, size |-> 0]>>],
  [Asks(<<"/", "w", "b">>, 3) EXCEPT !.query = <<Field(<<"file">>, <<"/", "e">>)>>],
  Asks(<<"/", "b", ".", "x">>, 4),
  Asks(<<"/", "b">>, 0),
  Asks(<<"/", "n">>, 11),
  Asks(<<"/", "q">>, 12),
  [Asks(<<"/", "q">>, 12) EXCEPT !.blank = 1],
  Pruned(With(Asks(<<"/", "ws">>, 6), SocketHeader)),
  With(Asks(<<"/", "ws">>, 0), <<Field("Host", "h")>>),
  Pruned(With(Asks(<<"/", "ev">>, 7), <<Field("Accept", "text/event-stream"), Field("Host", "h")>>)),
  With(Forms(<<"/", "a">>, 1), <<Field("Expect", "100-continue")>>),
  [Forms(<<"/", "a">>, 1) EXCEPT !.excess = 1],
  Raw(<<"/", "a">>, 1, "text", <<"a", "=", "b">>),
  Raw(<<"/", "a">>, 1, "text", <<"=", "a", "b">>),
  Raw(<<"/", "a">>, 1, "other", <<"{", "a", "}">>),
  [Raw(<<"/", "a">>, 1, "other", <<"{", "a", "}">>) EXCEPT !.excess = 1],
  Uploads(<<"/", "a">>, 1, <<"\r", "\r", "\n", "-", "x">>),
  Uploads(<<"/", "a">>, 1, <<"\r", "\n", "-", "-", "B", "x">>),
  Uploads(<<"/", "a">>, 1, <<>>),
  Mixed(<<"/", "a">>, 1, <<"\r", "\n", "-", "-", "x">>),
  [Mixed(<<"/", "a">>, 1, <<"x">>) EXCEPT !.tail = <<>>],
  [Uploads(<<"/", "a">>, 1, <<"x">>) EXCEPT !.tail = <<"\r", "\n", "e", "p">>],
  [Raw(<<"/", "p">>, 2, "other", <<"a", "b">>) EXCEPT !.auth = Auth("basic", "w")],
  [Raw(<<"/", "p">>, 2, "other", <<"a", "b">>) EXCEPT !.auth = Auth("basic", "v")],
  [Uploads(<<"/", "p">>, 2, <<"a", "b", "c">>) EXCEPT !.auth = Auth("digest", "v")],
  [Asks(<<"/", "p">>, 2) EXCEPT !.auth = Auth("digest", "w")],
  [Asks(<<"/", "p">>, 2) EXCEPT !.auth = Auth("digest", "w"), !.comma = TRUE],
  Asks(<<"/", "p">>, 2),
  [Asks(EditUrl, 5) EXCEPT !.query = <<Field(<<"edit">>, <<"/", "e">>)>>],
  [Asks(EditUrl, 0) EXCEPT !.query = <<Field(<<"download">>, <<"/", "h">>)>>],
  Pruned(With(Asks(EditUrl, 5), <<Field("If-Modified-Since", "buildTime"), Field("Host", "h")>>)),
  NamesG([Posts(EditUrl, 5, "form") EXCEPT !.method = "DELETE"]),
  NamesG([Posts(EditUrl, 5, "form") EXCEPT !.method = "PUT"]),
  Raw(<<"/", "j">>, 8, "json", <<"{", "}">>),
  Raw(<<"/", "j">>, 8, "json", <<"{", "1", "2", "}">>),
  Asks(<<"/", "switch">>, 9),
  [Asks(<<"/", "h">>, 13) EXCEPT !.auth = Auth("digest", "w")],
  [Asks(<<"/", "h">>, 13) EXCEPT !.auth = Auth("digest", "v")],
  [Asks(<<"/", "h">>, 13) EXCEPT !.auth = Auth("basic", "w")],
  [Asks(<<"/", "w", "z">>, 3) EXCEPT !.query = <<Field(<<"file">>, <<"/", "d", "/", "z">>)>>] >>
MCStoredHash == GenerateDigestHash("u", <<"realm">>, "w")

MCTurns == <<DOMAIN MCMessages, DOMAIN MCMessages, 1..6>>
=============================================================================
