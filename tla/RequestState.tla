----------------------------- MODULE RequestState -----------------------------
(***************************************************************************)
(* AsyncWebServerRequest's data and the calls that handlers make on it.    *)
(* Operators take and give a record s: s.q is the request, s.v the server  *)
(* with the handlers' and the device's own state.  Text is a sequence of   *)
(* characters; an allocation succeeds.                                     *)
(***************************************************************************)
EXTENDS WebAuthentication

CONSTANTS Nothing,   \* a NULL pointer, no file, no text
          Escapes    \* the escapes in use: pairs of hexadecimal digits and characters
ASSUME NothingAssumption == Nothing \notin Nat

NoAuthorization == [scheme |-> "none", user |-> "", password |-> "", parts |-> <<>>]

\* What the handlers were given, for the properties.
NoCalls == [request |-> 0, body |-> <<>>, file |-> <<>>, gap |-> FALSE, final |-> 0]

\* The file a response gives.
NoFile == [name |-> Nothing, gzip |-> FALSE]

NewRequest ==
  [parseState |-> "start", line |-> <<>>, temp |-> <<>>,
   method |-> "ANY", url |-> <<>>, version |-> 0, contentType |-> "", authorization |-> NoAuthorization,
   reqconntype |-> "http", isMultipart |-> FALSE, isPlainPost |-> FALSE, expectingContinue |-> FALSE,
   contentLength |-> 0, parsedLength |-> 0, headers |-> <<>>, interesting |-> {}, params |-> <<>>,
   multi |-> "EXPECT_BOUNDARY", boundaryPosition |-> 0, itemSize |-> 0, itemName |-> <<>>,
   itemFilename |-> Nothing, itemValue |-> <<>>, itemBuffer |-> <<>>, itemIsFile |-> FALSE,
   tempObject |-> Nothing, tempFile |-> Nothing, file |-> NoFile, handler |-> Nothing, response |-> Nothing,
   rxTimeout |-> TRUE, answers |-> <<>>, continues |-> 0, got |-> NoCalls, dead |-> FALSE]

-----------------------------------------------------------------------------
(* Lookups *)

Param(name, value, post, file, size) == [name |-> name, value |-> value, post |-> post, file |-> file, size |-> size]

AddParam(s, name, value, post, file, size) ==
  [s EXCEPT !.q.params = Append(@, Param(name, value, post, file, size))]

Found(q, name, post, file) ==
  {i \in DOMAIN q.params : q.params[i].name = name /\ q.params[i].post = post /\ q.params[i].file = file}

HasParam(q, name, post, file) == Found(q, name, post, file) # {}

First(I) == CHOOSE i \in I : \A j \in I : i <= j

GetParam(q, name, post, file) == q.params[First(Found(q, name, post, file))].value

Arg(q, name) ==
  LET I == {i \in DOMAIN q.params : q.params[i].name = name}
  IN IF I = {} THEN <<>> ELSE q.params[First(I)].value

HasHeader(q, name) == \E i \in DOMAIN q.headers : q.headers[i].name = name

\* "" when there is none, and so when it was pruned
Header(q, name) ==
  IF HasHeader(q, name)
  THEN q.headers[First({i \in DOMAIN q.headers : q.headers[i].name = name})].value ELSE ""

\* The lists of names and of headers.
ContainsIgnoreCase(names, name) == name \in names
RemoveNode(list, i) == SubSeq(list, 1, i - 1) \o SubSeq(list, i + 1, Len(list))

AddInteresting(s, names) == [s EXCEPT !.q.interesting = @ \cup names]

IsExpectedConnType(q, types) == q.reqconntype \in types

-----------------------------------------------------------------------------
(* Text *)

StartsWith(text, prefix) == IsPrefix(prefix, text)
EndsWith(text, suffix) == IsSuffix(suffix, text)

\* indexOf(c, start): one past the end when there is none.
IndexFrom(text, c, start) ==
  LET I == {i \in start..Len(text) : text[i] = c} IN IF I = {} THEN Len(text) + 1 ELSE First(I)

StrTol(high, low) == IF <<high, low>> \in DOMAIN Escapes THEN Escapes[<<high, low>>] ELSE "?"

UrlDecode(text) ==
  LET n == Len(text)
      from[i \in 1..n + 1] ==
        IF i > n THEN <<>>
        ELSE IF text[i] = "%" /\ i + 2 <= n
        THEN <<StrTol(text[i + 1], text[i + 2])>> \o from[i + 3]
        ELSE <<IF text[i] = "+" THEN " " ELSE text[i]>> \o from[i + 1]
  IN from[1]

\* Parameters between ampersands; one without an equals sign has an empty value.
GetParams(params) ==
  LET n == Len(params)
      from[i \in 1..n + 2] ==
        LET end == IndexFrom(params, "&", i)
            equal == First({IndexFrom(params, "=", i), end})
        IN IF i > n THEN <<>>
           ELSE <<Param(UrlDecode(SubSeq(params, i, equal - 1)), UrlDecode(SubSeq(params, equal + 1, end - 1)),
                        FALSE, FALSE, 0)>> \o from[end + 1]
  IN from[1]

AddGetParams(s, params) == [s EXCEPT !.q.params = @ \o GetParams(params)]

-----------------------------------------------------------------------------
(* Answers *)

Dies(s) == [s EXCEPT !.q.dead = TRUE]

\* send(response): the latest one is the request's response, an earlier one is
\* forgotten with what it had still to send.
Send(s, code) ==
  [s EXCEPT !.q.response = code, !.q.rxTimeout = FALSE, !.q.answers = Append(@, code)]

\* A response whose source is not valid gives way to a 500.
SendSource(s, valid, code) == Send(s, IF valid THEN code ELSE 500)

\* send(NULL) closes the client, whose disconnect deletes the request, and then
\* deletes it once more.
SendNull(s) == Dies(s)

Exists(s, path) == path \in DOMAIN s.v.files

\* AsyncFileResponse of a path: the file, or its .gz unless it is to be downloaded.
ResponseOfPath(s, path, download) ==
  LET gz == Append(path, ".gz")
      zipped == ~download /\ ~Exists(s, path) /\ Exists(s, gz)
  IN [s EXCEPT !.q.file = [name |-> IF zipped THEN gz ELSE path, gzip |-> zipped]]

\* AsyncFileResponse of an open file for a path.
ResponseOfFile(s, path, download) ==
  LET zipped == ~download /\ EndsWith(s.q.tempFile, <<".gz">>) /\ ~EndsWith(path, <<".gz">>)
  IN [s EXCEPT !.q.file = [name |-> s.q.tempFile, gzip |-> zipped]]

SendPath(s, path, download) ==
  IF Exists(s, path) \/ (~download /\ Exists(s, Append(path, ".gz")))
  THEN Send(ResponseOfPath(s, path, download), 200) ELSE Send(s, 404)

SendFile(s, path, download) ==
  IF s.q.tempFile # Nothing THEN Send(ResponseOfFile(s, path, download), 200) ELSE Send(s, 404)

Authenticate(q, user, password) ==
  CASE q.authorization.scheme = "digest" -> CheckPassword(q.authorization, q.method, user, password)
    [] q.authorization.scheme = "basic" -> CheckBasic(q.authorization, user, password)
    [] OTHER -> FALSE

\* authenticate(hash): a hash is for one scheme.
AuthenticateHash(q, hash) ==
  /\ q.authorization.scheme = hash.scheme
  /\ CASE hash.scheme = "digest" -> CheckHash(q.authorization, q.method, hash)
       [] hash.scheme = "basic" -> CheckBasic(q.authorization, hash.user, hash.password)

RequestAuthentication(s) == Send(s, 401)

\* Handlers with a user and a password let the others' requests through.
LetsThrough(q, h) == h.user = "" \/ h.password = "" \/ Authenticate(q, h.user, h.password)
=============================================================================
