----------------------------- MODULE SPIFFSEditor -----------------------------
(***************************************************************************)
(* The file editor, a handler at /edit: it lists, shows, creates, deletes  *)
(* and stores files.  A file that is there opens, a write succeeds.  The   *)
(* list of files to hide is read once and kept.                            *)
(***************************************************************************)
EXTENDS RequestState

CONSTANTS ExcludeFile,  \* "/.exclude.files"
          LineMax       \* SPIFFS_MAXLENGTH_FILEPATH

EditUrl == <<"/", "edit">>

-----------------------------------------------------------------------------
(* The list of files to hide *)

\* Mutant: a mismatch behind a star does not go back to it.
MatchWildOnce(pattern, text) ==
  LET match[i \in 1..Len(pattern) + 1, j \in 1..Len(text) + 1] ==
        IF j > Len(text) THEN \A k \in i..Len(pattern) : pattern[k] = "*"
        ELSE IF i > Len(pattern) THEN FALSE
        ELSE IF pattern[i] \in {"?", text[j]} THEN match[i + 1, j + 1]
        ELSE pattern[i] = "*" /\ (i = Len(pattern) \/ match[i + 1, IndexFrom(text, pattern[i + 1], j)])
  IN match[1, 1]

\* i and j go through pattern and text; np and nt are where the last star was met.
MatchWild(pattern, text) ==
  LET match[i \in 1..Len(pattern) + 1, j \in 1..Len(text) + 1, np \in 0..Len(pattern), nt \in 0..Len(text) + 1] ==
        IF j > Len(text) THEN \A k \in i..Len(pattern) : pattern[k] = "*"
        ELSE IF i <= Len(pattern) /\ pattern[i] \in {"?", text[j]} THEN match[i + 1, j + 1, np, nt]
        ELSE IF i <= Len(pattern) /\ pattern[i] = "*" THEN match[i + 1, j, i, j]
        ELSE np # 0 /\ match[np + 1, nt + 1, np, nt + 1]
  IN match[1, 1, 0, 0]

\* One round of the reading loop, from character i on: a carriage return is
\* dropped, the rest is kept up to the newline, the end of the file or the end of
\* the buffer.
ReadLine(text, i) ==
  LET Kept(k) == SelectSeq(SubSeq(text, i, k), LAMBDA c : c # "\r")
      ends == {k \in i..Len(text) : text[k] = "\n" \/ Len(Kept(k)) = LineMax}
  IN IF ends = {} THEN [next |-> Len(text) + 1, linebuf |-> Append(Kept(Len(text)), "EOF")]
     ELSE [next |-> First(ends) + 1, linebuf |-> Kept(First(ends))]

\* Each line is put in front of those before it.  An empty one ends the list, and
\* so does the end of the file; the lines read after a full buffer are dropped up
\* to a newline.
LoadExcludeList(text) ==
  LET from[i \in 1..Len(text) + 1, isOverflowed \in BOOLEAN] ==
        LET read == ReadLine(text, i)
            buf == read.linebuf
            item == SubSeq(buf, 1, Len(buf) - 1)
        IN IF i > Len(text) THEN <<>>
           ELSE IF isOverflowed THEN from[read.next, buf[Len(buf)] # "\n"]
           ELSE IF item = <<>> THEN <<>>
           ELSE Append(from[read.next, Len(buf) >= LineMax], item)
  IN from[1, FALSE]

\* Read again only while it is empty.
Excludes(v) ==
  IF v.excludes # <<>> THEN v.excludes
  ELSE IF ExcludeFile \in DOMAIN v.files THEN LoadExcludeList(v.files[ExcludeFile]) ELSE <<>>

IsExcluded(v, name) == \E i \in DOMAIN Excludes(v) : MatchWild(Excludes(v)[i], name)

-----------------------------------------------------------------------------
(* The handler *)

\* canHandle's answer, and s after it.
Answer(yes, s) == [yes |-> yes, s |-> s]

\* Asked to edit or to download, the handler opens the file, and does not handle
\* a request for one that is not there.
EditorCanHandle(s) ==
  LET q == s.q
      asked == {name \in {<<"edit">>, <<"download">>} : HasParam(q, name, FALSE, FALSE)}
      opened == [s EXCEPT !.q.tempFile =
                   IF HasParam(q, <<"download">>, FALSE, FALSE) THEN Arg(q, <<"download">>) ELSE Arg(q, <<"edit">>)]
  IN IF q.url # EditUrl \/ q.method \notin {"GET", "POST", "DELETE", "PUT"} THEN Answer(FALSE, s)
     ELSE IF q.method # "GET" \/ HasParam(q, <<"list">>, FALSE, FALSE) THEN Answer(TRUE, s)
     ELSE IF asked = {} THEN Answer(TRUE, AddInteresting(s, {"If-Modified-Since"}))
     ELSE IF \E name \in asked : ~Exists(s, Arg(q, name)) THEN Answer(FALSE, s)
     ELSE Answer(TRUE, AddInteresting(opened, {"If-Modified-Since"}))

\* The listing is part of the answer.
List(s) ==
  LET v == [s.v EXCEPT !.excludes = IF s.v.files = <<>> THEN @ ELSE Excludes(s.v)]
      listed == [s EXCEPT !.v = [v EXCEPT !.listed = {name \in DOMAIN v.files : ~IsExcluded(v, name)}]]
  IN Send(listed, 200)

Get(s) ==
  IF HasParam(s.q, <<"list">>, FALSE, FALSE) THEN List(s)
  ELSE IF HasParam(s.q, <<"edit">>, FALSE, FALSE) \/ HasParam(s.q, <<"download">>, FALSE, FALSE)
  THEN SendFile(s, s.q.tempFile, HasParam(s.q, <<"download">>, FALSE, FALSE))
  ELSE Send(s, IF Header(s.q, "If-Modified-Since") = "buildTime" THEN 304 ELSE 200)

Path(q) == GetParam(q, <<"path">>, TRUE, FALSE)

Delete(s) ==
  IF ~HasParam(s.q, <<"path">>, TRUE, FALSE) THEN Send(s, 404)
  ELSE Send([s EXCEPT !.v.files = [p \in DOMAIN @ \ {Path(s.q)} |-> @[p]]], 200)

Stored(s) ==
  Send(s, IF HasParam(s.q, <<"data">>, TRUE, TRUE) /\ Exists(s, GetParam(s.q, <<"data">>, TRUE, TRUE)) THEN 200 ELSE 500)

WriteFile(s, path, content) ==
  [s EXCEPT !.v.files = [p \in DOMAIN @ \cup {path} |-> IF p = path THEN content ELSE @[p]]]

Put(s) ==
  IF ~HasParam(s.q, <<"path">>, TRUE, FALSE) THEN Send(s, 400)
  ELSE IF Exists(s, Path(s.q)) THEN Send(s, 200)
  ELSE Send(WriteFile(s, Path(s.q), <<"NUL">>), 200)

EditorHandleRequest(s, h) ==
  IF ~LetsThrough(s.q, h) THEN RequestAuthentication(s)
  ELSE CASE s.q.method = "GET" -> Get(s)
         [] s.q.method = "DELETE" -> Delete(s)
         [] s.q.method = "POST" -> Stored(s)
         [] s.q.method = "PUT" -> Put(s)
         [] OTHER -> s

\* The first piece opens the file, if the request may; _authenticated stays set.
OpenUpload(s, h, filename, index) ==
  IF index = 0 /\ (h.user = "" \/ Authenticate(s.q, h.user, h.password))
  THEN [WriteFile(s, filename, <<>>) EXCEPT !.q.tempFile = filename, !.v.authenticated = TRUE] ELSE s

WriteUpload(s, data, final) ==
  LET path == s.q.tempFile
  IN IF ~s.v.authenticated \/ path = Nothing THEN s
     ELSE [(IF Exists(s, path) THEN WriteFile(s, path, s.v.files[path] \o data) ELSE s) EXCEPT
             !.q.tempFile = IF final THEN Nothing ELSE @]

EditorHandleUpload(s, h, filename, index, data, final) == WriteUpload(OpenUpload(s, h, filename, index), data, final)
=============================================================================
