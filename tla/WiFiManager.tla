----------------------------- MODULE WiFiManager -----------------------------
(***************************************************************************)
(* The device's network and the WebServer objects that come and go with    *)
(* it.  Objects are numbered; the listener is the one whose port 80 is     *)
(* open, routes are the objects that have handlers, stale those whose      *)
(* _pcb is freed memory.  luck.tries is what becomes of each call of       *)
(* smoothConnect, in order; with none left the device runs out of stack    *)
(* and restarts.  luck.freed = "astray" is a crash on freed memory.        *)
(***************************************************************************)
EXTENDS Integers, Sequences

CONSTANTS ApName,     \* the network the device opens itself
          NoObject
ASSUME ObjectAssumption == NoObject \notin Nat \ {0}

\* The state before the constructor: my_webServer has not been given a value.
BeforeWiFi ==
  [ssid |-> ApName, object |-> NoObject, listener |-> NoObject, objects |-> 0, routes |-> {}, stale |-> {},
   isAP |-> TRUE, isFirstStart |-> TRUE, mode |-> "ap", last |-> "none", restarts |-> FALSE]

-----------------------------------------------------------------------------
(* The server's pcb *)

\* new WebServer
CreateServer(w) == [w EXCEPT !.objects = @ + 1, !.object = w.objects + 1]

\* The port is bound by the object that listens.
BindFails(w) == w.listener # NoObject

Listen(w, object) == [w EXCEPT !.listener = object]

\* AsyncServer::begin: after a bind error _pcb still points to the pcb it has closed.
ServerBegin(w, object) ==
  IF BindFails(w) THEN [w EXCEPT !.stale = @ \cup {object}] ELSE Listen(w, object)

\* Closing a freed pcb crashes, does nothing, or closes a connection that has been
\* given the memory since, as Disconnect may anyway.
ServerEnd(w, object, luck) ==
  IF object \in w.stale THEN [w EXCEPT !.restarts = @ \/ luck.freed = "astray"]
  ELSE [w EXCEPT !.listener = IF @ = object THEN NoObject ELSE @]

\* WebServer::begin: the routes, then the port.
WebServerBegin(w) == ServerBegin([w EXCEPT !.routes = @ \cup {w.object}], w.object)

Reset(w, object) == [w EXCEPT !.routes = @ \ {object}]

DeleteServer(w, luck) == ServerEnd(Reset(w, w.object), w.object, luck)

-----------------------------------------------------------------------------
(* The network *)

ClearVar(w, luck) ==
  [(IF w.object = NoObject \/ w.isFirstStart THEN w ELSE DeleteServer(w, luck)) EXCEPT
     !.object = NoObject, !.mode = "off"]

SetupAP(w, luck) ==
  [WebServerBegin(CreateServer([ClearVar(w, luck) EXCEPT !.mode = "ap"])) EXCEPT !.isAP = TRUE]

\* Mutant: the old server is cleared away before the new network is there.
SmoothConnectClears(w, connects) ==
  IF connects
  THEN [ClearVar([w EXCEPT !.isFirstStart = FALSE], [freed |-> "next"]) EXCEPT !.mode = "station", !.isAP = FALSE]
  ELSE w

SmoothConnect(w, connects) ==
  IF connects THEN [w EXCEPT !.mode = "station", !.isAP = FALSE] ELSE w

\* One call of smoothConnect for the network x.ssid.  A failure in the access point
\* opens it again; one in a station goes back to the old network, which may fail
\* in the same way.
Attempt(x, connects, luck) ==
  LET cleared == ClearVar(x.w, luck)
  IN IF x.done THEN x
     ELSE IF connects
     THEN [x EXCEPT !.done = TRUE, !.w = [SmoothConnect(@, TRUE) EXCEPT !.ssid = x.ssid, !.isFirstStart = FALSE]]
     ELSE IF x.w.isAP THEN [x EXCEPT !.done = TRUE, !.w = [SetupAP(@, luck) EXCEPT !.ssid = x.w.ssid]]
     ELSE [done |-> cleared.restarts, w |-> cleared, ssid |-> x.w.ssid]

\* The caller is told of a failure even when the old network is reached again.
SetNetwork(w, ssid, luck) ==
  LET n == Len(luck.tries)
      at[i \in 0..n] ==
        IF i = 0 THEN [done |-> FALSE, w |-> w, ssid |-> ssid]
        ELSE Attempt(at[i - 1], luck.tries[i], luck)
  IN [at[n].w EXCEPT !.restarts = @ \/ ~at[n].done,
                     !.last = IF n > 0 /\ luck.tries[1] THEN "connected" ELSE "failed"]
=============================================================================
