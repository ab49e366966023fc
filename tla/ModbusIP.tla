------------------------------- MODULE ModbusIP -------------------------------
(***************************************************************************)
(* ModbusIP of modbus-esp: a table of TCP connections, some made by the    *)
(* application to remote slaves ("out"), some accepted from remote masters *)
(* ("in"), and the transactions the application waits for.                 *)
(*                                                                         *)
(* A frame on a connection is two pieces, front (the MBAP header and the   *)
(* start of the PDU) and rest, so that a read can come too early.  The     *)
(* frame of an oversized request has a front that says so.                 *)
(*                                                                         *)
(* task() is cut where it runs a callback or waits for bytes: the steps of *)
(* the application and of the network come between its steps.              *)
(***************************************************************************)
EXTENDS Naturals, Sequences, SequencesExt, FiniteSets

CONSTANTS Peer,         \* remote addresses
          Slots,        \* MODBUSIP_MAX_CLIENTS
          MaxTrans,     \* MODBUSIP_MAX_TRANSACIONS
          AutoConnect,  \* autoConnectMode
          Unanswered,   \* no transaction id, no connection
          MaxConns,     \* bound: connections made or accepted
          MaxSends,     \* bound: requests of the application
          MaxFrames     \* bound: requests of remote masters

ASSUME SlotsAssumption == Slots \in Nat \ {0} /\ MaxTrans \in Nat \ {0}
ASSUME AutoAssumption == AutoConnect \in BOOLEAN
ASSUME BoundAssumption == MaxConns \in Nat /\ MaxSends \in Nat /\ MaxFrames \in Nat

VARIABLES
  tcpclient, \* the slots: a connection or Unanswered
  open,      \* the connections that are up
  backlog,   \* connections the server has not looked at
  conns,     \* connections so far
  stream,    \* bytes received on each connection
  late,      \* the rest of a frame that is still on its way
  asked,     \* requests a remote slave has not answered: [conn, id]
  trans,     \* _trans
  id,        \* transactionId: a number per request, far from its 2^16 wrap
  called,    \* callbacks made: [id, code, of]
  frames,    \* requests of remote masters so far
  served,    \* frames slavePDU has carried out
  refused    \* frames answered with an exception for being short or too long

vars == <<tcpclient, open, backlog, conns, stream, late, asked, trans, id, called,
          frames, served, refused>>
network == <<open, backlog, conns, stream, late, frames>>

Conn == [ip : Peer, side : {"in", "out"}, k : 1..MaxConns]
ASSUME UnansweredAssumption == Unanswered \notin Conn
Frame == [of : 1..(MaxSends + MaxFrames), fc : {"asked", "other", "exception", "big"}]
Piece == [frame : Frame, part : {"front", "rest"}]
Event == {"EX_SUCCESS", "exception", "EX_UNEXPECTED_RESPONSE", "EX_TIMEOUT", "EX_CANCEL"}

TypeOK ==
  /\ tcpclient \in [1..Slots -> Conn \cup {Unanswered}]
  /\ open \subseteq Conn
  /\ backlog \in Seq(Conn)
  /\ conns \in 0..MaxConns
  /\ stream \in [Conn -> Seq(Piece)] /\ late \in [Conn -> Seq(Piece)]
  /\ asked \subseteq [conn : Conn, id : 1..MaxSends]
  /\ trans \in Seq([id : 1..MaxSends, forced : BOOLEAN]) /\ Len(trans) <= MaxTrans
  /\ id \in 0..MaxSends
  /\ called \subseteq [id : 1..MaxSends, code : Event, of : 0..(MaxSends + MaxFrames)]
  /\ frames \in 0..MaxFrames
  /\ served \subseteq Frame /\ refused \subseteq Frame

Init ==
  /\ tcpclient = [i \in 1..Slots |-> Unanswered]
  /\ open = {} /\ backlog = <<>> /\ conns = 0
  /\ stream = [c \in Conn |-> <<>>] /\ late = [c \in Conn |-> <<>>]
  /\ asked = {} /\ trans = <<>> /\ id = 0 /\ called = {}
  /\ frames = 0 /\ served = {} /\ refused = {}

-----------------------------------------------------------------------------
(* The slots *)

FreeSlots == {i \in 1..Slots : tcpclient[i] = Unanswered}
First(S) == CHOOSE i \in S : \A j \in S : i <= j

\* getSlave, getMaster: the slots with a live connection with ip.
With(ip, side) ==
  {i \in 1..Slots : tcpclient[i] \in open /\ tcpclient[i].ip = ip /\ tcpclient[i].side = side}

\* Mutant: a connection to the address is not looked for.
ConnectBlind(ip) ==
  /\ FreeSlots # {}
  /\ conns < MaxConns
  /\ conns' = conns + 1
  /\ LET c == [ip |-> ip, side |-> "out", k |-> conns + 1] IN
     /\ tcpclient' = [tcpclient EXCEPT ![First(FreeSlots)] = c]
     /\ open' \in {open, open \cup {c}}

\* connect(): a slot is taken before the connection is made, which may fail.
Connect(ip) ==
  /\ With(ip, "out") = {} /\ FreeSlots # {}
  /\ conns < MaxConns
  /\ conns' = conns + 1
  /\ LET c == [ip |-> ip, side |-> "out", k |-> conns + 1] IN
     /\ tcpclient' = [tcpclient EXCEPT ![First(FreeSlots)] = c]
     /\ open' \in {open, open \cup {c}}

\* The connections of gone go down, with what was on its way.
CloseAll(gone) ==
  /\ open' = open \ gone
  /\ stream' = [c \in Conn |-> IF c \in gone THEN <<>> ELSE stream[c]]
  /\ late' = [c \in Conn |-> IF c \in gone THEN <<>> ELSE late[c]]
  /\ asked' = {a \in asked : a.conn \notin gone}

AppConnect(ip) ==
  /\ Connect(ip)
  /\ UNCHANGED <<backlog, stream, late, asked, trans, id, called, frames, served, refused>>

Disconnect(ip) ==
  \E i \in With(ip, "out") :
    /\ CloseAll({tcpclient[i]})
    /\ tcpclient' = [tcpclient EXCEPT ![i] = Unanswered]
    /\ UNCHANGED <<backlog, conns, trans, id, called, frames, served, refused>>

-----------------------------------------------------------------------------
(* send: writeHreg, readHreg, pullCoil ... *)

\* With no connection: connect in its place when autoConnect is on.
SendConnects(ip) ==
  /\ Len(trans) < MaxTrans
  /\ AutoConnect /\ With(ip, "out") = {}
  /\ AppConnect(ip)

\* waits: a read, or a write with a callback.  The id is used up even when the
\* connection takes less than the whole frame.
Send(ip, waits, taken) ==
  /\ Len(trans) < MaxTrans
  /\ id < MaxSends
  /\ With(ip, "out") # {}
  /\ id' = id + 1
  /\ asked' = IF taken THEN asked \cup {[conn |-> tcpclient[First(With(ip, "out"))], id |-> id + 1]}
              ELSE asked
  /\ trans' = IF taken /\ waits THEN Append(trans, [id |-> id + 1, forced |-> FALSE]) ELSE trans
  /\ UNCHANGED <<tcpclient, called, served, refused, network>>

DropTransactions ==
  /\ trans' = [k \in DOMAIN trans |-> [trans[k] EXCEPT !.forced = TRUE]]
  /\ UNCHANGED <<tcpclient, asked, id, called, served, refused, network>>

-----------------------------------------------------------------------------
(* task(): cleanup *)

FreeClosed(i) ==
  /\ tcpclient[i] \notin open \cup {Unanswered}
  /\ tcpclient' = [tcpclient EXCEPT ![i] = Unanswered]
  /\ UNCHANGED <<asked, trans, id, called, served, refused, network>>

Without(k) == RemoveAt(trans, k)

\* Mutant: the transaction is called back but stays in the list.
EndStays(k) ==
  /\ called' = called \cup {[id |-> trans[k].id, of |-> 0,
                             code |-> IF trans[k].forced THEN "EX_CANCEL" ELSE "EX_TIMEOUT"]}
  /\ UNCHANGED <<tcpclient, asked, trans, id, served, refused, network>>

\* Mutant: the elapsed time is not compared.
EndForced(k) ==
  /\ trans[k].forced
  /\ called' = called \cup {[id |-> trans[k].id, code |-> "EX_CANCEL", of |-> 0]}
  /\ trans' = Without(k)
  /\ UNCHANGED <<tcpclient, asked, id, served, refused, network>>

\* MODBUSIP_TIMEOUT has passed, or the event is forced.
End(k) ==
  /\ called' = called \cup {[id |-> trans[k].id, of |-> 0,
                             code |-> IF trans[k].forced THEN "EX_CANCEL" ELSE "EX_TIMEOUT"]}
  /\ trans' = Without(k)
  /\ UNCHANGED <<tcpclient, asked, id, served, refused, network>>

-----------------------------------------------------------------------------
(* task(): new connections *)

\* Mutant: MODBUSIP_UNIQUE_CLIENTS is not defined.
AcceptAny(admitted) ==
  LET c == Head(backlog)
      stays == c \in open /\ admitted /\ FreeSlots # {}
  IN
  /\ backlog # <<>>
  /\ backlog' = Tail(backlog)
  /\ tcpclient' = IF stays THEN [tcpclient EXCEPT ![First(FreeSlots)] = c] ELSE tcpclient
  /\ CloseAll(IF stays THEN {} ELSE {c})
  /\ UNCHANGED <<conns, trans, id, called, frames, served, refused>>

\* A live one that cbConnect admits takes the place of an earlier one from that
\* address, or a free slot; any other is closed.
Accept(admitted) ==
  LET c == Head(backlog)
      old == IF c \in open /\ admitted THEN With(c.ip, "in") ELSE {}
      kept == [i \in 1..Slots |-> IF i \in old THEN Unanswered ELSE tcpclient[i]]
      free == FreeSlots \cup old
      stays == c \in open /\ admitted /\ free # {}
  IN
  /\ backlog # <<>>
  /\ backlog' = Tail(backlog)
  /\ tcpclient' = IF stays THEN [kept EXCEPT ![First(free)] = c] ELSE kept
  /\ CloseAll({tcpclient[i] : i \in old} \cup (IF stays THEN {} ELSE {c}))
  /\ UNCHANGED <<conns, trans, id, called, frames, served, refused>>

-----------------------------------------------------------------------------
(* task(): one frame of a connection *)

Readable(i) == tcpclient[i] \in open /\ stream[tcpclient[i]] # <<>>
Next1(i) == stream[tcpclient[i]][1]
HasRest(i) == Len(stream[tcpclient[i]]) > 1
Consume(i, n) ==
  stream' = [stream EXCEPT ![tcpclient[i]] = SubSeq(@, n + 1, Len(@))]

InStep(i) == Readable(i) /\ Next1(i).part = "front"

\* Bytes out of step: no protocol id 0 where the header should be, and all that
\* is there is dropped.
Resync(i) ==
  /\ Readable(i) /\ Next1(i).part = "rest"
  /\ stream' = [stream EXCEPT ![tcpclient[i]] = <<>>]
  /\ UNCHANGED <<tcpclient, open, backlog, conns, late, asked, trans, id, called, frames, served, refused>>

\* _len > MODBUSIP_MAXFRAME: an exception, and only two bytes more are dropped.
Oversized(i) ==
  /\ InStep(i) /\ Next1(i).frame.fc = "big"
  /\ Consume(i, 1)
  /\ refused' = refused \cup {Next1(i).frame}
  /\ UNCHANGED <<tcpclient, open, backlog, conns, late, asked, trans, id, called, frames, served>>

\* The rest does not come while readBytes waits: an exception to a master,
\* nothing to a slave.
Short(i) ==
  /\ InStep(i) /\ Next1(i).frame.fc # "big" /\ ~HasRest(i)
  /\ Consume(i, 1)
  /\ refused' = IF tcpclient[i].side = "in" THEN refused \cup {Next1(i).frame} ELSE refused
  /\ UNCHANGED <<tcpclient, open, backlog, conns, late, asked, trans, id, called, frames, served>>

ServeRequest(i) ==
  /\ InStep(i) /\ Next1(i).frame.fc # "big" /\ HasRest(i)
  /\ tcpclient[i].side = "in"
  /\ Consume(i, 2)
  /\ served' = served \cup {Next1(i).frame}
  /\ UNCHANGED <<tcpclient, open, backlog, conns, late, asked, trans, id, called, frames, refused>>

\* Mutant: the oldest transaction is taken for the one the response answers.
NamedOldest(f) == IF trans = <<>> THEN {} ELSE {1}

\* The transaction a response names.
Named(f) == {k \in DOMAIN trans : trans[k].id = f.of}

Code(f) == CASE f.fc = "asked" -> "EX_SUCCESS"
             [] f.fc = "exception" -> "exception"
             [] f.fc = "other" -> "EX_UNEXPECTED_RESPONSE"

\* A response of a slave: its transaction is called back and removed; a response
\* that names none is dropped.
TakeResponse(i) ==
  LET f == Next1(i).frame IN
  /\ InStep(i) /\ f.fc # "big" /\ HasRest(i)
  /\ tcpclient[i].side = "out"
  /\ Consume(i, 2)
  /\ IF Named(f) = {} THEN UNCHANGED <<trans, called>>
     ELSE \E k \in Named(f) :
            /\ called' = called \cup {[id |-> trans[k].id, code |-> Code(f), of |-> f.of]}
            /\ trans' = Without(k)
  /\ UNCHANGED <<tcpclient, open, backlog, conns, late, asked, id, frames, served, refused>>

-----------------------------------------------------------------------------
(* The network *)

\* A frame, its rest at once or later.
Send1(c, f, whole) ==
  /\ late[c] = <<>>
  /\ stream' = [stream EXCEPT ![c] = @ \o IF whole
                  THEN <<[frame |-> f, part |-> "front"], [frame |-> f, part |-> "rest"]>>
                  ELSE <<[frame |-> f, part |-> "front"]>>]
  /\ late' = [late EXCEPT ![c] = IF whole THEN <<>> ELSE <<[frame |-> f, part |-> "rest"]>>]

\* A remote slave answers, be it long after the timeout.
SlaveAnswers(a, fc, whole) ==
  /\ a.conn \in open
  /\ Send1(a.conn, [of |-> a.id, fc |-> fc], whole)
  /\ asked' = asked \ {a}
  /\ UNCHANGED <<tcpclient, open, backlog, conns, trans, id, called, frames, served, refused>>

MasterConnects(ip) ==
  /\ conns < MaxConns
  /\ conns' = conns + 1
  /\ LET c == [ip |-> ip, side |-> "in", k |-> conns + 1] IN
     open' = open \cup {c} /\ backlog' = Append(backlog, c)
  /\ UNCHANGED <<tcpclient, stream, late, asked, trans, id, called, frames, served, refused>>

MasterAsks(c, fc, whole) ==
  /\ c \in open /\ c.side = "in"
  /\ frames < MaxFrames
  /\ frames' = frames + 1
  /\ Send1(c, [of |-> MaxSends + frames + 1, fc |-> fc], whole)
  /\ UNCHANGED <<tcpclient, open, backlog, conns, asked, trans, id, called, served, refused>>

RestArrives(c) ==
  /\ late[c] # <<>>
  /\ stream' = [stream EXCEPT ![c] = @ \o late[c]]
  /\ late' = [late EXCEPT ![c] = <<>>]
  /\ UNCHANGED <<tcpclient, open, backlog, conns, asked, trans, id, called, frames, served, refused>>

PeerCloses(c) ==
  /\ c \in open
  /\ CloseAll({c})
  /\ UNCHANGED <<tcpclient, backlog, conns, trans, id, called, frames, served, refused>>

-----------------------------------------------------------------------------
Application ==
  \/ \E ip \in Peer : AppConnect(ip) \/ Disconnect(ip) \/ SendConnects(ip)
  \/ \E ip \in Peer, waits \in BOOLEAN, taken \in BOOLEAN : Send(ip, waits, taken)
  \/ DropTransactions

Cleanup == (\E i \in 1..Slots : FreeClosed(i)) \/ (\E k \in DOMAIN trans : End(k))

Serve(i) == Resync(i) \/ Oversized(i) \/ Short(i) \/ ServeRequest(i) \/ TakeResponse(i)

Network ==
  \/ \E a \in asked, fc \in {"asked", "other", "exception"}, whole \in BOOLEAN :
       SlaveAnswers(a, fc, whole)
  \/ \E ip \in Peer : MasterConnects(ip)
  \/ \E c \in open, fc \in {"asked", "big"}, whole \in BOOLEAN : MasterAsks(c, fc, whole)
  \/ \E c \in Conn : RestArrives(c) \/ PeerCloses(c)

Next == Application \/ Cleanup \/ (\E admitted \in BOOLEAN : Accept(admitted)) \/ (\E i \in 1..Slots : Serve(i)) \/ Network

Spec == Init /\ [][Next]_vars

\* loop() calls task(), and its cleanup looks at every transaction.
FairSpec == Spec /\ \A k \in 1..MaxTrans : WF_vars(k \in DOMAIN trans /\ End(k))

-----------------------------------------------------------------------------
(* Properties *)

\* A transaction is called back once, and with a response only with its own,
\* however late, reordered or cancelled.
CalledOnceWithOwn ==
  \A x, y \in called : /\ x.id = y.id => x = y
                       /\ x.of \in {0, x.id}

\* At most one slot holds a live connection to, and one a live connection from,
\* a remote address, whatever connects, fails to and reconnects.
OneConnectionPerPeer ==
  \A ip \in Peer, side \in {"in", "out"} : Cardinality(With(ip, side)) <= 1

\* A request that was answered with an exception for arriving in part is not
\* carried out when the rest comes.
RefusedNotServed == served \cap refused = {}

\* Every transaction ends.
TransactionEnds ==
  \A n \in 1..MaxSends :
    (\E k \in DOMAIN trans : trans[k].id = n) ~> (\A k \in DOMAIN trans : trans[k].id # n)

\* Types, and a connection of its own for every peer and side.
SlotsOK == TypeOK /\ OneConnectionPerPeer

\* What is called back or served is what was asked and not refused.
AnswersOwn == CalledOnceWithOwn /\ RefusedNotServed
=============================================================================
