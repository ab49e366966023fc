------------------------------- MODULE AsyncTCP -------------------------------
(***************************************************************************)
(* The event queue of AsyncTCP.cpp between the lwIP thread, whose          *)
(* callbacks post events, and the async_tcp task, which takes them, runs   *)
(* the callbacks of the web server and calls back into lwIP.               *)
(*                                                                         *)
(* A connection has a number, its tcp_pcb; an AsyncClient of a connection  *)
(* lives at an address, which events carry as their arg and which a later  *)
(* client may get again.  The callbacks are those AsyncWebServerRequest    *)
(* sets: any of them may use the connection and may close it, and          *)
(* onDisconnect deletes the client.                                        *)
(*                                                                         *)
(* tcpip_api_call hands a call to the lwIP thread and waits for it.  A     *)
(* call on a pcb that lwIP has freed is let through as one without effect. *)
(* An event taken for a client that is no longer at its address ends the   *)
(* run: the task then works on freed memory, or deletes a client within    *)
(* its own deletion.                                                       *)
(***************************************************************************)
EXTENDS Naturals, Sequences, FiniteSets

CONSTANTS Addr,      \* addresses the heap gives AsyncClients
          Slots,     \* _number_of_closed_slots
          QueueLen,  \* 32: the length of _async_queue
          Free,      \* no client at the address
          NoSlot,    \* _closed_slot = -1
          NoEvent,
          MaxConns,  \* bound: connections accepted
          MaxPosted  \* bound: events posted by the lwIP thread

ASSUME SizeAssumption == Slots \in Nat \ {0} /\ QueueLen \in Nat \ {0}
ASSUME BoundAssumption == MaxConns \in Nat /\ MaxPosted \in Nat
ASSUME NoSlotAssumption == NoSlot \notin 1..Slots

VARIABLES
  queue,    \* _async_queue
  lw,       \* the lwIP thread: where it is, and the event of its callback
  live,     \* pcbs lwIP has not freed
  bound,    \* pcbs whose callback arg is their client
  conns,    \* connections so far
  posted,   \* events so far
  obj,      \* the client at each address, by its connection
  pcb,      \* clients whose _pcb is not NULL
  slot,     \* their _closed_slot
  closed,   \* _closed_slots
  index,    \* _closed_index
  attached, \* clients that have been given the callbacks of a request
  pc,       \* where the async_tcp task is
  cur,      \* the event it handles
  call,     \* its call into lwIP
  first,    \* _remove_events_with_arg: first_packet
  held,     \* and the packet on its way to the back of the queue
  last      \* the number of the latest event taken, per connection

lwipVars == <<lw, live, bound, conns, posted>>
clientVars == <<obj, pcb, slot, closed, index>>
taskVars == <<attached, pc, cur, call, first, held, last>>
vars == <<queue, lwipVars, clientVars, taskVars>>

Conn == 1..MaxConns
Slot == 1..Slots
Event == [kind : {"ACCEPT", "RECV", "POLL", "FIN", "ERROR", "CLEAR"},
          addr : Addr, c : Conn, n : 0..MaxPosted]
ASSUME NothingAssumption == Free \notin Conn /\ NoEvent \notin Event

TypeOK ==
  /\ queue \in Seq(Event) /\ Len(queue) <= QueueLen
  /\ lw \in [pc : {"free", "callback", "post"}, e : Event \cup {NoEvent}]
  /\ live \subseteq Conn /\ bound \subseteq Conn
  /\ conns \in 0..MaxConns /\ posted \in 0..MaxPosted
  /\ obj \in [Addr -> Conn \cup {Free}]
  /\ pcb \subseteq Conn
  /\ slot \in [Conn -> Slot \cup {NoSlot}]
  /\ closed \in [Slot -> 0..(MaxConns + 1)] /\ index \in 1..(MaxConns + 1)
  /\ attached \subseteq Conn
  /\ pc \in {"wait", "callback", "return", "slot", "call", "detach", "clear", "evaluate",
             "abort", "discard", "fin", "first", "putback", "rotate", "crashed"}
  /\ cur \in Event \cup {NoEvent}
  /\ call \in [what : {"use", "close", "abort"}, slot : Slot \cup {NoSlot}]
  /\ first \in Event \cup {NoEvent} /\ held \in Event \cup {NoEvent}
  /\ last \in [Conn -> 0..MaxPosted]

Init ==
  /\ queue = <<>> /\ lw = [pc |-> "free", e |-> NoEvent]
  /\ live = {} /\ bound = {} /\ conns = 0 /\ posted = 0
  /\ obj = [a \in Addr |-> Free] /\ pcb = {}
  /\ slot = [c \in Conn |-> NoSlot] /\ closed = [s \in Slot |-> 1] /\ index = 1
  /\ attached = {} /\ pc = "wait" /\ cur = NoEvent
  /\ call = [what |-> "use", slot |-> NoSlot]
  /\ first = NoEvent /\ held = NoEvent
  /\ last = [c \in Conn |-> 0]

-----------------------------------------------------------------------------
(* Closed slots *)

\* The slots a new client may take: of those not in use, the one freed first,
\* the last of several.
Unused == {s \in Slot : closed[s] # 0}
Oldest == {s \in Unused : \A t \in Unused : closed[s] < closed[t] \/ (closed[s] = closed[t] /\ t <= s)}

AllocateClosedSlot(c) ==
  IF Unused = {} THEN UNCHANGED <<slot, closed>>
  ELSE \E s \in Oldest : /\ slot' = [slot EXCEPT ![c] = s]
                         /\ closed' = [closed EXCEPT ![s] = 0]

\* Mutant: the client keeps the number of the slot it has given back.
FreeClosedSlotKept(c) ==
  IF slot[c] = NoSlot THEN UNCHANGED <<slot, closed, index>>
  ELSE /\ closed' = [closed EXCEPT ![slot[c]] = index]
       /\ index' = IF index > MaxConns THEN index ELSE index + 1
       /\ UNCHANGED slot

FreeClosedSlot(c) ==
  IF slot[c] = NoSlot THEN UNCHANGED <<slot, closed, index>>
  ELSE /\ closed' = [closed EXCEPT ![slot[c]] = index]
       /\ slot' = [slot EXCEPT ![c] = NoSlot]
       /\ index' = index + 1

-----------------------------------------------------------------------------
(* The lwIP thread *)

\* AsyncClient(pcb): it takes a slot and makes itself the arg of the pcb.
NewClient(c, a) ==
  /\ obj' = [obj EXCEPT ![a] = c] /\ pcb' = pcb \cup {c} /\ bound' = bound \cup {c}
  /\ AllocateClosedSlot(c)

\* AsyncServer::_accept: the client is made here, its request by the task.
Accept(a) ==
  /\ lw.pc = "free" /\ obj[a] = Free
  /\ conns < MaxConns /\ posted < MaxPosted
  /\ conns' = conns + 1 /\ posted' = posted + 1
  /\ live' = live \cup {conns + 1}
  /\ NewClient(conns + 1, a)
  /\ lw' = [pc |-> "post", e |-> [kind |-> "ACCEPT", addr |-> a, c |-> conns + 1, n |-> posted + 1]]
  /\ UNCHANGED <<queue, index, taskVars>>

\* lwIP reads the arg of the pcb and enters the callback.  Of a pcb that failed
\* it has freed the memory already.
Occurs(a, kind) ==
  LET c == obj[a] IN
  /\ lw.pc = "free" /\ posted < MaxPosted
  /\ c \in live \cap bound
  /\ posted' = posted + 1
  /\ live' = IF kind = "ERROR" THEN live \ {c} ELSE live
  /\ lw' = [pc |-> "callback", e |-> [kind |-> kind, addr |-> a, c |-> c, n |-> posted + 1]]
  /\ UNCHANGED <<queue, bound, conns, clientVars, taskVars>>

\* _tcp_recv, _tcp_poll, _tcp_error and, for the end of the stream, _lwip_fin:
\* the pcb is closed at once and its slot marked.
Callback ==
  LET c == lw.e.c IN
  /\ lw.pc = "callback"
  /\ lw' = [lw EXCEPT !.pc = "post"]
  /\ IF lw.e.kind = "FIN" /\ c \in pcb
     THEN /\ bound' = bound \ {c} /\ live' = live \ {c} /\ pcb' = pcb \ {c}
          /\ FreeClosedSlot(c)
     ELSE UNCHANGED <<bound, live, pcb, slot, closed, index>>
  /\ UNCHANGED <<queue, conns, posted, obj, taskVars>>

\* Mutant: the queue grows.
PostAlways ==
  /\ lw.pc = "post"
  /\ queue' = IF lw.e.kind = "ACCEPT" THEN <<lw.e>> \o queue ELSE Append(queue, lw.e)
  /\ lw' = [pc |-> "free", e |-> NoEvent]
  /\ UNCHANGED <<live, bound, conns, posted, clientVars, taskVars>>

\* xQueueSend waits for room without limit.
Post ==
  /\ lw.pc = "post" /\ Len(queue) < QueueLen
  /\ queue' = IF lw.e.kind = "ACCEPT" THEN <<lw.e>> \o queue ELSE Append(queue, lw.e)
  /\ lw' = [pc |-> "free", e |-> NoEvent]
  /\ UNCHANGED <<live, bound, conns, posted, clientVars, taskVars>>

\* A call of the task: only when the slot it was made with is not marked.
Execute ==
  LET c == cur.c
      passes == call.slot \notin Unused
      done == IF call.what = "use" THEN "return" ELSE "discard"
      failed == CASE call.what = "use" -> "return" [] call.what = "close" -> "abort"
                  [] call.what = "abort" -> "discard"
  IN
  /\ pc = "call" /\ lw.pc = "free"
  /\ \/ passes /\ pc' = done /\ live' = IF call.what = "use" THEN live ELSE live \ {c}
     \/ (~passes \/ call.what = "close") /\ pc' = failed /\ UNCHANGED live
  /\ UNCHANGED <<queue, lw, bound, conns, posted, clientVars, attached, cur, call, first, held, last>>

-----------------------------------------------------------------------------
(* The async_tcp task: one event *)

Goto(p) ==
  pc' = p /\ UNCHANGED <<attached, cur, call, first, held, last>>

Prepend(kind) ==
  /\ Len(queue) < QueueLen
  /\ queue' = <<[kind |-> kind, addr |-> cur.addr, c |-> cur.c, n |-> 0]>> \o queue

\* onDisconnect: the request is deleted, and the client with its slot.
Discard(c, a) ==
  /\ obj' = [obj EXCEPT ![a] = Free]
  /\ FreeClosedSlot(c)

Latest(m, n) == IF m > n THEN m ELSE n

\* The event's client is not, or no longer, the one at its address.
Misses(e) == e.kind \in {"RECV", "POLL", "FIN", "ERROR"} /\ obj[e.addr] # e.c

Take ==
  LET e == Head(queue) IN
  /\ pc = "wait" /\ queue # <<>> /\ (e.kind = "ERROR" => Misses(e))
  /\ queue' = Tail(queue) /\ cur' = e
  /\ last' = IF e.kind = "CLEAR" THEN last ELSE [last EXCEPT ![e.c] = Latest(@, e.n)]
  /\ attached' = IF e.kind = "ACCEPT" THEN attached \cup {e.c} ELSE attached
  /\ pc' = IF Misses(e) THEN "crashed" ELSE
            CASE e.kind = "ACCEPT" -> "wait"
              [] e.kind = "CLEAR" -> "first"
              [] e.kind = "FIN" -> "fin"
              [] e.kind = "RECV" -> "callback"
              [] e.kind = "POLL" -> IF e.c \in pcb THEN "callback" ELSE "wait"
  /\ UNCHANGED <<lwipVars, clientVars, call, first, held>>

\* _error; a client without a request has no onDisconnect and stays.
TakeError ==
  LET e == Head(queue) IN
  /\ pc = "wait" /\ queue # <<>> /\ e.kind = "ERROR" /\ ~Misses(e)
  /\ queue' = Tail(queue) /\ cur' = e
  /\ last' = [last EXCEPT ![e.c] = Latest(@, e.n)]
  /\ pcb' = pcb \ {e.c}
  /\ IF e.c \in attached THEN Discard(e.c, e.addr) ELSE UNCHANGED <<obj, slot, closed, index>>
  /\ UNCHANGED <<lwipVars, attached, pc, call, first, held>>

\* _fin
ClearForFin ==
  /\ pc = "fin"
  /\ Prepend("CLEAR")
  /\ IF cur.c \in attached THEN Discard(cur.c, cur.addr)
     ELSE UNCHANGED <<obj, slot, closed, index>>
  /\ pc' = "wait"
  /\ UNCHANGED <<lwipVars, pcb, attached, cur, call, first, held, last>>

-----------------------------------------------------------------------------
(* The task: the callbacks of a request *)

\* write, ack and their like take _pcb, and then _closed_slot, for a call.
Use ==
  /\ pc = "callback" /\ cur.c \in pcb
  /\ pc' = "slot" /\ call' = [call EXCEPT !.what = "use"]
  /\ UNCHANGED <<queue, lwipVars, clientVars, attached, cur, first, held, last>>

ReadSlot ==
  /\ pc = "slot"
  /\ pc' = "call" /\ call' = [call EXCEPT !.slot = slot[cur.c]]
  /\ UNCHANGED <<queue, lwipVars, clientVars, attached, cur, first, held, last>>

Return ==
  /\ pc \in {"callback", "return"}
  /\ Goto("wait")
  /\ UNCHANGED <<queue, lwipVars, clientVars>>

\* _close
Close ==
  /\ pc \in {"callback", "return"}
  /\ cur.c \in attached \cap pcb
  /\ Goto("detach")
  /\ UNCHANGED <<queue, lwipVars, clientVars>>

\* Mutant: _close leaves the callback arg.
DetachNothing ==
  /\ pc = "detach"
  /\ Goto("clear")
  /\ UNCHANGED <<queue, lwipVars, clientVars>>

Detach ==
  /\ pc = "detach"
  /\ bound' = bound \ {cur.c}
  /\ Goto("clear")
  /\ UNCHANGED <<queue, lw, live, conns, posted, clientVars>>

\* Mutant: the events of the client are not cleared.
ClearNothing ==
  /\ pc = "clear"
  /\ Goto("evaluate")
  /\ UNCHANGED <<queue, lwipVars, clientVars>>

Clear ==
  /\ pc = "clear"
  /\ Prepend("CLEAR")
  /\ Goto("evaluate")
  /\ UNCHANGED <<lwipVars, clientVars>>

\* The call of _close, and of abort when it fails; lwIP may have closed the pcb
\* meanwhile.
CallOfClose(from, what) ==
  /\ pc = from
  /\ pc' = IF cur.c \in pcb THEN "slot" ELSE "discard"
  /\ call' = [call EXCEPT !.what = what]
  /\ UNCHANGED <<queue, lwipVars, clientVars, attached, cur, first, held, last>>

Closed ==
  /\ pc = "discard"
  /\ pcb' = pcb \ {cur.c}
  /\ Discard(cur.c, cur.addr)
  /\ pc' = "wait"
  /\ UNCHANGED <<queue, lwipVars, attached, cur, call, first, held, last>>

-----------------------------------------------------------------------------
(* The task: _remove_events_with_arg *)

\* The arg of an ACCEPT is the server.
Matches(e) == e.kind # "ACCEPT" /\ e.addr = cur.addr

Drop(p) ==
  /\ queue' = Tail(queue)
  /\ Goto(p)
  /\ UNCHANGED <<lwipVars, clientVars>>

Hold ==
  /\ held' = Head(queue) /\ queue' = Tail(queue)
  /\ first' = IF pc = "first" THEN Head(queue) ELSE first
  /\ pc' = "putback"
  /\ UNCHANGED <<lwipVars, clientVars, attached, cur, call, last>>

Finish ==
  /\ pc' = "wait" /\ first' = NoEvent /\ held' = NoEvent
  /\ UNCHANGED <<queue, lwipVars, clientVars, attached, cur, call, last>>

FindFirst ==
  /\ pc = "first"
  /\ IF queue = <<>> THEN Finish
     ELSE IF Matches(Head(queue)) THEN Drop("first") ELSE Hold

PutBack ==
  /\ pc = "putback" /\ Len(queue) < QueueLen
  /\ queue' = Append(queue, held)
  /\ Goto("rotate")
  /\ UNCHANGED <<lwipVars, clientVars>>

Rotate ==
  /\ pc = "rotate"
  /\ IF queue = <<>> \/ Head(queue) = first THEN Finish
     ELSE IF Matches(Head(queue)) THEN Drop("rotate") ELSE Hold

-----------------------------------------------------------------------------
Lwip ==
  \/ \E a \in Addr : Accept(a) \/ \E kind \in {"RECV", "POLL", "FIN", "ERROR"} : Occurs(a, kind)
  \/ Callback \/ Post \/ Execute

Task ==
  \/ Take \/ TakeError \/ ClearForFin
  \/ Use \/ ReadSlot \/ Return
  \/ Close \/ Detach \/ Clear \/ Closed
  \/ CallOfClose("evaluate", "close") \/ CallOfClose("abort", "abort")
  \/ FindFirst \/ PutBack \/ Rotate

Next == Lwip \/ Task

Spec == Init /\ [][Next]_vars

-----------------------------------------------------------------------------
(* Properties *)

\* The event in hand was posted before one of its connection taken earlier.
OutOfOrder == cur # NoEvent /\ cur.kind # "CLEAR" /\ cur.n < last[cur.c]

\* An event for a deleted client reaches the task in two ways only: as the FIN
\* lwIP was about to post, or out of order.  The clearing of the queue and the
\* wait for lwIP in _close keep all others off; lwIP's callbacks run on clients
\* that are there.
OnlyFinIsStale ==
  /\ pc = "crashed" => cur.kind = "FIN" \/ OutOfOrder
  /\ lw.pc = "callback" => obj[lw.e.addr] = lw.e.c

\* A closed slot in use is of one client, whichever threads take and give slots.
SlotOfOne ==
  \A c \in Conn : slot[c] # NoSlot =>
    /\ closed[slot[c]] = 0
    /\ \A d \in Conn : slot[d] = slot[c] => d = c
=============================================================================
