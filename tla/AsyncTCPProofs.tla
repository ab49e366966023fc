---------------------------- MODULE AsyncTCPProofs ----------------------------
(***************************************************************************)
(* What holds between the lwIP thread and the async_tcp task, for any      *)
(* number of addresses, closed slots, connections and events, and any      *)
(* length of the queue.                                                    *)
(*                                                                         *)
(* Slots.  They are taken on the lwIP thread and given back on either,     *)
(* without the lock on the way back.  A slot is given back with the number *)
(* _closed_index, which must not be 0, the mark of a slot in use; and what *)
(* is given back is the slot of the client an event names, so every event  *)
(* that is queued, held or handled must name one.  That _closed_index does *)
(* not outrun the connections needs a count: of those accepted, every one  *)
(* gives its slot back once.                                               *)
(*                                                                         *)
(* Events of deleted clients.  Numbers says which events may still come,   *)
(* Placed whose clients are at their addresses, Ordered what may stand     *)
(* before what in the queue, and Strays, by those, where the events of a   *)
(* deleted client are: behind a CLEAR for it, or behind a later event of   *)
(* its connection that has been taken, or, while the queue is being        *)
(* cleared, where the clearing has still to look.                          *)
(***************************************************************************)
EXTENDS AsyncTCP, FiniteSetTheorems, TLAPS

SlotTypes ==
  /\ slot \in [Conn -> Slot \cup {NoSlot}]
  /\ closed \in [Slot -> Nat]
  /\ index \in Nat \ {0}

SlotInv == SlotTypes /\ SlotOfOne

\* Events name clients wherever they are.
EventTypes ==
  /\ queue \in Seq(Event)
  /\ lw \in [pc : {"free", "callback", "post"}, e : Event \cup {NoEvent}]
  /\ lw.pc # "free" => lw.e \in Event
  /\ pc # "wait" => cur \in Event
  /\ pc = "putback" => held \in Event
  /\ call \in [what : {"use", "close", "abort"}, slot : Slot \cup {NoSlot}]
  /\ live \subseteq Conn /\ conns \in Nat /\ posted \in Nat

IInv == EventTypes /\ SlotInv

\* What the two slot operations do to the invariant, wherever they run.
LEMMA Allocate ==
  ASSUME SlotInv, NEW c \in Conn, AllocateClosedSlot(c), UNCHANGED index
  PROVE  SlotInv'
<1>1. CASE UNCHANGED <<slot, closed>>
  BY <1>1 DEF SlotInv, SlotTypes, SlotOfOne
<1>2. CASE \E s \in Oldest : /\ slot' = [slot EXCEPT ![c] = s]
                             /\ closed' = [closed EXCEPT ![s] = 0]
  <2>1. PICK s \in Oldest : /\ slot' = [slot EXCEPT ![c] = s]
                            /\ closed' = [closed EXCEPT ![s] = 0]
    BY <1>2
  <2>2. s \in Slot /\ closed[s] # 0
    BY DEF Oldest, Unused
  <2>3. SlotTypes'
    BY <2>1, <2>2 DEF SlotInv, SlotTypes
  <2>4. \A d \in Conn : slot[d] # s
    BY <2>2, NoSlotAssumption DEF SlotInv, SlotTypes, SlotOfOne, Slot
  <2>5. SlotOfOne'
    BY <2>1, <2>2, <2>4 DEF SlotInv, SlotTypes, SlotOfOne
  <2> QED BY <2>3, <2>5 DEF SlotInv
<1> QED BY <1>1, <1>2 DEF AllocateClosedSlot

LEMMA FreeOne ==
  ASSUME SlotInv, NEW c \in Conn, FreeClosedSlot(c)
  PROVE  SlotInv'
<1>1. CASE slot[c] = NoSlot
  BY <1>1 DEF FreeClosedSlot, SlotInv, SlotTypes, SlotOfOne
<1>2. CASE slot[c] # NoSlot
  <2>1. /\ closed' = [closed EXCEPT ![slot[c]] = index]
        /\ slot' = [slot EXCEPT ![c] = NoSlot]
        /\ index' = index + 1
    BY <1>2 DEF FreeClosedSlot
  <2>2. slot[c] \in Slot
    BY <1>2 DEF SlotInv, SlotTypes
  <2>3. SlotTypes'
    BY <2>1, <2>2 DEF SlotInv, SlotTypes
  <2>4. SlotOfOne'
    BY <2>1, <2>2, <1>2 DEF SlotInv, SlotTypes, SlotOfOne
  <2> QED BY <2>3, <2>4 DEF SlotInv
<1> QED BY <1>1, <1>2

-----------------------------------------------------------------------------
LEMMA EventsInit == Init => EventTypes
BY DEF Init, EventTypes

\* The lwIP thread makes events of clients, and passes on those it made.
LEMMA EventsLwip == EventTypes /\ Lwip => EventTypes'
<1> SUFFICES ASSUME EventTypes, Lwip PROVE EventTypes'
  OBVIOUS
<1> USE BoundAssumption DEF EventTypes, taskVars
<1>1. ASSUME NEW a \in Addr, Accept(a) PROVE EventTypes'
  <2>1. conns + 1 \in Conn /\ posted + 1 \in 0..MaxPosted
    BY <1>1 DEF Accept, NewClient, Conn
  <2>2. [kind |-> "ACCEPT", addr |-> a, c |-> conns + 1, n |-> posted + 1] \in Event
    BY <2>1 DEF Event
  <2>3. lw' = [pc |-> "post", e |-> [kind |-> "ACCEPT", addr |-> a, c |-> conns + 1, n |-> posted + 1]]
    BY <1>1 DEF Accept
  <2> QED BY <1>1, <2>1, <2>2, <2>3 DEF Accept, NewClient
<1>2. ASSUME NEW a \in Addr, NEW kind \in {"RECV", "POLL", "FIN", "ERROR"}, Occurs(a, kind)
      PROVE  EventTypes'
  <2>1. obj[a] \in Conn /\ posted + 1 \in 0..MaxPosted
    BY <1>2 DEF Occurs
  <2>2. [kind |-> kind, addr |-> a, c |-> obj[a], n |-> posted + 1] \in Event
    BY <2>1 DEF Event
  <2>3. lw' = [pc |-> "callback", e |-> [kind |-> kind, addr |-> a, c |-> obj[a], n |-> posted + 1]]
    BY <1>2 DEF Occurs
  <2> QED BY <1>2, <2>1, <2>2, <2>3 DEF Occurs
<1>3. CASE Callback
  BY <1>3 DEF Callback
<1>4. CASE Post
  BY <1>4 DEF Post
<1>5. CASE Execute
  BY <1>5 DEF Execute
<1> QED BY <1>1, <1>2, <1>3, <1>4, <1>5 DEF Lwip

\* The task takes and moves events, and prepends those of the client in hand.
LEMMA Prepended ==
  ASSUME EventTypes, cur \in Event, NEW kind \in {"CLEAR"}, Prepend(kind)
  PROVE  queue' \in Seq(Event)
<1>1. [kind |-> kind, addr |-> cur.addr, c |-> cur.c, n |-> 0] \in Event
  BY BoundAssumption DEF Event
<1> QED BY <1>1 DEF Prepend, EventTypes

LEMMA EventsTask == EventTypes /\ SlotTypes /\ Task => EventTypes'
<1> SUFFICES ASSUME EventTypes, SlotTypes, Task PROVE EventTypes'
  OBVIOUS
<1> USE DEF EventTypes, lwipVars, clientVars, Goto
<1>1. CASE Take
  <2>1. Head(queue) \in Event /\ Tail(queue) \in Seq(Event)
    BY <1>1 DEF Take
  <2>2. Head(queue).kind \in {"ACCEPT", "RECV", "POLL", "FIN", "ERROR", "CLEAR"}
    BY <2>1 DEF Event
  <2>3. pc' # "putback" /\ cur' = Head(queue) /\ queue' = Tail(queue)
    BY <1>1, <2>2 DEF Take
  <2> QED BY <1>1, <2>1, <2>3 DEF Take
<1>2. CASE TakeError
  <2>1. Head(queue) \in Event /\ Tail(queue) \in Seq(Event)
    BY <1>2 DEF TakeError
  <2> QED BY <1>2, <2>1 DEF TakeError
<1>3. CASE ClearForFin
  BY <1>3, Prepended DEF ClearForFin
<1>4. CASE Use \/ Return
  BY <1>4 DEF Use, Return
<1>12. CASE ReadSlot
  <2>1. cur \in Event /\ cur.c \in Conn
    BY <1>12 DEF ReadSlot, Event
  <2>2. slot[cur.c] \in Slot \cup {NoSlot}
    BY <2>1 DEF SlotTypes
  <2> QED BY <1>12, <2>2 DEF ReadSlot
<1>5. CASE Close \/ Detach
  BY <1>5 DEF Close, Detach
<1>6. CASE Clear
  BY <1>6, Prepended DEF Clear
<1>7. CASE Closed
  BY <1>7 DEF Closed
<1>8. CASE CallOfClose("evaluate", "close") \/ CallOfClose("abort", "abort")
  BY <1>8 DEF CallOfClose
<1>9. CASE FindFirst
  BY <1>9 DEF FindFirst, Finish, Drop, Hold
<1>10. CASE PutBack
  BY <1>10 DEF PutBack
<1>11. CASE Rotate
  <2>1. CASE Finish \/ queue = <<>>
    BY <1>11, <2>1 DEF Rotate, Finish
  <2>2. CASE queue # <<>> /\ ~Finish
    <3>1. Head(queue) \in Event /\ Tail(queue) \in Seq(Event)
      BY <2>2
    <3>2. Drop("rotate") \/ Hold
      BY <1>11, <2>2 DEF Rotate
    <3> QED BY <1>11, <3>1, <3>2 DEF Rotate, Drop, Hold
  <2> QED BY <2>1, <2>2
<1> QED BY <1>1, <1>2, <1>3, <1>4, <1>5, <1>6, <1>7, <1>8, <1>9, <1>10, <1>11, <1>12 DEF Task

-----------------------------------------------------------------------------
LEMMA SlotsInit == Init => SlotInv
BY NoSlotAssumption DEF Init, SlotInv, SlotTypes, SlotOfOne, Slot

\* A step that leaves the slots alone.
LEMMA SlotsAlone == SlotInv /\ UNCHANGED <<slot, closed, index>> => SlotInv'
BY DEF SlotInv, SlotTypes, SlotOfOne

LEMMA SlotsLwip == EventTypes /\ SlotInv /\ Lwip => SlotInv'
<1> SUFFICES ASSUME EventTypes, SlotInv, Lwip PROVE SlotInv'
  OBVIOUS
<1>1. ASSUME NEW a \in Addr, Accept(a) PROVE SlotInv'
  <2>1. conns + 1 \in Conn
    BY <1>1, BoundAssumption DEF Accept, EventTypes, Conn
  <2> QED BY <1>1, <2>1, Allocate DEF Accept, NewClient
<1>2. ASSUME NEW a \in Addr, NEW kind \in {"RECV", "POLL", "FIN", "ERROR"}, Occurs(a, kind)
      PROVE  SlotInv'
  BY <1>2, SlotsAlone DEF Occurs, clientVars
<1>3. CASE Callback
  <2>1. lw.e.c \in Conn
    BY <1>3 DEF Callback, EventTypes, Event
  <2> QED BY <1>3, <2>1, FreeOne, SlotsAlone DEF Callback
<1>4. CASE Post \/ Execute
  BY <1>4, SlotsAlone DEF Post, Execute, clientVars
<1> QED BY <1>1, <1>2, <1>3, <1>4 DEF Lwip

LEMMA SlotsTask == EventTypes /\ SlotInv /\ Task => SlotInv'
<1> SUFFICES ASSUME EventTypes, SlotInv, Task PROVE SlotInv'
  OBVIOUS
<1>1. CASE TakeError
  <2>0. Head(queue) \in Event
    BY <1>1 DEF TakeError, EventTypes
  <2>1. Head(queue).c \in Conn
    BY <2>0 DEF Event
  <2> QED BY <1>1, <2>1, FreeOne, SlotsAlone DEF TakeError, Discard
<1>2. CASE ClearForFin
  <2>1. cur.c \in Conn
    BY <1>2 DEF ClearForFin, EventTypes, Event
  <2> QED BY <1>2, <2>1, FreeOne, SlotsAlone DEF ClearForFin, Discard
<1>3. CASE Closed
  <2>1. cur.c \in Conn
    BY <1>3 DEF Closed, EventTypes, Event
  <2> QED BY <1>3, <2>1, FreeOne DEF Closed, Discard
<1>4. CASE Take
  BY <1>4, SlotsAlone DEF Take, clientVars
<1>5. CASE Use \/ ReadSlot \/ Return \/ Close \/ Detach \/ Clear
  BY <1>5, SlotsAlone DEF Use, ReadSlot, Return, Close, Detach, Clear, clientVars
<1>6. CASE CallOfClose("evaluate", "close") \/ CallOfClose("abort", "abort")
  BY <1>6, SlotsAlone DEF CallOfClose, clientVars
<1>7. CASE FindFirst \/ PutBack \/ Rotate
  BY <1>7, SlotsAlone DEF FindFirst, PutBack, Rotate, Finish, Drop, Hold, clientVars
<1> QED BY <1>1, <1>2, <1>3, <1>4, <1>5, <1>6, <1>7 DEF Task

-----------------------------------------------------------------------------
\* A closed slot in use is of one client, for any number of slots, addresses,
\* connections and events, though _free_closed_slot takes no lock.
THEOREM SlotsAreOfOne == Spec => []SlotOfOne
<1>1. Init => IInv
  BY EventsInit, SlotsInit DEF IInv
<1>2. IInv /\ [Next]_vars => IInv'
  <2>1. IInv /\ Next => IInv'
    BY EventsLwip, EventsTask, SlotsLwip, SlotsTask DEF IInv, SlotInv, Next
  <2>2. IInv /\ UNCHANGED vars => IInv'
    BY DEF IInv, EventTypes, SlotInv, SlotTypes, SlotOfOne, vars, lwipVars, clientVars, taskVars
  <2> QED BY <2>1, <2>2
<1>3. IInv => SlotOfOne
  BY DEF IInv, SlotInv
<1> QED BY <1>1, <1>2, <1>3, PTL DEF Spec

-----------------------------------------------------------------------------
(* Types *)

\* Every connection gives its slot back once: the numbers given out and the
\* slots in use are no more than the connections.
InUse == {c \in Conn : slot[c] # NoSlot}
SlotsSpent ==
  /\ index - 1 + Cardinality(InUse) <= conns
  /\ \A c \in InUse : c <= conns

LEMMA InUseFinite == IsFiniteSet(InUse) /\ Cardinality(InUse) \in Nat
<1>1. IsFiniteSet(Conn)
  BY BoundAssumption, FS_Interval DEF Conn
<1>2. InUse \in SUBSET Conn
  BY DEF InUse
<1>3. IsFiniteSet(InUse)
  BY <1>1, <1>2, FS_Subset
<1> QED BY <1>3, FS_CardinalityType

LEMMA SpentInit == Init => SlotsSpent
<1> SUFFICES ASSUME Init PROVE SlotsSpent
  OBVIOUS
<1>1. InUse = {}
  BY DEF Init, InUse
<1>2. index = 1 /\ conns = 0
  BY DEF Init
<1> QED BY <1>1, <1>2, FS_EmptySet DEF SlotsSpent

LEMMA FreeSpends ==
  ASSUME SlotInv, SlotsSpent, conns \in Nat, NEW c \in Conn, FreeClosedSlot(c), UNCHANGED conns
  PROVE  /\ SlotsSpent'
         /\ \A n \in Nat : index <= n + 1 /\ conns <= n => index' <= n + 1
<1>0. index \in Nat \ {0}
  BY DEF SlotInv, SlotTypes
<1>1. CASE slot[c] = NoSlot
  <2>1. UNCHANGED <<slot, closed, index>>
    BY <1>1 DEF FreeClosedSlot
  <2>2. InUse' = InUse
    BY <2>1 DEF InUse
  <2> QED BY <2>1, <2>2 DEF SlotsSpent
<1>2. CASE slot[c] # NoSlot
  <2>1. slot' = [slot EXCEPT ![c] = NoSlot] /\ index' = index + 1
    BY <1>2 DEF FreeClosedSlot
  <2>2. InUse' = InUse \ {c} /\ c \in InUse
    BY <1>2, <2>1 DEF InUse, SlotInv, SlotTypes
  <2> DEFINE n == Cardinality(InUse)
  <2>3. n \in Nat /\ Cardinality(InUse \ {c}) = n - 1 /\ IsFiniteSet(InUse \ {c})
    BY <2>2, InUseFinite, FS_RemoveElement
  <2>4. n - 1 \in Nat
    BY <2>3, FS_CardinalityType
  <2>5. index - 1 + n <= conns
    BY DEF SlotsSpent
  <2>6. Cardinality(InUse') = n - 1
    BY <2>2, <2>3
  <2> HIDE DEF n
  <2>7. index' - 1 + Cardinality(InUse') <= conns' /\ index' <= conns + 1
    BY <1>0, <2>1, <2>3, <2>4, <2>5, <2>6
  <2>8. \A d \in InUse' : d <= conns'
    BY <2>2 DEF SlotsSpent
  <2> QED BY <1>0, <2>1, <2>7, <2>8 DEF SlotsSpent
<1> QED BY <1>1, <1>2

LEMMA AllocateSpends ==
  ASSUME SlotInv, SlotsSpent, conns \in Nat, NEW c \in Conn, c = conns + 1, AllocateClosedSlot(c),
         UNCHANGED index, conns' = conns + 1
  PROVE  SlotsSpent'
<1>0. index \in Nat \ {0} /\ c \in Nat
  BY DEF SlotInv, SlotTypes
<1> DEFINE n == Cardinality(InUse)
<1>1. n \in Nat /\ index - 1 + n <= conns /\ \A d \in InUse : d <= conns
  BY InUseFinite DEF SlotsSpent
<1>2. InUse' = InUse \/ InUse' = InUse \cup {c}
  <2>1. CASE UNCHANGED slot
    BY <2>1 DEF InUse
  <2>2. ASSUME NEW s \in Oldest, slot' = [slot EXCEPT ![c] = s] PROVE InUse' = InUse \cup {c}
    <3>1. s # NoSlot /\ slot' \in [Conn -> Slot \cup {NoSlot}]
      BY <2>2, NoSlotAssumption DEF Oldest, Unused, Slot, SlotInv, SlotTypes
    <3> QED BY <2>2, <3>1 DEF InUse, SlotInv, SlotTypes
  <2> QED BY <2>1, <2>2 DEF AllocateClosedSlot
<1>3. Cardinality(InUse') = n \/ Cardinality(InUse') = n + 1
  BY <1>2, InUseFinite, FS_AddElement
<1> HIDE DEF n
<1>4. index' - 1 + Cardinality(InUse') <= conns'
  BY <1>0, <1>1, <1>3
<1>5. \A d \in InUse' : d <= conns'
  <2>1. \A d \in InUse : d \in Nat /\ d <= conns + 1
    BY <1>1 DEF InUse, Conn
  <2> QED BY <1>0, <1>2, <2>1
<1> QED BY <1>4, <1>5 DEF SlotsSpent

LEMMA SpentLwip == EventTypes /\ SlotInv /\ SlotsSpent /\ Lwip => SlotsSpent'
<1> SUFFICES ASSUME EventTypes, SlotInv, SlotsSpent, Lwip PROVE SlotsSpent'
  OBVIOUS
<1>0. conns \in Nat
  BY DEF EventTypes
<1>1. ASSUME UNCHANGED <<slot, index, conns>> PROVE SlotsSpent'
  BY <1>1 DEF SlotsSpent, InUse
<1>2. ASSUME NEW a \in Addr, Accept(a) PROVE SlotsSpent'
  <2> DEFINE c == conns + 1
  <2>1. c \in Conn /\ AllocateClosedSlot(c) /\ conns' = conns + 1 /\ UNCHANGED index
    BY <1>0, <1>2, BoundAssumption DEF Accept, NewClient, Conn
  <2> QED BY <1>0, <2>1, AllocateSpends
<1>3. ASSUME NEW a \in Addr, NEW kind \in {"RECV", "POLL", "FIN", "ERROR"}, Occurs(a, kind)
      PROVE  SlotsSpent'
  BY <1>1, <1>3 DEF Occurs, clientVars
<1>4. CASE Callback
  <2>1. lw.e.c \in Conn
    BY <1>4 DEF Callback, EventTypes, Event
  <2> QED BY <1>0, <1>1, <1>4, <2>1, FreeSpends DEF Callback
<1>5. CASE Post \/ Execute
  BY <1>1, <1>5 DEF Post, Execute, clientVars
<1> QED BY <1>2, <1>3, <1>4, <1>5 DEF Lwip

LEMMA SpentTask == EventTypes /\ SlotInv /\ SlotsSpent /\ Task => SlotsSpent'
<1> SUFFICES ASSUME EventTypes, SlotInv, SlotsSpent, Task PROVE SlotsSpent'
  OBVIOUS
<1>0. conns \in Nat
  BY DEF EventTypes
<1>1. ASSUME UNCHANGED <<slot, index, conns>> PROVE SlotsSpent'
  BY <1>1 DEF SlotsSpent, InUse
<1>2. ASSUME NEW c \in Conn, FreeClosedSlot(c), UNCHANGED conns PROVE SlotsSpent'
  BY <1>0, <1>2, FreeSpends
<1>3. CASE TakeError
  <2>1. Head(queue) \in Event
    BY <1>3 DEF TakeError, EventTypes
  <2>2. Head(queue).c \in Conn
    BY <2>1 DEF Event
  <2> QED BY <1>1, <1>2, <1>3, <2>2 DEF TakeError, Discard, lwipVars
<1>4. CASE ClearForFin
  <2>1. cur.c \in Conn
    BY <1>4 DEF ClearForFin, EventTypes, Event
  <2> QED BY <1>1, <1>2, <1>4, <2>1 DEF ClearForFin, Discard, lwipVars
<1>5. CASE Closed
  <2>1. cur.c \in Conn
    BY <1>5 DEF Closed, EventTypes, Event
  <2> QED BY <1>2, <1>5, <2>1 DEF Closed, Discard, lwipVars
<1>6. CASE Take \/ Use \/ ReadSlot \/ Return \/ Close \/ Detach \/ Clear
  BY <1>1, <1>6 DEF Take, Use, ReadSlot, Return, Close, Detach, Clear, clientVars, lwipVars
<1>7. CASE CallOfClose("evaluate", "close") \/ CallOfClose("abort", "abort")
  BY <1>1, <1>7 DEF CallOfClose, clientVars, lwipVars
<1>8. CASE FindFirst \/ PutBack \/ Rotate
  BY <1>1, <1>8 DEF FindFirst, PutBack, Rotate, Finish, Drop, Hold, clientVars, lwipVars
<1> QED BY <1>3, <1>4, <1>5, <1>6, <1>7, <1>8 DEF Task

\* A sequence and what the steps make of it, by the elements.
LEMMA TailElements ==
  ASSUME NEW S, NEW q \in Seq(S), q # <<>>
  PROVE  /\ Head(q) = q[1] /\ Head(q) \in S /\ Tail(q) \in Seq(S) /\ Len(q) \in Nat \ {0}
         /\ Len(Tail(q)) = Len(q) - 1 /\ DOMAIN Tail(q) = 1..(Len(q) - 1)
         /\ \A k \in DOMAIN Tail(q) : k \in Nat /\ k + 1 \in DOMAIN q /\ Tail(q)[k] = q[k + 1]
<1>1. Len(q) \in Nat \ {0} /\ DOMAIN q = 1..Len(q)
  OBVIOUS
<1>2. Head(q) = q[1] /\ Head(q) \in S /\ Tail(q) \in Seq(S) /\ Len(Tail(q)) = Len(q) - 1
  OBVIOUS
<1>3. DOMAIN Tail(q) = 1..(Len(q) - 1)
  BY <1>1, <1>2
<1>4. \A k \in 1..(Len(q) - 1) : Tail(q)[k] = q[k + 1]
  BY <1>1, <1>2
<1> QED BY <1>1, <1>2, <1>3, <1>4

LEMMA FrontElements ==
  ASSUME NEW S, NEW q \in Seq(S), NEW e \in S, NEW t, t = <<e>> \o q
  PROVE  /\ t \in Seq(S) /\ Len(q) \in Nat /\ Len(t) = Len(q) + 1 /\ t[1] = e
         /\ DOMAIN t = 1..(Len(q) + 1)
         /\ \A k \in DOMAIN t : k \in Nat /\ (k # 1 => k - 1 \in DOMAIN q /\ t[k] = q[k - 1])
         /\ \A k \in DOMAIN q : k \in Nat /\ k + 1 \in DOMAIN t /\ t[k + 1] = q[k]
<1>1. Len(q) \in Nat /\ DOMAIN q = 1..Len(q) /\ <<e>> \in Seq(S) /\ Len(<<e>>) = 1
  OBVIOUS
<1>2. t \in Seq(S) /\ Len(t) = Len(q) + 1
  OBVIOUS
<1>3. DOMAIN t = 1..(Len(q) + 1)
  BY <1>1, <1>2
<1>4. \A k \in 1..(Len(q) + 1) : t[k] = IF k <= 1 THEN <<e>>[k] ELSE q[k - 1]
  BY <1>1
<1>5. t[1] = e
  BY <1>1, <1>4
<1>6. \A k \in DOMAIN t : k \in Nat /\ (k # 1 => k - 1 \in DOMAIN q /\ t[k] = q[k - 1])
  BY <1>1, <1>3, <1>4
<1>7. \A k \in DOMAIN q : k \in Nat /\ k + 1 \in DOMAIN t /\ t[k + 1] = q[k]
  BY <1>1, <1>3, <1>4
<1> QED BY <1>1, <1>2, <1>3, <1>5, <1>6, <1>7

LEMMA BackElements ==
  ASSUME NEW S, NEW q \in Seq(S), NEW e \in S, NEW t, t = Append(q, e)
  PROVE  /\ t \in Seq(S) /\ Len(q) \in Nat /\ Len(t) = Len(q) + 1 /\ t[Len(q) + 1] = e
         /\ DOMAIN t = 1..(Len(q) + 1) /\ DOMAIN q = 1..Len(q)
         /\ \A k \in DOMAIN q : t[k] = q[k]
         /\ \A k \in DOMAIN t : k \in Nat /\ (k \in DOMAIN q \/ k = Len(q) + 1)
<1>1. Len(q) \in Nat /\ DOMAIN q = 1..Len(q)
  OBVIOUS
<1>2. t \in Seq(S) /\ Len(t) = Len(q) + 1 /\ DOMAIN t = 1..(Len(q) + 1)
  OBVIOUS
<1>3. t[Len(q) + 1] = e /\ \A k \in 1..Len(q) : t[k] = q[k]
  BY <1>1
<1> QED BY <1>1, <1>2, <1>3

\* Giving a slot back, and taking one.
LEMMA FreeTypes ==
  ASSUME TypeOK, SlotInv, SlotsSpent, NEW c \in Conn, FreeClosedSlot(c)
  PROVE  /\ slot' \in [Conn -> Slot \cup {NoSlot}]
         /\ closed' \in [Slot -> 0..(MaxConns + 1)] /\ index' \in 1..(MaxConns + 1)
<1>1. CASE slot[c] = NoSlot
  BY <1>1 DEF FreeClosedSlot, TypeOK
<1>2. CASE slot[c] # NoSlot
  <2>1. /\ closed' = [closed EXCEPT ![slot[c]] = index]
        /\ slot' = [slot EXCEPT ![c] = NoSlot] /\ index' = index + 1
    BY <1>2 DEF FreeClosedSlot
  <2>2. slot[c] \in Slot /\ index \in 0..(MaxConns + 1)
    BY <1>2, BoundAssumption DEF TypeOK
  <2>3. slot' \in [Conn -> Slot \cup {NoSlot}] /\ closed' \in [Slot -> 0..(MaxConns + 1)]
    BY <2>1, <2>2 DEF TypeOK
  <2>4. c \in InUse
    BY <1>2 DEF InUse
  <2>5. Cardinality(InUse) # 0
    BY <2>4, InUseFinite, FS_EmptySet
  <2>6. index \in Nat \ {0} /\ conns \in Nat /\ conns <= MaxConns
    BY BoundAssumption DEF TypeOK
  <2>7. index + 1 \in 1..(MaxConns + 1)
    BY <2>5, <2>6, InUseFinite, BoundAssumption DEF SlotsSpent
  <2> QED BY <2>1, <2>3, <2>7
<1> QED BY <1>1, <1>2

LEMMA AllocateTypes ==
  ASSUME TypeOK, NEW c \in Conn, AllocateClosedSlot(c)
  PROVE  slot' \in [Conn -> Slot \cup {NoSlot}] /\ closed' \in [Slot -> 0..(MaxConns + 1)]
<1>1. 0 \in 0..(MaxConns + 1) /\ Oldest \subseteq Slot
  BY BoundAssumption DEF Oldest, Unused
<1>2. CASE Unused = {}
  BY <1>2 DEF AllocateClosedSlot, TypeOK
<1>3. ASSUME NEW s \in Oldest, slot' = [slot EXCEPT ![c] = s], closed' = [closed EXCEPT ![s] = 0]
      PROVE  slot' \in [Conn -> Slot \cup {NoSlot}] /\ closed' \in [Slot -> 0..(MaxConns + 1)]
  <2>1. s \in Slot
    BY <1>1
  <2> QED BY <1>1, <1>3, <2>1 DEF TypeOK
<1> QED BY <1>2, <1>3 DEF AllocateClosedSlot

LEMMA TypesInit == Init => TypeOK
<1> SUFFICES ASSUME Init PROVE TypeOK
  OBVIOUS
<1>1. /\ <<>> \in Seq(Event) /\ Len(<<>>) = 0 /\ 0 <= QueueLen /\ 0 \in 0..MaxConns /\ 0 \in 0..MaxPosted
      /\ 1 \in 0..(MaxConns + 1) /\ 1 \in 1..(MaxConns + 1)
  BY SizeAssumption, BoundAssumption
<1> QED BY <1>1 DEF Init, TypeOK

LEMMA TypesLwip == TypeOK /\ IInv /\ SlotsSpent /\ Lwip => TypeOK'
<1> SUFFICES ASSUME TypeOK, IInv, SlotsSpent, Lwip PROVE TypeOK'
  OBVIOUS
<1>0. EventTypes /\ SlotInv
  BY DEF IInv
<1>1. ASSUME NEW a \in Addr, Accept(a) PROVE TypeOK'
  <2> DEFINE c == conns + 1
             e == [kind |-> "ACCEPT", addr |-> a, c |-> c, n |-> posted + 1]
  <2>1. c \in Conn /\ conns + 1 \in 0..MaxConns /\ posted + 1 \in 0..MaxPosted
    BY <1>1, BoundAssumption DEF Accept, Conn, TypeOK
  <2>2. e \in Event
    BY <2>1 DEF Event
  <2>3. /\ conns' = conns + 1 /\ posted' = posted + 1 /\ live' = live \cup {c}
        /\ obj' = [obj EXCEPT ![a] = c] /\ pcb' = pcb \cup {c} /\ bound' = bound \cup {c}
        /\ AllocateClosedSlot(c) /\ lw' = [pc |-> "post", e |-> e]
        /\ UNCHANGED <<queue, index, taskVars>>
    BY <1>1 DEF Accept, NewClient
  <2> HIDE DEF c, e
  <2>4. slot' \in [Conn -> Slot \cup {NoSlot}] /\ closed' \in [Slot -> 0..(MaxConns + 1)]
    BY <2>1, <2>3, AllocateTypes
  <2>5. lw' \in [pc : {"free", "callback", "post"}, e : Event \cup {NoEvent}]
    BY <2>2, <2>3
  <2>6. obj' \in [Addr -> Conn \cup {Free}]
    BY <2>1, <2>3 DEF TypeOK
  <2> QED BY <2>1, <2>3, <2>4, <2>5, <2>6 DEF TypeOK, taskVars
<1>2. ASSUME NEW a \in Addr, NEW kind \in {"RECV", "POLL", "FIN", "ERROR"}, Occurs(a, kind)
      PROVE  TypeOK'
  <2>1. lw' \in [pc : {"free", "callback", "post"}, e : Event \cup {NoEvent}]
    <3>1. EventTypes'
      BY <1>0, EventsLwip
    <3> QED BY <3>1 DEF EventTypes
  <2>2. posted + 1 \in 0..MaxPosted /\ posted' = posted + 1 /\ live' \subseteq live
        /\ UNCHANGED <<queue, bound, conns, clientVars, taskVars>>
    BY <1>2, BoundAssumption DEF Occurs, TypeOK
  <2> QED BY <2>1, <2>2 DEF TypeOK, clientVars, taskVars
<1>3. CASE Callback
  <2> DEFINE c == lw.e.c
  <2>1. c \in Conn
    BY <1>0, <1>3 DEF Callback, EventTypes, Event
  <2>2. /\ lw' = [lw EXCEPT !.pc = "post"]
        /\ \/ bound' \subseteq bound /\ live' \subseteq live /\ pcb' \subseteq pcb /\ FreeClosedSlot(c)
           \/ UNCHANGED <<bound, live, pcb, slot, closed, index>>
        /\ UNCHANGED <<queue, conns, posted, obj, taskVars>>
    BY <1>3 DEF Callback
  <2> HIDE DEF c
  <2>3. /\ slot' \in [Conn -> Slot \cup {NoSlot}]
        /\ closed' \in [Slot -> 0..(MaxConns + 1)] /\ index' \in 1..(MaxConns + 1)
    BY <1>0, <2>1, <2>2, FreeTypes DEF TypeOK
  <2>4. bound' \subseteq Conn /\ live' \subseteq Conn /\ pcb' \subseteq Conn
    BY <2>2 DEF TypeOK
  <2>5. lw' \in [pc : {"free", "callback", "post"}, e : Event \cup {NoEvent}]
    BY <2>2 DEF TypeOK
  <2> QED BY <2>2, <2>3, <2>4, <2>5 DEF TypeOK, taskVars
<1>4. CASE Post
  <2> DEFINE e == lw.e
  <2>1. e \in Event /\ queue \in Seq(Event) /\ Len(queue) < QueueLen
    BY <1>0, <1>4 DEF Post, EventTypes
  <2>2. queue' = <<e>> \o queue \/ queue' = Append(queue, e)
    BY <1>4 DEF Post
  <2> HIDE DEF e
  <2>3. queue' \in Seq(Event) /\ Len(queue') = Len(queue) + 1 /\ Len(queue) \in Nat
    <3>1. CASE queue' = <<e>> \o queue
      BY <2>1, <3>1, FrontElements
    <3>2. CASE queue' = Append(queue, e)
      BY <2>1, <3>2, BackElements
    <3> QED BY <2>2, <3>1, <3>2
  <2>4. Len(queue') <= QueueLen
    BY <2>1, <2>3, SizeAssumption
  <2>5. lw' \in [pc : {"free", "callback", "post"}, e : Event \cup {NoEvent}]
    BY <1>4 DEF Post
  <2> QED BY <1>4, <2>3, <2>4, <2>5 DEF Post, TypeOK, clientVars, taskVars
<1>5. CASE Execute
  <2>1. live' \subseteq live /\ pc' \in {"return", "discard", "abort"}
    <3>1. call.what \in {"use", "close", "abort"}
      BY DEF TypeOK
    <3>2. \/ /\ pc' = IF call.what = "use" THEN "return" ELSE "discard"
             /\ live' = IF call.what = "use" THEN live ELSE live \ {cur.c}
          \/ /\ pc' = CASE call.what = "use" -> "return" [] call.what = "close" -> "abort"
                          [] call.what = "abort" -> "discard"
             /\ live' = live
      BY <1>5 DEF Execute
    <3> QED BY <3>1, <3>2
  <2> QED BY <1>5, <2>1 DEF Execute, TypeOK, clientVars
<1> QED BY <1>1, <1>2, <1>3, <1>4, <1>5 DEF Lwip

LEMMA PrependTypes ==
  ASSUME TypeOK, cur \in Event, NEW kind \in {"CLEAR"}, Prepend(kind)
  PROVE  queue' \in Seq(Event) /\ Len(queue') <= QueueLen
<1> DEFINE e == [kind |-> kind, addr |-> cur.addr, c |-> cur.c, n |-> 0]
<1>1. e \in Event
  BY BoundAssumption DEF Event
<1>2. queue' = <<e>> \o queue /\ Len(queue) < QueueLen /\ queue \in Seq(Event)
  BY DEF Prepend, TypeOK
<1> HIDE DEF e
<1>3. queue' \in Seq(Event) /\ Len(queue') = Len(queue) + 1 /\ Len(queue) \in Nat
  BY <1>1, <1>2, FrontElements
<1> QED BY <1>2, <1>3, SizeAssumption

LEMMA TailTypes ==
  ASSUME TypeOK, queue # <<>>, queue' = Tail(queue)
  PROVE  queue' \in Seq(Event) /\ Len(queue') <= QueueLen /\ Head(queue) \in Event
<1>1. queue \in Seq(Event) /\ Len(queue) <= QueueLen
  BY DEF TypeOK
<1>2. queue' \in Seq(Event) /\ Len(queue') = Len(queue) - 1 /\ Head(queue) \in Event /\ Len(queue) \in Nat
  BY <1>1, TailElements
<1> QED BY <1>1, <1>2, SizeAssumption

LEMMA TypesTask == TypeOK /\ IInv /\ SlotsSpent /\ Task => TypeOK'
<1> SUFFICES ASSUME TypeOK, IInv, SlotsSpent, Task PROVE TypeOK'
  OBVIOUS
<1>0. EventTypes /\ SlotInv
  BY DEF IInv
<1>1. CASE Take
  <2> DEFINE e == Head(queue)
  <2>1. queue # <<>> /\ queue' = Tail(queue) /\ cur' = e
    BY <1>1 DEF Take
  <2>2. e \in Event /\ queue' \in Seq(Event) /\ Len(queue') <= QueueLen
    BY <2>1, TailTypes
  <2>3. e.kind \in {"ACCEPT", "RECV", "POLL", "FIN", "ERROR", "CLEAR"} /\ e.c \in Conn /\ e.n \in 0..MaxPosted
    BY <2>2 DEF Event
  <2>4. last' \in [Conn -> 0..MaxPosted]
    <3>1. Latest(last[e.c], e.n) \in 0..MaxPosted
      BY <2>3 DEF Latest, TypeOK
    <3>2. last' = last \/ last' = [last EXCEPT ![e.c] = Latest(last[e.c], e.n)]
      BY <1>1 DEF Take
    <3> QED BY <2>3, <3>1, <3>2 DEF TypeOK
  <2>5. attached' \subseteq Conn
    BY <1>1, <2>3 DEF Take, TypeOK
  <2>6. pc' \in {"crashed", "wait", "first", "fin", "callback"}
    <3>1. pc' = IF Misses(e) THEN "crashed" ELSE
            CASE e.kind = "ACCEPT" -> "wait"
              [] e.kind = "CLEAR" -> "first"
              [] e.kind = "FIN" -> "fin"
              [] e.kind = "RECV" -> "callback"
              [] e.kind = "POLL" -> IF e.c \in pcb THEN "callback" ELSE "wait"
      BY <1>1 DEF Take
    <3>2. ~Misses(e) => e.kind # "ERROR"
      BY <1>1 DEF Take
    <3> QED BY <2>3, <3>1, <3>2
  <2> QED BY <1>1, <2>1, <2>2, <2>4, <2>5, <2>6 DEF Take, TypeOK, lwipVars, clientVars
<1>2. ASSUME NEW c \in Conn, NEW a \in Addr, Discard(c, a)
      PROVE  /\ obj' \in [Addr -> Conn \cup {Free}]
             /\ slot' \in [Conn -> Slot \cup {NoSlot}]
             /\ closed' \in [Slot -> 0..(MaxConns + 1)] /\ index' \in 1..(MaxConns + 1)
  BY <1>0, <1>2, FreeTypes DEF Discard, TypeOK
<1>3. CASE TakeError
  <2> DEFINE e == Head(queue)
  <2>1. queue # <<>> /\ queue' = Tail(queue) /\ cur' = e
    BY <1>3 DEF TakeError
  <2>2. e \in Event /\ queue' \in Seq(Event) /\ Len(queue') <= QueueLen
    BY <2>1, TailTypes
  <2>3. e.c \in Conn /\ e.n \in 0..MaxPosted /\ e.addr \in Addr
    BY <2>2 DEF Event
  <2>4. last' \in [Conn -> 0..MaxPosted]
    <3>1. Latest(last[e.c], e.n) \in 0..MaxPosted
      BY <2>3 DEF Latest, TypeOK
    <3>2. last' = [last EXCEPT ![e.c] = Latest(last[e.c], e.n)]
      BY <1>3 DEF TakeError
    <3> QED BY <2>3, <3>1, <3>2 DEF TypeOK
  <2>5. /\ obj' \in [Addr -> Conn \cup {Free}]
        /\ slot' \in [Conn -> Slot \cup {NoSlot}]
        /\ closed' \in [Slot -> 0..(MaxConns + 1)] /\ index' \in 1..(MaxConns + 1)
    BY <1>2, <1>3, <2>3 DEF TakeError, TypeOK
  <2>6. pcb' \subseteq Conn /\ UNCHANGED <<lwipVars, attached, pc, call, first, held>>
    BY <1>3 DEF TakeError, TypeOK
  <2> QED BY <2>1, <2>2, <2>4, <2>5, <2>6 DEF TypeOK, lwipVars
<1>4. pc # "wait" => cur \in Event /\ cur.c \in Conn /\ cur.addr \in Addr
  BY <1>0 DEF EventTypes, Event
<1>5. CASE ClearForFin
  <2>1. cur \in Event /\ cur.c \in Conn /\ cur.addr \in Addr /\ Prepend("CLEAR")
    BY <1>4, <1>5 DEF ClearForFin
  <2>2. queue' \in Seq(Event) /\ Len(queue') <= QueueLen
    BY <2>1, PrependTypes
  <2>3. /\ obj' \in [Addr -> Conn \cup {Free}]
        /\ slot' \in [Conn -> Slot \cup {NoSlot}]
        /\ closed' \in [Slot -> 0..(MaxConns + 1)] /\ index' \in 1..(MaxConns + 1)
    BY <1>2, <1>5, <2>1 DEF ClearForFin, TypeOK
  <2> QED BY <1>5, <2>2, <2>3 DEF ClearForFin, TypeOK, lwipVars
<1>6. CASE Closed
  <2>1. cur.c \in Conn /\ cur.addr \in Addr /\ Discard(cur.c, cur.addr)
    BY <1>4, <1>6 DEF Closed
  <2>2. /\ obj' \in [Addr -> Conn \cup {Free}]
        /\ slot' \in [Conn -> Slot \cup {NoSlot}]
        /\ closed' \in [Slot -> 0..(MaxConns + 1)] /\ index' \in 1..(MaxConns + 1)
    BY <1>2, <2>1
  <2> QED BY <1>6, <2>2 DEF Closed, TypeOK, lwipVars
<1>7. CASE Use \/ Return \/ Close \/ Detach
  BY <1>7 DEF Use, Return, Close, Detach, Goto, TypeOK, lwipVars, clientVars
<1>8. CASE ReadSlot
  <2>1. slot[cur.c] \in Slot \cup {NoSlot}
    BY <1>4, <1>8 DEF ReadSlot, TypeOK
  <2> QED BY <1>8, <2>1 DEF ReadSlot, TypeOK, lwipVars, clientVars
<1>9. CASE Clear
  <2>1. cur \in Event /\ Prepend("CLEAR")
    BY <1>4, <1>9 DEF Clear
  <2>2. queue' \in Seq(Event) /\ Len(queue') <= QueueLen
    BY <2>1, PrependTypes
  <2> QED BY <1>9, <2>2 DEF Clear, Goto, TypeOK, lwipVars, clientVars
<1>10. CASE CallOfClose("evaluate", "close") \/ CallOfClose("abort", "abort")
  BY <1>10 DEF CallOfClose, TypeOK, lwipVars, clientVars
<1>11. ASSUME queue # <<>>, NEW p \in {"first", "rotate"}, Drop(p) PROVE TypeOK'
  <2>1. queue' \in Seq(Event) /\ Len(queue') <= QueueLen
    BY <1>11, TailTypes DEF Drop
  <2> QED BY <1>11, <2>1 DEF Drop, Goto, TypeOK, lwipVars, clientVars
<1>12. ASSUME queue # <<>>, Hold PROVE TypeOK'
  <2>1. queue' \in Seq(Event) /\ Len(queue') <= QueueLen /\ Head(queue) \in Event
    BY <1>12, TailTypes DEF Hold
  <2> QED BY <1>12, <2>1 DEF Hold, TypeOK, lwipVars, clientVars
<1>13. CASE Finish
  BY <1>13 DEF Finish, TypeOK, lwipVars, clientVars
<1>14. CASE PutBack
  <2>1. held \in Event /\ queue \in Seq(Event) /\ Len(queue) < QueueLen /\ queue' = Append(queue, held)
    BY <1>0, <1>14 DEF PutBack, EventTypes
  <2>2. queue' \in Seq(Event) /\ Len(queue') = Len(queue) + 1 /\ Len(queue) \in Nat
    BY <2>1, BackElements
  <2>3. Len(queue') <= QueueLen
    BY <2>1, <2>2, SizeAssumption
  <2> QED BY <1>14, <2>2, <2>3 DEF PutBack, Goto, TypeOK, lwipVars, clientVars
<1>15. CASE FindFirst \/ Rotate
  BY <1>11, <1>12, <1>13, <1>15 DEF FindFirst, Rotate
<1> QED BY <1>1, <1>3, <1>5, <1>6, <1>7, <1>8, <1>9, <1>10, <1>14, <1>15 DEF Task

Sound == TypeOK /\ IInv /\ SlotsSpent

LEMMA SoundInit == Init => Sound
BY TypesInit, EventsInit, SlotsInit, SpentInit DEF Sound, IInv

LEMMA SoundStep == Sound /\ [Next]_vars => Sound'
<1> SUFFICES ASSUME Sound, [Next]_vars PROVE Sound'
  OBVIOUS
<1> USE DEF Sound
<1>1. CASE Lwip
  BY <1>1, TypesLwip, EventsLwip, SlotsLwip, SpentLwip DEF IInv
<1>2. CASE Task
  BY <1>2, TypesTask, EventsTask, SlotsTask, SpentTask DEF IInv, SlotInv
<1>3. CASE UNCHANGED vars
  BY <1>3 DEF IInv, EventTypes, SlotInv, SlotTypes, SlotOfOne, SlotsSpent, InUse, TypeOK, vars,
              lwipVars, clientVars, taskVars
<1> QED BY <1>1, <1>2, <1>3 DEF Next

\* Every variable keeps its type, for any number of slots, addresses, connections
\* and events: the queue does not outgrow its length, and _closed_index does not
\* outrun the connections, as each gives its slot back once.
THEOREM TypeCorrect == Spec => []TypeOK
<1>1. Sound => TypeOK
  BY DEF Sound
<1> QED BY <1>1, SoundInit, SoundStep, PTL DEF Spec

-----------------------------------------------------------------------------
(* Events and connections *)

\* e is in the queue, or on its way to the back of it.
Waits(e, q, p, h) == (\E k \in DOMAIN q : q[k] = e) \/ (p = "putback" /\ e = h)

\* No event of c comes any more, when the pcbs lv are live and the lwIP thread
\* is at w.
Ended(c, lv, w) == c \notin lv /\ (w.pc # "free" => w.e.c # c)

\* e is one of the first n events, and before the one lwIP is posting.
Before(e, n, w) == e.n <= n /\ (w.pc # "free" => e.n < w.e.n)

Pending(e, m, n, lv, w) ==
  /\ e.c <= m /\ Before(e, n, w)
  /\ e.kind # "CLEAR" => e.n # 0
  /\ e.kind \in {"FIN", "ERROR"} => Ended(e.c, lv, w)

Numbers ==
  /\ \A e \in Event : Waits(e, queue, pc, held) => Pending(e, conns, posted, live, lw)
  /\ pc \notin {"wait", "crashed"} => cur.c <= conns
  /\ pc = "fin" => Ended(cur.c, live, lw)
  /\ pc \in {"putback", "rotate"} => first \in Event /\ Before(first, posted, lw)
  /\ lw.pc # "free" => lw.e.n = posted /\ lw.e.n # 0 /\ lw.e.c <= conns /\ lw.e.kind # "CLEAR"

\* The event lwIP posts of a client at its address.
Busy == lw.pc = "callback" \/ (lw.pc = "post" /\ lw.e.kind \in {"RECV", "POLL", "ERROR"})
Closing ==
  pc \in {"clear", "evaluate", "abort", "discard"} \/ (pc \in {"slot", "call"} /\ call.what # "use")
Handling ==
  pc \in {"callback", "return", "slot", "call", "detach", "clear", "evaluate", "abort", "discard", "fin"}

Placed ==
  /\ Busy => lw.e.c \in pcb /\ obj[lw.e.addr] = lw.e.c
  /\ lw.pc = "callback" => lw.e.kind # "ACCEPT"
  /\ lw.pc = "callback" /\ lw.e.kind = "ERROR" => lw.e.c \notin live
  /\ lw.pc = "post" /\ lw.e.kind \in {"FIN", "ERROR"} => lw.e.c \notin live
  /\ live \cap bound \subseteq pcb
  /\ \A c \in live \cup bound : c <= conns
  /\ \A a \in Addr : obj[a] # Free => obj[a] <= conns
  /\ Closing => cur.c \notin bound
  /\ pc = "discard" => ~(Busy /\ lw.e.c = cur.c)
  /\ Handling => obj[cur.addr] = cur.c

LEMMA NumbersInit == Init => Numbers /\ Placed
<1> SUFFICES ASSUME Init PROVE Numbers /\ Placed
  OBVIOUS
<1>1. \A e \in Event : ~Waits(e, queue, pc, held)
  BY DEF Init, Waits
<1> QED BY <1>1 DEF Init, Numbers, Placed, Busy, Closing, Handling

LEMMA NumbersLwip == Sound /\ Numbers /\ Placed /\ Lwip => Numbers'
<1> SUFFICES ASSUME Sound, Numbers, Placed, Lwip PROVE Numbers'
  OBVIOUS
<1>0. EventTypes /\ TypeOK /\ conns \in Nat /\ posted \in Nat
  BY DEF Sound, IInv, EventTypes
<1>1. \A e \in Event : e.c \in Nat /\ e.n \in Nat
  BY BoundAssumption DEF Event, Conn
<1>2. ASSUME NEW a \in Addr, Accept(a) PROVE Numbers'
  <2> DEFINE x == [kind |-> "ACCEPT", addr |-> a, c |-> conns + 1, n |-> posted + 1]
             v == [pc |-> "post", e |-> x]
  <2>1. /\ lw.pc = "free" /\ lw' = v /\ conns' = conns + 1 /\ posted' = posted + 1
        /\ live' = live \cup {conns + 1} /\ UNCHANGED <<queue, taskVars>>
    BY <1>2 DEF Accept
  <2>2. v.pc = "post" /\ v.e.c = conns + 1 /\ v.e.n = posted + 1 /\ v.e.kind = "ACCEPT"
    OBVIOUS
  <2> HIDE DEF v
  <2>3. ASSUME NEW e \in Event, Pending(e, conns, posted, live, lw)
        PROVE  Pending(e, conns', posted', live', lw')
    BY <1>0, <1>1, <2>1, <2>2, <2>3 DEF Pending, Before, Ended
  <2>4. pc = "fin" => Ended(cur.c, live', lw')
    <3> SUFFICES ASSUME pc = "fin" PROVE Ended(cur.c, live', lw')
      OBVIOUS
    <3>1. cur.c <= conns /\ cur.c \in Nat /\ cur.c \notin live
      BY <1>0, <1>1 DEF Numbers, Ended, EventTypes
    <3> QED BY <1>0, <2>1, <2>2, <3>1 DEF Ended
  <2>5. pc \notin {"wait", "crashed"} => cur.c <= conns'
    BY <1>0, <1>1, <2>1 DEF Numbers, EventTypes
  <2>6. pc \in {"putback", "rotate"} => first \in Event /\ Before(first, posted', lw')
    BY <1>0, <1>1, <2>1, <2>2 DEF Numbers, Before
  <2> QED BY <1>0, <2>1, <2>2, <2>3, <2>4, <2>5, <2>6 DEF Numbers, taskVars
<1>3. ASSUME NEW a \in Addr, NEW kind \in {"RECV", "POLL", "FIN", "ERROR"}, Occurs(a, kind)
      PROVE  Numbers'
  <2> DEFINE c == obj[a]
             v == [pc |-> "callback", e |-> [kind |-> kind, addr |-> a, c |-> c, n |-> posted + 1]]
  <2>1. /\ lw.pc = "free" /\ c \in live /\ posted' = posted + 1 /\ lw' = v /\ live' \subseteq live
        /\ UNCHANGED <<queue, conns, taskVars>>
    BY <1>3 DEF Occurs
  <2>2. v.pc = "callback" /\ v.e.c = c /\ v.e.n = posted + 1 /\ v.e.kind # "CLEAR"
    OBVIOUS
  <2>3. c <= conns
    BY <2>1 DEF Placed
  <2> HIDE DEF c, v
  <2>4. ASSUME NEW e \in Event, Pending(e, conns, posted, live, lw)
        PROVE  Pending(e, conns', posted', live', lw')
    BY <1>0, <1>1, <2>1, <2>2, <2>4 DEF Pending, Before, Ended
  <2>5. pc = "fin" => Ended(cur.c, live', lw')
    BY <2>1, <2>2 DEF Numbers, Ended
  <2>6. pc \in {"putback", "rotate"} => first \in Event /\ Before(first, posted', lw')
    BY <1>0, <1>1, <2>1, <2>2 DEF Numbers, Before
  <2> QED BY <1>0, <2>1, <2>2, <2>3, <2>4, <2>5, <2>6 DEF Numbers, taskVars
<1>4. ASSUME lw' = [lw EXCEPT !.pc = "post"], lw.pc # "free", live' \subseteq live,
             UNCHANGED <<queue, conns, posted, taskVars>>
      PROVE  Numbers'
  <2>1. lw'.pc = "post" /\ lw'.e = lw.e
    BY <1>0, <1>4 DEF TypeOK
  <2>2. ASSUME NEW e \in Event, Pending(e, conns, posted, live, lw)
        PROVE  Pending(e, conns', posted', live', lw')
    BY <1>4, <2>1, <2>2 DEF Pending, Before, Ended
  <2>3. pc = "fin" => Ended(cur.c, live', lw')
    BY <1>4, <2>1 DEF Numbers, Ended
  <2>4. pc \in {"putback", "rotate"} => first \in Event /\ Before(first, posted', lw')
    BY <1>4, <2>1 DEF Numbers, Before
  <2> QED BY <1>4, <2>1, <2>2, <2>3, <2>4 DEF Numbers, taskVars
<1>5. CASE Callback
  <2>1. live' \subseteq live /\ lw' = [lw EXCEPT !.pc = "post"] /\ lw.pc # "free"
        /\ UNCHANGED <<queue, conns, posted, taskVars>>
    BY <1>5 DEF Callback
  <2> QED BY <1>4, <2>1
<1>6. CASE Post
  <2> DEFINE x == lw.e
             v == [pc |-> "free", e |-> NoEvent]
  <2>1. /\ lw.pc = "post" /\ lw' = v /\ UNCHANGED <<live, conns, posted, taskVars>>
        /\ queue' = <<x>> \o queue \/ queue' = Append(queue, x)
    BY <1>6 DEF Post
  <2>2. v.pc = "free" /\ x \in Event /\ queue \in Seq(Event)
    BY <1>0, <2>1 DEF EventTypes
  <2>3. Pending(x, conns, posted, live, v)
    BY <2>1, <2>2, <1>0 DEF Numbers, Placed, Pending, Before, Ended
  <2> HIDE DEF x, v
  <2>4. ASSUME NEW e \in Event, Pending(e, conns, posted, live, lw) PROVE Pending(e, conns, posted, live, v)
    BY <2>2, <2>4 DEF Pending, Before, Ended
  <2>5. ASSUME NEW e \in Event, Waits(e, queue', pc, held) PROVE Waits(e, queue, pc, held) \/ e = x
    <3>1. CASE queue' = <<x>> \o queue
      BY <2>2, <2>5, <3>1, FrontElements DEF Waits
    <3>2. CASE queue' = Append(queue, x)
      BY <2>2, <2>5, <3>2, BackElements DEF Waits
    <3> QED BY <2>1, <3>1, <3>2
  <2>6. \A e \in Event : Waits(e, queue', pc, held) => Pending(e, conns, posted, live, v)
    BY <2>3, <2>4, <2>5 DEF Numbers
  <2>7. pc = "fin" => Ended(cur.c, live, v)
    BY <2>2 DEF Numbers, Ended
  <2>8. pc \in {"putback", "rotate"} => first \in Event /\ Before(first, posted, v)
    BY <2>2 DEF Numbers, Before
  <2> QED BY <2>1, <2>2, <2>6, <2>7, <2>8 DEF Numbers, taskVars
<1>7. CASE Execute
  <2>1. /\ pc = "call" /\ lw.pc = "free" /\ live' \subseteq live /\ pc' \in {"return", "discard", "abort"}
        /\ UNCHANGED <<queue, lw, conns, posted, cur, first, held>>
    <3>1. call.what \in {"use", "close", "abort"}
      BY <1>0 DEF TypeOK
    <3> QED BY <1>7, <3>1 DEF Execute
  <2>2. ASSUME NEW e \in Event, Pending(e, conns, posted, live, lw)
        PROVE  Pending(e, conns, posted, live', lw)
    BY <2>1, <2>2 DEF Pending, Ended
  <2>3. \A e \in Event : Waits(e, queue, pc', held) => Waits(e, queue, pc, held)
    BY <2>1 DEF Waits
  <2> QED BY <2>1, <2>2, <2>3 DEF Numbers
<1> QED BY <1>2, <1>3, <1>5, <1>6, <1>7 DEF Lwip

\* The event at the head of the queue.
LEMMA HeadPending ==
  ASSUME Sound, Numbers, queue # <<>>
  PROVE  /\ Head(queue) \in Event /\ Tail(queue) \in Seq(Event)
         /\ Waits(Head(queue), queue, pc, held)
         /\ Pending(Head(queue), conns, posted, live, lw)
<1>1. queue \in Seq(Event)
  BY DEF Sound, TypeOK
<1>2. Head(queue) \in Event /\ Tail(queue) \in Seq(Event) /\ Head(queue) = queue[1] /\ 1 \in DOMAIN queue
  BY <1>1, TailElements
<1>3. Waits(Head(queue), queue, pc, held)
  BY <1>2 DEF Waits
<1> QED BY <1>2, <1>3 DEF Numbers

\* Taking it, and holding it, makes no other event wait.
LEMMA TailWaits ==
  ASSUME Sound, Numbers, queue # <<>>, queue' = Tail(queue), pc' # "putback" \/ held' = Head(queue)
  PROVE  \A e \in Event : Waits(e, queue', pc', held') => Waits(e, queue, pc, held)
<1>1. queue \in Seq(Event)
  BY DEF Sound, TypeOK
<1>2. ASSUME NEW e \in Event, Waits(e, queue', pc', held')
      PROVE  Waits(e, queue, pc, held)
  <2>1. CASE pc' = "putback" /\ e = held'
    BY <2>1, HeadPending
  <2>2. CASE \E k \in DOMAIN queue' : queue'[k] = e
    <3>1. PICK k \in DOMAIN queue' : queue'[k] = e
      BY <2>2
    <3>2. k + 1 \in DOMAIN queue /\ queue[k + 1] = e
      BY <1>1, <3>1, TailElements
    <3> QED BY <3>2 DEF Waits
  <2> QED BY <1>2, <2>1, <2>2 DEF Waits
<1> QED BY <1>2

\* A step of the task that leaves lwIP alone and waits for no other event.
LEMMA NumbersFewer ==
  ASSUME Numbers, UNCHANGED <<lw, live, conns, posted>>,
         \A e \in Event : Waits(e, queue', pc', held') => Waits(e, queue, pc, held),
         pc' \notin {"wait", "crashed"} => cur'.c <= conns,
         pc' = "fin" => Ended(cur'.c, live, lw),
         pc' \in {"putback", "rotate"} => first' \in Event /\ Before(first', posted, lw)
  PROVE  Numbers'
BY DEF Numbers

LEMMA NumbersCleared ==
  ASSUME Sound, Numbers, cur \in Event, Prepend("CLEAR"), pc # "wait", pc # "crashed",
         UNCHANGED <<lw, live, conns, posted, cur, first, held>>,
         pc \notin {"putback", "rotate"}, pc' \notin {"fin", "putback", "rotate"}
  PROVE  Numbers'
<1> DEFINE x == [kind |-> "CLEAR", addr |-> cur.addr, c |-> cur.c, n |-> 0]
<1>1. x \in Event /\ x.kind = "CLEAR" /\ x.c = cur.c /\ x.n = 0
  BY BoundAssumption DEF Event
<1>2. queue' = <<x>> \o queue /\ queue \in Seq(Event)
  BY DEF Prepend, Sound, TypeOK
<1> HIDE DEF x
<1>3. posted \in Nat /\ (lw.pc # "free" => lw.e.n = posted /\ lw.e.n # 0) /\ cur.c <= conns
  BY DEF Sound, IInv, EventTypes, Numbers
<1>4. Pending(x, conns, posted, live, lw)
  BY <1>1, <1>3 DEF Pending, Before
<1>5. ASSUME NEW e \in Event, Waits(e, queue', pc', held') PROVE Waits(e, queue, pc, held) \/ e = x
  BY <1>1, <1>2, <1>5, FrontElements DEF Waits
<1> QED BY <1>3, <1>4, <1>5 DEF Numbers

LEMMA NumbersTask == Sound /\ Numbers /\ Task => Numbers'
<1> SUFFICES ASSUME Sound, Numbers, Task PROVE Numbers'
  OBVIOUS
<1>0. EventTypes /\ TypeOK /\ (pc # "wait" => cur \in Event)
  BY DEF Sound, IInv, EventTypes
<1>1. CASE Take
  <2> DEFINE e == Head(queue)
  <2>1. queue # <<>> /\ queue' = Tail(queue) /\ cur' = e /\ UNCHANGED <<lw, live, conns, posted, held>>
    BY <1>1 DEF Take, lwipVars
  <2>2. /\ pc' = IF Misses(e) THEN "crashed" ELSE
            CASE e.kind = "ACCEPT" -> "wait"
              [] e.kind = "CLEAR" -> "first"
              [] e.kind = "FIN" -> "fin"
              [] e.kind = "RECV" -> "callback"
              [] e.kind = "POLL" -> IF e.c \in pcb THEN "callback" ELSE "wait"
        /\ ~Misses(e) => e.kind # "ERROR"
    BY <1>1 DEF Take
  <2>3. e \in Event /\ Pending(e, conns, posted, live, lw)
    BY <2>1, HeadPending
  <2>4. e.kind \in {"ACCEPT", "RECV", "POLL", "FIN", "ERROR", "CLEAR"}
    BY <2>3 DEF Event
  <2>5. pc' \in {"crashed", "wait", "first", "fin", "callback"} /\ (pc' = "fin" => e.kind = "FIN")
    BY <2>2, <2>4
  <2>6. \A f \in Event : Waits(f, queue', pc', held') => Waits(f, queue, pc, held)
    BY <2>1, <2>5, TailWaits
  <2> HIDE DEF e
  <2>7. e.c <= conns /\ (e.kind = "FIN" => Ended(e.c, live, lw))
    BY <2>3 DEF Pending
  <2> QED BY <2>1, <2>5, <2>6, <2>7, NumbersFewer
<1>2. CASE TakeError
  <2>1. /\ queue # <<>> /\ queue' = Tail(queue) /\ pc = "wait" /\ pc' = pc
        /\ UNCHANGED <<lw, live, conns, posted, held>>
    BY <1>2 DEF TakeError, lwipVars
  <2>2. \A f \in Event : Waits(f, queue', pc', held') => Waits(f, queue, pc, held)
    BY <2>1, TailWaits
  <2> QED BY <2>1, <2>2, NumbersFewer
<1>3. CASE ClearForFin
  BY <1>0, <1>3, NumbersCleared DEF ClearForFin, lwipVars
<1>4. CASE Clear
  BY <1>0, <1>4, NumbersCleared DEF Clear, lwipVars, Goto
<1>5. CASE Use \/ ReadSlot \/ Return \/ Close \/ Detach \/ Closed
  <2>1. /\ pc \notin {"wait", "crashed", "putback"}
        /\ pc' \in {"slot", "call", "wait", "detach", "clear"}
        /\ UNCHANGED <<queue, lw, live, conns, posted, cur, first, held>>
    BY <1>5 DEF Use, ReadSlot, Return, Close, Detach, Closed, Goto, lwipVars
  <2>2. \A f \in Event : Waits(f, queue', pc', held') => Waits(f, queue, pc, held)
    BY <2>1 DEF Waits
  <2> QED BY <2>1, <2>2, NumbersFewer DEF Numbers
<1>6. CASE CallOfClose("evaluate", "close") \/ CallOfClose("abort", "abort")
  <2>1. /\ pc \notin {"wait", "crashed", "putback"} /\ pc' \in {"slot", "discard"}
        /\ UNCHANGED <<queue, lw, live, conns, posted, cur, first, held>>
    BY <1>6 DEF CallOfClose, lwipVars
  <2>2. \A f \in Event : Waits(f, queue', pc', held') => Waits(f, queue, pc, held)
    BY <2>1 DEF Waits
  <2> QED BY <2>1, <2>2, NumbersFewer DEF Numbers
<1>7. ASSUME pc = "first" \/ pc = "rotate", queue # <<>>, Drop(pc) PROVE Numbers'
  <2>1. /\ queue' = Tail(queue) /\ pc' = pc /\ UNCHANGED <<lw, live, conns, posted, cur, first, held>>
    BY <1>7 DEF Drop, Goto, lwipVars
  <2>2. \A f \in Event : Waits(f, queue', pc', held') => Waits(f, queue, pc, held)
    BY <1>7, <2>1, TailWaits
  <2> QED BY <1>7, <2>1, <2>2, NumbersFewer DEF Numbers
<1>8. ASSUME pc = "first" \/ pc = "rotate", queue # <<>>, Hold PROVE Numbers'
  <2> DEFINE e == Head(queue)
  <2>1. /\ queue' = Tail(queue) /\ held' = e /\ pc' = "putback" /\ UNCHANGED <<lw, live, conns, posted, cur>>
        /\ first' = IF pc = "first" THEN e ELSE first
    BY <1>8 DEF Hold, lwipVars
  <2>2. e \in Event /\ Pending(e, conns, posted, live, lw)
    BY <1>8, HeadPending
  <2>3. \A f \in Event : Waits(f, queue', pc', held') => Waits(f, queue, pc, held)
    BY <1>8, <2>1, TailWaits
  <2> HIDE DEF e
  <2>4. first' \in Event /\ Before(first', posted, lw) /\ cur'.c <= conns
    BY <1>8, <2>1, <2>2 DEF Numbers, Pending
  <2> QED BY <2>1, <2>3, <2>4, NumbersFewer
<1>9. CASE Finish
  <2>1. /\ pc' = "wait" /\ UNCHANGED <<queue, lw, live, conns, posted, cur>>
    BY <1>9 DEF Finish, lwipVars
  <2>2. \A f \in Event : Waits(f, queue', pc', held') => Waits(f, queue, pc, held)
    BY <2>1 DEF Waits
  <2> QED BY <2>1, <2>2, NumbersFewer
<1>10. CASE PutBack
  <2>1. /\ pc = "putback" /\ pc' = "rotate" /\ queue' = Append(queue, held)
        /\ UNCHANGED <<lw, live, conns, posted, cur, first, held>>
        /\ held \in Event /\ queue \in Seq(Event)
    BY <1>0, <1>10 DEF PutBack, Goto, lwipVars, EventTypes
  <2>2. \A f \in Event : Waits(f, queue', pc', held') => Waits(f, queue, pc, held)
    BY <2>1, BackElements DEF Waits
  <2> QED BY <2>1, <2>2, NumbersFewer DEF Numbers
<1>11. CASE FindFirst \/ Rotate
  BY <1>7, <1>8, <1>9, <1>11 DEF FindFirst, Rotate
<1> QED BY <1>1, <1>2, <1>3, <1>4, <1>5, <1>6, <1>10, <1>11 DEF Task

LEMMA PlacedLwip == Sound /\ Numbers /\ Placed /\ Lwip => Placed'
<1> SUFFICES ASSUME Sound, Numbers, Placed, Lwip PROVE Placed'
  OBVIOUS
<1>0. /\ EventTypes /\ TypeOK /\ conns \in Nat /\ posted \in Nat
      /\ pc # "wait" => cur \in Event /\ cur.c \in Conn /\ cur.addr \in Addr
      /\ \A c \in Conn : c \in Nat
  BY DEF Sound, IInv, EventTypes, Event, Conn
<1>1. ASSUME NEW a \in Addr, Accept(a) PROVE Placed'
  <2> DEFINE c == conns + 1
             x == [kind |-> "ACCEPT", addr |-> a, c |-> c, n |-> posted + 1]
             v == [pc |-> "post", e |-> x]
  <2>1. /\ lw.pc = "free" /\ obj[a] = Free /\ conns' = c /\ live' = live \cup {c}
        /\ obj' = [obj EXCEPT ![a] = c] /\ pcb' = pcb \cup {c} /\ bound' = bound \cup {c}
        /\ lw' = v /\ UNCHANGED taskVars
    BY <1>1 DEF Accept, NewClient
  <2>2. v.pc = "post" /\ v.e.kind = "ACCEPT"
    OBVIOUS
  <2> HIDE DEF v
  <2>3. c \in Nat /\ \A d \in Conn : d <= conns => d <= c /\ d # c
    BY <1>0
  <2>4. ~Busy' /\ Closing' = Closing /\ Handling' = Handling
    BY <2>1, <2>2 DEF Busy, Closing, Handling, taskVars
  <2>5. live' \cap bound' \subseteq pcb' /\ \A d \in live' \cup bound' : d <= conns'
    BY <1>0, <2>1, <2>3 DEF Placed, TypeOK
  <2>6. \A b \in Addr : obj'[b] # Free => obj'[b] <= conns'
    BY <1>0, <2>1, <2>3 DEF Placed, TypeOK
  <2>7. Closing => cur.c \notin bound'
    <3>1. Closing => pc \notin {"wait", "crashed"}
      BY DEF Closing
    <3> QED BY <1>0, <2>1, <2>3, <3>1 DEF Numbers, Placed
  <2>8. Handling => obj'[cur.addr] = cur.c
    <3>1. Handling => pc # "wait"
      BY DEF Handling
    <3> QED BY <1>0, <2>1, <3>1, NothingAssumption DEF Placed, TypeOK
  <2> QED BY <2>1, <2>2, <2>4, <2>5, <2>6, <2>7, <2>8 DEF Placed, taskVars
<1>2. ASSUME NEW a \in Addr, NEW kind \in {"RECV", "POLL", "FIN", "ERROR"}, Occurs(a, kind)
      PROVE  Placed'
  <2> DEFINE c == obj[a]
             v == [pc |-> "callback", e |-> [kind |-> kind, addr |-> a, c |-> c, n |-> posted + 1]]
  <2>1. /\ c \in live \cap bound /\ lw' = v
        /\ live' = IF kind = "ERROR" THEN live \ {c} ELSE live
        /\ UNCHANGED <<bound, conns, pcb, obj, taskVars>>
    BY <1>2 DEF Occurs, clientVars
  <2>2. v.pc = "callback" /\ v.e.kind = kind /\ v.e.c = c /\ v.e.addr = a
    OBVIOUS
  <2>3. obj[a] = c /\ c \in pcb /\ c \in bound
    BY <2>1 DEF Placed
  <2> HIDE DEF c, v
  <2>4. Closing' = Closing /\ Handling' = Handling
    BY <2>1 DEF Closing, Handling, taskVars
  <2>5. pc = "discard" => c # cur.c
    BY <2>3 DEF Placed, Closing
  <2> QED BY <2>1, <2>2, <2>3, <2>4, <2>5 DEF Placed, taskVars
<1>3. CASE Callback
  <2> DEFINE c == lw.e.c
  <2>1. /\ lw.pc = "callback" /\ lw' = [lw EXCEPT !.pc = "post"] /\ UNCHANGED <<conns, obj, taskVars>>
        /\ IF lw.e.kind = "FIN" /\ c \in pcb
           THEN bound' = bound \ {c} /\ live' = live \ {c} /\ pcb' = pcb \ {c}
           ELSE UNCHANGED <<bound, live, pcb>>
    BY <1>3 DEF Callback
  <2>2. lw'.pc = "post" /\ lw'.e = lw.e /\ c \in pcb /\ obj[lw.e.addr] = c
    BY <1>0, <2>1 DEF TypeOK, Placed, Busy
  <2>3. Closing' = Closing /\ Handling' = Handling
    BY <2>1 DEF Closing, Handling, taskVars
  <2>4. Busy' => Busy /\ lw.e.kind # "FIN"
    BY <2>1, <2>2 DEF Busy
  <2> QED BY <2>1, <2>2, <2>3, <2>4 DEF Placed, taskVars
<1>4. CASE Post
  <2>1. lw'.pc = "free" /\ UNCHANGED <<live, bound, conns, pcb, obj, taskVars>>
    BY <1>4 DEF Post, clientVars
  <2>2. Closing' = Closing /\ Handling' = Handling
    BY <2>1 DEF Closing, Handling, taskVars
  <2> QED BY <2>1, <2>2 DEF Placed, Busy, taskVars
<1>5. CASE Execute
  <2>1. /\ pc = "call" /\ lw.pc = "free" /\ live' \subseteq live
        /\ pc' = "return" \/ (call.what # "use" /\ pc' \in {"discard", "abort"})
        /\ UNCHANGED <<lw, bound, conns, pcb, obj, cur, call>>
    <3>1. call.what \in {"use", "close", "abort"}
      BY <1>0 DEF TypeOK
    <3> QED BY <1>5, <3>1 DEF Execute, clientVars
  <2>2. Handling /\ (Closing' => Closing)
    BY <2>1 DEF Handling, Closing
  <2> QED BY <2>1, <2>2 DEF Placed, Busy
<1> QED BY <1>1, <1>2, <1>3, <1>4, <1>5 DEF Lwip

\* A step of the task after which no client is in its hands.
LEMMA PlacedIdle ==
  ASSUME Placed, UNCHANGED <<lw, live, bound, conns, pcb, obj>>, ~Closing', ~Handling'
  PROVE  Placed'
BY DEF Placed, Busy, Closing, Handling

\* The client at a is deleted, of which no event of the lwIP thread tells.
LEMMA PlacedDeleted ==
  ASSUME Sound, Placed, NEW c \in Conn, NEW a \in Addr, obj' = [obj EXCEPT ![a] = Free],
         UNCHANGED <<lw, live, bound, conns>>, pcb' = pcb \/ pcb' = pcb \ {c}, pc' = "wait",
         obj[a] = c, Busy => lw.e.c # c, c \notin live \cap bound
  PROVE  Placed'
<1>1. obj \in [Addr -> Conn \cup {Free}] /\ Busy' = Busy
  BY DEF Sound, TypeOK, Busy
<1>2. ~Closing' /\ ~Handling'
  BY DEF Closing, Handling
<1>3. Busy => lw.e.addr # a /\ lw.e.addr \in Addr
  BY DEF Placed, Busy, Sound, IInv, EventTypes, Event
<1>4. Busy' => lw.e.c \in pcb' /\ obj'[lw.e.addr] = lw.e.c
  BY <1>1, <1>3 DEF Placed
<1>5. \A b \in Addr : obj'[b] # Free => obj'[b] <= conns
  BY <1>1 DEF Placed
<1>6. live \cap bound \subseteq pcb'
  BY DEF Placed
<1> QED BY <1>1, <1>2, <1>4, <1>5, <1>6 DEF Placed

LEMMA PlacedTask == Sound /\ Numbers /\ Placed /\ Task => Placed'
<1> SUFFICES ASSUME Sound, Numbers, Placed, Task PROVE Placed'
  OBVIOUS
<1>0. /\ EventTypes /\ TypeOK
      /\ pc # "wait" => cur \in Event /\ cur.c \in Conn /\ cur.addr \in Addr
  BY DEF Sound, IInv, EventTypes, Event
<1>1. CASE Take
  <2> DEFINE e == Head(queue)
  <2>1. queue # <<>> /\ cur' = e /\ UNCHANGED <<lw, live, bound, conns, pcb, obj>>
    BY <1>1 DEF Take, lwipVars, clientVars
  <2>2. /\ pc' = IF Misses(e) THEN "crashed" ELSE
            CASE e.kind = "ACCEPT" -> "wait"
              [] e.kind = "CLEAR" -> "first"
              [] e.kind = "FIN" -> "fin"
              [] e.kind = "RECV" -> "callback"
              [] e.kind = "POLL" -> IF e.c \in pcb THEN "callback" ELSE "wait"
        /\ ~Misses(e) => e.kind # "ERROR"
    BY <1>1 DEF Take
  <2>3. e \in Event
    BY <2>1, HeadPending
  <2>4. e.kind \in {"ACCEPT", "RECV", "POLL", "FIN", "ERROR", "CLEAR"}
    BY <2>3 DEF Event
  <2>5. /\ pc' \in {"crashed", "wait", "first", "fin", "callback"}
        /\ pc' \in {"fin", "callback"} => ~Misses(e) /\ e.kind \in {"RECV", "POLL", "FIN"}
    BY <2>2, <2>4
  <2>6. pc' \in {"fin", "callback"} => obj[e.addr] = e.c
    BY <2>5 DEF Misses
  <2> HIDE DEF e
  <2> QED BY <2>1, <2>5, <2>6 DEF Placed, Busy, Closing, Handling
<1>2. CASE TakeError
  <2> DEFINE e == Head(queue)
  <2>1. /\ queue # <<>> /\ pc = "wait" /\ pc' = "wait" /\ e.kind = "ERROR" /\ ~Misses(e)
        /\ pcb' = pcb \ {e.c} /\ UNCHANGED <<lw, live, bound, conns>>
        /\ obj' = obj \/ obj' = [obj EXCEPT ![e.addr] = Free]
    BY <1>2 DEF TakeError, Discard, lwipVars
  <2>2. e \in Event /\ Ended(e.c, live, lw)
    BY <2>1, HeadPending DEF Pending
  <2>3. obj[e.addr] = e.c /\ e.c \in Conn /\ e.addr \in Addr
    BY <2>1, <2>2 DEF Misses, Event
  <2> HIDE DEF e
  <2>4. e.c \notin live /\ (Busy => lw.e.c # e.c)
    BY <2>2 DEF Ended, Busy
  <2>5. CASE obj' = obj
    <3>1. ~Closing' /\ ~Handling' /\ Busy' = Busy
      BY <2>1 DEF Closing, Handling, Busy
    <3> QED BY <2>1, <2>4, <2>5, <3>1 DEF Placed
  <2>6. CASE obj' = [obj EXCEPT ![e.addr] = Free]
    BY <2>1, <2>3, <2>4, <2>6, PlacedDeleted
  <2> QED BY <2>1, <2>5, <2>6
<1>3. CASE ClearForFin
  <2>1. /\ pc = "fin" /\ pc' = "wait" /\ UNCHANGED <<lw, live, bound, conns, pcb>>
        /\ obj' = obj \/ obj' = [obj EXCEPT ![cur.addr] = Free]
    BY <1>3 DEF ClearForFin, Discard, lwipVars
  <2>2. /\ obj[cur.addr] = cur.c /\ cur.c \in Conn /\ cur.addr \in Addr
        /\ cur.c \notin live /\ (Busy => lw.e.c # cur.c)
    BY <1>0, <2>1 DEF Placed, Handling, Numbers, Ended, Busy
  <2>3. CASE obj' = obj
    BY <2>1, <2>3, PlacedIdle DEF Closing, Handling
  <2>4. CASE obj' = [obj EXCEPT ![cur.addr] = Free]
    BY <2>1, <2>2, <2>4, PlacedDeleted
  <2> QED BY <2>1, <2>3, <2>4
<1>4. CASE Closed
  <2>1. /\ pc = "discard" /\ pc' = "wait" /\ UNCHANGED <<lw, live, bound, conns>>
        /\ pcb' = pcb \ {cur.c} /\ obj' = [obj EXCEPT ![cur.addr] = Free]
    BY <1>4 DEF Closed, Discard, lwipVars
  <2>2. /\ obj[cur.addr] = cur.c /\ cur.c \in Conn /\ cur.addr \in Addr
        /\ cur.c \notin bound /\ (Busy => lw.e.c # cur.c)
    BY <1>0, <2>1 DEF Placed, Handling, Closing
  <2> QED BY <2>1, <2>2, PlacedDeleted
<1>5. CASE Use \/ ReadSlot \/ Return \/ Close
  <2>1. UNCHANGED <<lw, live, bound, conns, pcb, obj, cur>>
    BY <1>5 DEF Use, ReadSlot, Return, Close, Goto, lwipVars, clientVars
  <2>2. pc' # "discard" /\ (Handling' => Handling) /\ (Closing' => Closing)
    BY <1>0, <1>5 DEF Use, ReadSlot, Return, Close, Goto, Handling, Closing, TypeOK
  <2> QED BY <2>1, <2>2 DEF Placed, Busy
<1>6. CASE Detach
  <2>1. /\ pc = "detach" /\ pc' = "clear" /\ bound' = bound \ {cur.c}
        /\ UNCHANGED <<lw, live, conns, pcb, obj, cur>>
    BY <1>6 DEF Detach, Goto, clientVars
  <2>2. Handling
    BY <2>1 DEF Handling
  <2> QED BY <2>1, <2>2 DEF Placed, Busy
<1>7. CASE Clear
  <2>1. pc = "clear" /\ pc' = "evaluate" /\ UNCHANGED <<lw, live, bound, conns, pcb, obj, cur>>
    BY <1>7 DEF Clear, Goto, lwipVars, clientVars
  <2>2. Handling /\ Closing
    BY <2>1 DEF Handling, Closing
  <2> QED BY <2>1, <2>2 DEF Placed, Busy
<1>8. ASSUME NEW from \in {"evaluate", "abort"}, NEW what \in {"close", "abort"}, CallOfClose(from, what)
      PROVE  Placed'
  <2>1. /\ pc = from /\ pc' = IF cur.c \in pcb THEN "slot" ELSE "discard"
        /\ UNCHANGED <<lw, live, bound, conns, pcb, obj, cur>>
    BY <1>8 DEF CallOfClose, lwipVars, clientVars
  <2>2. Handling /\ Closing
    BY <2>1 DEF Handling, Closing
  <2>3. pc' = "discard" => ~(Busy /\ lw.e.c = cur.c)
    BY <2>1 DEF Placed
  <2> QED BY <2>1, <2>2, <2>3 DEF Placed, Busy
<1>9. CASE FindFirst \/ PutBack \/ Rotate
  <2>1. UNCHANGED <<lw, live, bound, conns, pcb, obj>> /\ pc' \in {"wait", "first", "rotate", "putback"}
    BY <1>9 DEF FindFirst, PutBack, Rotate, Finish, Drop, Hold, Goto, lwipVars, clientVars
  <2> QED BY <2>1, PlacedIdle DEF Closing, Handling
<1> QED BY <1>1, <1>2, <1>3, <1>4, <1>5, <1>6, <1>7, <1>8, <1>9 DEF Task

-----------------------------------------------------------------------------
(* The order of the queue *)

\* Two events that wait: they differ, and an error is the last of its connection.
Over(e, f) ==
  /\ e.n = f.n => e.kind = "CLEAR"
  /\ e.kind = "ERROR" /\ e.c = f.c => f.n < e.n
Apart(q) == \A j, k \in DOMAIN q : j # k => Over(q[j], q[k])
Beside(q, h) == \A k \in DOMAIN q : Over(h, q[k]) /\ Over(q[k], h)

\* Only events of the server come before a CLEAR.
ClearsFirst(q) ==
  \A j, i \in DOMAIN q : q[j].kind = "CLEAR" /\ i < j => q[i].kind = "ACCEPT"
NoClear(q) == \A j \in DOMAIN q : q[j].kind # "CLEAR"
Same(e, f) == e.addr = f.addr /\ e.c = f.c
HasClear(q, e) == \E j \in DOMAIN q : q[j].kind = "CLEAR" /\ Same(q[j], e)
Swept == Closing /\ pc # "clear"

Ordered ==
  /\ Apart(queue)
  /\ ClearsFirst(queue)
  /\ pc = "putback" => Beside(queue, held) /\ held.kind # "CLEAR"
  /\ pc \notin {"wait", "crashed"} /\ ~Swept => NoClear(queue)
  /\ Swept => HasClear(queue, cur)

LEMMA OrderedInit == Init => Ordered
<1> SUFFICES ASSUME Init PROVE Ordered
  OBVIOUS
<1>1. DOMAIN queue = {} /\ pc = "wait"
  BY DEF Init
<1> QED BY <1>1 DEF Ordered, Apart, ClearsFirst, Swept, Closing

LEMMA TailOrdered ==
  ASSUME NEW q \in Seq(Event), q # <<>>, Apart(q), ClearsFirst(q), NEW t, t = Tail(q), NEW h, h = Head(q)
  PROVE  /\ Apart(t) /\ Beside(t, h) /\ ClearsFirst(t)
         /\ h.kind # "ACCEPT" => NoClear(t)
         /\ NoClear(q) => NoClear(t) /\ h.kind # "CLEAR"
<1>1. /\ h = q[1] /\ 1 \in DOMAIN q
      /\ \A k \in DOMAIN t : k \in Nat /\ k # 0 /\ k + 1 \in DOMAIN q /\ t[k] = q[k + 1]
  BY TailElements
<1>2. Apart(t)
  BY <1>1 DEF Apart
<1>3. Beside(t, h)
  <2>1. ASSUME NEW k \in DOMAIN t PROVE Over(h, t[k]) /\ Over(t[k], h)
    <3>1. k + 1 \in DOMAIN q /\ k + 1 # 1 /\ t[k] = q[k + 1]
      BY <1>1
    <3> QED BY <1>1, <3>1 DEF Apart
  <2> QED BY <2>1 DEF Beside
<1>4. ClearsFirst(t)
  BY <1>1 DEF ClearsFirst
<1>5. h.kind # "ACCEPT" => NoClear(t)
  <2> SUFFICES ASSUME h.kind # "ACCEPT", NEW k \in DOMAIN t PROVE t[k].kind # "CLEAR"
    BY DEF NoClear
  <2>1. 1 < k + 1
    BY <1>1
  <2> QED BY <1>1, <2>1 DEF ClearsFirst
<1>6. NoClear(q) => NoClear(t) /\ h.kind # "CLEAR"
  BY <1>1 DEF NoClear
<1> QED BY <1>2, <1>3, <1>4, <1>5, <1>6

LEMMA FrontOrdered ==
  ASSUME NEW q \in Seq(Event), Apart(q), ClearsFirst(q), NEW x \in Event, Beside(q, x), NEW t, t = <<x>> \o q,
         x.kind = "ACCEPT" \/ (x.kind = "CLEAR" /\ NoClear(q))
  PROVE  /\ Apart(t) /\ ClearsFirst(t)
         /\ x.kind = "ACCEPT" /\ NoClear(q) => NoClear(t)
         /\ \A e : HasClear(q, e) \/ (x.kind = "CLEAR" /\ Same(x, e)) => HasClear(t, e)
<1>1. /\ t[1] = x /\ 1 \in DOMAIN t
      /\ \A k \in DOMAIN t : k \in Nat /\ k # 0 /\ (k # 1 => k - 1 \in DOMAIN q /\ t[k] = q[k - 1])
      /\ \A k \in DOMAIN q : k \in Nat /\ k + 1 \in DOMAIN t /\ t[k + 1] = q[k]
  BY FrontElements
<1>2. Apart(t)
  <2>1. ASSUME NEW j \in DOMAIN t, NEW k \in DOMAIN t, j # k PROVE Over(t[j], t[k])
    <3>1. CASE j = 1
      BY <1>1, <2>1, <3>1 DEF Beside
    <3>2. CASE k = 1
      BY <1>1, <2>1, <3>2 DEF Beside
    <3>3. CASE j # 1 /\ k # 1
      <4>1. j - 1 # k - 1
        BY <1>1, <2>1
      <4> QED BY <1>1, <3>3, <4>1 DEF Apart
    <3> QED BY <3>1, <3>2, <3>3
  <2> QED BY <2>1 DEF Apart
<1>3. ClearsFirst(t)
  <2>1. ASSUME NEW j \in DOMAIN t, NEW i \in DOMAIN t, t[j].kind = "CLEAR", i < j PROVE t[i].kind = "ACCEPT"
    <3>1. j # 1 /\ j - 1 \in DOMAIN q /\ q[j - 1].kind = "CLEAR"
      BY <1>1, <2>1
    <3>2. x.kind = "ACCEPT"
      BY <3>1 DEF NoClear
    <3>3. CASE i = 1
      BY <1>1, <3>2, <3>3
    <3>4. CASE i # 1
      <4>1. i - 1 \in DOMAIN q /\ t[i] = q[i - 1] /\ i - 1 < j - 1
        BY <1>1, <2>1, <3>4
      <4> QED BY <3>1, <4>1 DEF ClearsFirst
    <3> QED BY <3>3, <3>4
  <2> QED BY <2>1 DEF ClearsFirst
<1>4. x.kind = "ACCEPT" /\ NoClear(q) => NoClear(t)
  BY <1>1 DEF NoClear
<1>5. \A e : HasClear(q, e) \/ (x.kind = "CLEAR" /\ Same(x, e)) => HasClear(t, e)
  BY <1>1 DEF HasClear
<1> QED BY <1>2, <1>3, <1>4, <1>5

LEMMA BackOrdered ==
  ASSUME NEW q \in Seq(Event), Apart(q), ClearsFirst(q), NEW x \in Event, Beside(q, x), NEW t, t = Append(q, x),
         x.kind # "CLEAR"
  PROVE  /\ Apart(t) /\ ClearsFirst(t) /\ (NoClear(q) => NoClear(t))
         /\ \A e : HasClear(q, e) => HasClear(t, e)
<1> DEFINE n == Len(q) + 1
<1>1. /\ t[n] = x /\ Len(q) \in Nat /\ DOMAIN q = 1..Len(q) /\ DOMAIN t = 1..n
      /\ \A k \in DOMAIN q : t[k] = q[k] /\ k \in DOMAIN t
      /\ \A k \in DOMAIN t : k \in Nat /\ (k \in DOMAIN q \/ k = n)
  BY BackElements
<1> HIDE DEF n
<1>2. Apart(t)
  BY <1>1 DEF Apart, Beside
<1>3. ClearsFirst(t)
  <2>1. ASSUME NEW j \in DOMAIN t, NEW i \in DOMAIN t, t[j].kind = "CLEAR", i < j PROVE t[i].kind = "ACCEPT"
    <3>1. j \in DOMAIN q
      BY <1>1, <2>1
    <3>2. i \in DOMAIN q
      BY <1>1, <2>1, <3>1
    <3> QED BY <1>1, <2>1, <3>1, <3>2 DEF ClearsFirst
  <2> QED BY <2>1 DEF ClearsFirst
<1>4. NoClear(q) => NoClear(t)
  BY <1>1 DEF NoClear
<1>5. \A e : HasClear(q, e) => HasClear(t, e)
  BY <1>1 DEF HasClear
<1> QED BY <1>2, <1>3, <1>4, <1>5

\* The event lwIP posts is later than those that wait, and none of them is an
\* error of its connection.
LEMMA PostedOver ==
  ASSUME Sound, Numbers, lw.pc = "post", NEW e \in Event, Waits(e, queue, pc, held)
  PROVE  Over(lw.e, e) /\ Over(e, lw.e)
<1>1. Pending(e, conns, posted, live, lw) /\ lw.e \in Event
  BY DEF Numbers, Sound, IInv, EventTypes
<1>2. e.n < lw.e.n /\ (e.kind = "ERROR" => e.c # lw.e.c)
  BY <1>1 DEF Pending, Before, Ended
<1>3. e.n \in Nat /\ lw.e.n \in Nat
  BY <1>1, BoundAssumption DEF Event
<1> QED BY <1>2, <1>3 DEF Over

\* A CLEAR has no number.
LEMMA ClearOver ==
  ASSUME Sound, Numbers, NEW x \in Event, x.kind = "CLEAR", x.n = 0, NEW e \in Event,
         Waits(e, queue, pc, held)
  PROVE  Over(x, e) /\ Over(e, x)
<1>1. Pending(e, conns, posted, live, lw) /\ e.n \in Nat
  BY BoundAssumption DEF Numbers, Event
<1>2. e.kind # "CLEAR" => e.n # 0
  BY <1>1 DEF Pending
<1> QED BY <1>1, <1>2 DEF Over

LEMMA OrderedLwip == Sound /\ Numbers /\ Ordered /\ Lwip => Ordered'
<1> SUFFICES ASSUME Sound, Numbers, Ordered, Lwip PROVE Ordered'
  OBVIOUS
<1>0. EventTypes /\ TypeOK
  BY DEF Sound, IInv
<1>1. ASSUME UNCHANGED <<queue, taskVars>> PROVE Ordered'
  <2>1. Swept' = Swept
    BY <1>1 DEF Swept, Closing, taskVars
  <2> QED BY <1>1, <2>1 DEF Ordered, taskVars
<1>2. ASSUME NEW a \in Addr, Accept(a) PROVE Ordered'
  BY <1>1, <1>2 DEF Accept
<1>3. ASSUME NEW a \in Addr, NEW kind \in {"RECV", "POLL", "FIN", "ERROR"}, Occurs(a, kind)
      PROVE  Ordered'
  BY <1>1, <1>3 DEF Occurs
<1>4. CASE Callback
  BY <1>1, <1>4 DEF Callback
<1>5. CASE Post
  <2> DEFINE x == lw.e
             t == queue'
  <2>1. /\ lw.pc = "post" /\ UNCHANGED taskVars
        /\ (x.kind = "ACCEPT" /\ t = <<x>> \o queue) \/ (x.kind # "ACCEPT" /\ t = Append(queue, x))
    BY <1>5 DEF Post
  <2>2. /\ x \in Event /\ x.kind # "CLEAR" /\ queue \in Seq(Event)
        /\ pc = "putback" => held \in Event
    BY <1>0, <2>1 DEF EventTypes, Numbers
  <2>3. \A e \in Event : Waits(e, queue, pc, held) => Over(x, e) /\ Over(e, x)
    BY <2>1, PostedOver
  <2> HIDE DEF x, t
  <2>4. Beside(queue, x) /\ (pc = "putback" => Over(held, x) /\ Over(x, held))
    <3>1. \A k \in DOMAIN queue : queue[k] \in Event /\ Waits(queue[k], queue, pc, held)
      BY <2>2 DEF Waits
    <3>2. pc = "putback" => Waits(held, queue, pc, held)
      BY DEF Waits
    <3> QED BY <2>2, <2>3, <3>1, <3>2 DEF Beside
  <2>5. Apart(queue) /\ ClearsFirst(queue)
    BY DEF Ordered
  <2>6. /\ Apart(t) /\ ClearsFirst(t) /\ (NoClear(queue) => NoClear(t))
        /\ \A e : HasClear(queue, e) => HasClear(t, e)
    <3>1. CASE x.kind = "ACCEPT" /\ t = <<x>> \o queue
      BY <2>2, <2>4, <2>5, <3>1, FrontOrdered
    <3>2. CASE t = Append(queue, x)
      BY <2>2, <2>4, <2>5, <3>2, BackOrdered
    <3> QED BY <2>1, <3>1, <3>2
  <2>7. pc = "putback" => Beside(t, held)
    <3> SUFFICES ASSUME pc = "putback", NEW k \in DOMAIN t PROVE Over(held, t[k]) /\ Over(t[k], held)
      BY DEF Beside
    <3>1. t[k] = x \/ \E j \in DOMAIN queue : t[k] = queue[j]
      <4>1. CASE t = <<x>> \o queue
        BY <2>2, <4>1, FrontElements
      <4>2. CASE t = Append(queue, x)
        BY <2>2, <4>2, BackElements
      <4> QED BY <2>1, <4>1, <4>2
    <3> QED BY <2>4, <3>1 DEF Ordered, Beside
  <2>8. Swept' = Swept
    BY <2>1 DEF Swept, Closing, taskVars
  <2> QED BY <2>1, <2>6, <2>7, <2>8 DEF Ordered, taskVars, t
<1>6. CASE Execute
  <2>1. /\ pc = "call"
        /\ (call.what = "use" /\ pc' = "return") \/ (call.what # "use" /\ pc' \in {"discard", "abort"})
        /\ UNCHANGED <<queue, cur, call, held>>
    <3>1. call.what \in {"use", "close", "abort"}
      BY <1>0 DEF TypeOK
    <3> QED BY <1>6, <3>1 DEF Execute
  <2>2. Swept' = Swept
    BY <2>1 DEF Swept, Closing
  <2> QED BY <2>1, <2>2 DEF Ordered
<1> QED BY <1>2, <1>3, <1>4, <1>5, <1>6 DEF Lwip

LEMMA OrderedCleared ==
  ASSUME Sound, Numbers, Ordered, cur \in Event, Prepend("CLEAR"), pc \in {"clear", "fin"},
         pc' \in {"wait", "evaluate"}, UNCHANGED cur
  PROVE  Ordered'
<1> DEFINE x == [kind |-> "CLEAR", addr |-> cur.addr, c |-> cur.c, n |-> 0]
           t == queue'
<1>1. x \in Event /\ x.kind = "CLEAR" /\ Same(x, cur) /\ x.n = 0
  BY BoundAssumption DEF Event, Same
<1>2. t = <<x>> \o queue /\ queue \in Seq(Event)
  BY DEF Prepend, Sound, TypeOK
<1>3. \A e \in Event : Waits(e, queue, pc, held) => Over(x, e) /\ Over(e, x)
  BY <1>1, ClearOver
<1> HIDE DEF x, t
<1>4. Beside(queue, x)
  <2>1. \A k \in DOMAIN queue : queue[k] \in Event /\ Waits(queue[k], queue, pc, held)
    BY <1>2 DEF Waits
  <2> QED BY <1>3, <2>1 DEF Beside
<1>5. Apart(queue) /\ ClearsFirst(queue) /\ NoClear(queue)
  BY DEF Ordered, Swept, Closing
<1>6. Apart(t) /\ ClearsFirst(t) /\ HasClear(t, cur)
  BY <1>1, <1>2, <1>4, <1>5, FrontOrdered
<1> QED BY <1>6 DEF Ordered, Swept, Closing, t

LEMMA OrderedTask == Sound /\ Numbers /\ Ordered /\ Task => Ordered'
<1> SUFFICES ASSUME Sound, Numbers, Ordered, Task PROVE Ordered'
  OBVIOUS
<1>0. /\ EventTypes /\ TypeOK /\ (pc # "wait" => cur \in Event)
      /\ queue \in Seq(Event) /\ Apart(queue) /\ ClearsFirst(queue)
  BY DEF Sound, IInv, EventTypes, Ordered
<1>1. CASE Take
  <2> DEFINE e == Head(queue)
             t == queue'
  <2>1. queue # <<>> /\ t = Tail(queue)
    BY <1>1 DEF Take
  <2>2. /\ pc' = IF Misses(e) THEN "crashed" ELSE
            CASE e.kind = "ACCEPT" -> "wait"
              [] e.kind = "CLEAR" -> "first"
              [] e.kind = "FIN" -> "fin"
              [] e.kind = "RECV" -> "callback"
              [] e.kind = "POLL" -> IF e.c \in pcb THEN "callback" ELSE "wait"
        /\ ~Misses(e) => e.kind # "ERROR"
    BY <1>1 DEF Take
  <2>3. e \in Event
    BY <2>1, HeadPending
  <2>4. e.kind \in {"ACCEPT", "RECV", "POLL", "FIN", "ERROR", "CLEAR"}
    BY <2>3 DEF Event
  <2>5. /\ pc' \in {"crashed", "wait", "first", "fin", "callback"}
        /\ pc' \in {"first", "fin", "callback"} => e.kind # "ACCEPT"
    BY <2>2, <2>4
  <2> HIDE DEF e, t
  <2>6. Apart(t) /\ ClearsFirst(t) /\ (e.kind # "ACCEPT" => NoClear(t))
    BY <1>0, <2>1, TailOrdered DEF e
  <2> QED BY <2>5, <2>6 DEF Ordered, Swept, Closing, t
<1>2. CASE TakeError
  <2> DEFINE t == queue'
  <2>1. queue # <<>> /\ t = Tail(queue) /\ pc' = "wait"
    BY <1>2 DEF TakeError
  <2> HIDE DEF t
  <2>2. Apart(t) /\ ClearsFirst(t)
    BY <1>0, <2>1, TailOrdered
  <2> QED BY <2>1, <2>2 DEF Ordered, Swept, Closing, t
<1>3. CASE ClearForFin
  BY <1>0, <1>3, OrderedCleared DEF ClearForFin
<1>4. CASE Clear
  BY <1>0, <1>4, OrderedCleared DEF Clear, Goto
<1>5. CASE Use \/ ReadSlot \/ Return \/ Close \/ Detach
  <2>1. /\ pc \notin {"wait", "crashed", "clear"} /\ pc' \in {"slot", "call", "wait", "detach", "clear"}
        /\ UNCHANGED <<queue, cur>>
    BY <1>5 DEF Use, ReadSlot, Return, Close, Detach, Goto
  <2>2. Swept' = Swept
    BY <1>0, <1>5 DEF Use, ReadSlot, Return, Close, Detach, Goto, Swept, Closing, TypeOK
  <2> QED BY <2>1, <2>2 DEF Ordered
<1>6. CASE Closed
  <2>1. pc' = "wait" /\ UNCHANGED queue
    BY <1>6 DEF Closed
  <2> QED BY <2>1 DEF Ordered, Swept, Closing
<1>7. ASSUME NEW from \in {"evaluate", "abort"}, NEW what \in {"close", "abort"}, CallOfClose(from, what)
      PROVE  Ordered'
  <2>1. /\ pc = from /\ pc' \in {"slot", "discard"} /\ UNCHANGED <<queue, cur>>
        /\ call' = [call EXCEPT !.what = what]
    BY <1>7 DEF CallOfClose
  <2>2. call'.what # "use"
    BY <1>0, <2>1 DEF TypeOK
  <2>3. Swept /\ Swept'
    BY <2>1, <2>2 DEF Swept, Closing
  <2> QED BY <2>1, <2>3 DEF Ordered
<1>8. ASSUME pc = "first" \/ pc = "rotate", queue # <<>>, Drop(pc) PROVE Ordered'
  <2> DEFINE t == queue'
  <2>1. t = Tail(queue) /\ pc' = pc /\ NoClear(queue)
    BY <1>8 DEF Drop, Goto, Ordered, Swept, Closing
  <2> HIDE DEF t
  <2>2. Apart(t) /\ ClearsFirst(t) /\ NoClear(t)
    BY <1>0, <1>8, <2>1, TailOrdered
  <2> QED BY <1>8, <2>1, <2>2 DEF Ordered, Swept, Closing, t
<1>9. ASSUME pc = "first" \/ pc = "rotate", queue # <<>>, Hold PROVE Ordered'
  <2> DEFINE t == queue'
             h == held'
  <2>1. t = Tail(queue) /\ h = Head(queue) /\ pc' = "putback" /\ NoClear(queue)
    BY <1>9 DEF Hold, Ordered, Swept, Closing
  <2> HIDE DEF t, h
  <2>2. Apart(t) /\ ClearsFirst(t) /\ NoClear(t) /\ Beside(t, h) /\ h.kind # "CLEAR"
    BY <1>0, <1>9, <2>1, TailOrdered
  <2> QED BY <2>1, <2>2 DEF Ordered, Swept, Closing, t, h
<1>10. CASE Finish
  <2>1. pc' = "wait" /\ UNCHANGED queue
    BY <1>10 DEF Finish
  <2> QED BY <2>1 DEF Ordered, Swept, Closing
<1>11. CASE PutBack
  <2> DEFINE t == queue'
  <2>1. pc = "putback" /\ pc' = "rotate" /\ t = Append(queue, held) /\ held \in Event
    BY <1>0, <1>11 DEF PutBack, Goto, EventTypes
  <2>2. NoClear(queue) /\ Beside(queue, held) /\ held.kind # "CLEAR"
    BY <2>1 DEF Ordered, Swept, Closing
  <2> HIDE DEF t
  <2>3. Apart(t) /\ ClearsFirst(t) /\ NoClear(t)
    BY <1>0, <2>1, <2>2, BackOrdered
  <2> QED BY <2>1, <2>3 DEF Ordered, Swept, Closing, t
<1>12. CASE FindFirst \/ Rotate
  BY <1>8, <1>9, <1>10, <1>12 DEF FindFirst, Rotate
<1> QED BY <1>1, <1>2, <1>3, <1>4, <1>5, <1>6, <1>7, <1>11, <1>12 DEF Task

-----------------------------------------------------------------------------
(* Events of deleted clients *)

\* An event whose client is not the one at its address (o), and one that comes
\* after a later one of its connection (l).
Stray(e, o) == e.kind \in {"RECV", "POLL", "ERROR"} /\ o[e.addr] # e.c
Late(e, l) == e.n < l[e.c]

\* A CLEAR of the client comes before.
Covered(q, k) == \E j \in DOMAIN q : j < k /\ q[j].kind = "CLEAR" /\ Same(q[j], q[k])
Excused(q, o, l) == \A k \in DOMAIN q : Stray(q[k], o) => Late(q[k], l) \/ Covered(q, k)

\* While the queue is cleared of the client of f, and while it is rotated to b.
Clearing == pc \in {"first", "putback", "rotate"}
Sought(q, o, l, f) == \A k \in DOMAIN q : Stray(q[k], o) => Late(q[k], l) \/ Same(q[k], f)
Ahead(q, o, l, b) ==
  \A k \in DOMAIN q : Stray(q[k], o) /\ ~Late(q[k], l) => \A j \in DOMAIN q : j < k => q[j] # b

Strays ==
  /\ ~Clearing => Excused(queue, obj, last)
  /\ Clearing => Sought(queue, obj, last, cur)
  /\ pc \in {"putback", "rotate"} => ~Matches(first) /\ Ahead(queue, obj, last, first)
  /\ pc = "putback" => (Stray(held, obj) => Late(held, last))
  /\ pc = "crashed" => cur.kind = "FIN" \/ OutOfOrder

LEMMA StraysInit == Init => Strays
BY DEF Init, Strays, Clearing, Excused

LEMMA TailExcused ==
  ASSUME NEW q \in Seq(Event), q # <<>>, NEW o, NEW l, NEW t, t = Tail(q), NEW f, NEW b
  PROVE  /\ Head(q).kind # "CLEAR" /\ Excused(q, o, l) => Excused(t, o, l)
         /\ Sought(q, o, l, f) => Sought(t, o, l, f)
         /\ Ahead(q, o, l, b) => Ahead(t, o, l, b)
<1>1. /\ Head(q) = q[1] /\ 1 \in DOMAIN q /\ Len(q) \in Nat /\ DOMAIN q = 1..Len(q)
      /\ DOMAIN t = 1..(Len(q) - 1)
      /\ \A k \in DOMAIN t : k \in Nat /\ k # 0 /\ k + 1 \in DOMAIN q /\ t[k] = q[k + 1]
  BY TailElements
<1>2. ASSUME Head(q).kind # "CLEAR", Excused(q, o, l), NEW k \in DOMAIN t, Stray(t[k], o), ~Late(t[k], l)
      PROVE  Covered(t, k)
  <2>1. k + 1 \in DOMAIN q /\ t[k] = q[k + 1]
    BY <1>1
  <2>2. PICK j \in DOMAIN q : j < k + 1 /\ q[j].kind = "CLEAR" /\ Same(q[j], q[k + 1])
    BY <1>2, <2>1 DEF Excused, Covered
  <2>3. j # 1
    BY <1>1, <1>2, <2>2
  <2>4. j - 1 \in DOMAIN t /\ j - 1 < k /\ j - 1 + 1 = j
    BY <1>1, <2>2, <2>3
  <2>5. t[j - 1] = q[j]
    BY <1>1, <2>4
  <2> QED BY <2>1, <2>2, <2>4, <2>5 DEF Covered
<1>3. Sought(q, o, l, f) => Sought(t, o, l, f)
  BY <1>1 DEF Sought
<1>4. ASSUME Ahead(q, o, l, b), NEW k \in DOMAIN t, Stray(t[k], o), ~Late(t[k], l), NEW j \in DOMAIN t, j < k
      PROVE  t[j] # b
  <2>1. k + 1 \in DOMAIN q /\ j + 1 \in DOMAIN q /\ j + 1 < k + 1 /\ t[k] = q[k + 1] /\ t[j] = q[j + 1]
    BY <1>1, <1>4
  <2> QED BY <1>4, <2>1 DEF Ahead
<1> QED BY <1>2, <1>3, <1>4 DEF Excused, Ahead

\* An event that is no stray comes to the front.
LEMMA FrontExcused ==
  ASSUME NEW q \in Seq(Event), NEW x \in Event, NEW o, NEW l, NEW t, t = <<x>> \o q, ~Stray(x, o), NEW f, NEW b
  PROVE  /\ Excused(q, o, l) => Excused(t, o, l)
         /\ Sought(q, o, l, f) => Sought(t, o, l, f)
         /\ Ahead(q, o, l, b) /\ x # b => Ahead(t, o, l, b)
<1>1. /\ t[1] = x /\ 1 \in DOMAIN t
      /\ \A k \in DOMAIN t : k \in Nat /\ k # 0 /\ (k # 1 => k - 1 \in DOMAIN q /\ t[k] = q[k - 1])
      /\ \A k \in DOMAIN q : k \in Nat /\ k + 1 \in DOMAIN t /\ t[k + 1] = q[k]
  BY FrontElements
<1>2. ASSUME Excused(q, o, l), NEW k \in DOMAIN t, Stray(t[k], o), ~Late(t[k], l)
      PROVE  Covered(t, k)
  <2>1. k # 1 /\ k - 1 \in DOMAIN q /\ t[k] = q[k - 1]
    BY <1>1, <1>2
  <2>2. PICK j \in DOMAIN q : j < k - 1 /\ q[j].kind = "CLEAR" /\ Same(q[j], q[k - 1])
    BY <1>2, <2>1 DEF Excused, Covered
  <2>3. j + 1 \in DOMAIN t /\ t[j + 1] = q[j] /\ j + 1 < k
    BY <1>1, <2>2
  <2> QED BY <2>1, <2>2, <2>3 DEF Covered
<1>3. Sought(q, o, l, f) => Sought(t, o, l, f)
  BY <1>1 DEF Sought
<1>4. ASSUME Ahead(q, o, l, b), x # b, NEW k \in DOMAIN t, Stray(t[k], o), ~Late(t[k], l),
             NEW j \in DOMAIN t, j < k
      PROVE  t[j] # b
  <2>1. k # 1 /\ k - 1 \in DOMAIN q /\ t[k] = q[k - 1]
    BY <1>1, <1>4
  <2>2. CASE j = 1
    BY <1>1, <1>4, <2>2
  <2>3. CASE j # 1
    <3>1. j - 1 \in DOMAIN q /\ t[j] = q[j - 1] /\ j - 1 < k - 1
      BY <1>1, <1>4, <2>3
    <3> QED BY <1>4, <2>1, <3>1 DEF Ahead
  <2> QED BY <2>2, <2>3
<1> QED BY <1>2, <1>3, <1>4 DEF Excused, Ahead

\* Or, if it is late at most, to the back.
LEMMA BackExcused ==
  ASSUME NEW q \in Seq(Event), NEW x \in Event, NEW o, NEW l, NEW t, t = Append(q, x),
         Stray(x, o) => Late(x, l), NEW f, NEW b
  PROVE  /\ Excused(q, o, l) => Excused(t, o, l)
         /\ Sought(q, o, l, f) => Sought(t, o, l, f)
         /\ Ahead(q, o, l, b) => Ahead(t, o, l, b)
<1> DEFINE n == Len(q) + 1
<1>1. /\ t[n] = x /\ Len(q) \in Nat /\ DOMAIN q = 1..Len(q) /\ DOMAIN t = 1..n
      /\ \A k \in DOMAIN q : t[k] = q[k] /\ k \in DOMAIN t
      /\ \A k \in DOMAIN t : k \in Nat /\ (k \in DOMAIN q \/ k = n)
  BY BackElements
<1> HIDE DEF n
<1>2. ASSUME Excused(q, o, l), NEW k \in DOMAIN t, Stray(t[k], o), ~Late(t[k], l)
      PROVE  Covered(t, k)
  <2>1. k \in DOMAIN q /\ t[k] = q[k]
    BY <1>1, <1>2
  <2>2. PICK j \in DOMAIN q : j < k /\ q[j].kind = "CLEAR" /\ Same(q[j], q[k])
    BY <1>2, <2>1 DEF Excused, Covered
  <2>3. j \in DOMAIN t /\ t[j] = q[j]
    BY <1>1
  <2> QED BY <2>1, <2>2, <2>3 DEF Covered
<1>3. Sought(q, o, l, f) => Sought(t, o, l, f)
  BY <1>1 DEF Sought
<1>4. ASSUME Ahead(q, o, l, b), NEW k \in DOMAIN t, Stray(t[k], o), ~Late(t[k], l),
             NEW j \in DOMAIN t, j < k
      PROVE  t[j] # b
  <2>1. k \in DOMAIN q /\ t[k] = q[k]
    BY <1>1, <1>4
  <2>2. j \in DOMAIN q /\ t[j] = q[j]
    BY <1>1, <1>4, <2>1
  <2> QED BY <1>4, <2>1, <2>2 DEF Ahead
<1> QED BY <1>2, <1>3, <1>4 DEF Excused, Ahead

\* No event becomes a stray, and none that was late is late no more.
LEMMA FewerStrays ==
  ASSUME NEW q \in Seq(Event), NEW o, NEW l, NEW p, NEW m,
         \A k \in DOMAIN q : (Stray(q[k], p) => Stray(q[k], o)) /\ (Late(q[k], l) => Late(q[k], m)), NEW f, NEW b
  PROVE  /\ Excused(q, o, l) => Excused(q, p, m)
         /\ Sought(q, o, l, f) => Sought(q, p, m, f)
         /\ Ahead(q, o, l, b) => Ahead(q, p, m, b)
<1>1. Excused(q, o, l) => Excused(q, p, m)
  BY DEF Excused
<1>2. Sought(q, o, l, f) => Sought(q, p, m, f)
  BY DEF Sought
<1>3. Ahead(q, o, l, b) => Ahead(q, p, m, b)
  BY DEF Ahead
<1> QED BY <1>1, <1>2, <1>3

\* The client of f is deleted: its events are behind the CLEAR of the client.
LEMMA DeletedCovered ==
  ASSUME NEW q \in Seq(Event), NEW o \in [Addr -> Conn \cup {Free}], NEW l, Excused(q, o, l), NEW f \in Event,
         HasClear(q, f), ClearsFirst(q), o[f.addr] = f.c, NEW p, p = [o EXCEPT ![f.addr] = Free]
  PROVE  Excused(q, p, l)
<1>1. PICK i \in DOMAIN q : q[i].kind = "CLEAR" /\ Same(q[i], f)
  BY DEF HasClear
<1>2. ASSUME NEW k \in DOMAIN q, Stray(q[k], p) PROVE Late(q[k], l) \/ Covered(q, k)
  <2>0. q[k] \in Event /\ i \in Nat /\ k \in Nat
    OBVIOUS
  <2>1. q[k] \in Event /\ q[k].addr \in Addr /\ f.addr \in Addr /\ i \in Nat /\ k \in Nat
    BY <2>0 DEF Event
  <2>2. CASE Stray(q[k], o)
    BY <2>2 DEF Excused
  <2>3. CASE ~Stray(q[k], o)
    <3>1. q[k].addr = f.addr /\ q[k].c = o[f.addr]
      BY <1>2, <2>1, <2>3 DEF Stray
    <3>2. Same(q[i], q[k])
      BY <1>1, <3>1 DEF Same
    <3>3. q[k].kind # "ACCEPT" /\ q[k].kind # "CLEAR"
      BY <1>2 DEF Stray
    <3>4. i < k
      BY <1>1, <2>1, <3>3 DEF ClearsFirst
    <3> QED BY <1>1, <3>2, <3>4 DEF Covered
  <2> QED BY <2>2, <2>3
<1> QED BY <1>2 DEF Excused

\* What waits is not changed, nor is where the task is.
LEMMA StraysSame == Strays /\ UNCHANGED <<queue, obj, taskVars>> => Strays'
BY DEF Strays, Clearing, taskVars, Matches, OutOfOrder

LEMMA StraysLwip == Sound /\ Numbers /\ Placed /\ Strays /\ Lwip => Strays'
<1> SUFFICES ASSUME Sound, Numbers, Placed, Strays, Lwip PROVE Strays'
  OBVIOUS
<1>0. /\ EventTypes /\ TypeOK /\ queue \in Seq(Event) /\ obj \in [Addr -> Conn \cup {Free}]
      /\ pc = "putback" => held \in Event
  BY DEF Sound, IInv, EventTypes, TypeOK
<1>1. ASSUME NEW a \in Addr, Accept(a) PROVE Strays'
  <2> DEFINE o == obj
             u == obj'
  <2>1. u = [o EXCEPT ![a] = conns + 1] /\ o[a] = Free /\ UNCHANGED <<queue, taskVars>>
    BY <1>1 DEF Accept, NewClient
  <2> HIDE DEF o, u
  <2>2. ASSUME NEW e \in Event, Stray(e, u) PROVE Stray(e, o)
    <3>1. e.addr \in Addr /\ e.c \in Conn
      BY DEF Event
    <3> QED BY <1>0, <2>1, <2>2, <3>1, NothingAssumption DEF Stray, o
  <2>3. \A k \in DOMAIN queue : (Stray(queue[k], u) => Stray(queue[k], o)) /\ (Late(queue[k], last) => Late(queue[k], last))
    BY <1>0, <2>2
  <2>4. /\ Excused(queue, o, last) => Excused(queue, u, last)
        /\ Sought(queue, o, last, cur) => Sought(queue, u, last, cur)
        /\ Ahead(queue, o, last, first) => Ahead(queue, u, last, first)
    BY <1>0, <2>3, FewerStrays
  <2>5. pc = "putback" => (Stray(held, u) => Stray(held, o))
    BY <1>0, <2>2
  <2> QED BY <2>1, <2>4, <2>5 DEF Strays, Clearing, taskVars, Matches, OutOfOrder, o, u
<1>2. ASSUME NEW a \in Addr, NEW kind \in {"RECV", "POLL", "FIN", "ERROR"}, Occurs(a, kind)
      PROVE  Strays'
  BY <1>2, StraysSame DEF Occurs, clientVars
<1>3. CASE Callback
  BY <1>3, StraysSame DEF Callback
<1>4. CASE Post
  <2> DEFINE x == lw.e
             t == queue'
  <2>1. /\ lw.pc = "post" /\ (t = <<x>> \o queue \/ t = Append(queue, x))
        /\ UNCHANGED <<obj, taskVars>>
    BY <1>4 DEF Post, clientVars
  <2>2. x \in Event /\ x.kind \in {"ACCEPT", "RECV", "POLL", "FIN", "ERROR", "CLEAR"}
    BY <1>0, <2>1 DEF EventTypes, Event
  <2>3. ~Stray(x, obj)
    BY <2>1 DEF Stray, Placed, Busy
  <2>4. pc \in {"putback", "rotate"} => x # first
    <3> SUFFICES ASSUME pc \in {"putback", "rotate"} PROVE x # first
      OBVIOUS
    <3>1. first.n < lw.e.n /\ first.n \in Nat
      BY <2>1, BoundAssumption DEF Numbers, Before, Event
    <3> QED BY <3>1
  <2> HIDE DEF x, t
  <2>5. /\ Excused(queue, obj, last) => Excused(t, obj, last)
        /\ Sought(queue, obj, last, cur) => Sought(t, obj, last, cur)
        /\ Ahead(queue, obj, last, first) /\ x # first => Ahead(t, obj, last, first)
    <3>1. CASE t = <<x>> \o queue
      BY <1>0, <2>2, <2>3, <3>1, FrontExcused
    <3>2. CASE t = Append(queue, x)
      BY <1>0, <2>2, <2>3, <3>2, BackExcused
    <3> QED BY <2>1, <3>1, <3>2
  <2> QED BY <2>1, <2>4, <2>5 DEF Strays, Clearing, taskVars, Matches, OutOfOrder, t
<1>5. CASE Execute
  <2>1. /\ pc = "call" /\ pc' \in {"return", "discard", "abort"}
        /\ UNCHANGED <<queue, obj, last>>
    <3>1. call.what \in {"use", "close", "abort"}
      BY <1>0 DEF TypeOK
    <3> QED BY <1>5, <3>1 DEF Execute, clientVars
  <2> QED BY <2>1 DEF Strays, Clearing
<1> QED BY <1>1, <1>2, <1>3, <1>4, <1>5 DEF Lwip

\* Outside the clearing, a step that leaves the clients and their events alone.
LEMMA StraysAlone ==
  ASSUME Strays, UNCHANGED <<queue, obj, last>>, ~Clearing, ~Clearing', pc' # "crashed"
  PROVE  Strays'
BY DEF Strays, Clearing

LEMMA LastGrows ==
  ASSUME Sound, NEW e \in Event, last' = [last EXCEPT ![e.c] = Latest(last[e.c], e.n)]
  PROVE  /\ \A f \in Event : Late(f, last) => Late(f, last')
         /\ \A f \in Event : f.c = e.c /\ f.n < e.n => Late(f, last')
         /\ Late(e, last) => e.n < last'[e.c]
<1>1. last \in [Conn -> Nat] /\ \A f \in Event : f.c \in Conn /\ f.n \in Nat
  BY BoundAssumption DEF Sound, TypeOK, Event
<1>2. Latest(last[e.c], e.n) >= last[e.c] /\ Latest(last[e.c], e.n) >= e.n /\ Latest(last[e.c], e.n) \in Nat
  BY <1>1 DEF Latest
<1>3. \A c \in Conn : last'[c] \in Nat /\ last'[c] >= last[c]
  BY <1>1, <1>2
<1>4. last'[e.c] = Latest(last[e.c], e.n)
  BY <1>1
<1> QED BY <1>1, <1>2, <1>3, <1>4 DEF Late

LEMMA StraysTake == Sound /\ Numbers /\ Ordered /\ Strays /\ Take => Strays'
<1> SUFFICES ASSUME Sound, Numbers, Ordered, Strays, Take PROVE Strays'
  OBVIOUS
<1> DEFINE e == Head(queue)
           t == queue'
<1>1. /\ pc = "wait" /\ queue # <<>> /\ t = Tail(queue) /\ cur' = e /\ UNCHANGED obj
      /\ last' = IF e.kind = "CLEAR" THEN last ELSE [last EXCEPT ![e.c] = Latest(last[e.c], e.n)]
  BY DEF Take, clientVars
<1>2. /\ pc' = IF Misses(e) THEN "crashed" ELSE
            CASE e.kind = "ACCEPT" -> "wait"
              [] e.kind = "CLEAR" -> "first"
              [] e.kind = "FIN" -> "fin"
              [] e.kind = "RECV" -> "callback"
              [] e.kind = "POLL" -> IF e.c \in pcb THEN "callback" ELSE "wait"
      /\ ~Misses(e) => e.kind # "ERROR"
  BY DEF Take
<1>3. e \in Event /\ queue \in Seq(Event)
  BY <1>1, HeadPending DEF Sound, TypeOK
<1>4. /\ e = queue[1] /\ 1 \in DOMAIN queue /\ t \in Seq(Event)
      /\ \A k \in DOMAIN t : k \in Nat /\ k + 1 \in DOMAIN queue /\ t[k] = queue[k + 1]
  BY <1>1, <1>3, TailElements
<1>5. Excused(queue, obj, last) /\ ClearsFirst(queue)
  BY <1>1 DEF Strays, Clearing, Ordered
<1>6. e.kind \in {"ACCEPT", "RECV", "POLL", "FIN", "ERROR", "CLEAR"}
  BY <1>3 DEF Event
<1>7. CASE e.kind = "CLEAR"
  <2>1. pc' = "first" /\ last' = last
    BY <1>1, <1>2, <1>7 DEF Misses
  <2>2. ASSUME NEW k \in DOMAIN t, Stray(t[k], obj), ~Late(t[k], last) PROVE Same(t[k], e)
    <3>1. k + 1 \in DOMAIN queue /\ t[k] = queue[k + 1]
      BY <1>4
    <3>2. PICK j \in DOMAIN queue : queue[j].kind = "CLEAR" /\ Same(queue[j], queue[k + 1])
      BY <1>5, <2>2, <3>1 DEF Excused, Covered
    <3>3. j = 1
      <4>1. ~(1 < j)
        BY <1>4, <1>5, <1>7, <3>2 DEF ClearsFirst
      <4> QED BY <1>3, <4>1
    <3> QED BY <1>4, <3>1, <3>2, <3>3 DEF Same
  <2>3. Sought(t, obj, last, e)
    BY <2>2 DEF Sought
  <2> QED BY <1>1, <2>1, <2>3 DEF Strays, Clearing
<1>8. CASE e.kind # "CLEAR"
  <2>1. pc' \in {"crashed", "wait", "fin", "callback"} /\ (pc' = "crashed" => Misses(e))
    BY <1>2, <1>6, <1>8
  <2>2. last' = [last EXCEPT ![e.c] = Latest(last[e.c], e.n)]
    BY <1>1, <1>8
  <2>3. /\ \A f \in Event : Late(f, last) => Late(f, last')
        /\ Late(e, last) => e.n < last'[e.c]
    BY <1>3, <2>2, LastGrows
  <2>4. Excused(t, obj, last)
    BY <1>1, <1>3, <1>5, <1>8, TailExcused
  <2> HIDE DEF e, t
  <2>5. Excused(t, obj, last')
    <3>1. \A k \in DOMAIN t : (Stray(t[k], obj) => Stray(t[k], obj)) /\ (Late(t[k], last) => Late(t[k], last'))
      BY <1>4, <2>3
    <3> QED BY <1>4, <2>4, <3>1, FewerStrays
  <2>6. pc' = "crashed" => e.kind = "FIN" \/ OutOfOrder'
    <3> SUFFICES ASSUME Misses(e), e.kind # "FIN" PROVE OutOfOrder'
      BY <2>1
    <3>1. Stray(queue[1], obj)
      BY <1>4 DEF Misses, Stray
    <3>2. ~Covered(queue, 1)
      BY <1>3, <1>4 DEF Covered
    <3>3. Late(e, last)
      BY <1>4, <1>5, <3>1, <3>2 DEF Excused
    <3>4. cur' # NoEvent
      BY <1>1, <1>3, NothingAssumption
    <3> QED BY <1>1, <1>8, <2>3, <3>3, <3>4 DEF OutOfOrder
  <2> QED BY <1>1, <2>1, <2>5, <2>6 DEF Strays, Clearing, t
<1> QED BY <1>7, <1>8

\* _error deletes the client after the last event of its connection.
LEMMA StraysTakeError == Sound /\ Numbers /\ Ordered /\ Strays /\ TakeError => Strays'
<1> SUFFICES ASSUME Sound, Numbers, Ordered, Strays, TakeError PROVE Strays'
  OBVIOUS
<1> DEFINE e == Head(queue)
           t == queue'
           o == obj
           u == obj'
<1>1. /\ pc = "wait" /\ pc' = "wait" /\ queue # <<>> /\ t = Tail(queue) /\ e.kind = "ERROR" /\ ~Misses(e)
      /\ last' = [last EXCEPT ![e.c] = Latest(last[e.c], e.n)]
      /\ u = o \/ u = [o EXCEPT ![e.addr] = Free]
  BY DEF TakeError, Discard
<1>2. e \in Event /\ queue \in Seq(Event) /\ o \in [Addr -> Conn \cup {Free}]
  BY <1>1, HeadPending DEF Sound, TypeOK
<1>3. \A k \in DOMAIN t : k + 1 \in DOMAIN queue /\ t[k] = queue[k + 1]
  BY <1>1, <1>2, TailElements
<1>4. t \in Seq(Event)
  BY <1>1, <1>2, TailElements
<1>5. o[e.addr] = e.c
  BY <1>1 DEF Misses
<1>6. Excused(queue, o, last) /\ Apart(queue) /\ ClearsFirst(queue)
  BY <1>1 DEF Strays, Clearing, Ordered
<1>7. Beside(t, e)
  BY <1>1, <1>2, <1>6, TailOrdered
<1>8. Excused(t, o, last)
  BY <1>1, <1>2, <1>6, TailExcused
<1>9. /\ \A f \in Event : Late(f, last) => Late(f, last')
      /\ \A f \in Event : f.c = e.c /\ f.n < e.n => Late(f, last')
  BY <1>1, <1>2, LastGrows
<1> HIDE DEF e, t, o, u
<1>10. ASSUME NEW k \in DOMAIN t, Stray(t[k], u), ~Late(t[k], last') PROVE Covered(t, k)
  <2>1. t[k] \in Event
    BY <1>4
  <2>2. t[k].addr \in Addr /\ e.addr \in Addr
    BY <1>2, <2>1 DEF Event
  <2>3. CASE Stray(t[k], o)
    BY <1>8, <1>9, <1>10, <2>1, <2>3 DEF Excused
  <2>4. CASE ~Stray(t[k], o)
    <3>1. o[t[k].addr] = t[k].c /\ u[t[k].addr] # t[k].c
      BY <1>10, <2>4 DEF Stray
    <3>2. u = [o EXCEPT ![e.addr] = Free] /\ t[k].addr = e.addr
      BY <1>1, <1>2, <2>2, <3>1
    <3>3. t[k].c = e.c
      BY <1>5, <3>1, <3>2
    <3>4. t[k].n < e.n
      BY <1>1, <1>7, <3>3 DEF Beside, Over
    <3> QED BY <1>9, <1>10, <2>1, <3>3, <3>4
  <2> QED BY <2>3, <2>4
<1>11. Excused(t, u, last')
  BY <1>10 DEF Excused
<1> QED BY <1>1, <1>11 DEF Strays, Clearing, t, u

\* The CLEAR that the task puts at the front, and the deletion of the client
\* after it in _fin.
LEMMA StraysCleared ==
  ASSUME Sound, Strays, Placed, Ordered', cur \in Event, Prepend("CLEAR"), pc \in {"clear", "fin"},
         pc' \in {"wait", "evaluate"}, UNCHANGED last,
         obj' = obj \/ (pc = "fin" /\ obj' = [obj EXCEPT ![cur.addr] = Free])
  PROVE  Strays'
<1> DEFINE x == [kind |-> "CLEAR", addr |-> cur.addr, c |-> cur.c, n |-> 0]
           t == queue'
<1>1. x \in Event /\ x.kind = "CLEAR" /\ Same(x, cur) /\ ~Stray(x, obj)
  BY BoundAssumption DEF Event, Same, Stray
<1>2. t = <<x>> \o queue /\ queue \in Seq(Event) /\ obj \in [Addr -> Conn \cup {Free}]
  BY DEF Prepend, Sound, TypeOK
<1>3. Excused(queue, obj, last) /\ ClearsFirst(t)
  BY DEF Strays, Clearing, Ordered
<1> HIDE DEF x, t
<1>4. t \in Seq(Event) /\ t[1] = x /\ 1 \in DOMAIN t
  <2>1. Len(queue) \in Nat /\ DOMAIN t = 1..(Len(queue) + 1)
    BY <1>1, <1>2, FrontElements
  <2> QED BY <1>1, <1>2, <2>1, FrontElements
<1>5. HasClear(t, cur)
  BY <1>1, <1>4 DEF HasClear
<1>6. Excused(t, obj, last)
  BY <1>1, <1>2, <1>3, FrontExcused
<1>7. Excused(t, obj', last)
  <2>1. CASE obj' = obj
    BY <1>6, <2>1
  <2>2. CASE pc = "fin" /\ obj' = [obj EXCEPT ![cur.addr] = Free]
    <3>1. obj[cur.addr] = cur.c
      BY <2>2 DEF Placed, Handling
    <3> QED BY <1>2, <1>3, <1>4, <1>5, <1>6, <2>2, <3>1, DeletedCovered
  <2> QED BY <2>1, <2>2
<1> QED BY <1>7 DEF Strays, Clearing, t

\* onDisconnect of _close: its CLEAR still waits.
LEMMA StraysClosed == Sound /\ Placed /\ Ordered /\ Strays /\ Closed => Strays'
<1> SUFFICES ASSUME Sound, Placed, Ordered, Strays, Closed PROVE Strays'
  OBVIOUS
<1>1. /\ pc = "discard" /\ pc' = "wait" /\ UNCHANGED <<queue, last>>
      /\ obj' = [obj EXCEPT ![cur.addr] = Free]
  BY DEF Closed, Discard
<1>2. queue \in Seq(Event) /\ obj \in [Addr -> Conn \cup {Free}] /\ cur \in Event
  BY <1>1 DEF Sound, TypeOK, IInv, EventTypes
<1>3. HasClear(queue, cur) /\ ClearsFirst(queue)
  BY <1>1 DEF Ordered, Swept, Closing
<1>4. obj[cur.addr] = cur.c
  BY <1>1 DEF Placed, Handling
<1>5. Excused(queue, obj, last)
  BY <1>1 DEF Strays, Clearing
<1> DEFINE u == obj'
<1>6. u = [obj EXCEPT ![cur.addr] = Free]
  BY <1>1
<1> HIDE DEF u
<1>7. Excused(queue, u, last)
  BY <1>2, <1>3, <1>4, <1>5, <1>6, DeletedCovered
<1> QED BY <1>1, <1>7 DEF Strays, Clearing, u

\* The task throws away an event of the client, or holds one of another.
LEMMA StraysSearch ==
  ASSUME Sound, Numbers, Ordered, Strays, pc = "first" \/ pc = "rotate", queue # <<>>,
         \/ Matches(Head(queue)) /\ Drop(pc)
         \/ ~Matches(Head(queue)) /\ Hold
  PROVE  Strays'
<1> DEFINE h == Head(queue)
           t == queue'
<1>1. /\ t = Tail(queue) /\ UNCHANGED <<obj, cur, last>>
      /\ pc' \in {"first", "rotate", "putback"} /\ pc' # "crashed"
  BY DEF Drop, Hold, Goto, clientVars
<1>2. queue \in Seq(Event) /\ h \in Event /\ t \in Seq(Event)
  BY <1>1, HeadPending DEF Sound, TypeOK
<1>3. h = queue[1] /\ 1 \in DOMAIN queue
  BY <1>2, TailElements
<1>4. Sought(queue, obj, last, cur) /\ Apart(queue) /\ ClearsFirst(queue) /\ NoClear(queue)
  BY DEF Strays, Clearing, Ordered, Swept, Closing
<1>5. Beside(t, h) /\ h.kind # "CLEAR"
  BY <1>1, <1>2, <1>4, TailOrdered
<1>6. /\ Sought(t, obj, last, cur)
      /\ Ahead(queue, obj, last, first) => Ahead(t, obj, last, first)
  BY <1>1, <1>2, <1>4, TailExcused
<1>7. ~Matches(h) => (Stray(h, obj) => Late(h, last))
  BY <1>3, <1>4 DEF Sought, Same, Stray, Matches
<1> HIDE DEF h, t
<1>8. Ahead(t, obj, last, h)
  <2>1. ASSUME NEW j \in DOMAIN t PROVE t[j] # h
    BY <1>5 DEF Beside, Over
  <2> QED BY <2>1 DEF Ahead
<1>9. CASE Drop(pc)
  <2>1. pc' = pc /\ first' = first
    BY <1>9 DEF Drop, Goto
  <2> QED BY <1>1, <1>6, <2>1 DEF Strays, Clearing, Matches, t
<1>10. CASE ~Matches(h) /\ Hold
  <2>1. pc' = "putback" /\ held' = h /\ first' = IF pc = "first" THEN h ELSE first
    BY <1>10 DEF Hold, h
  <2>2. ~Matches(first') /\ Ahead(t, obj, last, first')
    <3>1. CASE pc = "first"
      BY <1>8, <1>10, <2>1, <3>1
    <3>2. CASE pc = "rotate"
      BY <1>6, <2>1, <3>2 DEF Strays
    <3> QED BY <3>1, <3>2
  <2>3. (~Matches(first))' /\ Ahead(t, obj', last', first')
    BY <1>1, <2>2 DEF Matches
  <2>4. Sought(t, obj', last', cur') /\ (Stray(held', obj') => Late(held', last'))
    BY <1>1, <1>6, <1>7, <1>10, <2>1
  <2> QED BY <2>1, <2>3, <2>4 DEF Strays, Clearing, t
<1> QED BY <1>9, <1>10 DEF h

\* The packet held goes to the back.
LEMMA StraysPutBack == Sound /\ Strays /\ PutBack => Strays'
<1> SUFFICES ASSUME Sound, Strays, PutBack PROVE Strays'
  OBVIOUS
<1> DEFINE t == queue'
<1>1. /\ pc = "putback" /\ pc' = "rotate" /\ t = Append(queue, held)
      /\ UNCHANGED <<obj, cur, first, last>>
  BY DEF PutBack, Goto, clientVars
<1>2. queue \in Seq(Event) /\ held \in Event
  BY <1>1 DEF Sound, TypeOK, IInv, EventTypes
<1>3. /\ Sought(queue, obj, last, cur) /\ Ahead(queue, obj, last, first) /\ ~Matches(first)
      /\ Stray(held, obj) => Late(held, last)
  BY <1>1 DEF Strays, Clearing
<1> HIDE DEF t
<1>4. Sought(t, obj, last, cur) /\ Ahead(t, obj, last, first)
  BY <1>1, <1>2, <1>3, BackExcused
<1>5. (~Matches(first))'
  BY <1>1, <1>3 DEF Matches
<1> QED BY <1>1, <1>4, <1>5 DEF Strays, Clearing, t

\* The queue has been turned once: the client has no event left in it.
LEMMA StraysFinish ==
  ASSUME Sound, Strays, Finish,
         \/ pc = "first" /\ queue = <<>>
         \/ pc = "rotate" /\ (queue = <<>> \/ Head(queue) = first)
  PROVE  Strays'
<1>1. pc' = "wait" /\ UNCHANGED <<queue, obj, last>>
  BY DEF Finish, clientVars
<1>2. queue \in Seq(Event) /\ Sought(queue, obj, last, cur)
  BY DEF Sound, TypeOK, Strays, Clearing
<1>3. ASSUME NEW k \in DOMAIN queue, Stray(queue[k], obj), ~Late(queue[k], last) PROVE FALSE
  <2>1. queue # <<>> /\ k \in Nat /\ 1 <= k
    BY <1>2, <1>3
  <2>2. queue[1] = first /\ 1 \in DOMAIN queue /\ pc = "rotate"
    BY <1>2, <2>1, TailElements
  <2>3. ~Matches(first) /\ Ahead(queue, obj, last, first)
    BY <2>2 DEF Strays
  <2>4. ~(1 < k)
    BY <1>3, <2>2, <2>3 DEF Ahead
  <2>5. k = 1
    BY <2>1, <2>4
  <2> QED BY <1>2, <1>3, <2>2, <2>3, <2>5 DEF Sought, Same, Stray, Matches
<1>4. Excused(queue, obj, last)
  BY <1>3 DEF Excused
<1> QED BY <1>1, <1>4 DEF Strays, Clearing

LEMMA StraysTask == Sound /\ Numbers /\ Placed /\ Ordered /\ Ordered' /\ Strays /\ Task => Strays'
<1> SUFFICES ASSUME Sound, Numbers, Placed, Ordered, Ordered', Strays, Task PROVE Strays'
  OBVIOUS
<1>0. pc # "wait" => cur \in Event
  BY DEF Sound, IInv, EventTypes
<1>1. CASE Take
  BY <1>1, StraysTake
<1>2. CASE TakeError
  BY <1>2, StraysTakeError
<1>3. CASE ClearForFin
  <2>1. /\ pc = "fin" /\ pc' = "wait" /\ Prepend("CLEAR") /\ UNCHANGED <<last, cur>>
        /\ obj' = obj \/ obj' = [obj EXCEPT ![cur.addr] = Free]
    BY <1>3 DEF ClearForFin, Discard
  <2> QED BY <1>0, <2>1, StraysCleared
<1>4. CASE Clear
  <2>1. pc = "clear" /\ pc' = "evaluate" /\ Prepend("CLEAR") /\ UNCHANGED <<last, cur, obj>>
    BY <1>4 DEF Clear, Goto, clientVars
  <2> QED BY <1>0, <2>1, StraysCleared
<1>5. CASE Use \/ ReadSlot \/ Return \/ Close \/ Detach
  <2>1. /\ UNCHANGED <<queue, obj, last>> /\ ~Clearing /\ ~Clearing' /\ pc' # "crashed"
    BY <1>5 DEF Use, ReadSlot, Return, Close, Detach, Goto, Clearing, clientVars
  <2> QED BY <2>1, StraysAlone
<1>6. CASE Closed
  BY <1>6, StraysClosed
<1>7. ASSUME NEW from \in {"evaluate", "abort"}, NEW what \in {"close", "abort"}, CallOfClose(from, what)
      PROVE  Strays'
  <2>1. UNCHANGED <<queue, obj, last>> /\ ~Clearing /\ ~Clearing' /\ pc' # "crashed"
    BY <1>7 DEF CallOfClose, Clearing, clientVars
  <2> QED BY <2>1, StraysAlone
<1>8. CASE FindFirst
  BY <1>8, StraysSearch, StraysFinish DEF FindFirst
<1>9. CASE PutBack
  BY <1>9, StraysPutBack
<1>10. CASE Rotate
  BY <1>10, StraysSearch, StraysFinish DEF Rotate
<1> QED BY <1>1, <1>2, <1>3, <1>4, <1>5, <1>6, <1>7, <1>8, <1>9, <1>10 DEF Task

\* The parts of the invariant together.
Watched == Sound /\ Numbers /\ Placed /\ Ordered /\ Strays

LEMMA WatchedStep == Watched /\ [Next]_vars => Watched'
<1> SUFFICES ASSUME Watched, [Next]_vars PROVE Watched'
  OBVIOUS
<1> USE DEF Watched
<1>1. Sound'
  BY SoundStep
<1>2. CASE Lwip
  <2>1. Ordered' /\ Numbers'
    BY <1>2, OrderedLwip, NumbersLwip
  <2>2. Placed' /\ Strays'
    BY <1>2, PlacedLwip, StraysLwip
  <2> QED BY <1>1, <2>1, <2>2
<1>3. CASE Task
  <2>1. Ordered' /\ Numbers'
    BY <1>3, OrderedTask, NumbersTask
  <2>2. Placed' /\ Strays'
    BY <1>3, <2>1, PlacedTask, StraysTask
  <2> QED BY <1>1, <2>1, <2>2
<1>4. CASE UNCHANGED vars
  <2>1. Numbers' /\ Placed'
    BY <1>4 DEF Numbers, Placed, Busy, Closing, Handling, vars, lwipVars, clientVars, taskVars
  <2>2. Ordered'
    BY <1>4 DEF Ordered, Swept, Closing, vars, taskVars
  <2>3. Strays'
    BY <1>4, StraysSame DEF vars, clientVars
  <2> QED BY <1>1, <2>1, <2>2, <2>3
<1> QED BY <1>2, <1>3, <1>4 DEF Next

\* No event but a FIN is handled for a client that has been deleted, unless the
\* clearing of the queue has let it fall behind a later one of its connection:
\* for any number of addresses, slots, connections and events, and any length
\* of the queue.  And lwIP enters a callback for a client that is there.
THEOREM StaleIsFin == Spec => []OnlyFinIsStale
<1>1. Init => Watched
  BY SoundInit, NumbersInit, OrderedInit, StraysInit DEF Watched
<1>2. Watched => OnlyFinIsStale
  BY DEF Watched, OnlyFinIsStale, Strays, Placed, Busy
<1> QED BY <1>1, <1>2, WatchedStep, PTL DEF Spec
=============================================================================
