---------------------------- MODULE RegisterStore ----------------------------
(***************************************************************************)
(* The recorded registers of model/SystemState.cpp: two parallel vectors,  *)
(* address and value, and the web handlers of model/Routes.cpp that read   *)
(* and edit them.                                                          *)
(*                                                                         *)
(* pushRegister appends to the two vectors with no lock, from the recorder *)
(* threads and from the web task (/storevalue); registerMutex is taken by  *)
(* the readers only, so it orders nothing and is left out.  A push_back    *)
(* takes time (two steps); the other accesses to a vector are one step.    *)
(* Two accesses of a vector that overlap, one of them writing, are a data  *)
(* race, after which C++ defines nothing: raced is set and the model stops. *)
(* What is left is what the code does between whole vector operations.     *)
(*                                                                         *)
(* The browsers' tabs keep the pages they were answered with.  A request   *)
(* carries the index of a row of such a page, or any other: it may be made *)
(* again, or come from a page another tab has made old, and neither the    *)
(* handlers nor the store compare it with the vectors' length.  Erasing or *)
(* writing past the end is undefined as well: wild is set, and it stops.   *)
(***************************************************************************)
EXTENDS Naturals, Sequences, SequencesExt

CONSTANTS Addr,     \* register addresses
          Recorder, \* recorder threads
          Web,      \* the web server's task: it runs one handler at a time
          Tab,      \* the browsers' tabs
          MaxPush   \* bound: pushes in a behaviour

ASSUME WebAssumption == Web \notin Recorder
ASSUME BoundAssumption == MaxPush \in Nat
ASSUME BeyondAssumption == "beyond" \notin Addr   \* what a read past the end gives

Pusher == Recorder \cup {Web}

VARIABLES
  address, \* SystemState::address
  value,   \* SystemState::value; an element carries what was pushed with it
  ppc,     \* where each pusher is in pushRegister
  item,    \* what it pushes
  pushes,  \* pushes begun: names the next one
  web,     \* the handler the web task is in
  page,    \* the history page each tab shows
  fresh,   \* no row was deleted since that page was made
  graph,   \* the answer of /getRegisterValues until it is sent
  mixed,   \* two pushes have been in progress at once
  raced,   \* a data race: undefined behaviour
  wild     \* an element past the end was erased or written: undefined too

vars == <<address, value, ppc, item, pushes, web, page, fresh, graph, mixed, raced, wild>>

Item == [addr : Addr, id : 0..MaxPush]
Junk == [addr |-> "beyond", id |-> 0]   \* value[i] with i >= value.size()
Row == [addr : Addr \cup {"beyond"}, val : Item]
Index == 0..(MaxPush + 1)   \* of a request: from before the first row to past the last

WebPC == {"idle", "store", "del_value", "history", "render", "graph"}

TypeOK ==
  /\ address \in Seq(Addr)
  /\ value \in Seq(Item)
  /\ ppc \in [Pusher -> {"idle", "address", "gap", "value"}]
  /\ item \in [Pusher -> Item]
  /\ pushes \in 0..MaxPush
  /\ web \in [pc : WebPC, tab : Tab, index : Index, vals : Seq(Item)]
  /\ page \in [Tab -> Seq(Row)]
  /\ fresh \in [Tab -> BOOLEAN]
  /\ graph.addr \in Addr /\ graph.gap \in BOOLEAN
  /\ \A i \in DOMAIN graph.vals : graph.vals[i] \in Item \cup {Junk}
  /\ mixed \in BOOLEAN
  /\ raced \in BOOLEAN
  /\ wild \in BOOLEAN

Init ==
  /\ address = <<>> /\ value = <<>>
  /\ ppc = [p \in Pusher |-> "idle"]
  /\ item \in {[p \in Pusher |-> [addr |-> a, id |-> 0]] : a \in Addr}
  /\ pushes = 0
  /\ web \in {[pc |-> "idle", tab |-> t, index |-> 0, vals |-> <<>>] : t \in Tab}
  /\ page = [t \in Tab |-> <<>>]
  /\ fresh = [t \in Tab |-> TRUE]
  /\ graph \in {[addr |-> a, vals |-> <<>>, gap |-> FALSE] : a \in Addr}
  /\ mixed = FALSE
  /\ raced = FALSE
  /\ wild = FALSE

\* The program's behaviour is still defined.
Defined == ~raced /\ ~wild

\* Someone is inside a push_back of the named vector.
Busy(vec) == \E p \in Pusher : ppc[p] = vec

-----------------------------------------------------------------------------
(* pushRegister *)

PushBegin(p, a) ==
  /\ Defined /\ ppc[p] = "idle"
  /\ pushes < MaxPush
  /\ pushes' = pushes + 1
  /\ item' = [item EXCEPT ![p] = [addr |-> a, id |-> pushes + 1]]
  /\ ppc' = [ppc EXCEPT ![p] = "address"]
  /\ mixed' = (mixed \/ \E q \in Pusher : ppc[q] # "idle")
  /\ raced' = Busy("address")
  /\ UNCHANGED <<address, value, page, fresh, graph, wild>>

PushAddress(p) ==
  /\ Defined /\ ppc[p] = "address"
  /\ address' = Append(address, item[p].addr)
  /\ ppc' = [ppc EXCEPT ![p] = "gap"]
  /\ UNCHANGED <<value, item, pushes, web, page, fresh, graph, mixed, raced, wild>>

PushValueBegin(p) ==
  /\ Defined /\ ppc[p] = "gap"
  /\ ppc' = [ppc EXCEPT ![p] = "value"]
  /\ raced' = Busy("value")
  /\ UNCHANGED <<address, value, item, pushes, web, page, fresh, graph, mixed, wild>>

\* The end of the push; the web task goes back to its next request.
PushValue(p) ==
  /\ Defined /\ ppc[p] = "value"
  /\ value' = Append(value, item[p])
  /\ ppc' = [ppc EXCEPT ![p] = "idle"]
  /\ web' = IF p = Web THEN [web EXCEPT !.pc = "idle"] ELSE web
  /\ UNCHANGED <<address, item, pushes, page, fresh, graph, mixed, raced, wild>>

\* A recorder's sample, and the /storevalue handler.
RecorderPush(r, a) == PushBegin(r, a) /\ UNCHANGED web

StoreValue(a) ==
  /\ web.pc = "idle"
  /\ PushBegin(Web, a)
  /\ web' = [web EXCEPT !.pc = "store"]

-----------------------------------------------------------------------------
(* The handlers, asked by tab t for the row of index i, whatever t shows.  *)

\* The store goes past the end of a vector for row i of tab t.
PastEnd(t, i) ==
  /\ wild' = TRUE
  /\ web' = [web EXCEPT !.tab = t, !.index = i]
  /\ UNCHANGED <<address, value, ppc, item, pushes, page, fresh, graph, mixed, raced>>

\* editValue: value[i] is overwritten in place.
EditRegister(t, i) ==
  /\ Defined /\ web.pc = "idle"
  /\ \/ i \notin DOMAIN value /\ PastEnd(t, i)
     \/ /\ i \in DOMAIN value
        /\ raced' = Busy("value")
        /\ web' = [web EXCEPT !.pc = "history", !.tab = t]
        /\ UNCHANGED <<address, value, ppc, item, pushes, page, fresh, graph, mixed, wild>>

\* Mutant: the address is overwritten with a marker instead of erased.
DeleteRegisterStays(t, i) ==
  /\ Defined /\ web.pc = "idle"
  /\ i \in DOMAIN address
  /\ address' = [address EXCEPT ![i] = "erased"]
  /\ raced' = Busy("address")
  /\ web' = [web EXCEPT !.pc = "del_value", !.tab = t, !.index = i]
  /\ UNCHANGED <<value, ppc, item, pushes, page, fresh, graph, mixed, wild>>

\* deleteValue: address.erase, then value.erase, then the page again.
DeleteRegister(t, i) ==
  /\ Defined /\ web.pc = "idle"
  /\ \/ i \notin DOMAIN address /\ PastEnd(t, i)
     \/ /\ i \in DOMAIN address
        /\ address' = RemoveAt(address, i)
        /\ raced' = Busy("address")
        /\ web' = [web EXCEPT !.pc = "del_value", !.tab = t, !.index = i]
        /\ UNCHANGED <<value, ppc, item, pushes, page, fresh, graph, mixed, wild>>

\* Mutants: the value is kept; the last value goes instead.
DeleteValueForgotten ==
  /\ Defined /\ web.pc = "del_value"
  /\ web' = [web EXCEPT !.pc = "history", !.index = 0]
  /\ UNCHANGED <<address, value, ppc, item, pushes, page, fresh, graph, mixed, raced, wild>>

DeleteValuePops ==
  /\ Defined /\ web.pc = "del_value"
  /\ value # <<>>
  /\ value' = Front(value)
  /\ fresh' = [t \in Tab |-> FALSE]
  /\ raced' = Busy("value")
  /\ web' = [web EXCEPT !.pc = "history", !.index = 0]
  /\ UNCHANGED <<address, ppc, item, pushes, page, graph, mixed, wild>>

\* The pages made so far no longer show the rows by their indexes.
DeleteValue ==
  /\ Defined /\ web.pc = "del_value"
  /\ \/ web.index \notin DOMAIN value /\ PastEnd(web.tab, web.index)
     \/ /\ web.index \in DOMAIN value
        /\ value' = RemoveAt(value, web.index)
        /\ fresh' = [t \in Tab |-> FALSE]
        /\ raced' = Busy("value")
        /\ web' = [web EXCEPT !.pc = "history", !.index = 0]
        /\ UNCHANGED <<address, ppc, item, pushes, page, graph, mixed, wild>>

HistoryRequest(t) ==
  /\ Defined /\ web.pc = "idle"
  /\ web' = [web EXCEPT !.pc = "history", !.tab = t]
  /\ UNCHANGED <<address, value, ppc, item, pushes, page, fresh, graph, mixed, raced, wild>>

\* viewHistory copies the values first ...
HistoryValues ==
  /\ Defined /\ web.pc = "history"
  /\ raced' = Busy("value")
  /\ web' = [web EXCEPT !.pc = "render", !.vals = value]
  /\ UNCHANGED <<address, value, ppc, item, pushes, page, fresh, graph, mixed, wild>>

\* ... then the addresses, and indexes them by the values' positions.
Rendered ==
  [i \in DOMAIN web.vals |->
     [addr |-> IF i \in DOMAIN address THEN address[i] ELSE "beyond", val |-> web.vals[i]]]

\* The tab shows the page it is answered with, unless it has been clicked again
\* before it came, or lost it.
HistoryRender ==
  /\ Defined /\ web.pc = "render"
  /\ raced' = Busy("address")
  /\ \/ page' = [page EXCEPT ![web.tab] = Rendered] /\ fresh' = [fresh EXCEPT ![web.tab] = TRUE]
     \/ UNCHANGED <<page, fresh>>
  /\ web' = [web EXCEPT !.pc = "idle", !.vals = <<>>]
  /\ UNCHANGED <<address, value, ppc, item, pushes, graph, mixed, wild>>

\* getAllRegisterValue(a): value[i] for every i < address.size() whose address
\* is a.  In the gap of a push the last i is past the end of value.
GetRegisterValues(a) ==
  /\ Defined /\ web.pc = "idle"
  /\ raced' = (Busy("address") \/ Busy("value"))
  /\ LET at(i) == IF i \in DOMAIN value THEN value[i] ELSE Junk
         hits == {i \in DOMAIN address : address[i] = a}
     IN graph' = [addr |-> a, vals |-> [i \in hits |-> at(i)],   \* in the order of i
                  gap |-> \E p \in Pusher : ppc[p] # "idle"]
  /\ web' = [web EXCEPT !.pc = "graph"]
  /\ UNCHANGED <<address, value, ppc, item, pushes, page, fresh, mixed, wild>>

GraphSent ==
  /\ Defined /\ web.pc = "graph"
  /\ graph' = [graph EXCEPT !.vals = <<>>, !.gap = FALSE]
  /\ web' = [web EXCEPT !.pc = "idle"]
  /\ UNCHANGED <<address, value, ppc, item, pushes, page, fresh, mixed, raced, wild>>

-----------------------------------------------------------------------------
Push(p) == PushAddress(p) \/ PushValueBegin(p) \/ PushValue(p)

Handler ==
  \/ \E a \in Addr : StoreValue(a) \/ GetRegisterValues(a)
  \/ GraphSent
  \/ \E t \in Tab, i \in Index : EditRegister(t, i) \/ DeleteRegister(t, i)
  \/ DeleteValue \/ HistoryValues \/ HistoryRender
  \/ \E t \in Tab : HistoryRequest(t)

Next ==
  \/ \E r \in Recorder, a \in Addr : RecorderPush(r, a)
  \/ \E p \in Pusher : Push(p)
  \/ Handler

Spec == Init /\ [][Next]_vars

-----------------------------------------------------------------------------
(* Properties *)

\* The history page never indexes addresses past their end, whatever pushes and
\* deletions fall between the two copies: values are copied first and a push
\* appends the address first.
HistoryInBounds ==
  ~raced => \A t \in Tab : \A i \in DOMAIN page[t] : page[t][i].addr # "beyond"

\* As long as no two pushes were ever in progress at once, every row of a page
\* shows a value beside the address it was pushed with, whatever rows were
\* deleted, and the graph's series, read outside a push's gap, are of their address.
SerialReadsPair ==
  ~raced /\ ~mixed =>
    /\ \A t \in Tab : \A i \in DOMAIN page[t] : page[t][i].addr = page[t][i].val.addr
    /\ ~graph.gap => \A i \in DOMAIN graph.vals : graph.vals[i].addr = graph.addr

\* The request being served names a row its tab shows, on a page made since the
\* last deletion.
AsksForShownRow == fresh[web.tab] /\ web.index \in DOMAIN page[web.tab]

\* A deletion asked from a page that no deletion has made old removes the value
\* its row shows and no other, though recorders push while the page is on the
\* screen, and it stays inside the vectors, as does an edit.  Without the
\* condition neither holds: an older page deletes another row, or past the end.
DeletesShownRow ==
  [][/\ wild' => ~AsksForShownRow'
     /\ web.pc = "del_value" /\ web'.pc = "history" /\ ~raced' /\ AsksForShownRow =>
          /\ \A i \in DOMAIN value' : value'[i] # page[web.tab][web.index].val
          /\ Len(value') = Len(value) - 1]_vars

\* The pages stay inside the vectors and, while pushes do not overlap, show each
\* value with its address.
PagesRight == HistoryInBounds /\ SerialReadsPair
=============================================================================
