# A TLA+ development for the Modbus data logger

The program is a sketch for an ESP32 that polls Modbus registers over RS-485,
records them, and serves pages to look at, correct and plot what was recorded. It
brings its libraries with it: three small Modbus RTU master libraries, the
modbus-esp stack (RTU and TCP, master and slave), AsyncTCP, ESPAsyncWebSrv, and
some it does not use on this board (ESPAsyncTCP, SD, SoftwareSerial).

This directory holds TLA+ models of the parts with the program's own logic, the
TLC configurations that check them, and theorems proved with TLAPS. Every action
names in its comments the function it stands for; `PROJECT.json` maps each
definition to its lines.

## 1. Inventory

What runs concurrently: the Arduino `loop()`, the `async_tcp` task, in which every
web handler runs, the lwIP thread, and one `std::thread` for each register being
recorded. They share the registers, the recordings, the one serial line and lwIP's
event queue.

| Part | State | Operations | Talks to | What is hard |
|---|---|---|---|---|
| **Register recorder** `model/SystemState.cpp` | maps `recordingActive`, `recordingThreads`; `recordingMutex` | `startRecordingRegister`, `stopRecordingRegister`, the thread's loop | called by web handlers; thread calls `MasterModbus`, `pushRegister` | a mutex held across a join, and taken twice; a map read without it; a constructor that throws half way |
| **Register store** `model/SystemState.cpp`, `model/Routes.cpp` | parallel vectors `address`, `value` | `pushRegister`, `deleteValue`, `editValue`, the two getters, the handlers around them | recorder threads and the web task | two vectors changed by separate, unlocked steps; pages that name rows by index |
| **MasterModbus** `controller/MasterModbus.cpp` | the shared `ModbusRTUMaster` | `readHoldingIntRegisters`, `readHoldingFloatRegisters` | recorders, `/modbusMaster` | no lock around the line |
| **Modbus RTU master** `ModbusADU`, `ModbusRTUComm`, `ModbusRTUMaster` | one frame buffer; the serial receive buffer | eight requests, `readAdu`, `writeAdu` | a slave over a serial line | lost, damaged, split and late frames; nothing in a response says which request it answers; 8 bit indices |
| **Modbus registers** `modbus-esp/src/Modbus.cpp` | register list, callback list | add, remove, get, set, callbacks, `slavePDU` | ModbusRTU, ModbusIP, the application's callbacks | callbacks that overrule values; ranges that wrap; failure half way |
| **ModbusRTU** `modbus-esp/src/ModbusRTU.cpp`, `controller/SlaveModbus.cpp` | `_len`, the pending request, a critical section | `send`, `task`, `cleanup` | a bus; the register table; `loop()` | polling; one variable with two meanings; time-outs against late answers |
| **ModbusIP** `modbus-esp/src/ModbusIP_ESP.cpp` | client slots, transactions | `connect`, `disconnect`, `send`, `task`, `cleanup`, `dropTransactions` | TCP peers, the register table | connections that fail, close and come back; frames in parts; answers to transactions that are gone |
| **AsyncTCP** `AsyncTCP/src/AsyncTCP.cpp` | event queue, clients, closed slots | lwIP callbacks, the service task, `_close`, `_remove_events_with_arg` | lwIP; the web server | two threads, raw pointers in queued events, a bounded queue each may wait on |
| **Web responses** `WebResponses.cpp`, `WebRequest.cpp` | `_state`, `_head`, `_content`, four lengths | `_respond`, `_ack`, `_onAck`, `_onPoll`, `send` | AsyncTCP's window | the window cuts anywhere; acknowledgements are heard of late |
| **WiFi manager** `controller/WiFiManager.cpp` | mode, credentials (raw pointers), the web server's objects | `setupAP`, `smoothConnect`, `setNetwork`, `clear_var` | called from a web handler of the server it deletes | failing half way and restoring |
| **Web server** `WebServer.cpp`, `WebHandlers.cpp`, rest of `WebRequest.cpp`, `WebAuthentication.cpp` | handler list; a request's parse state | parsing, handler choice, multipart, static files | AsyncTCP, application handlers | input cut anywhere; a request that deletes itself |
| **WebSocket, event source** | message queues, shared buffers with counts | queueing, acknowledging, broadcast, cleanup | AsyncTCP | buffers shared between clients; a lock on some paths |
| **ESPAsyncTCP** | as AsyncTCP, plus `cbuf` buffers | for the ESP8266 | | not built for this board |
| **SD** | one block of cache, two FATs, directory entries, open files | open, read, peek, write, seek, flush, close, exists, mkdir, rmdir, remove, listing | a card | order of writes when the card or the power fails |
| **SoftwareSerial** | a ring buffer, the active object | `recv` (interrupt), `read`, `peek`, `listen` | | interrupt against sketch |
| **Shell and pages** `view/`, `WebServer.cpp` of `controller/`, `LedEsp32`, `Logger` | pin mode | HTML text | | nothing that outlives a call |

What makes each part correct, in a sentence: at most one recorder per register, and
none after a stop; pages that pair each value with its address and edit the row they
show; a write that reports success was carried out; an answer taken for a request is
the answer to it; every request ends, with one callback; one connection per peer; no
event is handled for a deleted client; a browser gets the bytes of the page, all of
them, once, and what it sends is handled once and whole however it is cut; pushed
messages are sent in the order they were queued; a file holds what was written to it.

## 2. Modules

| Module | Models | State and actions |
|---|---|---|
| `Recording` | the recorder | `active`, `handle`, `mutex` are the two maps and the mutex; a caller moves through `st_*` and `sp_*` points, a recorder thread through test, lookup, sample, sleep. A step is what a caller does between two points where others could see a difference |
| `RegisterStore` | the store and six handlers | `address`, `value`; a push is two steps, since a `push_back` of each vector is one; an overlap of two accesses to one vector, one of them a write, is a data race, sets `raced` and ends the behaviour. Every tab of a browser keeps the last `page` that reached it, which may be an old one, and a request carries any index: one past the end of a vector sets `wild` and ends the behaviour too. `fresh` tells which pages were made since the last deletion. Elements carry what was pushed together, which only properties look at |
| `ModbusADU`, `FrameSizes` | the frame arithmetic | `ModbusADU` has the length field, offsets and quantity limits with their integer widths; `FrameSizes` walks over every function code and quantity the guards let through |
| `ModbusRTUMaster` | master and line | `line`, `replies`, `rx` carry frames whole, damaged or in two parts; a call waits, collects until the line is quiet, and judges; `sure` in what it returns says that the line was quiet when it, or a call before it, began and nothing has gone wrong since. The slave is external, slow, and may miss or refuse |
| `MasterModbus` | the application's reads on that master | extends `ModbusRTUMaster` with the buffers and what each read returns |
| `ModbusRegisters` | table, callbacks, `slavePDU` | `regs`, `callbacks`, `cbEnabled`, stepped by `RegistersSpec`; `served` keeps the last request and its answer. One action for each public function and function code |
| `ModbusRTUNode` | `ModbusRTU::task` and `send` of a master and its slaves | `len` is `_len` with both its meanings; frames are two pieces, so that part of one can be there |
| `ModbusIP` | `ModbusIP` as client and server | slots, connections, backlog, streams of two-piece frames, transactions |
| `AsyncTCP` | the two threads and the queue | `queue`, the lwIP thread `lw`, the task `pc`, clients at heap addresses that are used again. `_close` and `_remove_events_with_arg` are cut at each call another thread can come between |
| `Templates`, `WebResponse` | the response classes and the templates of a file | `wire` is what lwIP has taken, as a sequence of bytes; `events` are acknowledgements the task has not heard of; `met` notes what has gone wrong on the way. `Templates` replaces the placeholders of one buffer: `Turn` is one turn of the code's loop, which `Processed` repeats |
| `WebSocketClient`, `EventSourceClient`, `WebPush` | the clients of both push handlers, and the handlers | a client's queues, frames, parser and acknowledged counts are a record that the operators of the first two modules take and return; `WebPush` has the browser, lwIP and the application's calls. A segment is taken in turns of the loop in `_onData` (`Turn`), each a part of one frame; one that ends inside a frame's head makes the behaviour `astray` and ends it |
| `WebAuthentication`, `RequestState`, `SPIFFSEditor`, `WebHandlers`, `MultipartBody`, `WebRequest` | a request from its first byte to its deletion | `WebRequest` cuts messages into segments and calls `OnData`; the other modules are the layers below: header and parameter parsing, authentication, the kinds of handler, the file editor, multipart bodies. Each extends the one before |
| `WiFiManager` | access point, switch of network, return to the old one | the web server's objects on the heap; run from a handler of `WebHandlers` |
| `SdCard`, `FatVolume`, `SdFile`, `SdFiles` | the SD library from the block device up | a record of card, cache and file that every operator takes and returns; `SdFiles` has one action per call of `SD.h`, and a card that fails, or power that goes, at any block access of a call |
| `Files` | what the SD library promises | abstract: content of each path, open files, what is unsaved or uncertain |
| `MC...` | | definitions of request sets and symmetry for the runs |
| `...Proofs` | | theorems, see 5 |

`MasterModbus` composes the application with `ModbusRTUMaster`, which is built on
`ModbusADU`; `WebRequest` composes parsing, handlers, files, authentication and the
WiFi manager; `WebPush` the two kinds of client with their handlers; `SdFiles` is shown
to implement `Files` (`Promise == INSTANCE Files WITH ...`, `KeepsPromise`). Elsewhere
the neighbour is abstract: a recorder's sample is a step of its thread; AsyncTCP's
callbacks may do what a web request's callbacks do; a slave of `ModbusRTUNode` and
`ModbusIP` carries a request out in one step, the inside of which is `ModbusRegisters`;
`WebRequest` hands a response over whole, and how it gets to the browser is `WebResponse`.

## 3. Runs

| Run | Distinct states | Properties and question |
|---|---|---|
| `recording` | 298 000 | `RecordingTypeOK`, `RecorderIsOwned`, `StartLeavesOrder`, `StopLeavesNoRecorder`, `StopReturns`: two callers, two addresses, two threads start and stop; a recorder always has a handle and an entry, a start that throws leaves no flag behind, a stop ends its recorder and returns |
| `register_store` | 2 410 000 | `TypeOK`, `PagesRight`, `DeletesShownRow`: two recorders, two tabs and the web task; a page stays in bounds, pairs values with addresses while pushes do not overlap, and deletes the row it shows if no other was deleted since it was made |
| `frame_sizes` | 6 300 | `FramesFit`: every accepted request and response fits the buffer |
| `rtu_master` | 803 000 | `TypeOK`, `ResultIsOwn`, `CallReturns`: one client on a bad line; while nothing has gone wrong since the line was quiet, a success is of this request and a write that reports it was carried out; every call returns |
| `registers` | 207 000 | `TableOK`, `WritesShow`, `ExceptionWritesNothing`: what each answer says of the table |
| `rtu_node` | 315 000 | `NodesOK`, `CallbackTrue`, `EveryRequestEnds`: a callback is called once, for its own request, and a success was executed |
| `modbus_ip` | 287 000 | `SlotsOK`, `AnswersOwn`, `TransactionEnds`: the same over TCP, one connection per peer |
| `async_tcp` | 1 290 000 | `TypeOK`, `OnlyFinIsStale`, `SlotOfOne`: which events can reach the task for a client that is gone |
| `web_response` | 1 200 000 | `TypeOK`, `StreamIntact`, `ResponseEnds`: the browser gets head and content once and in order, and the request ends |
| `web_push` | 1 180 000 | `TypeOK`, `SentInOrder`, `HeardInOrder`, `NeverStuck`: messages leave in the order they were queued, the texts of a browser are heard in order, whole or in parts and one or two to a segment, a queue that could go on does |
| `web_request` | 31 400 | `TypeOK`, `HandledWhole`, `AuthDecides`, `RefusedUnseen`, `FilesKept`, `PagesServed`: 50 messages cut in segments, over three connections |
| `sd_files` | 98 500 | `TypeOK`, `VolumeSound`, `KeepsPromise`: clusters have one owner, the FATs agree, the library implements `Files` |

**Bounds.** They bound behaviours, not components, and each is a constant named in
its module (`Max...`). Two addresses, callers and threads are enough for every pair
of recording operations to overlap, on the same register and on different ones, and
for `std::thread` to run out of memory. Three pushes give two that overlap and one
around a deletion, and indexes up to one more than can have a row; two tabs give a page
that another's deletion has made old. Two requests are enough for an answer to outlive its call and meet
the next; the request set holds pairs that differ in one thing each (address, value,
quantity, function, slave). An address space of two registers wraps at once. ModbusIP
has two slots, connections and requests, and one remote frame in two pieces, so that
a reconnection, a refusal and a late answer fall together. AsyncTCP has two heap
addresses for three connections, so an address is used again, and a queue of three,
which fills. A response has a head of two units, a content of up to three and a
window of two or three, so each of the four branches of `_respond` is taken, with
`100 Continue` of any length still in the window; templates have windows of four and
six, names of two. A push client has a window of twelve bytes, queues of two, and frames
whose head takes two bytes or four; two clients share broadcast buffers. The messages of
`web_request` each differ from a plain one in one thing (a method, a header, a body kind,
a digest, a boundary), and are cut after one, two or five pieces or anywhere in their first and last;
an exclude-file line has eight characters, a JSON body four. A card has two
clusters of two units and three entries to the block, a file in the root and one in a
directory; four calls change it, or three and a fault: enough for a file over two
clusters, a full card, a cluster freed and used again, a directory entry in a reused slot.

**Deadlock.** Most runs say `CHECK_DEADLOCK FALSE`: the bounds stop the system, and
`recording`, `register_store`, `async_tcp`, `web_push`, `web_request` and `sd_files` also
stop where the program hangs, terminates, has undefined behaviour or has wrecked its
data. `registers` has no such end and is checked.

## 4. Fairness

FreeRTOS schedules every ready task of a priority in turn: weak fairness of each
thread's next step in `Recording`. A `std::mutex` on FreeRTOS hands over in order of
waiting within a priority: `StopReturns` needs strong fairness of taking the mutex
only. `loop()` calls `task()` for ever: weak fairness of the master's `task()` in
`ModbusRTUNode`, of the passing of time there and of bytes on the wire (which the line
may have damaged or lost), and in `ModbusIP` of the end of each transaction, which `cleanup`
reaches by time alone. `ModbusRTUMaster` has its own time-out: weak fairness of
`readAdu`'s steps, none of the slave or of the line. AsyncTCP polls
and delivers acknowledgements, and lwIP retransmits until the browser acknowledges
or the connection goes: weak fairness of these in `WebResponse`, none of lwIP taking
a write. Nothing is assumed fair about users, peers, faults or failing allocations.
`WebPush`, `WebRequest` and `SdFiles` state no fairness: what should happen at last is
stated there as a condition on where they may rest (`NeverStuck`, `HandledWhole`).

## 5. Proofs

All are checked by `tlapm` for every value of the constants; no step is left open. In each
module the named properties are not inductive as they stand; what is added to make them so
is the argument.

* **`RegisterStoreProofs`**, of the store: `TypeCorrect`, `PagesAreRight` (`PagesRight`),
  `DeletionIsExact` (`DeletesShownRow`). A push appends its address first and its value
  last and a deletion erases in the same order, so that `address` is longer than `value`
  by the pushes halfway, less the row being deleted; and what a page made since the last
  deletion shows is still a prefix of `value`, because recorders only append. None of it
  needs `~raced`. A request may carry any index; that one from such a page is never past
  the end is part of `DeletionIsExact`, which says nothing of older pages. Of the
  recorders that push, in `Recording`: `RecordingTypeCorrect`, `RecorderOwned`
  (`RecorderIsOwned`), `StartOrderly` (`StartLeavesOrder`) and `StopIsComplete`
  (`StopLeavesNoRecorder`). Between its points a caller holds the mutex exactly where the
  code does (`Exclusion`); a joinable handle has an entry in the other map
  (`HandleIsActive`), which is what a failed start could break; the flag of a recorder
  being joined stays cleared (`JoinCleared`), since nobody else gets the mutex.
* **`MasterModbusProofs`**: for the frame arithmetic `EveryFrameFits` (`FramesFit`), where
  the divisions are isolated in lemmas and the rest is linear; for the master
  `TypeCorrect` and `ResultsAreOwn` (`ResultIsOwn`). No response names its request; what
  identifies it is that there is no other. From a call on a quiet line until one fails or
  two overlap, all that is under way, buffered or in the caller's hands is at most one frame
  (`OneFrame`), of the one request outstanding (`Alone`), and nothing of it is left when
  the call has taken it (`Silence`). A call on a line that is quiet again begins anew,
  whatever failed before. Of a success on a line where something has, all that is left is
  that the slave has carried out a request with the same response (`WriteHappened`).
* **`ModbusProofs`**, of the register table: `TableIsOK` (`TableOK`), `WritesAreShown`
  (`WritesShow`), `RefusalsWriteNothing` (`ExceptionWritesNothing`). What the callbacks
  make of a value, the table after a multiple write and the callbacks left by a removal
  are recursive functions of a position. `LEMMA Recursion` proves that such a function
  exists and unfolds, `LEMMA Induction` carries a fact along the positions: over a range
  that may wrap, and over any number of callbacks. Of the master and its slaves on the
  serial line: `NodesAreOK` (`NodesOK`), `CallbacksAreTrue` (`CallbackTrue`). Each frame
  has one head and is taken whole or not at all. Heads that can still become a callback
  are counted: while nothing was refused, unawaited or timed out there is at most one, and
  it is of the pending request.
* **`ModbusIPProofs`**: `SlotsAreOK` (`SlotsOK`), `AnswersAreOwn` (`AnswersOwn`).
  Connections have numbers, so none in a slot comes up again; transaction numbers are
  handed out once and one in the list was not called back; a remote master's frame begins
  in one place of one stream, and what follows a refused beginning is never taken for one.
* **`AsyncTCPProofs`**: `SlotsAreOfOne` (`SlotOfOne`), `TypeCorrect`, `StaleIsFin`
  (`OnlyFinIsStale`). `_free_closed_slot` takes no lock; what makes that safe is that a
  slot is given back with a number that is never 0, the mark of a slot in use, that every
  event names a client, and, for the bound on `_closed_index`, that each connection gives
  its slot back once. For stale events: which may still come (`Numbers`), whose clients
  are at their addresses (`Placed`), what may stand before what in the queue (`Ordered`),
  and so where those of a deleted client are (`Strays`).
* **`WebPushProofs`**: `TypeCorrect`, `SentIsInOrder` (`SentInOrder`), `HeardIsInOrder`
  (`HeardInOrder`), `NothingSticks` (`NeverStuck`). Of a socket, the last frame on the
  wire ends where the front message goes on, and a message that left the queue was sent
  whole (`WireOK`); every buffer a queued message has is in the list (`Backed`). Of an
  event source, those sent come before those not sent and the browser has them in order
  (`Told`); what is in flight and the acknowledgements the task has yet to hear of
  (`AckSum`) add up to what the events sent are still owed (`Flow`), so that no
  acknowledgement reaches an event that was not sent. A socket's books are even as well
  (`Paid`): while no frame was refused or crossed, what is in flight or acknowledged
  unheard is what the front message and the control frame before it wait for. So a client
  with nothing in flight waits for nothing, and its next poll sends, or finishes, what is
  in front. What was said and what was heard stay equal over each turn of the loop in
  `_onData`, because a frame under way is one the parser knows all about (`HeardOK`,
  `TurnFine`); a segment is one turn or two. The loops over the queues are recursive functions again, unfolded as above.
* **`WebResponseProofs`**: `TypeCorrect`, `StreamStaysIntact` (`StreamIntact`),
  `TemplatesReplaced`. That the browser has a prefix of the page is not inductive; what is
  kept is that the bytes it has, the rest of the head and what is still to come make the
  whole (`ToldKept`, `BasicKept`), that a source has left what lies behind the length sent
  (`SourceKept`), and that the chunks begin behind the head and are whole (`ChunksKept`).
  What is still to come of a file of templates is its rest with the templates replaced, so
  that a step of it needs `TemplatesReplaced`: for every text and every room, what
  `_fillBufferAndProcessTemplates` puts into the buffer, followed by what becomes of the
  rest, is what the text is meant to become. Its loop goes back as well as forward, since
  a value may be longer than its placeholder and the loop looks at it again; it ends
  because each turn leaves fewer percent signs to look at, and what the text becomes stays
  the same in each (`Goes`). `Expanded`, the loop and `Plain` are recursions on texts and
  bytes; that a function with their values exists is proved from the sizes of what they
  recur on, by well-founded minima (`LEMMA Recursion`).
* **`WebRequestProofs`**, for any handlers, rewrites, messages and cuts: `TypeCorrect`,
  `RefusedAreUnseen` (`RefusedUnseen`), `PagesAreServed` (`PagesServed`), and
  `DigestsDecide`. What the properties speak of is reached by every layer below, so the
  argument follows the layers. A segment of a body, whatever is in it, changes neither
  handler, method nor authorization, tells a refused request nothing, and leaves the
  buffer of an upload room for its next byte (`Kept`); a head chooses the handler only at
  its end, when nothing was told yet (`Reads`); a handler called at the end may also
  switch the network (`Did`). `PagesServed` needs `NetInv`: the listener is an object with
  its routes that was not deleted, and an access point always has an object. What ties the
  two together is in `Settled`: a request that is not at its end has come through an open
  port, and nothing but its own handler, which is called at its end, can close one; so
  `setNetwork` is only ever begun with the port open, and of its attempts, as many as
  there may be, the first that would break `NetInv` does not exist. The loops over bytes,
  handlers, attempts and units are recursive functions of a position, shown to exist by
  the least at which they would not (`LEMMA Least`). `DigestsDecide` is about the checks
  of a digest alone: of whatever user and password, and by whatever password or stored
  hash, one that says what it should is let through, and one with another user, another
  password or a comma that cuts it is not.

**Assumptions.** Each proof uses only the `ASSUME`s of its specification, which TLC
evaluates in the runs: bounds are numbers, sets of requests are non-empty and in the range
of their types, and the value that stands for nothing is not one of the others
(`NothingAssumption`, `ObjectAssumption`, `UnansweredAssumption`, `AbsentAssumption`).
`WebPush` needs two facts about its numbers (`WindowAssumption`): an empty window takes a
control frame (`TCP_SND_BUF` is some thousand bytes, the longest such frame 127), and the
bytes of a text with those of its heads stay below 2^32, as they do for any text in an
ESP's memory. `Templates` needs values without percent signs (`TemplateAssumption`): the
code looks at a value once more after putting it in place, and one with its own
placeholder would be replaced for ever. A head is not empty (`BoundAssumption`): it begins
with `HTTP/1.`. `WebRequest` takes a handler to be one of the kinds the library has, its
callback to do one of the things the sketch's callbacks do (`HandlerAssumption`), a
message to have the fields of one (`MessageAssumption`), and its buffers to hold at least
a character (`RequestAssumption`): 32 bytes of a line, 1460 of an upload.

**What stays with TLC.**
* Liveness, which needs `ENABLED`: `StopReturns`, `CallReturns`, `EveryRequestEnds`,
  `TransactionEnds`, `ResponseEnds`.
* The modules with `RECURSIVE` operators, for which `tlapm` has no SMT backend:
  `FatVolume`, `SdFile` and `SdFiles`, with `SdFiles.TypeOK`, `VolumeSound` and
  `KeepsPromise`, their refinement of `Files`. Theirs follow the chains of a FAT as the
  code's loops do, and were left so.
* `HandledWhole`, `AuthDecides` and `FilesKept`. They compare what a handler is told with
  what a message means to say, by the handler it is meant for and the files of the run;
  for any handlers and messages they are false (two handlers may take one URL, a form may
  hold two fields of a name). What `AuthDecides` says of what a refused request is told is
  proved in general, as `RefusedUnseen`, and what it says of digests, as `DigestsDecide`.

## 6. What the models say about the code

Three things the code's own words contradict. They were found while modelling; the
models keep the behaviour, and the properties say what is true beside it.

* A start for a register that is being recorded calls stop with `recordingMutex` held
  (`SystemState.cpp:73`, locked again at `:100`) and waits for itself for ever, with
  everyone else behind it; the comment at `:71` has it stop the old recording and start
  a new one. `StopReturns` is therefore about behaviours without such a start.
* Two threads that read on the one master take each other's answers
  (`MasterModbus.cpp:66`). `rtu_master` has one client; with a second one in its
  configuration `ResultIsOwn` fails within a few steps. What holds with one holds for
  calls that do not overlap.
* A request that `send` refuses has left its length in `_len` (`ModbusRTU.cpp:116`). With
  bytes in the receive buffer that no frame took, `task()` then finds more than `_len` and
  returns, before `cleanup` (`:136`); an application that keeps asking can keep a pending
  request from ever timing out, though `Modbus.h:132` calls `EX_TIMEOUT` "Operation not
  finished within reasonable time". `EveryRequestEnds` excepts an application that is
  refused for ever.

Visible in the models, where a property names the condition that keeps it out:

* **Store.** `pushRegister` of two threads at once mispairs addresses and values for good
  (`mixed` in `RegisterStore`); `registerMutex` is taken by readers only.
  `getAllRegisterValue` reads `value[i]` past its end in the gap of a push. Delete and edit
  take the index from the URL as it comes (`Routes.cpp:44`, `:52`; `SystemState.cpp:210-219`
  do not look at the size either): from a page made before a deletion, in another tab, by
  a reload of the URL or by a second click, they hit another row than the one shown, erase
  an address and no value, or go past the end, which is undefined (`wild`).
* **Master.** An answer that comes after its call timed out is taken by the next call if
  that asks for the same function and quantity (`troubled` in `ModbusRTUMaster`, `clean`
  in `ModbusRTUNode`), until a call finds the line quiet again. The response to a
  multiple write has address and quantity and no data: a write the slave missed, answered
  by the late response to an older one, reports success and its values were never written.
  `MasterModbus` takes error code 0, success, for failure: good
  reads of a pair return 0, failed ones the buffer nothing has filled; the integer read
  returns its buffer whatever happened; address 0 wraps to 65535.
* **Slave.** A request sets and clears `_len` between the call of `task()` that enters the
  critical section and the one that leaves it, so a master may enter or leave it once
  too often; what `NodesOK` says of the section is about slaves.
* **AsyncTCP.** While `_remove_events_with_arg` turns the queue round, an event lwIP
  appends overtakes those still to be moved; the comment at `AsyncTCP.cpp:125` says the
  order is kept. A FIN lwIP was about to post when the client was closed reaches the task
  after the client is deleted. A CLEAR for a deleted client takes the events of a new
  one at the same address. With the queue full, lwIP waits for the task while the task
  waits for lwIP.
* **Responses.** A response whose head is held back because its content was not ready
  loses as many bytes as the head has; one without a length ends early if it is asked
  for content with the window full; a write lwIP refuses is lost (`met` in
  `WebResponse`). Of two percent signs that the end of a buffer divides the second is
  dropped, and the first may begin a name; a value that overruns the buffer with nothing
  behind its placeholder loses bytes; a name beyond the limit is cut if both its marks
  are in the buffer and left alone if not; a JSON document is written anew for every
  buffer.
* **Push.** A control frame in flight is sent again whenever the queue runs; the second
  acknowledgement is credited to the message behind it, which then waits for ever. A
  server's close leaves the status at connected, so the peer's answer makes a second one.
  An acknowledgement that covers part of a control frame wraps a `size_t`. `_onData` reads
  a frame's head from whatever the segment still has: where it ends inside the head, the
  rest is read behind it and `plen` wraps (`AsyncWebSocket.cpp:614-638`); and a segment that
  goes on behind the answer to a close is read on in a client that is deleted (`astray`).
  Control frames
  in parts reach the handler as data (`AsyncWebSocket.h:57` says it sees text and binary
  only). An empty message is queued and never sent. An event too long for the window lets
  others pass, whose acknowledgements delete it unsent.
* **Requests.** A body with more bytes in a segment than `Content-Length` announced is
  never handled, nor a multipart body that ends without a line end; `text/plain` is a form
  or a raw body depending on where the segments are cut; an empty first line closes
  the connection and parsing goes on in the freed request; a refused body in pieces is
  answered more than once. A digest with a comma in its URL is always refused; the parts a
  digest leaves out are not compared. A line of the exclude file of exactly one
  character less than the buffer swallows the next one. A file's `ETag` is its size.
* **WiFi.** A failed switch in a station has deleted the server whose handler is running,
  tries the old network without end and makes no server again, against the comment at
  `WiFiManager.cpp:199`; the first failed switch of an access point leaks the listening server;
  after a bind error `_pcb` dangles until `end()` uses it.
* **SD.** A whole-block write over the cached block forgets the block's number and not
  that it is dirty (`SdFile.cpp:1394`): every later call fails (`Wedged`). An `rmdir` the
  power cuts short leaves a directory without a first cluster. A failed write leaves
  the position beyond the size, and the next read walks past the end of the chain. A
  listing that the card cuts short looks like a whole one.

Read in the code, with nothing to explore: `onSet` without a callback removes the query
callbacks; `/modbusMaster` sends two responses; `send(NULL)` deletes the request twice;
`setError(const char*)` keeps a pointer to its local array; `clearRxBuffer` does not
return on a line that is never quiet; a frame of one or two bytes wraps `_len - 2`; a
callback that changes the register table, or starts a transaction, moves what its caller
points to; the value of a template is looked at again, and one with its own placeholder is
replaced for ever; `_cleanBuffers` and `AsyncEventSource::close` go on from a node they delete;
`messageAll` deletes twice; `avgPacketsWaiting` divides by zero without clients.

## 7. Not modelled, and why

* Byte layout, HTML and log text; CRC values (a damaged frame is one whose CRC is
  wrong); microsecond timing (a pause either ends a frame or does not); allocations that
  fail, except inside `std::thread`.
* Callbacks that change the table or connection they are called for: undefined in
  the code.
* AsyncTCP's outgoing connections and DNS, which the application does not use.
* Sources of a response that become invalid; more than one response to a request.
* WebSocket: messages the caller makes itself, masked messages from the server,
  `printf` formatting, calls from other tasks than `async_tcp`.
* Requests on several connections at once: in `WebRequest` a connection begins when the
  last request is gone. `PagesServed` is about those; a second request that came in before
  a switch could begin one of its own with the port already lost.
* Web server: ON_STA and ON_AP filters, regular expressions, handlers added or removed
  while it runs. WiFi: `connect()`, which nothing calls, and `scanNetworks`.
* SD: `createContiguous`, time stamps, `ls`, `rmRfStar`, long paths, erasing, multiple-block
  writes, a second handle on an open file; a FAT and a root directory of more than a
  block; the steps of the card's handshake.
* Coarser than the code: inserting into `std::map` and a lookup without the lock
  are one step each, so a lookup in a tree that is being rebalanced does not
  occur (`Recording.LookupEnd`); the writes of `_free_closed_slot` are one step
  (`AsyncTCP.cpp:838-840`); `_recv` going on with the client its callback has deleted
  (`AsyncTCP.cpp:936-939`), a handler going on in its lambda after a failed switch has
  deleted it (`WebHandlers.SwitchWifi`), and the raw pointers into Strings of that handler
  which `setNetwork` keeps (`Routes.cpp:193-198`, `WiFiManager.cpp:173-177`) have no effect;
  the calls of `ModbusRTU` differ only in whether a response is awaited (`Waits`): a `push`
  and a `pull` are reads in that.
* ModbusIP: bytes out of step that look like a header, and a remainder of at most seven
  bytes, which stays (`ModbusIP_ESP.cpp:81-88`): what is out of step is dropped whole.
* SD: a card that falls silent between the start token and the end of the data
  (`Sd2Card.cpp:457-459`), whose bytes would be read as ones; writes that return before
  the card is done (`Sd2Card.cpp:635`), which only follow a call of `availableForWrite`: the
  call is an action, but the write after it waits like any other.
* Web server: requests without the parameter a handler asks for (`getParam` is then `NULL`
  and not looked at); digests that leave out some of their parts; an exclude file that
  changes, or has a line as long as the buffer.
* ESPAsyncTCP (for the ESP8266) and SoftwareSerial (for AVR boards) are not built for
  this board; the shell and the pages have no state that outlives a call.
