------------------------------ MODULE Recording ------------------------------
(***************************************************************************)
(* The register recorder of model/SystemState.cpp.                         *)
(*                                                                         *)
(* startRecordingRegister(addr, ms) starts a std::thread that samples one  *)
(* Modbus register until stopRecordingRegister(addr) clears its flag and   *)
(* joins it.  Two std::maps, recordingActive and recordingThreads, are     *)
(* written under recordingMutex; the sampling thread reads recordingActive *)
(* WITHOUT the mutex.                                                      *)
(*                                                                         *)
(* A caller is a thread that calls the two functions (the web server's     *)
(* task; the sketch's loop).  What a caller does between two points where  *)
(* a recorder or another caller could see a difference is one step.        *)
(* RegisterStoreProofs extends this module and RegisterStore: the names    *)
(* both would use begin with Recording here.                               *)
(***************************************************************************)
CONSTANTS ModbusAddr, \* Modbus addresses a recording can be started for
          Caller,   \* threads calling start/stopRecordingRegister
          Thread,   \* threads the RTOS has memory for (std::thread objects)
          NoThread, \* an entry of recordingThreads that is not joinable
          NoCaller  \* recordingMutex is free

ASSUME ThreadAssumption == NoThread \notin Thread
ASSUME CallerAssumption == NoCaller \notin Caller

VARIABLES
  active,  \* recordingActive: "absent" (no map entry), "false" or "true"
  handle,  \* recordingThreads: the joinable thread of an address
  mutex,   \* the holder of recordingMutex
  pc,      \* where each caller is
  arg,     \* the addr argument of the call it is in
  op,      \* "start", "stop", or "cleanup": stop called by start's catch block
  rpc,     \* where each recorder thread is ("none": no such thread)
  raddr,   \* the address a recorder thread captured
  torn,    \* the map changed shape under the recorder's unlocked lookup
  state    \* SystemState::state, as far as setError changes it

recordingVars == <<active, handle, mutex, pc, arg, op, rpc, raddr, torn, state>>
callerVars == <<mutex, pc, arg, op, state>>

\* Points of startRecordingRegister (st_) and stopRecordingRegister (sp_);
\* "relock" is start, holding recordingMutex, inside stop's lock_guard.
CallerPC == {"idle", "st_lock", "st_check", "st_spawn", "relock",
             "sp_lock", "sp_check", "sp_join"}
RecorderPC == {"none", "test", "lookup", "sample", "sleep", "done"}

Live == {t \in Thread : rpc[t] \notin {"none", "done"}}
InSection == {c \in Caller : pc[c] \in {"st_check", "st_spawn", "relock",
                                        "sp_check", "sp_join"}}

RecordingTypeOK ==
  /\ active \in [ModbusAddr -> {"absent", "false", "true"}]
  /\ handle \in [ModbusAddr -> Thread \cup {NoThread}]
  /\ mutex \in Caller \cup {NoCaller}
  /\ pc \in [Caller -> CallerPC]
  /\ arg \in [Caller -> ModbusAddr]
  /\ op \in [Caller -> {"start", "stop", "cleanup"}]
  /\ rpc \in [Thread -> RecorderPC]
  /\ raddr \in [Thread -> ModbusAddr]
  /\ torn \in [Thread -> BOOLEAN]
  /\ state \in {"INIT", "ERROR"}

RecordingInit ==
  /\ active = [a \in ModbusAddr |-> "absent"]
  /\ handle = [a \in ModbusAddr |-> NoThread]
  /\ mutex = NoCaller
  /\ pc = [c \in Caller |-> "idle"]
  /\ arg \in [Caller -> ModbusAddr]
  /\ op = [c \in Caller |-> "stop"]
  /\ rpc = [t \in Thread |-> "none"]
  /\ raddr \in [Thread -> ModbusAddr]
  /\ torn = [t \in Thread |-> FALSE]
  /\ state = "INIT"

-----------------------------------------------------------------------------
(* The maps.  An insertion or an erasure rebalances the tree: a lookup     *)
(* that is under way in a recorder (no lock) may miss its node.            *)

\* Mutant: the new entry's atomic is left uninitialised.
TouchUninitialised(a) ==
  /\ active' = [active EXCEPT ![a] = IF @ = "absent" THEN "garbage" ELSE @]
  /\ torn' = [t \in Thread |-> torn[t] \/ (active[a] = "absent" /\ rpc[t] = "lookup")]

\* recordingActive[addr] value-initialises a missing entry.
Touch(a) ==
  /\ active' = [active EXCEPT ![a] = IF @ = "absent" THEN "false" ELSE @]
  /\ torn' = [t \in Thread |-> torn[t] \/ (active[a] = "absent" /\ rpc[t] = "lookup")]

EraseEntries(a) ==
  /\ active' = [active EXCEPT ![a] = "absent"]
  /\ handle' = [handle EXCEPT ![a] = NoThread]
  /\ torn' = [t \in Thread |-> torn[t] \/ rpc[t] = "lookup"]

-----------------------------------------------------------------------------
(* startRecordingRegister *)

StartCall(c, a) ==
  /\ pc[c] = "idle"
  /\ pc' = [pc EXCEPT ![c] = "st_lock"]
  /\ arg' = [arg EXCEPT ![c] = a]
  /\ op' = [op EXCEPT ![c] = "start"]
  /\ UNCHANGED <<active, handle, mutex, rpc, raddr, torn, state>>

\* lock_guard: taken when free, by start and by stop alike.
Lock(c) ==
  /\ pc[c] \in {"st_lock", "sp_lock"}
  /\ mutex = NoCaller
  /\ mutex' = c
  /\ pc' = [pc EXCEPT ![c] = IF @ = "st_lock" THEN "st_check" ELSE "sp_check"]
  /\ UNCHANGED <<active, handle, arg, op, rpc, raddr, torn, state>>

\* A recording is active: start calls stop, whose lock_guard waits for the
\* mutex its own caller holds.  std::mutex is not recursive: it never returns.
StartRestart(c) ==
  /\ pc[c] = "st_check"
  /\ active[arg[c]] = "true"
  /\ pc' = [pc EXCEPT ![c] = "relock"]
  /\ UNCHANGED <<active, handle, mutex, arg, op, rpc, raddr, torn, state>>

StartCheck(c) ==
  /\ pc[c] = "st_check"
  /\ active[arg[c]] # "true"
  /\ Touch(arg[c])
  /\ pc' = [pc EXCEPT ![c] = "st_spawn"]
  /\ UNCHANGED <<handle, mutex, arg, op, rpc, raddr, state>>

\* store(true), the std::thread constructor, and the end of the scope.
StartSpawn(c) ==
  /\ pc[c] = "st_spawn"
  /\ \E t \in Thread :
       /\ rpc[t] = "none"
       /\ rpc' = [rpc EXCEPT ![t] = "test"]
       /\ raddr' = [raddr EXCEPT ![t] = arg[c]]
       /\ handle' = [handle EXCEPT ![arg[c]] = t]
  /\ active' = [active EXCEPT ![arg[c]] = "true"]
  /\ mutex' = NoCaller
  /\ pc' = [pc EXCEPT ![c] = "idle"]
  /\ UNCHANGED <<arg, op, torn, state>>

\* Mutant: the exception is swallowed.
StartSpawnSwallows(c) ==
  /\ pc[c] = "st_spawn"
  /\ active' = [active EXCEPT ![arg[c]] = "true"]
  /\ mutex' = NoCaller
  /\ pc' = [pc EXCEPT ![c] = "idle"]
  /\ UNCHANGED <<handle, arg, op, rpc, raddr, torn, state>>

\* The constructor throws: unwinding releases the mutex with the flag already
\* set, then the catch block calls stopRecordingRegister.
StartSpawnFails(c) ==
  /\ pc[c] = "st_spawn"
  /\ active' = [active EXCEPT ![arg[c]] = "true"]
  /\ mutex' = NoCaller
  /\ pc' = [pc EXCEPT ![c] = "sp_lock"]
  /\ op' = [op EXCEPT ![c] = "cleanup"]
  /\ UNCHANGED <<handle, arg, rpc, raddr, torn, state>>

-----------------------------------------------------------------------------
(* stopRecordingRegister *)

StopCall(c, a) ==
  /\ pc[c] = "idle"
  /\ pc' = [pc EXCEPT ![c] = "sp_lock"]
  /\ arg' = [arg EXCEPT ![c] = a]
  /\ op' = [op EXCEPT ![c] = "stop"]
  /\ UNCHANGED <<active, handle, mutex, rpc, raddr, torn, state>>

\* stop returns; called from the catch block, setError follows.
StopReturn(c) ==
  /\ mutex' = NoCaller
  /\ pc' = [pc EXCEPT ![c] = "idle"]
  /\ state' = IF op[c] = "cleanup" THEN "ERROR" ELSE state
  /\ UNCHANGED <<arg, op>>

StopNothing(c) ==
  /\ pc[c] = "sp_check"
  /\ active[arg[c]] # "true"
  /\ Touch(arg[c])
  /\ StopReturn(c)
  /\ UNCHANGED <<handle, rpc, raddr>>

\* Mutants: the flag is left set; the entry is erased before the join.
StopSignalForgotten(c) ==
  /\ pc[c] = "sp_check"
  /\ active[arg[c]] = "true"
  /\ pc' = [pc EXCEPT ![c] = "sp_join"]
  /\ UNCHANGED <<active, handle, mutex, arg, op, rpc, raddr, torn, state>>

StopSignalErases(c) ==
  /\ pc[c] = "sp_check"
  /\ active[arg[c]] = "true"
  /\ active' = [active EXCEPT ![arg[c]] = "absent"]
  /\ pc' = [pc EXCEPT ![c] = "sp_join"]
  /\ UNCHANGED <<handle, mutex, arg, op, rpc, raddr, torn, state>>

StopSignal(c) ==
  /\ pc[c] = "sp_check"
  /\ active[arg[c]] = "true"
  /\ active' = [active EXCEPT ![arg[c]] = "false"]
  /\ pc' = [pc EXCEPT ![c] = "sp_join"]
  /\ UNCHANGED <<handle, mutex, arg, op, rpc, raddr, torn, state>>

\* Mutant: the thread is detached instead of joined.
StopJoinDetached(c) ==
  /\ pc[c] = "sp_join"
  /\ EraseEntries(arg[c])
  /\ StopReturn(c)
  /\ UNCHANGED <<rpc, raddr>>

\* join() when joinable, with the mutex held; then both entries are erased.
StopJoin(c) ==
  /\ pc[c] = "sp_join"
  /\ handle[arg[c]] \in Thread => rpc[handle[arg[c]]] = "done"
  /\ rpc' = [t \in Thread |-> IF t = handle[arg[c]] THEN "none" ELSE rpc[t]]
  /\ EraseEntries(arg[c])
  /\ StopReturn(c)
  /\ UNCHANGED raddr

-----------------------------------------------------------------------------
(* The recorder thread: while (recordingActive[addr].load()) ... *)

LookupBegin(t) ==
  /\ rpc[t] = "test"
  /\ rpc' = [rpc EXCEPT ![t] = "lookup"]
  /\ torn' = [torn EXCEPT ![t] = FALSE]
  /\ UNCHANGED <<active, handle, raddr, callerVars>>

\* A torn lookup yields either value; the node it may add is not modelled.
LookupEnd(t) ==
  /\ rpc[t] = "lookup"
  /\ \E go \in BOOLEAN :
       /\ ~torn[t] => go = (active[raddr[t]] = "true")
       /\ rpc' = [rpc EXCEPT ![t] = IF go THEN "sample" ELSE "done"]
  /\ UNCHANGED <<active, handle, raddr, torn, callerVars>>

\* readHoldingIntRegisters and pushRegister; then sleep_for(milliseconds).
Sample(t) ==
  /\ rpc[t] = "sample"
  /\ rpc' = [rpc EXCEPT ![t] = "sleep"]
  /\ UNCHANGED <<active, handle, raddr, torn, callerVars>>

Wake(t) ==
  /\ rpc[t] = "sleep"
  /\ rpc' = [rpc EXCEPT ![t] = "test"]
  /\ UNCHANGED <<active, handle, raddr, torn, callerVars>>

-----------------------------------------------------------------------------
Inside(c) ==
  \/ StartRestart(c) \/ StartCheck(c) \/ StartSpawn(c) \/ StartSpawnFails(c)
  \/ StopNothing(c) \/ StopSignal(c) \/ StopJoin(c)

RecorderThread(t) == LookupBegin(t) \/ LookupEnd(t) \/ Sample(t) \/ Wake(t)

RecordingNext ==
  \/ \E c \in Caller, a \in ModbusAddr : StartCall(c, a) \/ StopCall(c, a)
  \/ \E c \in Caller : Lock(c) \/ Inside(c)
  \/ \E t \in Thread : RecorderThread(t)

RecordingSpec == RecordingInit /\ [][RecordingNext]_recordingVars

\* Threads run (FreeRTOS shares the cores among equal priorities, the Modbus
\* read times out, the sleep ends) and the mutex queues its waiters.
RecordingFairSpec ==
  /\ RecordingSpec
  /\ \A c \in Caller : SF_recordingVars(Lock(c)) /\ WF_recordingVars(Inside(c))
  /\ \A t \in Thread : WF_recordingVars(RecorderThread(t))

-----------------------------------------------------------------------------
(* Properties *)

\* A recorder thread is always the one recordingThreads holds for its address:
\* no thread is orphaned and no address is sampled by two threads, whatever
\* starts, failed starts and stops interleave.
NoOrphanRecorder == \A t \in Thread : rpc[t] # "none" => handle[raddr[t]] = t

\* When start assigns recordingThreads[addr] that entry is not joinable:
\* assigning over a joinable std::thread calls std::terminate.
NoTerminate == \A c \in Caller : pc[c] = "st_spawn" => handle[arg[c]] = NoThread

\* The entry a live recorder looks up without the lock is in the map: but for a
\* torn lookup, its operator[] inserts nothing behind the callers' backs.
EntryOutlivesRecorder == \A t \in Live : active[raddr[t]] # "absent"

\* A start that fails half way leaves no flag set that nobody serves: the flag
\* has a thread, or the failing call is on its way to stop.
ActiveIsServed ==
  \A a \in ModbusAddr : active[a] = "true" =>
    \/ handle[a] \in Thread
    \/ \E c \in Caller : arg[c] = a /\ op[c] = "cleanup" /\ pc[c] \in {"sp_lock", "sp_check"}

\* Every recorder thread is the one its address's entry is for, and the entry stays
\* as long as the thread.
RecorderIsOwned == NoOrphanRecorder /\ EntryOutlivesRecorder

\* A start, failed or not, leaves entries the next start may assign to, and no
\* flag that is set for nobody.
StartLeavesOrder == NoTerminate /\ ActiveIsServed

\* When stop returns, no thread samples the address any more.
StopLeavesNoRecorder ==
  [][\A c \in Caller : pc[c] \in {"sp_check", "sp_join"} /\ pc'[c] = "idle"
       => \A t \in Live' : raddr'[t] # arg[c]]_recordingVars

\* A stop returns, though it joins with the mutex held, unless some caller is
\* waiting for the mutex it holds itself.
StopReturns ==
  \A c \in Caller :
    (pc[c] \in {"sp_lock", "sp_check", "sp_join"}) ~>
      (pc[c] = "idle" \/ \E d \in Caller : pc[d] = "relock")
=============================================================================
