----------------------------- MODULE GatewayBase -----------------------------
(***************************************************************************)
(* The state GatewayBase shares between the threads of a gateway.          *)
(*   The mapping vector is guarded by mappings_mutex_, but a lookup        *)
(*   returns a pointer into it that is read after the mutex is released;   *)
(*   push_back moves the entries to new storage when the capacity is used  *)
(*   up.                                                                   *)
(*   The statistics are separate atomics: recording a message is two       *)
(*   relaxed increments, copying them for get_stats is one load after      *)
(*   another.  An increment is atomic, but other threads may see it late,  *)
(*   and see the two counters in either order: a load returns any value    *)
(*   its counter has had, only none older than one the reader has seen,    *)
(*   unless the reader has joined the thread that made the increment.      *)
(*   set_running stores the flag and then, on a start, the start time.     *)
(* The two directions are recorded alike, so one of them is modelled.      *)
(***************************************************************************)
EXTENDS Naturals, Sequences, FiniteSets, ServiceMappings

CONSTANTS Handlers,     \* threads that route and record messages
          Readers,      \* threads that call get_stats
          Controller,   \* the thread that calls set_running
          Candidates,   \* mappings the application may add
          Sizes,        \* payload sizes
          MaxMappings,  \* bound on the mappings added
          MaxRecords,   \* bound on the messages recorded
          MaxStarts     \* bound on the starts; also the latest start time

ASSUME BaseAssumption ==
  /\ Sizes \subseteq Nat
  /\ Controller \notin Handlers /\ Controller \notin Readers
  /\ Handlers \cap Readers = {} /\ IsFiniteSet(Handlers)

VARIABLES service_mappings,  \* the vector's entries
          storage,           \* which allocation holds them
          reserved,          \* the vector's capacity
          pointer,           \* the mapping pointer of each handler
          size,              \* the payload size each handler is recording
          messages, bytes,   \* the two counters of one direction
          past,              \* the values that bytes has had
          recorded,          \* sizes of the messages whose recording has begun
          finished,          \* what was recorded by calls that have ended
          seen,              \* the oldest values each reader can still load
          joined,            \* what had ended when each reader last joined the handlers
          snapshot,          \* the copy each reader is making or has made
          running,           \* running_
          started_at,        \* stats_.started_at, 0 when never set
          starts,            \* starts so far, which serves as the time
          pc

table == <<service_mappings, storage, reserved>>
counters == <<messages, bytes, past, recorded, finished>>
copies == <<seen, joined, snapshot>>
state == <<running, started_at, starts>>
vars == <<table, pointer, size, counters, copies, state, pc>>

nullptr == [storage |-> 0, index |-> 0]
nothing == [messages |-> 0, bytes |-> 0]
Goto(t, label) == pc' = [pc EXCEPT ![t] = label]

-----------------------------------------------------------------------------
(* The mapping table.                                                      *)

\* Mutant: a mapping goes to the front, so the latest one wins.
AddAtFront(m) ==
  /\ Len(service_mappings) < MaxMappings
  /\ service_mappings' = <<m>> \o service_mappings
  /\ IF Len(service_mappings) = reserved
     THEN /\ storage' = storage + 1
          /\ reserved' = IF reserved = 0 THEN 1 ELSE 2 * reserved
     ELSE UNCHANGED <<storage, reserved>>
  /\ UNCHANGED <<pointer, size, counters, copies, state, pc>>

add_service_mapping(m) ==
  /\ Len(service_mappings) < MaxMappings
  /\ service_mappings' = Append(service_mappings, m)
  /\ IF Len(service_mappings) = reserved
     THEN /\ storage' = storage + 1
          /\ reserved' = IF reserved = 0 THEN 1 ELSE 2 * reserved
     ELSE UNCHANGED <<storage, reserved>>
  /\ UNCHANGED <<pointer, size, counters, copies, state, pc>>

\* A handler looks its mapping up and keeps the pointer.
Lookup(h, service, instance) ==
  /\ pc[h] = "idle"
  /\ LET i == find_mapping_for_service(service_mappings, service, instance)
     IN  IF i = 0 THEN UNCHANGED <<pointer, pc>>
                  ELSE /\ pointer' = [pointer EXCEPT ![h] = [storage |-> storage, index |-> i]]
                       /\ Goto(h, "use")
  /\ UNCHANGED <<table, size, counters, copies, state>>

\* It reads the entry to decide whether to forward: what it reads is undefined
\* when the entry has moved.
UseMapping(h) ==
  /\ pc[h] = "use"
  /\ \E forward \in IF pointer[h].storage = storage
                    THEN {should_forward_to_external(service_mappings[pointer[h].index])}
                    ELSE BOOLEAN :
       Goto(h, IF forward THEN "record" ELSE "idle")
  /\ pointer' = [pointer EXCEPT ![h] = nullptr]
  /\ UNCHANGED <<table, size, counters, copies, state>>

-----------------------------------------------------------------------------
(* record_someip_to_external: count the message, then its bytes.           *)

Recording(h, count) ==
  /\ pc[h] = "record"
  /\ Len(recorded) < MaxRecords
  /\ messages' = count
  /\ \E b \in Sizes :
       /\ size' = [size EXCEPT ![h] = b]
       /\ recorded' = Append(recorded, b)
  /\ Goto(h, "bytes")
  /\ UNCHANGED <<table, pointer, bytes, past, finished, copies, state>>

\* Mutant: a load and a store, between which others count.
RecordUnlocked(h) == \E old \in 0 .. messages : Recording(h, old + 1)

RecordMessage(h) == Recording(h, messages + 1)

RecordBytes(h) ==
  /\ pc[h] = "bytes"
  /\ bytes' = bytes + size[h]
  /\ past' = past \cup {bytes'}
  /\ finished' = [messages |-> finished.messages + 1, bytes |-> finished.bytes + size[h]]
  /\ size' = [size EXCEPT ![h] = 0]
  /\ Goto(h, "idle")
  /\ UNCHANGED <<table, pointer, messages, recorded, copies, state>>

-----------------------------------------------------------------------------
(* get_stats: the copy constructor loads the counters in member order.     *)

\* messages grows by one at a time, so it has had every value up to its last.
CopyMessages(r) ==
  /\ pc[r] = "idle"
  /\ \E value \in seen[r].messages .. messages :
       /\ snapshot' = [snapshot EXCEPT ![r].messages = value]
       /\ seen' = [seen EXCEPT ![r].messages = value]
  /\ Goto(r, "copy_bytes")
  /\ UNCHANGED <<table, pointer, size, counters, joined, state>>

CopyBytes(r) ==
  /\ pc[r] = "copy_bytes"
  /\ \E value \in past :
       /\ value >= seen[r].bytes
       /\ snapshot' = [snapshot EXCEPT ![r].bytes = value]
       /\ seen' = [seen EXCEPT ![r].bytes = value]
  /\ Goto(r, "copy_started_at")
  /\ UNCHANGED <<table, pointer, size, counters, joined, state>>

CopyStartedAt(r) ==
  /\ pc[r] = "copy_started_at"
  /\ snapshot' = [snapshot EXCEPT ![r].started_at = started_at]
  /\ Goto(r, "idle")
  /\ UNCHANGED <<table, pointer, size, counters, seen, joined, state>>

\* A transport that is stopped joins its threads, whose increments are then seen.
JoinHandlers(r) ==
  /\ pc[r] = "idle"
  /\ \A h \in Handlers : pc[h] = "idle"
  /\ seen' = [seen EXCEPT ![r] = [messages |-> messages, bytes |-> bytes]]
  /\ joined' = [joined EXCEPT ![r] = finished]
  /\ UNCHANGED <<table, pointer, size, counters, snapshot, state, pc>>

-----------------------------------------------------------------------------
(* set_running: the flag first, the start time after it.                   *)

set_running ==
  /\ pc[Controller] = "idle"
  /\ \/ /\ starts < MaxStarts
        /\ starts' = starts + 1
        /\ running' = TRUE
        /\ Goto(Controller, "stamp")
     \/ /\ running' = FALSE
        /\ UNCHANGED <<starts, pc>>
  /\ UNCHANGED <<table, pointer, size, counters, copies, started_at>>

Stamp ==
  /\ pc[Controller] = "stamp"
  /\ started_at' = starts
  /\ Goto(Controller, "idle")
  /\ UNCHANGED <<table, pointer, size, counters, copies, running, starts>>

-----------------------------------------------------------------------------
Init ==
  /\ service_mappings = <<>> /\ storage = 0 /\ reserved = 0
  /\ pointer = [h \in Handlers |-> nullptr]
  /\ size = [h \in Handlers |-> 0]
  /\ messages = 0 /\ bytes = 0 /\ past = {0} /\ recorded = <<>> /\ finished = nothing
  /\ seen = [r \in Readers |-> nothing] /\ joined = [r \in Readers |-> nothing]
  /\ snapshot = [r \in Readers |-> [messages |-> 0, bytes |-> 0, started_at |-> 0]]
  /\ running = FALSE /\ started_at = 0 /\ starts = 0
  /\ pc = [t \in Handlers \cup Readers \cup {Controller} |-> "idle"]

Next ==
  \/ \E m \in Candidates : add_service_mapping(m)
  \/ \E h \in Handlers :
       \/ \E m \in Candidates : Lookup(h, m.service, m.instance)
       \/ UseMapping(h) \/ RecordMessage(h) \/ RecordBytes(h)
  \/ \E r \in Readers : CopyMessages(r) \/ CopyBytes(r) \/ CopyStartedAt(r) \/ JoinHandlers(r)
  \/ set_running
  \/ Stamp

Spec == Init /\ [][Next]_vars

-----------------------------------------------------------------------------
(* Correctness.                                                            *)

Total(s) == FoldLeft(LAMBDA a, b : a + b, 0, s)

\* A copy made by get_stats counts every message whose recording ended before the
\* reader joined the handlers, and none whose recording has not begun: increments
\* of several handlers are never lost, although all of them are relaxed.
SnapshotCoversJoined ==
  \A r \in Readers :
    pc[r] = "copy_started_at" =>
      /\ joined[r].messages <= snapshot[r].messages /\ snapshot[r].messages <= Len(recorded)
      /\ joined[r].bytes <= snapshot[r].bytes /\ snapshot[r].bytes <= finished.bytes

\* The message and byte counters of a copy describe the same messages: "Thread
\* safety is ensured by the gateway base class's internal mutex for state
\* transitions and statistics."
SnapshotConsistent ==
  \A r \in Readers :
    pc[r] = "copy_started_at" =>
      snapshot[r].bytes = Total(SubSeq(recorded, 1, snapshot[r].messages))

\* A service that is mapped keeps its mapping: one added later never shadows it
\* (add_service_mapping appends, find_mapping_for_service takes the first).
FirstMatchStable ==
  [][\A m \in Candidates :
       LET Find(mappings) == find_mapping_for_service(mappings, m.service, m.instance)
       IN  Find(service_mappings) # 0 =>
             service_mappings'[Find(service_mappings')]
               = service_mappings[Find(service_mappings)]]_vars

\* The entry a handler reads through its pointer is the one a lookup would return
\* now, whatever was added since its own lookup, as long as the vector did not
\* move (find_mapping_for_service returns the pointer after the mutex is released).
PointerReadsFirstMatch ==
  \A h \in Handlers :
    pc[h] = "use" /\ pointer[h].storage = storage =>
      LET entry == service_mappings[pointer[h].index]
      IN  find_mapping_for_service(service_mappings, entry.service, entry.instance)
            = pointer[h].index

\* The mapping a handler is about to read has not been moved by another thread:
\* "Thread safety is ensured by the gateway base class's internal mutex".
PointerValid ==
  \A h \in Handlers : pc[h] = "use" => pointer[h].storage = storage
=============================================================================
