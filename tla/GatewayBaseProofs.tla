-------------------------- MODULE GatewayBaseProofs --------------------------
(***************************************************************************)
(* What holds of GatewayBase for every set of threads, mappings and        *)
(* payload sizes and all bounds: a service keeps the mapping it has, a     *)
(* pointer reads the mapping a lookup would find, and a snapshot of the    *)
(* statistics counts all that was recorded before the reader joined.       *)
(***************************************************************************)
EXTENDS GatewayBase, FiniteSetTheorems, WellFoundedInduction, TLAPS

-----------------------------------------------------------------------------
(* Searching the vector from the front.                                    *)

Hit(mappings, j, service, instance) ==
  mappings[j].service = service /\ mappings[j].instance = instance

\* What find_mapping_for_service returns: nothing when nothing fits, otherwise the
\* first entry that fits.
LEMMA FindFacts ==
  ASSUME NEW C, NEW mappings \in Seq(C), NEW service, NEW instance
  PROVE  LET i == find_mapping_for_service(mappings, service, instance)
         IN  \/ i = 0 /\ \A j \in 1 .. Len(mappings) : ~Hit(mappings, j, service, instance)
             \/ /\ i \in 1 .. Len(mappings) /\ Hit(mappings, i, service, instance)
                /\ \A j \in 1 .. Len(mappings) : Hit(mappings, j, service, instance) => i <= j
<1> DEFINE I == {j \in 1 .. Len(mappings) : Hit(mappings, j, service, instance)}
           i == find_mapping_for_service(mappings, service, instance)
<1>1. i = IF I # {} THEN Min(I) ELSE 0
  BY DEF find_mapping_for_service, SelectInSeq, Hit
<1>2. CASE I = {}
  BY <1>1, <1>2
<1>3. CASE I # {}
  <2>1. I \in SUBSET Nat
    OBVIOUS
  <2>2. PICK k \in I : \A j \in I : k <= j
    <3> DEFINE Less == {p \in Nat \X Nat : p[1] < p[2]}
    <3>1. IsWellFoundedOn(Less, Nat)
      BY NatLessThanWellFounded DEF OpToRel
    <3>2. PICK k \in I : \A j \in I : ~(<<j, k>> \in Less)
      <4> HIDE DEF Less, I
      <4> QED BY <1>3, <2>1, <3>1, WFMin, Zenon
    <3>3. ASSUME NEW j \in I PROVE k <= j
      <4>1. k \in Nat /\ j \in Nat
        BY <2>1
      <4>2. <<j, k>> \in Less <=> j < k
        BY <4>1
      <4>3. ~(<<j, k>> \in Less)
        <5> HIDE DEF Less
        <5> QED BY <3>2
      <4> QED BY <4>1, <4>2, <4>3
    <3> QED BY <3>3
  <2>3. Min(I) \in I /\ \A j \in I : Min(I) <= j
    <3> HIDE DEF I
    <3> QED BY <2>2 DEF Min
  <2> QED BY <1>1, <1>3, <2>3
<1> QED BY <1>2, <1>3

\* A mapping that is appended does not change what is found already.
LEMMA FindAppend ==
  ASSUME NEW C, NEW mappings \in Seq(C), NEW m \in C, NEW service, NEW instance,
         find_mapping_for_service(mappings, service, instance) # 0
  PROVE  /\ find_mapping_for_service(Append(mappings, m), service, instance)
              = find_mapping_for_service(mappings, service, instance)
         /\ find_mapping_for_service(mappings, service, instance) \in 1 .. Len(mappings)
<1> DEFINE i == find_mapping_for_service(mappings, service, instance)
           longer == Append(mappings, m)
           k == find_mapping_for_service(longer, service, instance)
<1>1. /\ longer \in Seq(C) /\ Len(longer) = Len(mappings) + 1
      /\ \A j \in 1 .. Len(mappings) : longer[j] = mappings[j]
  OBVIOUS
<1>2. /\ i \in 1 .. Len(mappings) /\ Hit(mappings, i, service, instance)
      /\ \A j \in 1 .. Len(mappings) : Hit(mappings, j, service, instance) => i <= j
  BY FindFacts
<1>3. \/ k = 0 /\ \A j \in 1 .. Len(longer) : ~Hit(longer, j, service, instance)
      \/ /\ k \in 1 .. Len(longer) /\ Hit(longer, k, service, instance)
         /\ \A j \in 1 .. Len(longer) : Hit(longer, j, service, instance) => k <= j
  <2> HIDE DEF longer
  <2> QED BY <1>1, FindFacts
<1> HIDE DEF i, longer, k
<1>4. Hit(longer, i, service, instance) /\ i \in 1 .. Len(longer)
  BY <1>1, <1>2 DEF Hit
<1>5. k \in 1 .. Len(longer) /\ k <= i /\ Hit(longer, k, service, instance)
  BY <1>3, <1>4
<1>6. Hit(mappings, k, service, instance) /\ k \in 1 .. Len(mappings)
  BY <1>1, <1>2, <1>5 DEF Hit
<1>7. k = i
  BY <1>2, <1>5, <1>6
<1> QED BY <1>2, <1>7 DEF i, longer, k

-----------------------------------------------------------------------------
(* The inductive invariant.                                                *)

Threads == Handlers \cup Readers \cup {Controller}
Labels == {"idle", "use", "record", "bytes", "copy_bytes", "copy_started_at", "stamp"}

Types ==
  /\ service_mappings \in Seq(Candidates)
  /\ pointer \in [Handlers -> [storage : Nat, index : Nat]] /\ storage \in Nat
  /\ size \in [Handlers -> Nat]
  /\ messages \in Nat /\ bytes \in Nat /\ started_at \in Nat /\ starts \in Nat
  /\ past \in SUBSET Nat /\ recorded \in Seq(Nat) /\ finished \in [messages : Nat, bytes : Nat]
  /\ seen \in [Readers -> [messages : Nat, bytes : Nat]]
  /\ joined \in [Readers -> [messages : Nat, bytes : Nat]]
  /\ snapshot \in [Readers -> [messages : Nat, bytes : Nat, started_at : Nat]]
  /\ pc \in [Threads -> Labels]

\* The first match of a handler stays the first match, even where its pointer has
\* become invalid: only the storage moves, the entries keep their places.
PointsToFirst ==
  \A h \in Handlers : pc[h] = "use" =>
    /\ pointer[h].index \in DOMAIN service_mappings
    /\ LET entry == service_mappings[pointer[h].index]
       IN  find_mapping_for_service(service_mappings, entry.service, entry.instance)
             = pointer[h].index

\* The handlers that have counted a message and not yet its bytes.
InFlight == {h \in Handlers : pc[h] = "bytes"}

\* The counters are exact: what is counted in messages and not in bytes is in flight.
Counting ==
  /\ messages = Len(recorded) /\ bytes = finished.bytes
  /\ messages = finished.messages + Cardinality(InFlight)
  /\ bytes \in past /\ \A value \in past : value <= bytes

\* No reader is ahead of the counters or behind what it has joined, and a copy holds
\* what its reader saw last.
Copying ==
  \A r \in Readers :
    /\ joined[r].messages <= seen[r].messages /\ seen[r].messages <= messages
    /\ joined[r].bytes <= seen[r].bytes /\ seen[r].bytes <= bytes
    /\ pc[r] \in {"copy_bytes", "copy_started_at"} => snapshot[r].messages = seen[r].messages
    /\ pc[r] = "copy_started_at" => snapshot[r].bytes = seen[r].bytes

IInv == Types /\ PointsToFirst /\ Counting /\ Copying

\* Finitely many handlers are in flight.
LEMMA FlightFacts == IsFiniteSet(InFlight) /\ Cardinality(InFlight) \in Nat
<1>1. InFlight \in SUBSET Handlers /\ IsFiniteSet(Handlers)
  BY BaseAssumption DEF InFlight
<1>2. IsFiniteSet(InFlight)
  BY <1>1, FS_Subset
<1> QED BY <1>2, FS_CardinalityType

\* The numbers of the counters.
LEMMA FinishedFacts ==
  ASSUME IInv
  PROVE  /\ messages \in Nat /\ bytes \in Nat /\ past \in SUBSET Nat
         /\ finished.messages \in Nat /\ finished.bytes \in Nat
  BY DEF IInv, Types

\* What a reader has seen is a number no larger than its counter.
LEMMA SeenFacts ==
  ASSUME IInv, NEW r \in Readers
  PROVE  /\ seen[r].messages \in Nat /\ seen[r].messages <= messages
         /\ seen[r].bytes \in Nat /\ seen[r].bytes <= bytes
<1>1. seen[r] \in [messages : Nat, bytes : Nat]
  BY DEF IInv, Types
<1>2. seen[r].messages <= messages /\ seen[r].bytes <= bytes
  BY Zenon DEF IInv, Copying
<1> QED BY <1>1, <1>2

-----------------------------------------------------------------------------
(* One lemma per kind of step.                                             *)

\* Adding a mapping moves no entry to another index and shadows none.
LEMMA AddStep ==
  ASSUME IInv, NEW m \in Candidates, add_service_mapping(m)
  PROVE  IInv'
<1>1. /\ service_mappings' = Append(service_mappings, m)
      /\ UNCHANGED <<pointer, size, counters, copies, state, pc>>
  BY DEF add_service_mapping
<1>2. Types'
  <2>1. storage' \in Nat
    BY DEF IInv, Types, add_service_mapping
  <2>2. service_mappings' \in Seq(Candidates)
    BY <1>1 DEF IInv, Types
  <2> QED BY <1>1, <2>1, <2>2 DEF IInv, Types, counters, copies, state
<1>3. PointsToFirst'
  <2> SUFFICES ASSUME NEW h \in Handlers, pc'[h] = "use"
               PROVE  /\ pointer'[h].index \in DOMAIN service_mappings'
                      /\ LET entry == service_mappings'[pointer'[h].index]
                         IN  find_mapping_for_service(service_mappings', entry.service, entry.instance)
                               = pointer'[h].index
    BY DEF PointsToFirst
  <2> DEFINE i == pointer[h].index
             entry == service_mappings[i]
  <2>1. /\ i \in DOMAIN service_mappings
        /\ find_mapping_for_service(service_mappings, entry.service, entry.instance) = i
    BY <1>1 DEF IInv, PointsToFirst
  <2>2. service_mappings \in Seq(Candidates)
    BY DEF IInv, Types
  <2>3. i # 0 /\ i \in DOMAIN service_mappings' /\ service_mappings'[i] = entry
    BY <1>1, <2>1, <2>2
  <2>4. find_mapping_for_service(service_mappings', entry.service, entry.instance) = i
    BY <1>1, <2>1, <2>2, <2>3, FindAppend
  <2> QED BY <1>1, <2>3, <2>4
<1>4. (Counting /\ Copying)'
  BY <1>1, Zenon DEF IInv, Counting, Copying, InFlight, counters, copies
<1> QED BY <1>2, <1>3, <1>4 DEF IInv

\* A step of a thread that is not counting, and does not begin to, leaves the
\* counters and the copies as they are.
LEMMA CountingSame ==
  ASSUME IInv, NEW t \in Threads \ Readers, NEW l \in Labels \ {"bytes"}, pc[t] # "bytes",
         pc' = [pc EXCEPT ![t] = l], UNCHANGED <<counters, copies>>
  PROVE  (Counting /\ Copying)'
<1>1. pc \in [Threads -> Labels]
  BY DEF IInv, Types
<1>2. InFlight' = InFlight
  BY <1>1 DEF InFlight, Threads
<1>3. \A r \in Readers : pc'[r] = pc[r]
  BY <1>1 DEF Threads
<1>4. Counting'
  BY <1>2, Zenon DEF IInv, Counting, counters
<1>5. Copying'
  BY <1>3 DEF IInv, Copying, counters, copies
<1> QED BY <1>4, <1>5

\* A lookup points to the first match.
LEMMA LookupStep ==
  ASSUME IInv, NEW h \in Handlers, NEW service, NEW instance, Lookup(h, service, instance)
  PROVE  IInv'
<1> DEFINE i == find_mapping_for_service(service_mappings, service, instance)
<1>1. /\ pc[h] = "idle"
      /\ UNCHANGED <<service_mappings, storage, size, counters, copies, state>>
  BY DEF Lookup, table
<1>2. CASE i = 0
  <2>1. UNCHANGED <<pointer, pc>>
    BY <1>2 DEF Lookup
  <2> QED BY <1>1, <2>1, Zenon DEF IInv, Types, PointsToFirst, Counting, Copying, InFlight, counters,
                            copies, state
<1>3. CASE i # 0
  <2>1. /\ pointer' = [pointer EXCEPT ![h] = [storage |-> storage, index |-> i]]
        /\ pc' = [pc EXCEPT ![h] = "use"]
    BY <1>3 DEF Lookup, Goto
  <2>2. service_mappings \in Seq(Candidates) /\ h \in Threads \ Readers
    BY BaseAssumption DEF IInv, Types, Threads
  <2>3. /\ i \in 1 .. Len(service_mappings)
        /\ service_mappings[i].service = service /\ service_mappings[i].instance = instance
    BY <1>3, <2>2, FindFacts DEF Hit
  <2> HIDE DEF i
  <2>4. Types'
    BY <1>1, <2>1, <2>2, <2>3 DEF IInv, Types, Labels, counters, copies, state
  <2>5. PointsToFirst'
    <3> SUFFICES ASSUME NEW g \in Handlers, pc'[g] = "use"
                 PROVE  /\ pointer'[g].index \in DOMAIN service_mappings'
                        /\ LET entry == service_mappings'[pointer'[g].index]
                           IN  find_mapping_for_service(service_mappings', entry.service, entry.instance)
                                 = pointer'[g].index
      BY DEF PointsToFirst
    <3>1. CASE g = h
      <4>1. pointer'[g].index = i
        BY <2>1, <3>1 DEF IInv, Types
      <4> QED BY <1>1, <2>2, <2>3, <4>1 DEF i
    <3>2. CASE g # h
      <4>1. pointer'[g] = pointer[g] /\ pc[g] = "use"
        BY <2>1, <3>2 DEF IInv, Types, Threads
      <4> QED BY <1>1, <4>1 DEF IInv, PointsToFirst
    <3> QED BY <3>1, <3>2
  <2>6. (Counting /\ Copying)'
    BY <1>1, <2>1, <2>2, CountingSame, Zenon DEF Labels
  <2> QED BY <2>4, <2>5, <2>6 DEF IInv
<1> QED BY <1>2, <1>3

\* The steps of a handler, reader or controller that neither look up a mapping nor
\* change one keep the pointers of all the handlers that still have one.
LEMMA PointersSame ==
  ASSUME IInv, UNCHANGED service_mappings,
         \A h \in Handlers : pc'[h] = "use" => pc[h] = "use" /\ pointer'[h] = pointer[h]
  PROVE  PointsToFirst'
BY DEF IInv, PointsToFirst

\* Reading the mapping gives the pointer up.
LEMMA UseStep ==
  ASSUME IInv, NEW h \in Handlers, UseMapping(h)
  PROVE  IInv'
<1>1. /\ pc[h] = "use" /\ pointer' = [pointer EXCEPT ![h] = nullptr]
      /\ UNCHANGED <<service_mappings, storage, size, counters, copies, state>>
  BY DEF UseMapping, table
<1>2. PICK l \in {"record", "idle"} : pc' = [pc EXCEPT ![h] = l]
  <2>1. pc' = [pc EXCEPT ![h] = "record"] \/ pc' = [pc EXCEPT ![h] = "idle"]
    BY Zenon DEF UseMapping, Goto
  <2> QED BY <2>1
<1>3. h \in Threads \ Readers
  BY BaseAssumption DEF Threads
<1>4. Types'
  BY <1>1, <1>2, <1>3 DEF IInv, Types, Labels, nullptr, counters, copies, state
<1>5. PointsToFirst'
  <2>1. \A g \in Handlers : pc'[g] = "use" => pc[g] = "use" /\ pointer'[g] = pointer[g]
    BY <1>1, <1>2, <1>3 DEF IInv, Types, Threads
  <2> QED BY <1>1, <2>1, PointersSame
<1>6. (Counting /\ Copying)'
  <2>1. l \in Labels \ {"bytes"}
    BY DEF Labels
  <2> QED BY <1>1, <1>2, <1>3, <2>1, CountingSame, Zenon
<1> QED BY <1>4, <1>5, <1>6 DEF IInv

\* Counting a message puts its handler in flight.
LEMMA RecordMessageStep ==
  ASSUME IInv, NEW h \in Handlers, RecordMessage(h)
  PROVE  IInv'
<1>1. /\ pc[h] = "record" /\ messages' = messages + 1 /\ pc' = [pc EXCEPT ![h] = "bytes"]
      /\ UNCHANGED <<table, pointer, bytes, past, finished, copies, state>>
  BY DEF RecordMessage, Recording, Goto
<1>2. PICK b \in Sizes : size' = [size EXCEPT ![h] = b] /\ recorded' = Append(recorded, b)
  BY Zenon DEF RecordMessage, Recording
<1>3. h \in Threads /\ b \in Nat /\ h \notin Readers
  BY BaseAssumption DEF Threads
<1>4. Types'
  BY <1>1, <1>2, <1>3, SMTT(20) DEF IInv, Types, Labels, table, copies, state
<1>5. PointsToFirst'
  <2>1. \A g \in Handlers : pc'[g] = "use" => pc[g] = "use" /\ pointer'[g] = pointer[g]
    BY <1>1, <1>3 DEF IInv, Types, Threads
  <2> QED BY <1>1, <2>1, PointersSame DEF table
<1>6. Counting'
  <2>1. InFlight' = InFlight \cup {h} /\ h \notin InFlight
    BY <1>1, <1>3 DEF IInv, Types, InFlight, Threads
  <2>2. Cardinality(InFlight') = Cardinality(InFlight) + 1
    BY <2>1, FlightFacts, FS_AddElement, Zenon
  <2>3. Len(recorded') = Len(recorded) + 1
    BY <1>2, <1>3 DEF IInv, Types
  <2>4. messages = Len(recorded) /\ messages = finished.messages + Cardinality(InFlight)
    BY Zenon DEF IInv, Counting
  <2>5. messages' = Len(recorded') /\ messages' = finished'.messages + Cardinality(InFlight')
    BY <1>1, <2>2, <2>3, <2>4, FlightFacts, FinishedFacts, SMTT(20)
  <2>6. bytes' = finished'.bytes /\ bytes' \in past' /\ \A value \in past' : value <= bytes'
    BY <1>1, Zenon DEF IInv, Counting
  <2> QED BY <2>5, <2>6, Zenon DEF Counting
<1>7. Copying'
  <2>1. \A r \in Readers : pc'[r] = pc[r]
    BY <1>1, <1>3 DEF IInv, Types, Threads
  <2>2. \A r \in Readers : seen[r].messages <= messages'
    BY <1>1, FinishedFacts, SeenFacts
  <2> QED BY <1>1, <2>1, <2>2 DEF IInv, Copying, copies
<1> QED BY <1>4, <1>5, <1>6, <1>7 DEF IInv

\* Counting its bytes ends the recording.
LEMMA RecordBytesStep ==
  ASSUME IInv, NEW h \in Handlers, RecordBytes(h)
  PROVE  IInv'
<1>1. /\ pc[h] = "bytes" /\ bytes' = bytes + size[h] /\ pc' = [pc EXCEPT ![h] = "idle"]
      /\ size' = [size EXCEPT ![h] = 0] /\ past' = past \cup {bytes'}
      /\ finished' = [messages |-> finished.messages + 1, bytes |-> finished.bytes + size[h]]
      /\ UNCHANGED <<table, pointer, messages, recorded, copies, state>>
  BY DEF RecordBytes, Goto
<1>2. h \in Threads /\ h \notin Readers /\ size[h] \in Nat
  BY BaseAssumption DEF Threads, IInv, Types
<1>3. Types'
  <2>1. bytes' \in Nat /\ past' \in SUBSET Nat /\ finished' \in [messages : Nat, bytes : Nat]
    BY <1>1, <1>2, FinishedFacts
  <2> QED BY <1>1, <1>2, <2>1, Zenon DEF IInv, Types, Labels, table, copies, state
<1>4. PointsToFirst'
  <2>1. \A g \in Handlers : pc'[g] = "use" => pc[g] = "use" /\ pointer'[g] = pointer[g]
    BY <1>1, <1>2 DEF IInv, Types, Threads
  <2> QED BY <1>1, <2>1, PointersSame DEF table
<1>5. Counting'
  <2>1. InFlight' = InFlight \ {h} /\ h \in InFlight
    BY <1>1, <1>2 DEF IInv, Types, InFlight, Threads
  <2>2. Cardinality(InFlight') = Cardinality(InFlight) - 1
    BY <2>1, FlightFacts, FS_RemoveElement
  <2>3. bytes' = finished'.bytes /\ finished'.messages = finished.messages + 1
    BY <1>1, FinishedFacts DEF IInv, Counting
  <2>4. bytes' \in past' /\ \A value \in past' : value <= bytes'
    BY <1>1, <1>2, FinishedFacts DEF IInv, Counting
  <2>5. messages = Len(recorded) /\ messages = finished.messages + Cardinality(InFlight)
    BY Zenon DEF IInv, Counting
  <2>6. messages' = Len(recorded') /\ messages' = finished'.messages + Cardinality(InFlight')
    BY <1>1, <2>2, <2>3, <2>5, FlightFacts, FinishedFacts
  <2> QED BY <2>3, <2>4, <2>6, Zenon DEF Counting
<1>6. Copying'
  <2>1. \A r \in Readers : pc'[r] = pc[r]
    BY <1>1, <1>2 DEF IInv, Types, Threads
  <2>2. \A r \in Readers : seen[r].bytes <= bytes'
    BY <1>1, <1>2, FinishedFacts, SeenFacts
  <2> QED BY <1>1, <2>1, <2>2 DEF IInv, Copying, copies
<1> QED BY <1>3, <1>4, <1>5, <1>6 DEF IInv

\* A reader's step changes nothing a handler looks at.
LEMMA ReaderKeeps ==
  ASSUME IInv, NEW r \in Readers, NEW l \in {"copy_bytes", "copy_started_at", "idle"},
         pc' = [pc EXCEPT ![r] = l], UNCHANGED <<table, pointer, size, counters, state>>
  PROVE  /\ PointsToFirst' /\ Counting'
         /\ pc' \in [Threads -> Labels] /\ pc'[r] = l
         /\ \A q \in Readers \ {r} : pc'[q] = pc[q]
<1>1. r \in Threads /\ r \notin Handlers /\ l \in Labels /\ pc \in [Threads -> Labels]
  BY BaseAssumption DEF Threads, Labels, IInv, Types
<1>2. \A h \in Handlers : pc'[h] = pc[h]
  BY <1>1 DEF Threads
<1>3. PointsToFirst'
  BY <1>2, PointersSame DEF table
<1>4. InFlight' = InFlight
  BY <1>2 DEF InFlight
<1>5. Counting'
  BY <1>4, Zenon DEF IInv, Counting, counters
<1> QED BY <1>1, <1>3, <1>5 DEF Threads

\* A value of the message counter that is not older than what was seen.
LEMMA CopyMessagesStep ==
  ASSUME IInv, NEW r \in Readers, CopyMessages(r)
  PROVE  IInv'
<1>1. PICK value \in seen[r].messages .. messages :
        /\ snapshot' = [snapshot EXCEPT ![r].messages = value]
        /\ seen' = [seen EXCEPT ![r].messages = value]
  BY Zenon DEF CopyMessages
<1>2. pc' = [pc EXCEPT ![r] = "copy_bytes"] /\ UNCHANGED <<table, pointer, size, counters, joined, state>>
  BY DEF CopyMessages, Goto
<1>3. /\ PointsToFirst' /\ Counting'
      /\ pc' \in [Threads -> Labels] /\ pc'[r] = "copy_bytes"
      /\ \A q \in Readers \ {r} : pc'[q] = pc[q]
  BY <1>2, ReaderKeeps, Zenon
<1>4. value \in Nat /\ seen[r].messages <= value /\ value <= messages
  BY <1>1, SMTT(20) DEF IInv, Types
<1>5. Types'
  <2>1. /\ seen' \in [Readers -> [messages : Nat, bytes : Nat]]
        /\ snapshot' \in [Readers -> [messages : Nat, bytes : Nat, started_at : Nat]]
    BY <1>1, <1>4, Zenon DEF IInv, Types
  <2> QED BY <1>2, <1>3, <2>1, Zenon DEF IInv, Types, table, counters, state
<1>6. Copying'
  <2>1. /\ snapshot'[r].messages = value /\ seen'[r].messages = value /\ seen'[r].bytes = seen[r].bytes
        /\ \A q \in Readers \ {r} : snapshot'[q] = snapshot[q] /\ seen'[q] = seen[q]
    BY <1>1 DEF IInv, Types
  <2>2. joined[r].messages <= value
    BY <1>4 DEF IInv, Types, Copying
  <2> QED BY <1>2, <1>3, <1>4, <2>1, <2>2 DEF IInv, Copying, counters
<1> QED BY <1>3, <1>5, <1>6 DEF IInv

\* The same of the byte counter.
LEMMA CopyBytesStep ==
  ASSUME IInv, NEW r \in Readers, CopyBytes(r)
  PROVE  IInv'
<1>1. PICK value \in past :
        /\ value >= seen[r].bytes
        /\ snapshot' = [snapshot EXCEPT ![r].bytes = value]
        /\ seen' = [seen EXCEPT ![r].bytes = value]
  BY Zenon DEF CopyBytes
<1>2. /\ pc[r] = "copy_bytes" /\ pc' = [pc EXCEPT ![r] = "copy_started_at"]
      /\ UNCHANGED <<table, pointer, size, counters, joined, state>>
  BY DEF CopyBytes, Goto
<1>3. /\ PointsToFirst' /\ Counting'
      /\ pc' \in [Threads -> Labels] /\ pc'[r] = "copy_started_at"
      /\ \A q \in Readers \ {r} : pc'[q] = pc[q]
  BY <1>2, ReaderKeeps, Zenon
<1>4. value \in Nat /\ seen[r].bytes <= value /\ value <= bytes
  BY <1>1 DEF IInv, Types, Counting
<1>5. Types'
  <2>1. /\ seen' \in [Readers -> [messages : Nat, bytes : Nat]]
        /\ snapshot' \in [Readers -> [messages : Nat, bytes : Nat, started_at : Nat]]
    BY <1>1, <1>4, Zenon DEF IInv, Types
  <2> QED BY <1>2, <1>3, <2>1, Zenon DEF IInv, Types, table, counters, state
<1>6. Copying'
  <2>1. /\ snapshot'[r].bytes = value /\ snapshot'[r].messages = snapshot[r].messages
        /\ seen'[r].bytes = value /\ seen'[r].messages = seen[r].messages
        /\ \A q \in Readers \ {r} : snapshot'[q] = snapshot[q] /\ seen'[q] = seen[q]
    BY <1>1 DEF IInv, Types
  <2>2. joined[r].bytes <= value
    BY <1>4 DEF IInv, Types, Copying
  <2> QED BY <1>2, <1>3, <1>4, <2>1, <2>2 DEF IInv, Copying, counters
<1> QED BY <1>3, <1>5, <1>6 DEF IInv

\* The start time is no counter.
LEMMA CopyStartedAtStep ==
  ASSUME IInv, NEW r \in Readers, CopyStartedAt(r)
  PROVE  IInv'
<1>1. /\ snapshot' = [snapshot EXCEPT ![r].started_at = started_at] /\ pc' = [pc EXCEPT ![r] = "idle"]
      /\ UNCHANGED <<table, pointer, size, counters, seen, joined, state>>
  BY DEF CopyStartedAt, Goto
<1>2. /\ PointsToFirst' /\ Counting'
      /\ pc' \in [Threads -> Labels] /\ pc'[r] = "idle"
      /\ \A q \in Readers \ {r} : pc'[q] = pc[q]
  BY <1>1, ReaderKeeps, Zenon
<1>3. Types'
  <2>1. snapshot' \in [Readers -> [messages : Nat, bytes : Nat, started_at : Nat]]
    BY <1>1, Zenon DEF IInv, Types
  <2> QED BY <1>1, <1>2, <2>1, Zenon DEF IInv, Types, table, counters, state
<1>4. Copying'
  <2>1. \A q \in Readers \ {r} : snapshot'[q] = snapshot[q]
    BY <1>1 DEF IInv, Types
  <2> QED BY <1>1, <1>2, <2>1 DEF IInv, Copying, counters
<1> QED BY <1>2, <1>3, <1>4 DEF IInv

\* A join shows all that has ended, which is all that was counted.
LEMMA JoinStep ==
  ASSUME IInv, NEW r \in Readers, JoinHandlers(r)
  PROVE  IInv'
<1>1. /\ pc[r] = "idle" /\ joined' = [joined EXCEPT ![r] = finished]
      /\ seen' = [seen EXCEPT ![r] = [messages |-> messages, bytes |-> bytes]]
      /\ UNCHANGED <<table, pointer, size, counters, snapshot, state, pc>>
  BY DEF JoinHandlers
<1>2. Types'
  BY <1>1, SMTT(20) DEF IInv, Types, table, counters, state
<1>3. PointsToFirst' /\ Counting'
  BY <1>1, Zenon DEF IInv, PointsToFirst, Counting, InFlight, table, counters
<1>4. Copying'
  <2>1. finished.messages <= messages /\ finished.bytes <= bytes
    BY FlightFacts DEF IInv, Types, Counting
  <2>2. /\ joined'[r] = finished /\ seen'[r].messages = messages /\ seen'[r].bytes = bytes
        /\ \A q \in Readers \ {r} : joined'[q] = joined[q] /\ seen'[q] = seen[q]
    BY <1>1 DEF IInv, Types
  <2>3. messages <= messages /\ bytes <= bytes
    BY DEF IInv, Types
  <2> QED BY <1>1, <2>1, <2>2, <2>3 DEF IInv, Copying, counters
<1> QED BY <1>2, <1>3, <1>4 DEF IInv

\* Starting and stopping touch neither the table nor the counters.
LEMMA ControlStep ==
  ASSUME IInv, set_running \/ Stamp
  PROVE  IInv'
<1>1. UNCHANGED <<table, pointer, size, counters, copies>>
  BY DEF set_running, Stamp
<1>2. /\ pc' = pc \/ pc' = [pc EXCEPT ![Controller] = "stamp"]
                   \/ pc' = [pc EXCEPT ![Controller] = "idle"]
      /\ started_at' \in Nat /\ starts' \in Nat
  BY DEF set_running, Stamp, Goto, IInv, Types
<1>3. Controller \in Threads /\ Controller \notin Handlers /\ Controller \notin Readers
  BY BaseAssumption DEF Threads
<1>4. pc' \in [Threads -> Labels] /\ \A t \in Handlers \cup Readers : pc'[t] = pc[t]
  BY <1>2, <1>3 DEF IInv, Types, Labels, Threads
<1>5. Types'
  BY <1>1, <1>2, <1>4 DEF IInv, Types, table, counters, copies
<1>6. PointsToFirst'
  BY <1>1, <1>4, PointersSame DEF table
<1>7. InFlight' = InFlight
  BY <1>4 DEF InFlight
<1>8. (Counting /\ Copying)'
  BY <1>1, <1>4, <1>7, Zenon DEF IInv, Counting, Copying, counters, copies
<1> QED BY <1>5, <1>6, <1>8 DEF IInv

-----------------------------------------------------------------------------
\* At the start nothing is mapped, counted or copied.
LEMMA InitInvariant == Init => IInv
<1> SUFFICES ASSUME Init PROVE IInv
  OBVIOUS
<1>1. Types
  BY DEF Init, Types, nullptr, nothing, Threads, Labels
<1>2. \A t \in Handlers \cup Readers : pc[t] = "idle"
  BY DEF Init
<1>3. PointsToFirst
  BY <1>2 DEF PointsToFirst
<1>4. InFlight = {}
  BY <1>2 DEF InFlight
<1>5. Counting
  BY <1>4, FS_EmptySet DEF Init, Counting, nothing
<1>6. Copying
  BY <1>2 DEF Init, Copying, nothing
<1> QED BY <1>1, <1>3, <1>5, <1>6 DEF IInv

\* Every step of a handler, a reader, the controller or the host that adds
\* mappings keeps the invariant.
LEMMA NextInvariant == IInv /\ [Next]_vars => IInv'
<1> SUFFICES ASSUME IInv, [Next]_vars PROVE IInv'
  OBVIOUS
<1>1. CASE UNCHANGED vars
  BY <1>1, Zenon DEF vars, table, counters, copies, state, IInv, Types, PointsToFirst, Counting, Copying,
              InFlight
<1>2. CASE Next
  BY <1>2, AddStep, LookupStep, UseStep, RecordMessageStep, RecordBytesStep, CopyMessagesStep,
     CopyBytesStep, CopyStartedAtStep, JoinStep, ControlStep DEF Next
<1> QED BY <1>1, <1>2

\* A mapping added later never shadows the one a service has, for any mappings and
\* any interleaving (add_service_mapping, find_mapping_for_service).
THEOREM BaseFirstMatchStable == Spec => FirstMatchStable
<1>1. IInv /\ [Next]_vars =>
        [\A m \in Candidates :
           LET Find(mappings) == find_mapping_for_service(mappings, m.service, m.instance)
           IN  Find(service_mappings) # 0 =>
                 service_mappings'[Find(service_mappings')]
                   = service_mappings[Find(service_mappings)]]_vars
  <2> SUFFICES ASSUME IInv, Next, NEW m \in Candidates,
                      find_mapping_for_service(service_mappings, m.service, m.instance) # 0
               PROVE  service_mappings'[find_mapping_for_service(service_mappings', m.service, m.instance)]
                        = service_mappings[find_mapping_for_service(service_mappings, m.service, m.instance)]
    OBVIOUS
  <2>1. \/ UNCHANGED service_mappings
        \/ \E n \in Candidates : service_mappings' = Append(service_mappings, n)
    BY DEF Next, add_service_mapping, Lookup, UseMapping, RecordMessage, Recording, RecordBytes,
           CopyMessages, CopyBytes, CopyStartedAt, JoinHandlers, set_running, Stamp, table
  <2>2. service_mappings \in Seq(Candidates)
    BY DEF IInv, Types
  <2>3. CASE \E n \in Candidates : service_mappings' = Append(service_mappings, n)
    <3>1. PICK n \in Candidates : service_mappings' = Append(service_mappings, n)
      BY <2>3
    <3>2. /\ find_mapping_for_service(service_mappings', m.service, m.instance)
               = find_mapping_for_service(service_mappings, m.service, m.instance)
          /\ find_mapping_for_service(service_mappings, m.service, m.instance)
               \in 1 .. Len(service_mappings)
      BY <2>2, <3>1, FindAppend
    <3> QED BY <2>2, <3>1, <3>2
  <2> QED BY <2>1, <2>3
<1> QED BY <1>1, InitInvariant, NextInvariant, PTL DEF Spec, FirstMatchStable

\* A pointer that is still valid reads the mapping a lookup would find now, for any
\* number of handlers and mappings.
THEOREM BasePointerReadsFirstMatch == Spec => []PointerReadsFirstMatch
<1>1. IInv => PointerReadsFirstMatch
  BY DEF IInv, PointsToFirst, PointerReadsFirstMatch
<1> QED BY <1>1, InitInvariant, NextInvariant, PTL DEF Spec

\* A snapshot made by get_stats counts all that was recorded before its reader joined
\* the handlers, and nothing that is not being recorded, for any number of handlers
\* and readers and however late relaxed increments are seen.
THEOREM BaseSnapshotCoversJoined == Spec => []SnapshotCoversJoined
<1>1. IInv => SnapshotCoversJoined
  BY DEF IInv, Counting, Copying, SnapshotCoversJoined
<1> QED BY <1>1, InitInvariant, NextInvariant, PTL DEF Spec
=============================================================================
