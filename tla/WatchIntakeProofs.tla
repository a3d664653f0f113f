------------------------- MODULE WatchIntakeProofs --------------------------
(***************************************************************************)
(* Proofs about the intake of a followed log: the evidence the watcher     *)
(* leaves on disk, wherever it was killed (provenance.py, engine.py), what *)
(* of the log is ingested twice and what a kill can lose (ingest/tail.py). *)
(***************************************************************************)
EXTENDS WatchIntake, FiniteSetTheorems, TLAPS

\* Between Scan and Detect all items but the one being registered are stored.
Stored ==
  /\ contents \subseteq DOMAIN records
  /\ pc \notin {"down", "idle", "snapshot", "scan", "content"} => contents = DOMAIN records
  /\ DOMAIN records \ contents \subseteq {Len(records)}
  /\ pc \in {"content", "fill"} => Len(records) > 0
  /\ pc = "audit" /\ loc.chunk # << >> => Len(records) \in written
  /\ audited \subseteq written /\ written \subseteq contents

LEMMA UnitsGrow ==
  ASSUME NEW n \in Nat, NEW s \in Seq(1..n)
  PROVE  s \in Seq(1..(n + 1)) /\ s \in Seq(Nat)
  OBVIOUS

\* What is read from a file is a stretch of its bytes.
LEMMA StretchTyped ==
  ASSUME NEW S, NEW s \in Seq(S), NEW m \in Nat, NEW n \in Int, n <= Len(s)
  PROVE  SubSeq(s, m + 1, n) \in Seq(S)
<1>1. \A i \in (m + 1)..n : s[i] \in S
  OBVIOUS
<1>2. QED
  BY <1>1

LEMMA ChunkTyped ==
  ASSUME WorldTyped, NEW offset \in Nat
  PROVE  ChunkAt(log, offset) \in Seq(Units)
<1>1. log.bytes \in Seq(Units) /\ Len(log.bytes) \in Nat
  BY DEF WorldTyped
<1>2. CASE Len(log.bytes) <= offset + MaxChunk
  BY <1>1, <1>2, StretchTyped DEF ChunkAt
<1>3. CASE ~(Len(log.bytes) <= offset + MaxChunk)
  <2>1. offset + MaxChunk \in Int /\ offset + MaxChunk <= Len(log.bytes)
    BY <1>1, <1>3, IntakeAssumption
  <2>2. SubSeq(log.bytes, offset + 1, offset + MaxChunk) \in Seq(Units)
    BY <1>1, <2>1, StretchTyped
  <2>3. QED
    BY <1>3, <2>2 DEF ChunkAt
<1>4. QED
  BY <1>2, <1>3

LEMMA WorldStep ==
  ASSUME TypeOK, [Next]_vars
  PROVE  WorldTyped'
<1> USE DEF TypeOK, WorldTyped
<1>1. CASE Write
  <2>1. Append(log.bytes, units + 1) \in Seq(1..(units + 1))
    BY UnitsGrow DEF Units
  <2>2. log' = [inode |-> log.inode, bytes |-> Append(log.bytes, units + 1), at |-> log.at]
    BY <1>1 DEF Write
  <2>3. units' = units + 1 /\ UNCHANGED <<truncations, crashes, mishaps>>
    BY <1>1 DEF Write, faults
  <2>4. QED
    BY <2>1, <2>2, <2>3 DEF Units
<1>2. CASE MoveAside
  <2>1. /\ log' = [inode |-> log.inode + 1, bytes |-> << >>, at |-> "gone"]
        /\ UNCHANGED <<units, truncations, crashes>>
    BY <1>2 DEF MoveAside
  <2>2. mishaps' \subseteq {"raced", "torn"}
    BY <1>2 DEF MoveAside
  <2>3. QED
    BY <2>1, <2>2 DEF Units
<1>3. CASE Truncate
  <2>1. log' = [inode |-> log.inode, bytes |-> << >>, at |-> log.at]
    BY <1>3 DEF Truncate
  <2>2. UNCHANGED <<units, crashes, mishaps>> /\ truncations' = truncations + 1
    BY <1>3 DEF Truncate, faults
  <2>3. QED
    BY <2>1, <2>2 DEF Units
<1>4. CASE Kill
  <2>1. UNCHANGED <<log, units, truncations>> /\ crashes' = crashes + 1
    BY <1>4 DEF Kill, world
  <2>2. mishaps' \subseteq {"raced", "torn"}
    BY <1>4 DEF Kill
  <2>3. QED
    BY <2>1, <2>2 DEF Units
<1>5. CASE Start \/ Cycle \/ UNCHANGED vars
  <2>1. UNCHANGED <<log, units, truncations, crashes, mishaps>>
    BY <1>5 DEF Start, Cycle, Snapshot, StoreSnapshot, Scan, Stat, Read, Erase, Save, Register, StoreContent, FillContent,
       AuditIngest, Detect, world, faults, vars
  <2>2. QED
    BY <2>1 DEF Units
<1>6. CASE Create
  <2>1. log' = [inode |-> log.inode, bytes |-> log.bytes, at |-> "path"]
    BY <1>6 DEF Create
  <2>2. UNCHANGED <<units, truncations, crashes, mishaps>>
    BY <1>6 DEF Create, faults
  <2>3. QED
    BY <2>1, <2>2 DEF Units
<1>7. QED
  BY <1>1, <1>2, <1>3, <1>4, <1>5, <1>6 DEF Next

LEMMA WatcherStep ==
  ASSUME TypeOK, [Next]_vars
  PROVE  WatcherTyped'
<1> USE DEF TypeOK, WatcherTyped
<1>1. CASE Write
  <2>1. units \in Nat /\ units' = units + 1 /\ UNCHANGED <<saved, state, pc, loc>>
    BY <1>1 DEF Write, storage, WorldTyped
  <2>2. loc.chunk \in Seq(1..(units + 1))
    BY <2>1, UnitsGrow DEF Units
  <2>3. loc \in [offset : Nat, inode : Nat, chunk : Seq(1..(units + 1))]
    BY <2>2
  <2>4. QED
    BY <2>1, <2>3 DEF Units
<1>2. CASE MoveAside \/ Create \/ Truncate
  <2>1. UNCHANGED <<units, saved, state, pc, loc>>
    BY <1>2 DEF MoveAside, Create, Truncate, storage
  <2>2. QED
    BY <2>1 DEF Units
<1>3. CASE Start
  <2>1. UNCHANGED <<units, saved, loc>>
    BY <1>3 DEF Start, world, storage
  <2>2. state' \in [offset : Nat, inode : Nat] /\ pc' \in Locations
    BY <1>3 DEF Start, NoState, Locations
  <2>3. QED
    BY <2>1, <2>2 DEF Units
<1>4. ASSUME UNCHANGED <<units, saved>>, Down
      PROVE  WatcherTyped'
  BY <1>4 DEF Down, NoState, NoLocals, Units, Locations
<1>5. ASSUME UNCHANGED <<units, saved, state>>, NEW l \in Locations, Goto(l, loc)
      PROVE  WatcherTyped'
  BY <1>5 DEF Goto, Units
<1>6. CASE Kill
  BY <1>4, <1>6 DEF Kill, world
<1>7. CASE Snapshot \/ StoreSnapshot \/ Scan
  BY <1>4, <1>5, <1>7 DEF Snapshot, StoreSnapshot, Scan, world, storage, Locations
<1>8. CASE Stat
  <2>1. UNCHANGED <<units, saved>> /\ log.inode \in Nat /\ Len(log.bytes) \in Nat
    BY <1>8 DEF Stat, world, storage, WorldTyped
  <2>2. OffsetFor(state, log) \in Nat
    BY DEF OffsetFor
  <2>3. state' \in [offset : Nat, inode : Nat] /\ pc' \in Locations
    BY <1>8, <2>1, <2>2 DEF Stat, Goto, Locations
  <2>4. loc' \in [offset : Nat, inode : Nat, chunk : Seq(Units)]
    <3>1. \E n, m \in Nat : loc' = [offset |-> n, inode |-> m, chunk |-> << >>]
      BY <1>8, <2>1, <2>2 DEF Stat, Goto, NoLocals
    <3>2. << >> \in Seq(Units)
      OBVIOUS
    <3>3. QED
      BY <3>1, <3>2
  <2>5. QED
    BY <2>1, <2>3, <2>4 DEF Units
<1>9. CASE Read
  <2>1. UNCHANGED <<units, saved>>
    BY <1>9 DEF Read, world, storage
  <2>2. ChunkAt(log, loc.offset) \in Seq(Units)
    BY ChunkTyped
  <2>3. CASE loc' = NoLocals /\ pc' = "audit" /\ UNCHANGED state
    BY <2>1, <2>3 DEF Units, Locations, NoLocals
  <2>4. ASSUME NEW chunk \in Seq(Units), ChunkAt(log, loc.offset) = chunk, log.at = "path"
        PROVE  WatcherTyped'
    <3>1. state' = [offset |-> loc.offset + Len(chunk), inode |-> loc.inode]
      BY <1>9, <2>4 DEF Read
    <3>2. loc' = [offset |-> loc.offset, inode |-> loc.inode, chunk |-> chunk] /\ pc' = "erase"
      BY <1>9, <2>4 DEF Read, Goto
    <3>3. Len(chunk) \in Nat /\ loc.offset \in Nat /\ loc.inode \in Nat
      BY <2>4
    <3>4. state' \in [offset : Nat, inode : Nat]
      BY <3>1, <3>3
    <3>5. loc' \in [offset : Nat, inode : Nat, chunk : Seq(Units)]
      BY <2>4, <3>2, <3>3
    <3>6. QED
      BY <2>1, <3>2, <3>4, <3>5 DEF Units, Locations
  <2>5. QED
    BY <1>9, <2>2, <2>3, <2>4 DEF Read, Goto
<1>10. CASE Erase
  <2>1. UNCHANGED <<units, state, loc>> /\ saved' = Torn /\ pc' = "save"
    BY <1>10 DEF Erase, Goto, world
  <2>2. QED
    BY <2>1 DEF Units, Locations
<1>11. CASE Save
  <2>1. UNCHANGED <<units, state, loc>> /\ saved' = state /\ pc' \in {"audit", "record"}
    BY <1>11 DEF Save, Goto, world
  <2>2. QED
    BY <2>1 DEF Units, Locations
<1>12. CASE Register \/ StoreContent \/ FillContent
  <2>1. UNCHANGED <<units, state, saved, loc>> /\ pc' \in {"content", "fill", "audit"}
    BY <1>12 DEF Register, StoreContent, FillContent, Goto, world
  <2>2. QED
    BY <2>1 DEF Units, Locations
<1>13. CASE AuditIngest
  <2>1. UNCHANGED <<units, state, saved>> /\ loc' = NoLocals /\ pc' = "detect"
    BY <1>13 DEF AuditIngest, Goto, world
  <2>2. QED
    BY <2>1 DEF Units, Locations, NoLocals
<1>14. CASE Detect
  BY <1>4, <1>5, <1>14 DEF Detect, world, storage, Locations
<1>15. CASE UNCHANGED vars
  BY <1>15 DEF vars, Units
<1>16. QED
  BY <1>1, <1>2, <1>3, <1>6, <1>7, <1>8, <1>9, <1>10, <1>11, <1>12, <1>13, <1>14, <1>15
     DEF Next, Cycle

\* The type of the evidence needs Stored: an item has its record when its
\* content is written.
LEMMA EvidenceStep ==
  ASSUME TypeOK, Stored, [Next]_vars
  PROVE  EvidenceTyped'
<1> USE DEF TypeOK, EvidenceTyped
<1>1. CASE Write
  <2>1. units \in Nat /\ units' = units + 1 /\ UNCHANGED <<records, contents, written, snapshots>>
    BY <1>1 DEF Write, storage, items, WorldTyped
  <2>2. \A i \in DOMAIN records : records[i] \in Seq(1..(units + 1))
    BY <2>1, UnitsGrow DEF Units
  <2>3. records \in Seq(Seq(1..(units + 1)))
    BY <2>2
  <2>4. QED
    BY <2>1, <2>3 DEF Units
<1>2. CASE Register
  <2>1. UNCHANGED <<units, contents, written, snapshots>> /\ records' = Append(records, loc.chunk)
    BY <1>2 DEF Register, world
  <2>2. loc.chunk \in Seq(Units)
    BY DEF WatcherTyped
  <2>3. records' \in Seq(Seq(Units)) /\ DOMAIN records \subseteq DOMAIN records'
    BY <2>1, <2>2
  <2>4. QED
    BY <2>1, <2>3 DEF Units
<1>3. CASE StoreContent \/ FillContent
  <2>1. /\ UNCHANGED <<units, records, snapshots>>
        /\ contents' \subseteq contents \cup {Len(records)}
        /\ written' \subseteq written \cup {Len(records)} /\ written' \subseteq contents'
    BY <1>3 DEF StoreContent, FillContent, Stored, world
  <2>2. Len(records) \in DOMAIN records
    BY <1>3 DEF StoreContent, FillContent, Stored
  <2>3. QED
    BY <2>1, <2>2 DEF Units
<1>4. ASSUME UNCHANGED <<units, records, contents, written>>, snapshots' \in {"whole", "holed"}
      PROVE  EvidenceTyped'
  BY <1>4 DEF Units
<1>5. CASE Kill
  BY <1>4, <1>5 DEF Kill, world, items
<1>6. QED
  BY <1>1, <1>2, <1>3, <1>4, <1>5 DEF Next, Cycle, MoveAside, Create, Truncate, Start, Snapshot,
     StoreSnapshot, Scan, Stat, Read, Erase, Save, AuditIngest, Detect, world, storage, items, vars

LEMMA StoredStep ==
  ASSUME TypeOK, Stored, [Next]_vars
  PROVE  Stored'
<1> USE DEF Stored
<1>1. records \in Seq(Seq(Units)) /\ Len(records) \in Nat /\ DOMAIN records = 1..Len(records)
  BY DEF TypeOK, EvidenceTyped
<1>2. ASSUME UNCHANGED <<records, contents, written, audited, pc, loc>>
      PROVE  Stored'
  BY <1>2
<1>3. ASSUME UNCHANGED <<records, contents, written, audited>>,
             pc' \in {"down", "idle", "snapshot", "scan"}
      PROVE  Stored'
  BY <1>3
<1>4. ASSUME UNCHANGED <<records, contents, written, audited>>, contents = DOMAIN records,
             pc' \notin {"content", "fill"}, pc' = "audit" => loc' = NoLocals
      PROVE  Stored'
  BY <1>4 DEF NoLocals
<1>5. CASE Write \/ MoveAside \/ Create \/ Truncate \/ UNCHANGED vars
  BY <1>2, <1>5 DEF Write, MoveAside, Create, Truncate, vars, storage, items
<1>6. CASE Start \/ Kill \/ Detect \/ Snapshot \/ StoreSnapshot
  BY <1>3, <1>6 DEF Start, Kill, Detect, Snapshot, StoreSnapshot, Down, Goto, storage, items
<1>7. CASE Scan
  BY <1>3, <1>4, <1>7 DEF Scan, Readable, Down, Goto, storage, items
<1>8. CASE Stat \/ Read \/ Erase
  BY <1>4, <1>8 DEF Stat, Read, Erase, Goto, storage, items
<1>9. CASE Save
  <2>1. UNCHANGED <<records, contents, written, audited, loc>> /\ contents = DOMAIN records
    BY <1>9 DEF Save, Goto, items
  <2>2. pc' = (IF loc.chunk = << >> THEN "audit" ELSE "record")
    BY <1>9 DEF Save, Goto, items
  <2>3. QED
    BY <2>1, <2>2
<1>10. CASE Register
  <2>1. /\ UNCHANGED <<contents, written, audited>> /\ contents = DOMAIN records
        /\ pc' = "content"
    BY <1>10 DEF Register, Goto
  <2>2. records' = Append(records, loc.chunk)
    BY <1>10 DEF Register
  <2>3. Len(records') = Len(records) + 1 /\ DOMAIN records' = 1..(Len(records) + 1)
    BY <1>1, <2>2 DEF TypeOK, WatcherTyped
  <2>4. QED
    BY <1>1, <2>1, <2>3
<1>11. CASE StoreContent
  <2>1. /\ UNCHANGED <<records, written, audited>> /\ contents' = contents \cup {Len(records)}
        /\ pc' = "fill" /\ Len(records) > 0
    BY <1>11 DEF StoreContent, Goto
  <2>2. contents' = DOMAIN records
    BY <1>1, <2>1
  <2>3. QED
    BY <2>1, <2>2
<1>12. CASE FillContent
  <2>1. /\ UNCHANGED <<records, contents, audited>> /\ written' = written \cup {Len(records)}
        /\ pc' = "audit" /\ Len(records) > 0 /\ contents = DOMAIN records
    BY <1>12 DEF FillContent, Goto
  <2>2. QED
    BY <1>1, <2>1
<1>13. CASE AuditIngest
  <2>1. UNCHANGED <<records, contents, written>> /\ pc' = "detect" /\ contents = DOMAIN records
    BY <1>13 DEF AuditIngest, Goto
  <2>2. audited' \subseteq written
    BY <1>1, <1>13 DEF AuditIngest
  <2>3. QED
    BY <2>1, <2>2
<1>14. QED
  BY <1>5, <1>6, <1>7, <1>8, <1>9, <1>10, <1>11, <1>12, <1>13 DEF Next, Cycle

LEMMA IntakeInvariant == Spec => [](TypeOK /\ Stored)
<1>1. Init => TypeOK /\ Stored
  <2> SUFFICES ASSUME Init
               PROVE  TypeOK /\ Stored
    OBVIOUS
  <2>1. WorldTyped
    BY DEF Init, WorldTyped
  <2>2. WatcherTyped
    BY DEF Init, WatcherTyped, NoState, NoLocals, Locations
  <2>3. EvidenceTyped /\ Stored
    BY DEF Init, EvidenceTyped, Stored
  <2>4. QED
    BY <2>1, <2>2, <2>3 DEF TypeOK
<1>2. TypeOK /\ Stored /\ [Next]_vars => (TypeOK /\ Stored)'
  BY WorldStep, WatcherStep, EvidenceStep, StoredStep DEF TypeOK
<1>3. QED
  BY <1>1, <1>2, PTL DEF Spec

(* Every variable keeps its type; in particular an item's content is never *)
(* on disk without its provenance record (provenance.py: register).        *)
THEOREM IntakeTyped == Spec => []TypeOK
  BY IntakeInvariant, PTL

(* The evidence that an audit record names is stored in full, wherever the *)
(* watcher was killed (engine.py: ingest audits after register returns).   *)
THEOREM AuditedReadable == Spec => []AuditedIsReadable
<1>1. Stored => AuditedIsReadable
  BY DEF Stored, AuditedIsReadable
<1>2. QED
  BY <1>1, IntakeInvariant, PTL

LEMMA ChunkFacts ==
  ASSUME WorldTyped, NEW offset \in Nat
  PROVE  LET chunk == ChunkAt(log, offset) IN
         /\ Len(chunk) \in 0 .. MaxChunk /\ DOMAIN chunk = 1..Len(chunk)
         /\ \A i \in DOMAIN chunk : offset + i \in DOMAIN log.bytes /\ chunk[i] = log.bytes[offset + i]
         /\ offset <= Len(log.bytes) => offset + Len(chunk) <= Len(log.bytes)
<1>1. log.bytes \in Seq(Units) /\ Len(log.bytes) \in Nat /\ DOMAIN log.bytes = 1..Len(log.bytes)
  BY DEF WorldTyped
<1> DEFINE last == IF Len(log.bytes) <= offset + MaxChunk THEN Len(log.bytes) ELSE offset + MaxChunk
<1>2. last \in Nat /\ last <= Len(log.bytes) /\ last <= offset + MaxChunk
  BY <1>1, IntakeAssumption
<1>3. offset <= Len(log.bytes) => offset <= last
  BY <1>1, IntakeAssumption
<1>4. ChunkAt(log, offset) = SubSeq(log.bytes, offset + 1, last)
  BY DEF ChunkAt
<1> HIDE DEF last
<1> DEFINE chunk == SubSeq(log.bytes, offset + 1, last)
<1>5. /\ Len(chunk) = IF offset + 1 <= last THEN last - offset ELSE 0
      /\ DOMAIN chunk = 1..Len(chunk)
      /\ \A i \in 1..Len(chunk) : chunk[i] = log.bytes[offset + i]
  BY <1>1, <1>2
<1> HIDE DEF chunk
<1>6. Len(chunk) \in 0 .. MaxChunk
  BY <1>2, <1>5, IntakeAssumption
<1>7. \A i \in 1..Len(chunk) : offset + i \in 1..Len(log.bytes)
  BY <1>1, <1>2, <1>5
<1>8. offset <= Len(log.bytes) => offset + Len(chunk) <= Len(log.bytes)
  BY <1>1, <1>2, <1>3, <1>5
<1>9. QED
  BY <1>1, <1>4, <1>5, <1>6, <1>7, <1>8 DEF chunk

-----------------------------------------------------------------------------
(* Nothing is ingested twice.                                              *)

Recorded(u) == \E i \in DOMAIN records : u \in Range(records[i])

Held(u) == pc \in {"erase", "save", "record"} /\ u \in Range(loc.chunk)

\* A watcher in state s does not read u from this file.
Covers(file, s, u) ==
  \A n \in DOMAIN file.bytes :
    file.bytes[n] = u => s.inode = file.inode /\ n <= s.offset /\ s.offset <= Len(file.bytes)

LocalState == [offset |-> loc.offset, inode |-> loc.inode]

\* What was taken from the log is not read again: in the watcher's state from
\* the moment of reading, in the saved one from the moment it is saved.
OnceFor(u) ==
  /\ \A i, j \in DOMAIN records : u \in Range(records[i]) /\ u \in Range(records[j]) => i = j
  /\ ~(Held(u) /\ Recorded(u))
  /\ pc # "down" /\ (Held(u) \/ Recorded(u)) => Covers(log, state, u)
  /\ pc = "record" /\ Held(u) => Covers(log, saved, u)
  /\ pc # "save" /\ Recorded(u) => Covers(log, saved, u)
  /\ pc = "read" /\ Recorded(u) => Covers(log, LocalState, u)

WritingsDiffer == \A m, n \in DOMAIN log.bytes : log.bytes[m] = log.bytes[n] => m = n

OnceInv ==
  /\ units <= MaxUnits /\ WritingsDiffer
  /\ mishaps = {} => /\ pc = "read" => loc.inode = log.inode
                     /\ \A u \in 1..MaxUnits : OnceFor(u)

LEMMA WritingsStep ==
  ASSUME TypeOK, WritingsDiffer, units <= MaxUnits, [Next]_vars
  PROVE  WritingsDiffer' /\ units' <= MaxUnits
<1>1. CASE Write
  <2>1. /\ log.bytes \in Seq(Units) /\ units \in Nat
        /\ log'.bytes = Append(log.bytes, units + 1)
        /\ units < MaxUnits /\ units' = units + 1
    BY <1>1 DEF Write, TypeOK, WorldTyped
  <2>2. \A n \in DOMAIN log.bytes : log.bytes[n] # units + 1
    BY <2>1 DEF Units
  <2>3. /\ DOMAIN log'.bytes = 1..(Len(log.bytes) + 1) /\ log'.bytes[Len(log.bytes) + 1] = units + 1
        /\ \A n \in 1..Len(log.bytes) : log'.bytes[n] = log.bytes[n]
        /\ DOMAIN log.bytes = 1..Len(log.bytes) /\ Len(log.bytes) \in Nat
    BY <2>1
  <2>4. WritingsDiffer'
    <3>1. \A n \in 1..(Len(log.bytes) + 1) : n \in 1..Len(log.bytes) \/ n = Len(log.bytes) + 1
      BY <2>3
    <3>2. \A m, n \in 1..Len(log.bytes) : log'.bytes[m] = log'.bytes[n] => m = n
      BY <2>3 DEF WritingsDiffer
    <3>3. \A n \in 1..Len(log.bytes) : log'.bytes[n] # log'.bytes[Len(log.bytes) + 1]
      BY <2>2, <2>3
    <3>4. QED
      BY <2>3, <3>1, <3>2, <3>3 DEF WritingsDiffer
  <2>5. QED
    BY <2>1, <2>4, IntakeAssumption
<1>2. CASE MoveAside \/ Truncate
  <2>1. log'.bytes = << >> /\ units' = units
    BY <1>2 DEF MoveAside, Truncate, TypeOK, WorldTyped
  <2>2. QED
    BY <2>1 DEF WritingsDiffer
<1>3. CASE Create \/ Start \/ Kill \/ Cycle \/ UNCHANGED vars
  <2>1. log'.bytes = log.bytes /\ units' = units
    BY <1>3 DEF Create, TypeOK, WorldTyped, Start, Kill, Cycle, Snapshot, StoreSnapshot, Scan, Stat, Read, Erase,
       Save, Register, StoreContent, FillContent, AuditIngest, Detect, world, vars
  <2>2. QED
    BY <2>1 DEF WritingsDiffer
<1>4. QED
  BY <1>1, <1>2, <1>3 DEF Next

\* Whatever happens to the file, a watcher that does not read u does not read
\* it now: what is written has a number of its own.
LEMMA WorldCovers ==
  ASSUME TypeOK, Write \/ MoveAside \/ Create \/ Truncate, NEW u \in Units, NEW s, s.offset \in Int,
         Covers(log, s, u)
  PROVE  Covers(log', s, u)
<1>1. CASE Write
  <2>1. /\ log.bytes \in Seq(Units) /\ units \in Nat
        /\ log'.bytes = Append(log.bytes, units + 1) /\ log'.inode = log.inode
    BY <1>1 DEF Write, TypeOK, WorldTyped
  <2>2. /\ DOMAIN log'.bytes = 1..(Len(log.bytes) + 1) /\ log'.bytes[Len(log.bytes) + 1] = units + 1
        /\ \A n \in 1..Len(log.bytes) : log'.bytes[n] = log.bytes[n]
        /\ DOMAIN log.bytes = 1..Len(log.bytes) /\ Len(log.bytes) \in Nat
        /\ Len(log'.bytes) = Len(log.bytes) + 1
    BY <2>1
  <2>3. u # units + 1
    BY <2>1 DEF Units
  <2>4. QED
    BY <2>1, <2>2, <2>3 DEF Covers
<1>2. CASE MoveAside \/ Truncate
  <2>1. log'.bytes = << >>
    BY <1>2 DEF MoveAside, Truncate, TypeOK, WorldTyped
  <2>2. QED
    BY <2>1 DEF Covers
<1>3. CASE Create
  <2>1. log'.bytes = log.bytes /\ log'.inode = log.inode
    BY <1>3 DEF Create, TypeOK, WorldTyped
  <2>2. QED
    BY <2>1 DEF Covers
<1>4. QED
  BY <1>1, <1>2, <1>3

\* A unit that was taken was written.
LEMMA TakenWritten ==
  ASSUME TypeOK, NEW u, Held(u) \/ Recorded(u)
  PROVE  u \in Units
<1>1. loc.chunk \in Seq(Units) /\ records \in Seq(Seq(Units))
  BY DEF TypeOK, WatcherTyped, EvidenceTyped
<1>2. CASE Held(u)
  BY <1>1, <1>2 DEF Held, Range
<1>3. CASE Recorded(u)
  <2>1. PICK i \in DOMAIN records : u \in Range(records[i])
    BY <1>3 DEF Recorded
  <2>2. records[i] \in Seq(Units)
    BY <1>1
  <2>3. QED
    BY <2>1, <2>2 DEF Range
<1>4. QED
  BY <1>2, <1>3

LEMMA OnceInWorld ==
  ASSUME TypeOK, NEW u, OnceFor(u), Write \/ MoveAside \/ Create \/ Truncate
  PROVE  OnceFor(u)'
<1>1. UNCHANGED <<state, pc, loc, saved, records>>
  BY DEF Write, MoveAside, Create, Truncate, storage, items
<1>2. (Held(u)' <=> Held(u)) /\ (Recorded(u)' <=> Recorded(u)) /\ LocalState' = LocalState
  BY <1>1 DEF Held, Recorded, LocalState
<1>3. state.offset \in Int /\ saved.offset \in Int /\ LocalState.offset \in Int
  BY DEF TypeOK, WatcherTyped, LocalState, Torn
<1>4. ASSUME Held(u) \/ Recorded(u)
      PROVE  /\ Covers(log, state, u) => Covers(log', state, u)
             /\ Covers(log, saved, u) => Covers(log', saved, u)
             /\ Covers(log, LocalState, u) => Covers(log', LocalState, u)
  <2>1. u \in Units
    BY <1>4, TakenWritten
  <2>2. QED
    BY <1>3, <2>1, WorldCovers
<1>5. Held(u) \/ Recorded(u) =>
        /\ Covers(log, state, u) => Covers(log, state, u)'
        /\ Covers(log, saved, u) => Covers(log, saved, u)'
        /\ Covers(log, LocalState, u) => Covers(log, LocalState, u)'
  BY <1>1, <1>2, <1>4 DEF Covers
<1>6. QED
  BY <1>1, <1>2, <1>5 DEF OnceFor

\* A step that takes nothing, and does not begin to.
LEMMA OnceQuiet ==
  ASSUME NEW u, OnceFor(u), UNCHANGED <<log, records, saved>>,
         pc' = "down" \/ state' = state,
         pc \notin {"down", "save"}, pc' \notin {"erase", "save", "record", "read"}
  PROVE  OnceFor(u)'
<1>1. ~Held(u)' /\ (Recorded(u)' <=> Recorded(u))
  BY DEF Held, Recorded
<1>2. QED
  BY <1>1 DEF OnceFor, Covers

LEMMA OnceStart ==
  ASSUME TypeOK, NEW u, OnceFor(u), Start
  PROVE  OnceFor(u)'
<1>1. /\ UNCHANGED <<log, records, saved, loc>> /\ pc = "down" /\ pc' = "idle"
      /\ state' = IF saved = Torn THEN NoState ELSE saved
  BY DEF Start, world, storage, items
<1>2. ~Held(u)' /\ (Recorded(u)' <=> Recorded(u))
  BY <1>1 DEF Held, Recorded
<1>3. Recorded(u) => Covers(log, saved, u)
  BY <1>1 DEF OnceFor
<1>4. log.inode # -1
  BY DEF TypeOK, WorldTyped
<1>5. Recorded(u) => Covers(log, state', u)
  BY <1>1, <1>3, <1>4 DEF Covers, Torn
<1>6. QED
  BY <1>1, <1>2, <1>3, <1>5 DEF OnceFor, Covers

LEMMA OnceStat ==
  ASSUME TypeOK, NEW u, OnceFor(u), Stat
  PROVE  OnceFor(u)'
<1>1. UNCHANGED <<log, records, saved>> /\ pc = "stat"
  BY DEF Stat, world, storage, items
<1>2. CASE pc' = "audit" /\ UNCHANGED state
  BY <1>1, <1>2, OnceQuiet
<1> DEFINE s == [offset |-> OffsetFor(state, log), inode |-> log.inode]
<1>3. Recorded(u) => Covers(log, state, u) /\ Covers(log, s, u)
  <2>1. Recorded(u) => Covers(log, state, u)
    BY <1>1 DEF OnceFor
  <2>2. state.offset \in Nat /\ Len(log.bytes) \in Nat
    BY DEF TypeOK, WorldTyped, WatcherTyped
  <2>3. QED
    BY <2>1, <2>2 DEF Covers, OffsetFor
<1>4. ~Held(u)' /\ (Recorded(u)' <=> Recorded(u)) /\ (Recorded(u) => Covers(log, saved, u))
  <2>1. loc'.chunk = << >> \/ pc' = "audit"
    BY DEF Stat, Goto, NoLocals
  <2>2. ~Held(u)'
    BY <2>1 DEF Held, Range
  <2>3. QED
    BY <1>1, <2>2 DEF Recorded, OnceFor
<1>5. CASE pc' = "erase" /\ state' = s
  BY <1>1, <1>3, <1>4, <1>5 DEF OnceFor, Covers
<1>6. CASE pc' = "read" /\ state' = state /\ loc' = [offset |-> s.offset, inode |-> log.inode, chunk |-> << >>]
  <2>1. LocalState' = s
    BY <1>6 DEF LocalState
  <2>2. QED
    BY <1>1, <1>3, <1>4, <1>6, <2>1 DEF OnceFor, Covers
<1>7. QED
  BY <1>2, <1>5, <1>6 DEF Stat, Goto

LEMMA OnceRead ==
  ASSUME TypeOK, WritingsDiffer, NEW u, OnceFor(u), Read, loc.inode = log.inode
  PROVE  OnceFor(u)'
<1>1. UNCHANGED <<log, records, saved>> /\ pc = "read"
  BY DEF Read, world, storage, items
<1>2. CASE pc' = "audit" /\ UNCHANGED state
  BY <1>1, <1>2, OnceQuiet
<1>3. ASSUME NEW chunk, chunk = ChunkAt(log, loc.offset), pc' = "erase",
             state' = [offset |-> loc.offset + Len(chunk), inode |-> loc.inode],
             loc' = [loc EXCEPT !.chunk = chunk]
      PROVE  OnceFor(u)'
  <2>1. loc.offset \in Nat /\ Len(log.bytes) \in Nat /\ DOMAIN log.bytes = 1..Len(log.bytes) /\ loc'.chunk = chunk
    BY <1>3 DEF TypeOK, WorldTyped, WatcherTyped
  <2>2. /\ Len(chunk) \in Nat /\ DOMAIN chunk = 1..Len(chunk)
        /\ \A i \in DOMAIN chunk : loc.offset + i \in DOMAIN log.bytes /\ chunk[i] = log.bytes[loc.offset + i]
        /\ loc.offset <= Len(log.bytes) => loc.offset + Len(chunk) <= Len(log.bytes)
    BY <1>3, <2>1, ChunkFacts DEF TypeOK
  <2>3. Held(u)' <=> \E i \in DOMAIN chunk : chunk[i] = u
    BY <1>3, <2>1 DEF Held, Range
  <2>4. Recorded(u)' <=> Recorded(u)
    BY <1>1 DEF Recorded
  <2>5. ASSUME Recorded(u)
        PROVE  ~Held(u)' /\ Covers(log, state, u)'
    <3>1. Covers(log, LocalState, u)
      BY <1>1, <2>5 DEF OnceFor
    <3>2. \A n \in DOMAIN log.bytes : log.bytes[n] = u => n <= loc.offset /\ loc.offset <= Len(log.bytes)
      BY <3>1 DEF Covers, LocalState
    <3>3. ~Held(u)'
      BY <2>1, <2>2, <2>3, <3>2
    <3>4. Covers(log, state', u)
      BY <1>3, <2>1, <2>2, <3>2 DEF Covers
    <3>5. QED
      BY <1>1, <3>3, <3>4 DEF Covers
  <2>6. ASSUME Held(u)'
        PROVE  Covers(log, state, u)'
    <3>1. PICK i \in DOMAIN chunk : chunk[i] = u
      BY <2>3, <2>6
    <3>2. \A n \in DOMAIN log.bytes : log.bytes[n] = u => n = loc.offset + i
      BY <2>2, <3>1 DEF WritingsDiffer
    <3>3. loc.offset + i <= loc.offset + Len(chunk) /\ loc.offset + Len(chunk) <= Len(log.bytes)
      BY <2>1, <2>2, <3>1
    <3>4. Covers(log, state', u)
      BY <1>3, <3>2, <3>3 DEF Covers
    <3>5. QED
      BY <1>1, <3>4 DEF Covers
  <2>7. Recorded(u) => Covers(log, saved, u)'
    BY <1>1 DEF OnceFor, Covers
  <2>8. QED
    BY <1>1, <1>3, <2>4, <2>5, <2>6, <2>7 DEF OnceFor
<1>4. QED
  BY <1>2, <1>3 DEF Read, Goto

LEMMA OnceSaved ==
  ASSUME TypeOK, NEW u, OnceFor(u), Erase \/ Save
  PROVE  OnceFor(u)'
<1>1. UNCHANGED <<log, state, records, loc>>
  BY DEF Erase, Save, world, items, Goto
<1>2. Recorded(u)' <=> Recorded(u)
  BY <1>1 DEF Recorded
<1>3. Covers(log, state, u)' <=> Covers(log, state, u)
  BY <1>1 DEF Covers
<1>4. CASE Erase
  <2>1. pc = "erase" /\ pc' = "save"
    BY <1>4 DEF Erase, Goto
  <2>2. Held(u)' <=> Held(u)
    BY <1>1, <2>1 DEF Held
  <2>3. QED
    BY <1>1, <1>2, <1>3, <2>1, <2>2 DEF OnceFor
<1>5. CASE Save
  <2>1. pc = "save" /\ saved' = state /\ pc' = IF loc.chunk = << >> THEN "audit" ELSE "record"
    BY <1>5 DEF Save, Goto
  <2>2. Held(u)' => Held(u)
    BY <1>1, <2>1 DEF Held
  <2>3. Covers(log, saved, u)' <=> Covers(log, state, u)
    BY <1>1, <2>1 DEF Covers
  <2>4. QED
    BY <1>1, <1>2, <1>3, <2>1, <2>2, <2>3 DEF OnceFor
<1>6. QED
  BY <1>4, <1>5

LEMMA OnceRegister ==
  ASSUME TypeOK, NEW u, OnceFor(u), Register
  PROVE  OnceFor(u)'
<1>1. /\ UNCHANGED <<log, state, saved>> /\ pc = "record" /\ pc' = "content"
      /\ records' = Append(records, loc.chunk)
  BY DEF Register, world, Goto
<1>2. records \in Seq(Seq(Units)) /\ loc.chunk \in Seq(Units)
  BY DEF TypeOK, WatcherTyped, EvidenceTyped
<1>3. PICK k \in Nat : k = Len(records) /\ DOMAIN records = 1..k
  BY <1>2
<1>4. /\ DOMAIN records' = 1..(k + 1) /\ records'[k + 1] = loc.chunk
      /\ \A i \in 1..k : records'[i] = records[i]
  BY <1>1, <1>2, <1>3
<1>5. Held(u) <=> u \in Range(loc.chunk)
  BY <1>1 DEF Held
<1>6. Recorded(u)' <=> Recorded(u) \/ Held(u)
  BY <1>3, <1>4, <1>5 DEF Recorded
<1>7. \A i, j \in DOMAIN records' : u \in Range(records'[i]) /\ u \in Range(records'[j]) => i = j
  <2>1. \A i \in 1..k : u \in Range(records[i]) => Recorded(u)
    BY <1>3 DEF Recorded
  <2>2. \A i, j \in 1..k : u \in Range(records[i]) /\ u \in Range(records[j]) => i = j
    BY <1>3 DEF OnceFor
  <2>3. ~(Held(u) /\ Recorded(u))
    BY DEF OnceFor
  <2>4. \A i \in 1..(k + 1) : i \in 1..k \/ i = k + 1
    OBVIOUS
  <2>5. \A i \in 1..k : u \in Range(records'[i]) => ~Held(u)
    BY <1>4, <2>1, <2>3
  <2>6. u \in Range(records'[k + 1]) => Held(u)
    BY <1>4, <1>5
  <2>7. QED
    BY <1>4, <2>2, <2>4, <2>5, <2>6
<1>8. ~Held(u)'
  BY <1>1 DEF Held
<1>9. Recorded(u)' => Covers(log, state, u)' /\ Covers(log, saved, u)'
  BY <1>1, <1>6 DEF OnceFor, Covers
<1>10. QED
  BY <1>1, <1>7, <1>8, <1>9 DEF OnceFor

LEMMA OnceForStep ==
  ASSUME TypeOK, WritingsDiffer, NEW u, OnceFor(u), [Next]_vars, mishaps' = {},
         pc = "read" => loc.inode = log.inode
  PROVE  OnceFor(u)'
<1>1. CASE Kill
  <2>1. UNCHANGED <<log, records, saved>> /\ pc' = "down" /\ pc \notin {"down", "save"}
    BY <1>1 DEF Kill, Down, world, items
  <2>2. QED
    BY <2>1, OnceQuiet
<1>2. CASE Snapshot \/ StoreSnapshot \/ Scan \/ Detect
  <2>1. /\ UNCHANGED <<log, records, saved>>
        /\ pc' = "down" \/ state' = state
        /\ pc \in {"idle", "snapshot", "scan", "detect"} /\ pc' \in {"snapshot", "scan", "stat", "idle", "down"}
    BY <1>2 DEF Snapshot, StoreSnapshot, Scan, Detect, Goto, Down, world, storage, items
  <2>2. QED
    BY <2>1, OnceQuiet
<1>3. CASE StoreContent \/ FillContent \/ AuditIngest
  <2>1. /\ UNCHANGED <<log, records, saved, state>>
        /\ pc \in {"content", "fill", "audit"} /\ pc' \in {"fill", "audit", "detect"}
    BY <1>3 DEF StoreContent, FillContent, AuditIngest, Goto, world
  <2>2. QED
    BY <2>1, OnceQuiet
<1>4. CASE UNCHANGED vars
  BY <1>4 DEF vars, OnceFor, Held, Recorded, Covers, LocalState
<1>5. CASE Read
  BY <1>5, OnceRead DEF Read
<1>6. QED
  BY <1>1, <1>2, <1>3, <1>4, <1>5, OnceInWorld, OnceStart, OnceStat, OnceSaved, OnceRegister DEF Next, Cycle

LEMMA OnceStep ==
  ASSUME TypeOK, OnceInv, [Next]_vars
  PROVE  OnceInv'
<1>1. WritingsDiffer' /\ units' <= MaxUnits
  BY WritingsStep DEF OnceInv
<1>2. ASSUME mishaps' = {}
      PROVE  mishaps = {} /\ (pc' = "read" => loc'.inode = log'.inode)
  <2>1. CASE MoveAside
    BY <1>2, <2>1 DEF MoveAside
  <2>2. CASE Write \/ Create \/ Truncate
    BY <1>2, <2>2 DEF Write, Create, Truncate, faults, OnceInv, TypeOK, WorldTyped
  <2>3. CASE Kill
    BY <1>2, <2>3 DEF Kill, Down
  <2>4. CASE Stat
    BY <1>2, <2>4 DEF Stat, Goto, faults, world, OnceInv
  <2>5. CASE UNCHANGED vars
    BY <1>2, <2>5 DEF vars, OnceInv
  <2>6. CASE Start \/ Snapshot \/ StoreSnapshot \/ Scan \/ Detect
    BY <1>2, <2>6 DEF Start, Snapshot, StoreSnapshot, Scan, Detect, Goto, Down, faults
  <2>7. CASE Read \/ Erase \/ Save \/ Register \/ StoreContent \/ FillContent \/ AuditIngest
    BY <1>2, <2>7 DEF Read, Erase, Save, Register, StoreContent, FillContent, AuditIngest, Goto, faults
  <2>8. QED
    BY <2>1, <2>2, <2>3, <2>4, <2>5, <2>6, <2>7 DEF Next, Cycle
<1>3. ASSUME mishaps' = {}, NEW u \in 1..MaxUnits
      PROVE  OnceFor(u)'
  BY <1>2, <1>3, OnceForStep DEF OnceInv
<1>4. QED
  BY <1>1, <1>2, <1>3 DEF OnceInv

(* A unit of the log is ingested at most once, through rotations,          *)
(* truncations, restarts and kills, unless the log is rotated between      *)
(* stat() and open() or a kill falls into the writing of the offsets.      *)
THEOREM IngestedOnce == Spec => []NothingTwice
<1>1. Init => OnceInv
  <2>1. ASSUME Init, NEW u
        PROVE  OnceFor(u)
    <3>1. ~Recorded(u) /\ ~Held(u)
      BY <2>1 DEF Init, Recorded, Held
    <3>2. QED
      BY <2>1, <3>1 DEF Init, OnceFor
  <2>2. Init => units <= MaxUnits /\ WritingsDiffer /\ pc # "read"
    BY IntakeAssumption DEF Init, WritingsDiffer
  <2>3. QED
    BY <2>1, <2>2 DEF OnceInv
<1>2. TypeOK /\ OnceInv /\ [Next]_vars => OnceInv'
  BY OnceStep
<1>3. TypeOK /\ OnceInv => NothingTwice
  <2>1. ASSUME TypeOK, OnceInv, mishaps = {}, NEW i \in DOMAIN records, NEW j \in DOMAIN records, i # j,
               NEW u \in Range(records[i]) \cap Range(records[j])
        PROVE  FALSE
    <3>1. Recorded(u)
      BY <2>1 DEF Recorded
    <3>2. u \in Units /\ units \in Nat
      BY <2>1, <3>1, TakenWritten DEF TypeOK, WorldTyped
    <3>3. u \in 1..MaxUnits
      BY <2>1, <3>2, IntakeAssumption DEF OnceInv, Units
    <3>4. OnceFor(u)
      BY <2>1, <3>3 DEF OnceInv
    <3>5. QED
      BY <2>1, <3>4 DEF OnceFor
  <2>2. QED
    BY <2>1 DEF NothingTwice
<1>4. QED
  BY <1>1, <1>2, <1>3, IntakeInvariant, PTL DEF Spec

-----------------------------------------------------------------------------
(* One kill costs one chunk.                                               *)

Few(S, k) == IsFiniteSet(S) /\ Cardinality(S) <= k

\* The text a watcher in state s has passed in this file.
Skipped(file, s) == {file.bytes[i] : i \in {n \in 1..Len(file.bytes) : n <= s.offset /\ s.inode = file.inode}}

\* In a log that is not truncated no state is ahead of the file.
Behind(file, s) ==
  /\ s.inode <= file.inode
  /\ s.inode = file.inode => s.offset <= Len(file.bytes)
  /\ s.inode = 0 => s.offset = 0

\* The chunk that was read, and is not stored yet, as the watcher's state and
\* the saved state know of it.
InHand == IF pc \in {"erase", "save", "record", "content", "fill"} THEN Range(loc.chunk) ELSE {}

InStore == IF pc \in {"record", "content", "fill"} THEN Range(loc.chunk) ELSE {}

Lost == MaxChunk * crashes

ChunkInv ==
  /\ Len(loc.chunk) <= MaxChunk
  /\ pc \in {"content", "fill"} => records[Len(records)] = loc.chunk

StatesBehind ==
  /\ Behind(log, state) /\ Behind(log, saved) /\ Behind(log, LocalState)
  /\ pc = "read" => loc.inode > 0

LossInv ==
  /\ Few((Skipped(log, state) \ Ingested) \ InHand, Lost)
  /\ Few((Skipped(log, saved) \ Ingested) \ InStore, Lost)
  /\ pc = "read" => Few(Skipped(log, LocalState) \ Ingested, Lost)

LEMMA FewSubset ==
  ASSUME NEW k \in Nat, NEW S, NEW T, Few(T, k), S \subseteq T
  PROVE  Few(S, k)
<1>1. IsFiniteSet(S) /\ Cardinality(S) <= Cardinality(T) /\ IsFiniteSet(T) /\ Cardinality(T) <= k
  BY FS_Subset DEF Few
<1>2. Cardinality(S) \in Nat /\ Cardinality(T) \in Nat
  BY <1>1, FS_CardinalityType
<1>3. PICK m, n \in Nat : m = Cardinality(S) /\ n = Cardinality(T)
  BY <1>2
<1>4. m <= k
  BY <1>1, <1>3
<1>5. QED
  BY <1>1, <1>3, <1>4 DEF Few

LEMMA FewNone ==
  ASSUME NEW k \in Nat
  PROVE  Few({}, k)
BY FS_EmptySet DEF Few

\* What is few but for a few is few.
LEMMA FewMore ==
  ASSUME NEW k \in Nat, NEW m \in Nat, NEW S, NEW C, Few(S \ C, k), Few(C, m)
  PROVE  Few(S, k + m)
<1> DEFINE U == (S \ C) \cup C
<1>1. IsFiniteSet(S \ C) /\ IsFiniteSet(C) /\ Cardinality(S \ C) <= k /\ Cardinality(C) <= m
  BY DEF Few
<1>2. /\ IsFiniteSet(U)
      /\ Cardinality(U) = Cardinality(S \ C) + Cardinality(C) - Cardinality((S \ C) \cap C)
  BY <1>1, FS_Union
<1>3. (S \ C) \cap C = {} /\ Cardinality({}) = 0
  BY FS_EmptySet
<1>4. Cardinality(S \ C) \in Nat /\ Cardinality(C) \in Nat
  BY <1>1, FS_CardinalityType
<1>5. PICK a, b \in Nat : a = Cardinality(S \ C) /\ b = Cardinality(C)
  BY <1>4
<1>6. Cardinality(U) = a + b /\ a <= k /\ b <= m
  BY <1>1, <1>2, <1>3, <1>5
<1>7. Cardinality(U) <= k + m
  BY <1>6
<1>8. Few(U, k + m) /\ S \subseteq U
  BY <1>2, <1>7 DEF Few
<1> HIDE DEF U
<1>9. QED
  BY <1>8, FewSubset

LEMMA ChunkFew ==
  ASSUME NEW V, NEW chunk \in Seq(V), Len(chunk) <= MaxChunk
  PROVE  Few(Range(chunk), MaxChunk)
<1>1. Len(chunk) \in Nat /\ MaxChunk \in Nat /\ chunk \in [1..Len(chunk) -> V]
  BY IntakeAssumption
<1>2. PICK n \in Nat : n = Len(chunk) /\ n <= MaxChunk
  BY <1>1
<1>3. chunk \in Surjection(1..n, Range(chunk))
  BY <1>1, <1>2 DEF Surjection, Range
<1>4. IsFiniteSet(1..n) /\ Cardinality(1..n) = n
  <2>1. IsFiniteSet(1..n) /\ Cardinality(1..n) = IF 1 > n THEN 0 ELSE n - 1 + 1
    BY FS_Interval
  <2>2. QED
    BY <2>1
<1>5. IsFiniteSet(Range(chunk)) /\ Cardinality(Range(chunk)) <= Cardinality(1..n)
  BY <1>3, <1>4, FS_Surjection
<1>6. PICK m \in Nat : m = Cardinality(Range(chunk))
  BY <1>5, FS_CardinalityType
<1>7. m <= MaxChunk
  BY <1>1, <1>2, <1>4, <1>5, <1>6
<1>8. QED
  BY <1>5, <1>6, <1>7 DEF Few

\* Who knows another file, or nothing of this one, has passed nothing in it.
LEMMA SkippedNone ==
  ASSUME NEW file, NEW s, s.inode # file.inode \/ (s.offset = 0 \/ file.bytes = << >>)
  PROVE  Skipped(file, s) = {}
BY DEF Skipped

LEMMA ChunkStep ==
  ASSUME TypeOK, ChunkInv, [Next]_vars
  PROVE  ChunkInv'
<1>1. CASE pc' \notin {"content", "fill"} /\ loc'.chunk \in {loc.chunk, << >>}
  BY <1>1, IntakeAssumption DEF ChunkInv
<1>2. CASE UNCHANGED <<loc, records>> /\ (pc' = pc \/ pc = "content")
  BY <1>2 DEF ChunkInv
<1>3. CASE Read
  <2>1. CASE pc' = "audit" /\ loc' = NoLocals
    BY <1>1, <2>1 DEF NoLocals
  <2>2. CASE pc' = "erase" /\ loc' = [loc EXCEPT !.chunk = ChunkAt(log, loc.offset)]
    <3>1. loc'.chunk = ChunkAt(log, loc.offset) /\ loc.offset \in Nat
      BY <2>2 DEF TypeOK, WatcherTyped
    <3>2. Len(loc'.chunk) \in 0 .. MaxChunk
      BY <3>1, ChunkFacts DEF TypeOK
    <3>3. QED
      BY <2>2, <3>2, IntakeAssumption DEF ChunkInv
  <2>3. QED
    BY <1>3, <2>1, <2>2 DEF Read, Goto
<1>4. CASE Register
  <2>1. records' = Append(records, loc.chunk) /\ loc' = loc
    BY <1>4 DEF Register, Goto
  <2>2. records \in Seq(Seq(Units)) /\ loc.chunk \in Seq(Units)
    BY DEF TypeOK, WatcherTyped, EvidenceTyped
  <2>3. records'[Len(records')] = loc.chunk
    BY <2>1, <2>2
  <2>4. QED
    BY <2>1, <2>3 DEF ChunkInv
<1>5. CASE Write \/ MoveAside \/ Create \/ Truncate \/ UNCHANGED vars
  BY <1>2, <1>5 DEF Write, MoveAside, Create, Truncate, storage, items, vars
<1>6. CASE Start \/ Kill \/ Snapshot \/ StoreSnapshot \/ Scan \/ Detect \/ Stat
  BY <1>1, <1>6 DEF Start, Kill, Snapshot, StoreSnapshot, Scan, Detect, Stat, Goto, Down, NoLocals
<1>7. CASE Erase \/ Save \/ FillContent \/ AuditIngest
  BY <1>1, <1>7 DEF Erase, Save, FillContent, AuditIngest, Goto, NoLocals
<1>8. CASE StoreContent
  BY <1>2, <1>8 DEF StoreContent, Goto
<1>9. QED
  BY <1>3, <1>4, <1>5, <1>6, <1>7, <1>8 DEF Next, Cycle

\* The file only grows, or makes way for one with another inode.
LEMMA FileGrows ==
  ASSUME TypeOK, Write \/ MoveAside \/ Create, NEW s, s.offset \in Int, s.inode \in Int, Behind(log, s)
  PROVE  Behind(log', s) /\ Skipped(log', s) \subseteq Skipped(log, s)
<1>1. log.inode \in Nat \ {0} /\ Len(log.bytes) \in Nat /\ log.bytes \in Seq(Units)
  BY DEF TypeOK, WorldTyped
<1>2. CASE Write
  <2>1. log'.inode = log.inode /\ log'.bytes = Append(log.bytes, units + 1)
    BY <1>2 DEF Write, TypeOK, WorldTyped
  <2>2. /\ Len(log'.bytes) = Len(log.bytes) + 1
        /\ \A n \in 1..Len(log.bytes) : log'.bytes[n] = log.bytes[n]
    BY <1>1, <2>1 DEF TypeOK, WorldTyped
  <2>3. Behind(log', s)
    BY <1>1, <2>1, <2>2 DEF Behind
  <2>4. \A n \in 1..Len(log'.bytes) : n <= s.offset /\ s.inode = log'.inode =>
          n \in 1..Len(log.bytes) /\ s.inode = log.inode
    BY <1>1, <2>1, <2>2 DEF Behind
  <2>5. Skipped(log', s) \subseteq Skipped(log, s)
    BY <2>2, <2>4 DEF Skipped
  <2>6. QED
    BY <2>3, <2>5
<1>3. CASE MoveAside
  <2>1. log'.inode = log.inode + 1 /\ log'.bytes = << >>
    BY <1>3 DEF MoveAside
  <2>2. s.inode # log'.inode
    BY <1>1, <2>1 DEF Behind
  <2>3. Behind(log', s)
    BY <1>1, <2>1, <2>2 DEF Behind
  <2>4. QED
    BY <2>2, <2>3, SkippedNone
<1>4. CASE Create
  <2>1. log'.inode = log.inode /\ log'.bytes = log.bytes
    BY <1>4 DEF Create, TypeOK, WorldTyped
  <2>2. QED
    BY <2>1 DEF Behind, Skipped
<1>5. QED
  BY <1>2, <1>3, <1>4

LEMMA StatesTyped ==
  ASSUME TypeOK
  PROVE  /\ log.inode \in Nat \ {0} /\ Len(log.bytes) \in Nat /\ log.bytes \in Seq(Units)
         /\ DOMAIN log.bytes = 1..Len(log.bytes)
         /\ state.offset \in Nat /\ state.inode \in Nat
         /\ saved.offset \in Int /\ saved.inode \in Int
         /\ LocalState.offset \in Nat /\ LocalState.inode \in Nat
         /\ LocalState.offset = loc.offset /\ LocalState.inode = loc.inode
         /\ crashes \in Nat /\ Lost \in Nat
BY IntakeAssumption DEF TypeOK, WorldTyped, WatcherTyped, LocalState, Torn, Lost

LEMMA BehindStep ==
  ASSUME TypeOK, StatesBehind, [Next]_vars, ~Truncate
  PROVE  StatesBehind'
<1>1. CASE Write \/ MoveAside \/ Create
  <2>1. UNCHANGED <<state, saved, loc, pc>> /\ LocalState' = LocalState
    BY <1>1 DEF Write, MoveAside, Create, storage, LocalState
  <2>2. Behind(log', state) /\ Behind(log', saved) /\ Behind(log', LocalState)
    BY <1>1, StatesTyped, FileGrows DEF StatesBehind
  <2>3. QED
    BY <2>1, <2>2 DEF StatesBehind, Behind
<1>2. Behind(log, NoState) /\ Behind(log, Torn)
  BY StatesTyped DEF Behind, NoState, Torn
<1>3. ASSUME log' = log, Behind(log, state'), Behind(log, saved'), Behind(log, LocalState'),
             pc' = "read" => loc'.inode > 0
      PROVE  StatesBehind'
  BY <1>3 DEF StatesBehind, Behind
<1>4. CASE Start \/ Kill \/ Snapshot \/ StoreSnapshot \/ Scan \/ Detect
  <2>1. /\ log' = log /\ saved' = saved
        /\ state' \in {state, saved, NoState} /\ loc' \in {loc, NoLocals} /\ pc' # "read"
    BY <1>4 DEF Start, Kill, Snapshot, StoreSnapshot, Scan, Detect, Goto, Down, world, storage
  <2>2. LocalState' \in {LocalState, NoState}
    BY <2>1 DEF LocalState, NoState, NoLocals
  <2>3. QED
    BY <1>2, <1>3, <2>1, <2>2 DEF StatesBehind
<1>5. CASE Erase \/ Save \/ Register \/ StoreContent \/ FillContent \/ AuditIngest
  <2>1. /\ log' = log /\ state' = state
        /\ saved' \in {saved, state, Torn} /\ loc' \in {loc, NoLocals} /\ pc' # "read"
    BY <1>5 DEF Erase, Save, Register, StoreContent, FillContent, AuditIngest, Goto, world
  <2>2. LocalState' \in {LocalState, NoState}
    BY <2>1 DEF LocalState, NoState, NoLocals
  <2>3. QED
    BY <1>2, <1>3, <2>1, <2>2 DEF StatesBehind
<1>6. CASE Stat
  <2> DEFINE s == [offset |-> OffsetFor(state, log), inode |-> log.inode]
  <2>1. Behind(log, s)
    BY StatesTyped DEF Behind, OffsetFor
  <2>2. /\ log' = log /\ saved' = saved /\ state' \in {state, s}
        /\ loc' = NoLocals \/ loc' = [offset |-> s.offset, inode |-> s.inode, chunk |-> << >>]
        /\ pc' = "read" => loc' = [offset |-> s.offset, inode |-> s.inode, chunk |-> << >>]
    BY <1>6 DEF Stat, Goto, world, storage
  <2>3. LocalState' \in {NoState, s}
    BY <2>2 DEF LocalState, NoState, NoLocals
  <2>4. pc' = "read" => loc'.inode > 0
    BY <2>2, StatesTyped
  <2>5. QED
    BY <1>2, <1>3, <2>1, <2>2, <2>3, <2>4 DEF StatesBehind
<1>7. CASE Read
  <2>1. log' = log /\ saved' = saved /\ pc = "read" /\ pc' # "read"
    BY <1>7 DEF Read, Goto, world, storage
  <2>2. CASE state' = state /\ loc' = NoLocals
    <3>1. LocalState' = NoState
      BY <2>2 DEF LocalState, NoState, NoLocals
    <3>2. QED
      BY <1>2, <1>3, <2>1, <2>2, <3>1 DEF StatesBehind
  <2>3. ASSUME NEW chunk, chunk = ChunkAt(log, loc.offset),
               state' = [offset |-> loc.offset + Len(chunk), inode |-> loc.inode],
               loc' = [loc EXCEPT !.chunk = chunk]
        PROVE  StatesBehind'
    <3>1. LocalState' = LocalState
      BY <2>3 DEF LocalState, TypeOK, WatcherTyped
    <3>2. /\ loc.inode > 0 /\ loc.inode <= log.inode
          /\ loc.inode = log.inode => loc.offset <= Len(log.bytes)
      BY <2>1, StatesTyped DEF StatesBehind, Behind
    <3>3. loc.offset <= Len(log.bytes) => loc.offset + Len(chunk) <= Len(log.bytes)
      BY <2>3, StatesTyped, ChunkFacts DEF TypeOK
    <3>4. Behind(log, state')
      BY <2>3, <3>2, <3>3 DEF Behind
    <3>5. QED
      BY <1>3, <2>1, <3>1, <3>4 DEF StatesBehind
  <2>4. QED
    BY <1>7, <2>2, <2>3 DEF Read, Goto
<1>8. CASE UNCHANGED vars
  BY <1>8 DEF vars, StatesBehind, Behind, LocalState
<1>9. QED
  BY <1>1, <1>4, <1>5, <1>6, <1>7, <1>8 DEF Next, Cycle

LEMMA IngestedIs == \A x : x \in Ingested <=> \E i \in written : x \in Range(records[i])
BY DEF Ingested

LEMMA LossInWorld ==
  ASSUME TypeOK, StatesBehind, LossInv, Write \/ MoveAside \/ Create
  PROVE  LossInv'
<1>1. UNCHANGED <<state, saved, loc, pc, records, written, crashes>>
  BY DEF Write, MoveAside, Create, storage, items, faults
<1>2. Ingested' = Ingested /\ InHand' = InHand /\ InStore' = InStore /\ Lost' = Lost /\ LocalState' = LocalState
  BY <1>1 DEF Ingested, InHand, InStore, Lost, LocalState
<1>3. /\ Skipped(log', state) \subseteq Skipped(log, state)
      /\ Skipped(log', saved) \subseteq Skipped(log, saved)
      /\ Skipped(log', LocalState) \subseteq Skipped(log, LocalState)
  BY StatesTyped, FileGrows DEF StatesBehind
<1>4. /\ Few((Skipped(log', state) \ Ingested) \ InHand, Lost)
      /\ Few((Skipped(log', saved) \ Ingested) \ InStore, Lost)
      /\ pc = "read" => Few(Skipped(log', LocalState) \ Ingested, Lost)
  BY <1>3, StatesTyped, FewSubset DEF LossInv
<1>5. /\ Skipped(log', state') = Skipped(log', state)
      /\ Skipped(log', saved') = Skipped(log', saved)
      /\ Skipped(log', LocalState') = Skipped(log', LocalState)
  BY <1>1, <1>2
<1>6. QED
  BY <1>1, <1>2, <1>4, <1>5 DEF LossInv

\* A watcher that stops, by itself or killed: the chunk it had read and not
\* stored is what the kill costs.
LEMMA LossDown ==
  ASSUME TypeOK, ChunkInv, LossInv, Down, UNCHANGED <<log, saved, records, written>>,
         \/ crashes' = crashes /\ InStore = {}
         \/ crashes' = crashes + 1
  PROVE  LossInv'
<1>1. Ingested' = Ingested /\ InHand' = {} /\ InStore' = {}
  BY DEF Down, Ingested, InHand, InStore
<1>2. Skipped(log, state') = {}
  BY StatesTyped, SkippedNone DEF Down, NoState
<1>3. Lost' \in Nat /\ (crashes' = crashes + 1 => Lost' = Lost + MaxChunk)
  <2>1. PICK c \in Nat : c = crashes
    BY StatesTyped
  <2>2. MaxChunk \in Nat /\ MaxChunk * c \in Nat /\ MaxChunk * (c + 1) = MaxChunk * c + MaxChunk
    BY IntakeAssumption
  <2>3. QED
    BY <2>1, <2>2 DEF Lost
<1>4. Few(Skipped(log, saved) \ Ingested, Lost')
  <2>1. CASE crashes' = crashes /\ InStore = {}
    BY <2>1 DEF LossInv, Lost
  <2>2. CASE crashes' = crashes + 1
    <3>1. Few(InStore, MaxChunk)
      BY ChunkFew, FewNone, IntakeAssumption DEF InStore, ChunkInv, TypeOK, WatcherTyped
    <3>2. Few(Skipped(log, saved) \ Ingested, Lost + MaxChunk)
      BY <3>1, FewMore, StatesTyped, IntakeAssumption DEF LossInv
    <3>3. QED
      BY <1>3, <2>2, <3>2
  <2>3. QED
    BY <2>1, <2>2
<1>5. Few((Skipped(log, state') \ Ingested) \ {}, Lost')
  BY <1>2, <1>3, FewNone
<1>6. QED
  BY <1>1, <1>4, <1>5 DEF LossInv, Down, Skipped

\* A step that neither moves the watcher's state nor stores anything.
LEMMA LossQuiet ==
  ASSUME LossInv, UNCHANGED <<log, state, saved, records, written, crashes>>,
         pc \notin {"erase", "save", "record", "content", "fill"},
         pc' \notin {"erase", "save", "record", "content", "fill", "read"}
  PROVE  LossInv'
<1>1. Ingested' = Ingested /\ Lost' = Lost /\ InHand = {} /\ InHand' = {} /\ InStore = {} /\ InStore' = {}
  BY DEF Ingested, Lost, InHand, InStore
<1>2. QED
  BY <1>1 DEF LossInv, Skipped

LEMMA LossStart ==
  ASSUME TypeOK, LossInv, Start
  PROVE  LossInv'
<1>1. /\ UNCHANGED <<log, saved, records, written, crashes>> /\ pc = "down" /\ pc' = "idle"
      /\ state' \in {NoState, saved}
  BY DEF Start, world, storage, items, faults
<1>2. Ingested' = Ingested /\ Lost' = Lost /\ InStore = {} /\ InHand' = {} /\ InStore' = {}
  BY <1>1 DEF Ingested, Lost, InHand, InStore
<1>3. Skipped(log, NoState) = {}
  BY StatesTyped, SkippedNone DEF NoState
<1>4. Few(Skipped(log, saved) \ Ingested, Lost)
  BY <1>2 DEF LossInv
<1>5. Few(Skipped(log, state') \ Ingested, Lost)
  <2>1. CASE state' = NoState
    BY <1>3, <2>1, FewNone, StatesTyped
  <2>2. CASE state' = saved
    BY <1>4, <2>2
  <2>3. QED
    BY <1>1, <2>1, <2>2
<1>6. QED
  BY <1>1, <1>2, <1>4, <1>5 DEF LossInv, Skipped

LEMMA LossStat ==
  ASSUME TypeOK, StatesBehind, LossInv, Stat
  PROVE  LossInv'
<1> DEFINE s == [offset |-> OffsetFor(state, log), inode |-> log.inode]
<1>1. UNCHANGED <<log, saved, records, written, crashes>> /\ pc = "stat"
  BY DEF Stat, world, storage, items, faults
<1>2. Ingested' = Ingested /\ Lost' = Lost /\ InHand = {} /\ InStore = {} /\ InStore' = {}
  BY <1>1 DEF Ingested, Lost, InHand, InStore, Stat, Goto
<1>3. Skipped(log, s) \subseteq Skipped(log, state)
  <2>1. CASE state.inode = log.inode /\ ~(Len(log.bytes) < state.offset)
    BY <2>1 DEF Skipped, OffsetFor
  <2>2. CASE ~(state.inode = log.inode /\ ~(Len(log.bytes) < state.offset))
    <3>1. OffsetFor(state, log) = 0
      BY <2>2, StatesTyped DEF OffsetFor, StatesBehind, Behind
    <3>2. QED
      BY <3>1, SkippedNone
  <2>3. QED
    BY <2>1, <2>2
<1>4. Few(Skipped(log, state) \ Ingested, Lost) /\ Few(Skipped(log, s) \ Ingested, Lost)
  BY <1>2, <1>3, FewSubset, StatesTyped DEF LossInv
<1>5. Few((Skipped(log, saved) \ Ingested) \ {}, Lost)
  BY <1>2 DEF LossInv
<1>6. CASE pc' = "audit" /\ state' = state
  BY <1>1, <1>6, LossQuiet
<1>7. CASE pc' = "erase" /\ state' = s /\ loc' = NoLocals
  <2>1. InHand' = {}
    BY <1>7 DEF InHand, NoLocals, Range
  <2>2. Few((Skipped(log, state') \ Ingested) \ {}, Lost)
    BY <1>4, <1>7
  <2>3. QED
    BY <1>1, <1>2, <1>5, <1>7, <2>1, <2>2 DEF LossInv, Skipped
<1>8. CASE pc' = "read" /\ state' = state /\ loc' = [offset |-> s.offset, inode |-> s.inode, chunk |-> << >>]
  <2>1. LocalState' = s /\ InHand' = {}
    BY <1>8 DEF LocalState, InHand
  <2>2. Few(Skipped(log, LocalState') \ Ingested, Lost)
    BY <1>4, <2>1
  <2>3. QED
    BY <1>1, <1>2, <1>4, <1>5, <1>8, <2>1, <2>2 DEF LossInv, Skipped
<1>9. QED
  BY <1>6, <1>7, <1>8 DEF Stat, Goto

LEMMA LossRead ==
  ASSUME TypeOK, LossInv, Read
  PROVE  LossInv'
<1>1. UNCHANGED <<log, saved, records, written, crashes>> /\ pc = "read"
  BY DEF Read, world, storage, items, faults
<1>2. CASE pc' = "audit" /\ state' = state
  BY <1>1, <1>2, LossQuiet
<1>3. ASSUME NEW chunk, chunk = ChunkAt(log, loc.offset), pc' = "erase",
             state' = [offset |-> loc.offset + Len(chunk), inode |-> loc.inode],
             loc' = [loc EXCEPT !.chunk = chunk]
      PROVE  LossInv'
  <2>1. /\ Ingested' = Ingested /\ Lost' = Lost /\ InStore = {} /\ InStore' = {}
        /\ InHand' = Range(chunk)
    BY <1>1, <1>3 DEF Ingested, Lost, InHand, InStore, TypeOK, WatcherTyped
  <2>2. Few(Skipped(log, LocalState) \ Ingested, Lost)
    BY <1>1 DEF LossInv
  <2>3. /\ DOMAIN chunk = 1..Len(chunk) /\ Len(chunk) \in Nat
        /\ \A i \in DOMAIN chunk : chunk[i] = log.bytes[loc.offset + i]
    <3>1. WorldTyped /\ loc.offset \in Nat
      BY StatesTyped DEF TypeOK
    <3>2. QED
      BY <1>3, <3>1, ChunkFacts
  <2>4. ASSUME NEW x \in Skipped(log, state'), x \notin Range(chunk)
        PROVE  x \in Skipped(log, LocalState)
    <3>1. PICK n \in 1..Len(log.bytes) :
             n <= loc.offset + Len(chunk) /\ loc.inode = log.inode /\ x = log.bytes[n]
      BY <1>3, <2>4 DEF Skipped
    <3>2. CASE n <= loc.offset
      BY <3>1, <3>2 DEF Skipped, LocalState
    <3>3. CASE ~(n <= loc.offset)
      <4>1. n \in Int /\ loc.offset \in Nat /\ Len(chunk) \in Nat
        BY <2>3, <3>1, StatesTyped
      <4>2. n - loc.offset \in 1..Len(chunk) /\ loc.offset + (n - loc.offset) = n
        BY <3>1, <3>3, <4>1
      <4>3. x = chunk[n - loc.offset]
        BY <2>3, <3>1, <4>2
      <4>4. QED
        BY <2>3, <2>4, <4>2, <4>3 DEF Range
    <3>4. QED
      BY <3>2, <3>3
  <2>5. Few((Skipped(log, state') \ Ingested) \ Range(chunk), Lost)
    <3>1. (Skipped(log, state') \ Ingested) \ Range(chunk) \subseteq Skipped(log, LocalState) \ Ingested
      BY <2>4
    <3>2. QED
      BY <2>2, <3>1, FewSubset, StatesTyped
  <2>6. QED
    BY <1>1, <1>3, <2>1, <2>5 DEF LossInv, Skipped
<1>4. QED
  BY <1>2, <1>3 DEF Read, Goto

LEMMA LossSave ==
  ASSUME TypeOK, LossInv, Erase \/ Save
  PROVE  LossInv'
<1>1. UNCHANGED <<log, state, records, written, crashes, loc>>
  BY DEF Erase, Save, world, items, faults, Goto
<1>2. Ingested' = Ingested /\ Lost' = Lost
  BY <1>1 DEF Ingested, Lost
<1>3. CASE Erase
  <2>1. pc = "erase" /\ pc' = "save" /\ saved' = Torn
    BY <1>3 DEF Erase, Goto
  <2>2. InHand' = InHand /\ InStore' = {}
    BY <1>1, <2>1 DEF InHand, InStore
  <2>3. Skipped(log, saved') = {}
    BY <2>1, SkippedNone, StatesTyped DEF Torn
  <2>4. Few((Skipped(log, saved') \ Ingested) \ {}, Lost)
    BY <2>3, FewNone, StatesTyped
  <2>5. QED
    BY <1>1, <1>2, <2>1, <2>2, <2>4 DEF LossInv, Skipped
<1>4. CASE Save
  <2>1. pc = "save" /\ saved' = state /\ pc' = IF loc.chunk = << >> THEN "audit" ELSE "record"
    BY <1>4 DEF Save, Goto
  <2>2. InHand' = InHand /\ InStore' = InHand
    BY <1>1, <2>1 DEF InHand, InStore, Range
  <2>3. QED
    BY <1>1, <1>2, <2>1, <2>2 DEF LossInv, Skipped
<1>5. QED
  BY <1>3, <1>4

LEMMA LossStore ==
  ASSUME TypeOK, Stored, ChunkInv, LossInv, Register \/ StoreContent \/ FillContent
  PROVE  LossInv'
<1>1. UNCHANGED <<log, state, saved, crashes, loc>>
  BY DEF Register, StoreContent, FillContent, world, faults, Goto
<1>2. Lost' = Lost
  BY <1>1 DEF Lost
<1>3. CASE Register \/ StoreContent
  <2>1. /\ pc \in {"record", "content"} /\ pc' \in {"content", "fill"} /\ written' = written
        /\ records' = Append(records, loc.chunk) \/ records' = records
    BY <1>3 DEF Register, StoreContent, Goto
  <2>2. records \in Seq(Seq(Units)) /\ written \subseteq DOMAIN records
    BY DEF TypeOK, EvidenceTyped
  <2>3. \A i \in DOMAIN records : records'[i] = records[i]
    <3>1. loc.chunk \in Seq(Units)
      BY DEF TypeOK, WatcherTyped
    <3>2. \A i \in DOMAIN records : Append(records, loc.chunk)[i] = records[i]
      BY <2>2, <3>1
    <3>3. QED
      BY <2>1, <3>2
  <2>4. Ingested' = Ingested
    BY <2>1, <2>2, <2>3 DEF Ingested
  <2>5. InHand' = InHand /\ InStore' = InStore
    BY <1>1, <2>1 DEF InHand, InStore
  <2>6. QED
    BY <1>1, <1>2, <2>1, <2>4, <2>5 DEF LossInv, Skipped
<1>4. CASE FillContent
  <2>1. pc = "fill" /\ pc' = "audit" /\ records' = records /\ written' = written \cup {Len(records)}
    BY <1>4 DEF FillContent, Goto
  <2>2. Ingested \cup Range(loc.chunk) \subseteq Ingested'
    BY <2>1 DEF Ingested, ChunkInv
  <2>3. InHand = Range(loc.chunk) /\ InStore = Range(loc.chunk) /\ InHand' = {} /\ InStore' = {}
    BY <2>1 DEF InHand, InStore
  <2>4. /\ Few((Skipped(log, state) \ Ingested') \ {}, Lost)
        /\ Few((Skipped(log, saved) \ Ingested') \ {}, Lost)
    BY <2>2, <2>3, FewSubset, StatesTyped DEF LossInv
  <2>5. QED
    BY <1>1, <1>2, <2>1, <2>3, <2>4 DEF LossInv, Skipped
<1>5. QED
  BY <1>3, <1>4

LEMMA LossStep ==
  ASSUME TypeOK, Stored, ChunkInv, StatesBehind, LossInv, [Next]_vars, ~Truncate
  PROVE  LossInv'
<1>1. CASE Kill
  <2>1. Down /\ UNCHANGED <<log, saved, records, written>> /\ crashes' = crashes + 1
    BY <1>1 DEF Kill, world, items
  <2>2. QED
    BY <2>1, LossDown
<1>2. CASE (Scan \/ Detect) /\ Down
  <2>1. UNCHANGED <<log, saved, records, written, crashes>> /\ InStore = {}
    BY <1>2 DEF Scan, Detect, world, storage, items, faults, InStore
  <2>2. QED
    BY <1>2, <2>1, LossDown
<1>3. CASE Snapshot \/ StoreSnapshot \/ ((Scan \/ Detect) /\ ~Down)
  <2>1. /\ UNCHANGED <<log, state, saved, records, written, crashes>>
        /\ pc \in {"idle", "snapshot", "scan", "detect"} /\ pc' \in {"snapshot", "scan", "stat", "idle"}
    BY <1>3 DEF Snapshot, StoreSnapshot, Scan, Detect, Goto, world, storage, items, faults
  <2>2. QED
    BY <2>1, LossQuiet
<1>4. CASE AuditIngest
  <2>1. /\ UNCHANGED <<log, state, saved, records, written, crashes>>
        /\ pc = "audit" /\ pc' = "detect"
    BY <1>4 DEF AuditIngest, Goto, world, faults
  <2>2. QED
    BY <2>1, LossQuiet
<1>5. CASE UNCHANGED vars
  BY <1>5 DEF vars, LossInv, Skipped, Ingested, InHand, InStore, Lost, LocalState
<1>6. QED
  BY <1>1, <1>2, <1>3, <1>4, <1>5, LossInWorld, LossStart, LossStat, LossRead, LossSave, LossStore DEF Next, Cycle

LEMMA Untruncated ==
  ASSUME TypeOK, [Next]_vars, truncations' = 0
  PROVE  truncations = 0 /\ ~Truncate
<1>1. truncations \in Nat
  BY DEF TypeOK, WorldTyped
<1>2. ~Truncate
  BY <1>1 DEF Truncate
<1>3. truncations' = truncations
  BY <1>2 DEF Next, Write, MoveAside, Create, Start, Kill, Cycle, Snapshot, StoreSnapshot, Scan, Stat, Read, Erase,
     Save, Register, StoreContent, FillContent, AuditIngest, Detect, world, vars
<1>4. QED
  BY <1>2, <1>3

(* tail.py: "so no lines are missed": in a log that was not truncated, the *)
(* watcher passes over text it did not ingest only by being killed, and    *)
(* one kill costs it one chunk.                                            *)
THEOREM OneChunkAKill == Spec => []OneChunkPerCrash
<1> DEFINE Inv == TypeOK /\ Stored
           LossesFew == ChunkInv /\ (truncations = 0 => StatesBehind /\ LossInv)
<1>1. Init => LossesFew
  <2> SUFFICES ASSUME Init
               PROVE  LossesFew
    OBVIOUS
  <2>1. ChunkInv
    BY IntakeAssumption DEF Init, ChunkInv, NoLocals
  <2>2. StatesBehind
    BY DEF Init, StatesBehind, Behind, NoState, NoLocals, LocalState
  <2>3. Skipped(log, state) = {} /\ Skipped(log, saved) = {}
    BY SkippedNone DEF Init, NoState
  <2>4. Lost \in Nat
    BY IntakeAssumption DEF Init, Lost
  <2>5. LossInv
    BY <2>3, <2>4, FewNone DEF Init, LossInv
  <2>6. QED
    BY <2>1, <2>2, <2>5
<1>2. Inv /\ LossesFew /\ [Next]_vars => LossesFew'
  BY ChunkStep, Untruncated, BehindStep, LossStep
<1>3. Inv /\ LossesFew => OneChunkPerCrash
  <2> SUFFICES ASSUME LossInv, pc = "idle"
               PROVE  Cardinality(Passed) <= Lost
    BY DEF OneChunkPerCrash, Lost
  <2>1. Few((Skipped(log, state) \ Ingested) \ {}, Lost)
    BY DEF LossInv, InHand
  <2>2. Passed = Skipped(log, state) \ Ingested
    BY DEF Passed, Skipped
  <2>3. QED
    BY <2>1, <2>2 DEF Few
<1>4. QED
  BY <1>1, <1>2, <1>3, IntakeInvariant, PTL DEF Spec

-----------------------------------------------------------------------------
(* One kill spoils one item.                                               *)

SpoiltInv == Few(Spoilt, crashes)

LEMMA SpoiltStep ==
  ASSUME TypeOK, Stored, SpoiltInv, [Next]_vars
  PROVE  SpoiltInv'
<1>1. /\ crashes \in Nat /\ records \in Seq(Seq(Units)) /\ DOMAIN records = 1..Len(records)
      /\ Len(records) \in Nat /\ loc.chunk \in Seq(Units)
  BY DEF TypeOK, WorldTyped, EvidenceTyped, WatcherTyped
<1>2. ASSUME Spoilt' \subseteq Spoilt, crashes' = crashes
      PROVE  SpoiltInv'
  BY <1>1, <1>2, FewSubset DEF SpoiltInv
\* An item that is not being stored is not spoilt by going on.
<1>3. ASSUME UNCHANGED <<records, written, crashes>>,
             pc \in {"content", "fill"} => pc' \in {"content", "fill"}
      PROVE  SpoiltInv'
  BY <1>2, <1>3 DEF Spoilt
<1>4. CASE Kill
  <2>1. UNCHANGED <<records, written>> /\ crashes' = crashes + 1
    BY <1>4 DEF Kill, items
  <2>2. Spoilt' \ {Len(records)} \subseteq Spoilt
    BY <2>1 DEF Spoilt
  <2>3. Few({Len(records)}, 1)
    <3>1. PICK n : n = Len(records)
      OBVIOUS
    <3>2. IsFiniteSet({n}) /\ Cardinality({n}) = 1
      BY FS_Singleton
    <3>3. QED
      BY <3>1, <3>2 DEF Few
  <2>4. Few(Spoilt' \ {Len(records)}, crashes)
    BY <1>1, <2>2, FewSubset DEF SpoiltInv
  <2>5. PICK S : S = Spoilt'
    OBVIOUS
  <2>6. Few(S, crashes + 1)
    BY <1>1, <2>3, <2>4, <2>5, FewMore
  <2>7. QED
    BY <2>1, <2>5, <2>6 DEF SpoiltInv
<1>5. CASE Register
  <2>1. /\ records' = Append(records, loc.chunk) /\ pc = "record" /\ pc' = "content"
        /\ UNCHANGED <<written, crashes>>
    BY <1>5 DEF Register, Goto, faults
  <2>2. Len(records') = Len(records) + 1 /\ DOMAIN records' = 1..(Len(records) + 1)
    BY <1>1, <2>1
  <2>3. Spoilt' \subseteq Spoilt
    BY <1>1, <2>1, <2>2 DEF Spoilt
  <2>4. QED
    BY <1>2, <2>1, <2>3
<1>6. CASE FillContent
  <2>1. /\ UNCHANGED <<records, crashes>> /\ written' = written \cup {Len(records)}
    BY <1>6 DEF FillContent, faults
  <2>2. Spoilt' \subseteq Spoilt
    BY <2>1 DEF Spoilt
  <2>3. QED
    BY <1>2, <2>1, <2>2
<1>7. CASE Write \/ MoveAside \/ Create \/ Truncate \/ UNCHANGED vars
  BY <1>3, <1>7 DEF Write, MoveAside, Create, Truncate, vars, storage, items, faults
<1>8. CASE Start \/ Snapshot \/ StoreSnapshot \/ Scan \/ Stat \/ Detect
  BY <1>3, <1>8 DEF Start, Snapshot, StoreSnapshot, Scan, Stat, Detect, storage, items, faults
<1>9. CASE Read \/ Erase \/ Save \/ StoreContent \/ AuditIngest
  BY <1>3, <1>9 DEF Read, Erase, Save, StoreContent, AuditIngest, Goto, storage, items, faults
<1>10. QED
  BY <1>4, <1>5, <1>6, <1>7, <1>8, <1>9 DEF Next, Cycle

(* A kill spoils one item at most: the one whose record it found written   *)
(* and whose content it found missing, empty or half written.  One that    *)
(* has no file is the newest, and stays it: load_evidence at the start of  *)
(* a cycle raises before another item is registered.                       *)
THEOREM OneItemAKill == Spec => []KillsSpoilOneItem
<1>1. Init => SpoiltInv
  <2> SUFFICES ASSUME Init
               PROVE  SpoiltInv
    OBVIOUS
  <2>1. Spoilt = {} /\ crashes = 0
    BY DEF Init, Spoilt
  <2>2. QED
    BY <2>1, FewNone DEF SpoiltInv
<1>2. TypeOK /\ Stored /\ SpoiltInv => KillsSpoilOneItem
  BY DEF Stored, SpoiltInv, Few, KillsSpoilOneItem
<1>3. QED
  BY <1>1, <1>2, SpoiltStep, IntakeInvariant, PTL DEF Spec
=============================================================================
