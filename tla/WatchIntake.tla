---------------------------- MODULE WatchIntake -----------------------------
(***************************************************************************)
(* How `virgent watch` follows a growing log: SecurityAgent.ingest with    *)
(* the tail ingestor (engine.py, ingest/tail.py) into the provenance store *)
(* (provenance.py), and the load of all evidence that starts and ends      *)
(* every monitor_cycle.  Other programs append to the log, rotate it and   *)
(* truncate it at any moment; the watcher is killed at any moment and      *)
(* started again on what it left on disk.                                  *)
(*                                                                         *)
(* A unit of text is the number of its writing, so a unit that appears in  *)
(* two items of evidence was ingested twice.  A file keeps its inode; a    *)
(* rotation moves the file aside and creates one with a new inode.  No     *)
(* chunk is blank: collect() yields no item for one, which loses nothing.  *)
(* The snapshots of the host that a cycle also registers are one item, of  *)
(* which only matters whether its content is there.                        *)
(***************************************************************************)
EXTENDS Integers, Sequences, FiniteSets, Functions

CONSTANTS MaxChunk,       \* max_chunk_bytes
          MaxUnits,       \* bound: units written to the log
          MaxRotations,   \* bound: rotations
          MaxTruncations, \* bound: truncations in place
          MaxCrashes      \* bound: times the watcher is killed

ASSUME IntakeAssumption ==
  /\ MaxChunk \in Nat \ {0}
  /\ MaxUnits \in Nat /\ MaxRotations \in Nat /\ MaxTruncations \in Nat /\ MaxCrashes \in Nat

VARIABLES
  log,         \* the file at the log's path, if there is one: inode and bytes
  units,       \* number of units written so far
  truncations, \* number of truncations
  saved,       \* tail_state.json: a state, or Torn
  state,       \* TailIngestor._state for this log
  pc, loc,     \* where the watcher is, the locals of collect()
  records,     \* provenance.jsonl: the text of each item of evidence
  contents,    \* the items whose file evidence/<id> is there to be read
  written,     \* the items whose file holds the whole of their text
  audited,     \* the items named by an audit record
  snapshots,   \* "holed": the content of some host snapshot is not stored
  crashes,
  mishaps      \* history: "raced", the log was rotated between stat() and
               \* open(); "torn", a kill fell into the writing of tail_state.json

vars == <<log, units, truncations, saved, state, pc, loc, records, contents,
          written, audited, snapshots, crashes, mishaps>>

world   == <<log, units, truncations>>
items   == <<records, contents, written, audited>>
storage == <<saved, items, snapshots>>
faults  == <<crashes, mishaps>>

NoState == [offset |-> 0, inode |-> 0]   \* no entry: inode None
Torn    == [offset |-> -1, inode |-> -1] \* the file is empty: JSONDecodeError

NoLocals == [offset |-> 0, inode |-> 0, chunk |-> << >>]

Locations == {"down", "idle", "snapshot", "scan", "stat", "read", "erase", "save", "record", "content", "fill", "audit", "detect"}

Init ==
  /\ log = [inode |-> 1, bytes |-> << >>, at |-> "path"]
  /\ units = 0 /\ truncations = 0
  /\ saved = NoState /\ state = NoState
  /\ pc = "down" /\ loc = NoLocals
  /\ records = << >> /\ contents = {} /\ written = {} /\ audited = {} /\ snapshots = "whole"
  /\ crashes = 0 /\ mishaps = {}

-----------------------------------------------------------------------------
(* The programs that write, rotate and truncate the log. *)

Write ==
  /\ log.at = "path"
  /\ units < MaxUnits
  /\ units' = units + 1
  /\ log' = [log EXCEPT !.bytes = Append(@, units + 1)]
  /\ UNCHANGED <<truncations, state, pc, loc, storage, faults>>

\* A rotation: between its two steps there is no file at the path.
MoveAside ==
  /\ log.at = "path" /\ log.inode <= MaxRotations
  /\ log' = [inode |-> log.inode + 1, bytes |-> << >>, at |-> "gone"]
  /\ mishaps' = IF pc = "read" THEN mishaps \cup {"raced"} ELSE mishaps
  /\ UNCHANGED <<units, truncations, state, pc, loc, storage, crashes>>

Create ==
  /\ log.at = "gone"
  /\ log' = [log EXCEPT !.at = "path"]
  /\ UNCHANGED <<units, truncations, state, pc, loc, storage, faults>>

Truncate ==
  /\ log.at = "path" /\ truncations < MaxTruncations
  /\ truncations' = truncations + 1
  /\ log' = [log EXCEPT !.bytes = << >>]
  /\ UNCHANGED <<units, state, pc, loc, storage, faults>>

-----------------------------------------------------------------------------
\* TailIngestor.__init__: a state file that does not parse is no state.
Start ==
  /\ pc = "down"
  /\ pc' = "idle"
  /\ state' = IF saved = Torn THEN NoState ELSE saved
  /\ UNCHANGED <<world, loc, storage, faults>>

Down ==
  /\ pc' = "down"
  /\ state' = NoState
  /\ loc' = NoLocals

\* Killed, between two cycles or inside one.  A snapshot killed while it is
\* stored may have its file by then.
Kill ==
  /\ pc # "down"
  /\ crashes < MaxCrashes
  /\ Down
  /\ crashes' = crashes + 1
  /\ mishaps' = IF pc = "save" THEN mishaps \cup {"torn"} ELSE mishaps
  /\ snapshots' \in IF pc = "snapshot" THEN {"holed", snapshots} ELSE {snapshots}
  /\ UNCHANGED <<world, saved, items>>

Goto(l, locals) == pc' = l /\ loc' = locals

\* monitor_tick begins with the snapshots, unless --capability leaves them
\* out: their record is written, then their content.
Snapshot ==
  /\ pc = "idle"
  /\ \/ Goto("snapshot", loc)
     \/ Goto("scan", loc)
  /\ UNCHANGED <<world, state, storage, faults>>

StoreSnapshot ==
  /\ pc = "snapshot"
  /\ Goto("scan", loc)
  /\ UNCHANGED <<world, state, storage, faults>>

\* Mutant: a record without its content is skipped.
ReadableAnyway == contents \subseteq DOMAIN records

\* load_evidence reads the file of every record; a missing one raises, and
\* nothing between it and cmd_watch catches that.  A file that is empty or cut
\* short reads well: nobody compares it with the hash in the record.
Readable == contents = DOMAIN records /\ snapshots = "whole"

\* monitor_tick: the scan of all evidence.
Scan ==
  /\ pc = "scan"
  /\ \/ Readable /\ Goto("stat", loc) /\ UNCHANGED state
     \/ ~Readable /\ Down
  /\ UNCHANGED <<world, storage, faults>>

\* Mutants: a file of the same size counts as shrunk; a rotation is not noticed.
OffsetUnlessGrown(known, file) ==
  IF known.inode \notin {0, file.inode} \/ Len(file.bytes) <= known.offset
  THEN 0 ELSE known.offset

OffsetBySize(known, file) ==
  IF Len(file.bytes) < known.offset THEN 0 ELSE known.offset

\* Rotation (another inode) or truncation (shrunk): from the beginning.
OffsetFor(known, file) ==
  IF known.inode \notin {0, file.inode} \/ Len(file.bytes) < known.offset
  THEN 0 ELSE known.offset

\* collect: stat() the path; with no file nothing happens in this cycle, with
\* nothing new in it only the state is refreshed.
Stat ==
  LET offset == OffsetFor(state, log) IN
  /\ pc = "stat"
  /\ \/ /\ log.at = "gone"
        /\ Goto("audit", NoLocals)
        /\ UNCHANGED state
     \/ /\ log.at = "path" /\ Len(log.bytes) <= offset
        /\ state' = [offset |-> offset, inode |-> log.inode]
        /\ Goto("erase", NoLocals)
     \/ /\ log.at = "path" /\ Len(log.bytes) > offset
        /\ Goto("read", [offset |-> offset, inode |-> log.inode, chunk |-> << >>])
        /\ UNCHANGED state
  /\ UNCHANGED <<world, storage, faults>>

ChunkAt(file, offset) ==
  SubSeq(file.bytes, offset + 1,
         IF Len(file.bytes) <= offset + MaxChunk THEN Len(file.bytes) ELSE offset + MaxChunk)

\* Mutant: the offset becomes the size of the file, not the end of the chunk.
ReadToTheSize ==
  /\ pc = "read"
  /\ \/ log.at = "gone" /\ Goto("audit", NoLocals) /\ UNCHANGED state
     \/ /\ log.at = "path"
        /\ state' = [offset |-> Len(log.bytes), inode |-> loc.inode]
        /\ Goto("erase", [loc EXCEPT !.chunk = ChunkAt(log, loc.offset)])
  /\ UNCHANGED <<world, storage, faults>>

\* collect: open the path, which may be gone or another file by now, and read.
Read ==
  LET chunk == ChunkAt(log, loc.offset) IN
  /\ pc = "read"
  /\ \/ log.at = "gone" /\ Goto("audit", NoLocals) /\ UNCHANGED state
     \/ /\ log.at = "path"
        /\ state' = [offset |-> loc.offset + Len(chunk), inode |-> loc.inode]
        /\ Goto("erase", [loc EXCEPT !.chunk = chunk])
  /\ UNCHANGED <<world, storage, faults>>

\* _save: write_text truncates tail_state.json ...
Erase ==
  /\ pc = "erase"
  /\ saved' = Torn
  /\ Goto("save", loc)
  /\ UNCHANGED <<world, state, items, snapshots, faults>>

\* ... and writes it; an item is yielded only now.
Save ==
  /\ pc = "save"
  /\ saved' = state
  /\ Goto(IF loc.chunk = << >> THEN "audit" ELSE "record", loc)
  /\ UNCHANGED <<world, state, items, snapshots, faults>>

\* Mutant: the content is not stored.
RegisterOnly ==
  /\ pc = "record"
  /\ records' = Append(records, loc.chunk)
  /\ Goto("audit", loc)
  /\ UNCHANGED <<world, state, saved, contents, written, audited, snapshots, faults>>

\* ProvenanceStore.register: the record ...
Register ==
  /\ pc = "record"
  /\ records' = Append(records, loc.chunk)
  /\ Goto("content", loc)
  /\ UNCHANGED <<world, state, saved, contents, written, audited, snapshots, faults>>

\* Mutant: the content is stored under the id of the next record.
StoreUnderNextId ==
  /\ pc = "content"
  /\ contents' = contents \cup {Len(records) + 1}
  /\ Goto("fill", loc)
  /\ UNCHANGED <<world, state, saved, records, written, audited, snapshots, faults>>

\* ... then the content under the record's id: write_text makes an empty file ...
StoreContent ==
  /\ pc = "content"
  /\ contents' = contents \cup {Len(records)}
  /\ Goto("fill", loc)
  /\ UNCHANGED <<world, state, saved, records, written, audited, snapshots, faults>>

\* ... and fills it.  A kill before this leaves some beginning of the text, of
\* which the model keeps none.
FillContent ==
  /\ pc = "fill"
  /\ written' = written \cup {Len(records)}
  /\ Goto("audit", loc)
  /\ UNCHANGED <<world, state, saved, records, contents, audited, snapshots, faults>>

\* ingest: the audit record that names the evidence of this call.
AuditIngest ==
  /\ pc = "audit"
  /\ audited' = audited \cup (IF loc.chunk = << >> THEN {} ELSE {Len(records)})
  /\ Goto("detect", NoLocals)
  /\ UNCHANGED <<world, state, saved, records, contents, written, snapshots, faults>>

\* soc_detect: the cycle ends with the detection over all evidence.
Detect ==
  /\ pc = "detect"
  /\ \/ Readable /\ Goto("idle", loc) /\ UNCHANGED state
     \/ ~Readable /\ Down
  /\ UNCHANGED <<world, storage, faults>>

Cycle ==
  \/ Snapshot \/ StoreSnapshot \/ Scan \/ Stat \/ Read \/ Erase \/ Save
  \/ Register \/ StoreContent \/ FillContent \/ AuditIngest \/ Detect

Next == Write \/ MoveAside \/ Create \/ Truncate \/ Start \/ Kill \/ Cycle

Spec == Init /\ [][Next]_vars

\* `watch` runs for ever, and a service manager starts it again.
FairSpec == Spec /\ WF_vars(Cycle) /\ WF_vars(Start)

-----------------------------------------------------------------------------
Units == 1..units

WorldTyped ==
  /\ log \in [inode : Nat \ {0}, bytes : Seq(Units), at : {"path", "gone"}]
  /\ units \in Nat /\ truncations \in Nat /\ crashes \in Nat
  /\ mishaps \subseteq {"raced", "torn"}

WatcherTyped ==
  /\ saved \in [offset : Nat, inode : Nat] \cup {Torn}
  /\ state \in [offset : Nat, inode : Nat]
  /\ pc \in Locations
  /\ loc \in [offset : Nat, inode : Nat, chunk : Seq(Units)]

EvidenceTyped ==
  /\ records \in Seq(Seq(Units))
  /\ contents \subseteq DOMAIN records /\ written \subseteq contents
  /\ snapshots \in {"whole", "holed"}

TypeOK == WorldTyped /\ WatcherTyped /\ EvidenceTyped

Ingested == UNION {Range(records[i]) : i \in written}

(* A unit of the log is ingested at most once, through rotations,          *)
(* truncations, restarts and kills, unless the log is rotated between      *)
(* stat() and open() or the watcher killed while it writes its offsets.    *)
NothingTwice ==
  mishaps = {} =>
    \A i, j \in DOMAIN records :
      i # j => Range(records[i]) \cap Range(records[j]) = {}

\* Units of the file at the path that the watcher has passed and not ingested.
Passed ==
  IF state.inode # log.inode THEN {}
  ELSE {log.bytes[i] : i \in {n \in 1..Len(log.bytes) : n <= state.offset}} \ Ingested

(* tail.py: "so no lines are missed": in a log that was not truncated, the *)
(* watcher passes over text it did not ingest only by being killed, and    *)
(* one kill costs it one chunk.                                            *)
OneChunkPerCrash ==
  pc = "idle" /\ truncations = 0 => Cardinality(Passed) <= MaxChunk * crashes

(* The evidence an audit record names can be read back and agrees with the *)
(* hash in its record (verify_content), whenever the watcher was killed.   *)
AuditedIsReadable == audited \subseteq written

\* Items that are not just being stored and whose file is missing, empty or
\* cut short.
Spoilt ==
  {i \in DOMAIN records \ written : ~(pc \in {"content", "fill"} /\ i = Len(records))}

(* A kill spoils one item of the log's evidence at most.                   *)
(* One that has no file at all is the newest: it ends every later cycle    *)
(* before the log is read on.  One cut short stops nothing: the watcher    *)
(* reads past it, and only its record's hash tells.                        *)
KillsSpoilOneItem ==
  /\ Cardinality(Spoilt) <= crashes
  /\ \A i \in DOMAIN records \ contents :
       i = Len(records) /\ pc \in {"down", "idle", "snapshot", "scan", "content"}

(* A unit that stays in the log is ingested, however the cycles fall, by a *)
(* watcher that is not killed; a long log takes many of them.              *)
LogIsFollowed ==
  \A u \in 1..MaxUnits :
    (u \in Range(log.bytes))
      ~> (u \in Ingested \/ u \notin Range(log.bytes) \/ crashes > 0 \/ truncations > 0)
=============================================================================
