------------------------------ MODULE AuditLog ------------------------------
(***************************************************************************)
(* AuditLog.record (audit.py) as the operating-system processes that share *)
(* one workdir run it.  Each process keeps the chain's tail in memory      *)
(* (`_seq`, `_head`), read once when it starts; a call of record() is four *)
(* steps: take the next number, build the record on the head it remembers, *)
(* append the line, remember the new head.  A worker is a thread of its    *)
(* process: the CLI and `virgent watch` have one each, `virgent serve` one *)
(* per request (ThreadingHTTPServer), all sharing the process's AuditLog.  *)
(***************************************************************************)
EXTENDS AuditChain

CONSTANTS Procs,       \* processes that open the workdir, over time
          Workers,     \* threads that call record()
          Home,        \* the process a thread belongs to
          HasKey,      \* HasKey[p]: is VIRGENT_AUDIT_KEY in p's environment
          MayFail,     \* TRUE: an append may raise OSError (a full disk)
          MaxCalls,    \* bound: calls of record(), over all processes
          MaxStarts    \* bound: starts of processes

ASSUME LogAssumption ==
  /\ Home \in [Workers -> Procs]
  /\ HasKey \in [Procs -> BOOLEAN]
  /\ MayFail \in BOOLEAN
  /\ MaxCalls \in Nat /\ MaxStarts \in Nat

VARIABLES
  file,      \* audit.jsonl, a sequence of records
  up,        \* up[p]: the process is running
  seq,       \* seq[p]: AuditLog._seq
  head,      \* head[p]: AuditLog._head
  pc,        \* pc[w]: where w is inside record()
  rec,       \* rec[w]: the record w has built
  calls,     \* number of records built: gives each one a body of its own
  starts,    \* number of processes started
  run,       \* history: run[p] is the number of p's current start
  authors,   \* history: authors[i] is the start that wrote file[i]
  faulty,    \* history: the starts in which a write raised
  overlap    \* history: two processes have been running at once

vars == <<file, up, seq, head, pc, rec, calls, starts, run, authors, faulty, overlap>>

NoRecord == [seq |-> 1, prev |-> Genesis, body |-> 1, hash |-> 1, sig |-> NoSig]

Locations == {"idle", "build", "append", "commit"}

Threads(p) == {w \in Workers : Home[w] = p}

Init ==
  /\ file = << >>
  /\ up = [p \in Procs |-> FALSE]
  /\ seq = [p \in Procs |-> 0]
  /\ head = [p \in Procs |-> Genesis]
  /\ pc = [w \in Workers |-> "idle"]
  /\ rec = [w \in Workers |-> NoRecord]
  /\ calls = 0
  /\ starts = 0
  /\ run = [p \in Procs |-> 0]
  /\ authors = << >>
  /\ faulty = {}
  /\ overlap = FALSE

-----------------------------------------------------------------------------
\* AuditLog.__init__: resume the chain from the last line of the file.
Start(p) ==
  /\ ~up[p]
  /\ starts < MaxStarts
  /\ up' = [up EXCEPT ![p] = TRUE]
  /\ seq' = [seq EXCEPT ![p] = LastSeq(file)]
  /\ head' = [head EXCEPT ![p] = HeadOf(file)]
  /\ starts' = starts + 1
  /\ run' = [run EXCEPT ![p] = starts + 1]
  /\ overlap' = (overlap \/ \E q \in Procs : up[q])
  /\ UNCHANGED <<file, pc, rec, calls, authors, faulty>>

\* The process ends, between two calls or killed inside one: memory is gone.
Stop(p) ==
  /\ up[p]
  /\ up' = [up EXCEPT ![p] = FALSE]
  /\ pc' = [w \in Workers |-> IF Home[w] = p THEN "idle" ELSE pc[w]]
  /\ UNCHANGED <<file, seq, head, rec, calls, starts, run, authors, faulty, overlap>>

\* Mutant: the number is not incremented.
TakeSameNumber(w) ==
  /\ up[Home[w]] /\ pc[w] = "idle"
  /\ calls < MaxCalls
  /\ calls' = calls + 1
  /\ pc' = [pc EXCEPT ![w] = "build"]
  /\ rec' = [rec EXCEPT ![w].body = calls + 1]
  /\ UNCHANGED <<file, up, seq, head, starts, run, authors, faulty, overlap>>

\* self._seq += 1
TakeNumber(w) ==
  LET p == Home[w] IN
  /\ up[p] /\ pc[w] = "idle"
  /\ calls < MaxCalls
  /\ seq' = [seq EXCEPT ![p] = @ + 1]
  /\ calls' = calls + 1
  /\ pc' = [pc EXCEPT ![w] = "build"]
  /\ rec' = [rec EXCEPT ![w].body = calls + 1]
  /\ UNCHANGED <<file, up, head, starts, run, authors, faulty, overlap>>

\* The record is built from the process's number and head, hashed and signed.
Build(w) ==
  LET p == Home[w] IN
  /\ pc[w] = "build"
  /\ rec' = [rec EXCEPT ![w] = [seq  |-> seq[p],
                                prev |-> head[p],
                                body |-> @.body,
                                hash |-> @.body,
                                sig  |-> Signature(HasKey[p], @.body)]]
  /\ pc' = [pc EXCEPT ![w] = "append"]
  /\ UNCHANGED <<file, up, seq, head, calls, starts, run, authors, faulty, overlap>>

\* One line, flushed and fsynced.
AppendLine(w) ==
  /\ pc[w] = "append"
  /\ file' = Append(file, rec[w])
  /\ authors' = Append(authors, run[Home[w]])
  /\ pc' = [pc EXCEPT ![w] = "commit"]
  /\ UNCHANGED <<up, seq, head, rec, calls, starts, run, faulty, overlap>>

\* The write raises, before the line is in the file or (fsync) after it:
\* record() ends with the number taken and the head kept, and the process
\* goes on (Api.handle and monitor_cycle catch the exception).
AppendFails(w) ==
  /\ MayFail
  /\ pc[w] = "append"
  /\ \/ UNCHANGED <<file, authors>>
     \/ /\ file' = Append(file, rec[w])
        /\ authors' = Append(authors, run[Home[w]])
  /\ faulty' = faulty \cup {run[Home[w]]}
  /\ pc' = [pc EXCEPT ![w] = "idle"]
  /\ UNCHANGED <<up, seq, head, rec, calls, starts, run, overlap>>

\* Mutant: the head is left where it was.
CommitWithoutHead(w) ==
  /\ pc[w] = "commit"
  /\ pc' = [pc EXCEPT ![w] = "idle"]
  /\ UNCHANGED <<file, up, seq, head, rec, calls, starts, run, authors, faulty, overlap>>

\* self._head = rec["hash"]
Commit(w) ==
  LET p == Home[w] IN
  /\ pc[w] = "commit"
  /\ head' = [head EXCEPT ![p] = rec[w].hash]
  /\ pc' = [pc EXCEPT ![w] = "idle"]
  /\ UNCHANGED <<file, up, seq, rec, calls, starts, run, authors, faulty, overlap>>

Next ==
  \/ \E p \in Procs : Start(p) \/ Stop(p)
  \/ \E w \in Workers :
       TakeNumber(w) \/ Build(w) \/ AppendLine(w) \/ AppendFails(w) \/ Commit(w)

Spec == Init /\ [][Next]_vars

-----------------------------------------------------------------------------
TypeOK ==
  /\ file \in Seq(Record)
  /\ up \in [Procs -> BOOLEAN]
  /\ seq \in [Procs -> Nat]
  /\ head \in [Procs -> Hashes]
  /\ pc \in [Workers -> Locations]
  /\ rec \in [Workers -> Record]
  /\ calls \in Nat /\ starts \in Nat
  /\ run \in [Procs -> Nat]
  /\ authors \in Seq(Nat)
  /\ faulty \subseteq Nat
  /\ overlap \in BOOLEAN

\* One thread per process: every Virgent process but `virgent serve`.
SingleThreaded == \A v, w \in Workers : Home[v] = Home[w] => v = w

(* While single-threaded processes have come one after another and no      *)
(* write failed, the file is an intact chain after every step: processes   *)
(* resume each other's chain, and a process killed inside record() leaves  *)
(* no trace of the call or a complete record.                              *)
ChainResumes == ~overlap /\ faulty = {} => ChainIntact(file)

(* Then verify() of any process accepts what was written so far, if all of *)
(* them hold the key or the verifier does not.                             *)
AlwaysVerifies ==
  \A keyed \in BOOLEAN :
    ~overlap /\ faulty = {} /\ (keyed => \A p \in Procs : HasKey[p]) => VerifyOk(file, keyed)

(* Whatever processes run in parallel, a single-threaded process whose     *)
(* writes succeed breaks the chain only where its record follows another   *)
(* process's: inside a run of records of one start, prev_hash is right.    *)
BreaksOnlyAtHandover ==
  \A i \in 2..Len(file) :
    authors[i] = authors[i - 1] /\ authors[i] \notin faulty
      => file[i].prev = file[i - 1].hash

(* Whatever runs in parallel and whatever writes fail, a single-threaded   *)
(* process never writes a number twice, nor a smaller one later.           *)
OwnNumbersIncrease ==
  \A i, j \in 1..Len(file) :
    i < j /\ authors[i] = authors[j] => file[i].seq < file[j].seq
=============================================================================
