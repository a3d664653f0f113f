--------------------------- MODULE AuditLogProofs ---------------------------
(***************************************************************************)
(* Proofs about AuditLog.record and AuditLog.verify (audit.py): what the   *)
(* processes that share a log leave in it, what the loop of verify()       *)
(* computes for a log of any length, and what it can tell of a log that    *)
(* was damaged.                                                            *)
(***************************************************************************)
EXTENDS AuditLog, AuditDamage, FiniteSetTheorems, SequenceTheorems,
        WellFoundedInduction, TLAPS

Calm == ~overlap /\ faulty = {}

\* What a thread inside record() and its process know of the file.
Knows(w) ==
  LET p == Home[w] IN
  CASE pc[w] = "idle"   -> seq[p] = Len(file) /\ head[p] = HeadOf(file)
    [] pc[w] = "build"  -> seq[p] = Len(file) + 1 /\ head[p] = HeadOf(file)
    [] pc[w] = "append" -> /\ seq[p] = Len(file) + 1 /\ rec[w].seq = Len(file) + 1
                           /\ rec[w].prev = HeadOf(file) /\ rec[w].hash = rec[w].body
    [] pc[w] = "commit" -> /\ seq[p] = Len(file) /\ Len(file) > 0
                           /\ rec[w] = file[Len(file)]
    [] OTHER            -> FALSE

\* Only one process runs, and it and its thread know the end of the chain.
Resumed ==
  /\ ChainIntact(file)
  /\ \A p, q \in Procs : up[p] /\ up[q] => p = q
  /\ \A w \in Workers : up[Home[w]] => Knows(w)

\* Types, and that busy threads are of running processes.
Shape ==
  /\ TypeOK
  /\ \A w \in Workers : /\ rec[w].body \in Bodies
                        /\ pc[w] # "idle" => up[Home[w]]
                        /\ pc[w] = "build" => seq[Home[w]] > 0

LEMMA EndOfChain ==
  ASSUME NEW chain \in Seq(Record), ChainIntact(chain)
  PROVE  /\ LastSeq(chain) = Len(chain)
         /\ HeadOf(chain) \in Hashes
         /\ LastSeq(chain) \in Nat
<1>1. CASE chain = << >>
  BY <1>1 DEF LastSeq, HeadOf, Hashes
<1>2. CASE chain # << >>
  <2>1. Len(chain) \in 1..Len(chain) /\ chain[Len(chain)] \in Record
    BY <1>2
  <2>2. chain[Len(chain)].seq = Len(chain) /\ chain[Len(chain)].hash \in Hashes
    BY <2>1 DEF ChainIntact, Chained, Record, Hashes
  <2>3. QED
    BY <1>2, <2>1, <2>2 DEF LastSeq, HeadOf
<1>3. QED
  BY <1>1, <1>2

LEMMA ChainGrows ==
  ASSUME NEW chain \in Seq(Record), NEW r \in Record, ChainIntact(chain),
         r.seq = Len(chain) + 1, r.prev = HeadOf(chain), r.hash = r.body
  PROVE  ChainIntact(Append(chain, r))
<1> DEFINE longer == Append(chain, r)
<1>1. /\ Len(longer) = Len(chain) + 1
      /\ \A i \in 1..Len(chain) : longer[i] = chain[i]
      /\ longer[Len(chain) + 1] = r
  OBVIOUS
<1>2. ASSUME NEW i \in 1..Len(chain)
      PROVE  Chained(longer, i)
  BY <1>1, <1>2 DEF ChainIntact, Chained, HashBefore
<1>3. Chained(longer, Len(chain) + 1)
  <2>1. HashBefore(longer, Len(chain) + 1) = HeadOf(chain)
    <3>1. CASE Len(chain) = 0
      BY <3>1 DEF HashBefore, HeadOf
    <3>2. CASE Len(chain) # 0
      BY <1>1, <3>2 DEF HashBefore, HeadOf
    <3>3. QED
      BY <3>1, <3>2
  <2>2. QED
    BY <1>1, <2>1 DEF Chained, RecordHash
<1>4. QED
  BY <1>1, <1>2, <1>3 DEF ChainIntact

LEMMA ShapeHolds == Spec => []Shape
<1> USE LogAssumption
<1>1. Init => Shape
  <2>1. NoRecord \in Record /\ NoRecord.body \in Bodies
    BY DEF NoRecord, Record, Hashes, Bodies, Genesis, WrongKey
  <2>2. Genesis \in Hashes
    BY DEF Hashes
  <2> SUFFICES ASSUME Init
                 PROVE  Shape
    OBVIOUS
  <2>4. file \in Seq(Record) /\ authors \in Seq(Nat) /\ faulty \subseteq Nat
    BY DEF Init
  <2>5. /\ rec \in [Workers -> Record] /\ \A w \in Workers : rec[w].body \in Bodies
        /\ head \in [Procs -> Hashes]
    BY <2>1, <2>2 DEF Init
  <2>6. QED
    BY <2>4, <2>5 DEF Init, Shape, TypeOK, Locations
<1>2. Shape /\ [Next]_vars => Shape'
  <2> SUFFICES ASSUME Shape, [Next]_vars
               PROVE  Shape'
    OBVIOUS
  <2> USE DEF Shape, TypeOK, Locations
  <2>1. ASSUME NEW p \in Procs, Start(p)
        PROVE  Shape'
    <3>1. /\ LastSeq(file) \in Nat /\ HeadOf(file) \in Hashes
      <4>1. CASE file = << >>
        BY <4>1 DEF LastSeq, HeadOf, Hashes
      <4>2. CASE file # << >>
        <5>1. file[Len(file)] \in Record
          BY <4>2
        <5>2. QED
          BY <4>2, <5>1 DEF LastSeq, HeadOf, Record, Hashes
      <4>3. QED
        BY <4>1, <4>2
    <3>2. QED
      BY <2>1, <3>1 DEF Start
  <2>2. ASSUME NEW p \in Procs, Stop(p)
        PROVE  Shape'
    BY <2>2 DEF Stop
  <2>3. ASSUME NEW w \in Workers, TakeNumber(w)
        PROVE  Shape'
    <3>1. rec[w] \in Record /\ calls + 1 \in Bodies
      BY DEF Bodies, Genesis, WrongKey
    <3>2. [rec[w] EXCEPT !.body = calls + 1] \in Record
          /\ [rec[w] EXCEPT !.body = calls + 1].body = calls + 1
      BY <3>1 DEF Record
    <3>3. rec' \in [Workers -> Record] /\ \A v \in Workers : rec'[v].body \in Bodies
      BY <2>3, <3>1, <3>2 DEF TakeNumber
    <3>4. /\ seq' \in [Procs -> Nat] /\ pc' \in [Workers -> Locations] /\ calls' \in Nat
          /\ \A p \in Procs : seq'[p] >= seq[p]
          /\ seq'[Home[w]] > 0
      BY <2>3 DEF TakeNumber
    <3>5. \A v \in Workers : pc'[v] = "build" => v = w \/ pc[v] = "build"
      BY <2>3 DEF TakeNumber
    <3>6. QED
      BY <2>3, <3>3, <3>4, <3>5 DEF TakeNumber
  <2>4. ASSUME NEW w \in Workers, Build(w)
        PROVE  Shape'
    <3>1. /\ pc[w] = "build" /\ Home[w] \in Procs /\ seq[Home[w]] \in Nat \ {0}
          /\ head[Home[w]] \in Hashes /\ HasKey[Home[w]] \in BOOLEAN /\ rec[w] \in Record
      BY <2>4 DEF Build
    <3>2. rec[w].body \in Bodies
      OBVIOUS
    <3>3. [seq |-> seq[Home[w]], prev |-> head[Home[w]], body |-> rec[w].body,
           hash |-> rec[w].body, sig |-> Signature(HasKey[Home[w]], rec[w].body)] \in Record
      BY <3>1, <3>2 DEF Record, Signature
    <3>4. QED
      BY <2>4, <3>1, <3>3 DEF Build
  <2>5. ASSUME NEW w \in Workers, AppendLine(w)
        PROVE  Shape'
    BY <2>5 DEF AppendLine
  <2>6. ASSUME NEW w \in Workers, AppendFails(w)
        PROVE  Shape'
    <3>1. Home[w] \in Procs /\ run[Home[w]] \in Nat /\ rec[w] \in Record
      OBVIOUS
    <3>2. faulty' \subseteq Nat
      <4>1. faulty' = faulty \cup {run[Home[w]]}
        BY <2>6 DEF AppendFails
      <4>2. QED
        BY <3>1, <4>1
    <3>3. file' \in Seq(Record) /\ authors' \in Seq(Nat)
      <4>1. CASE UNCHANGED <<file, authors>>
        BY <4>1
      <4>2. CASE /\ file' = Append(file, rec[w])
                 /\ authors' = Append(authors, run[Home[w]])
        BY <3>1, <4>2
      <4>3. QED
        BY <2>6, <4>1, <4>2 DEF AppendFails
    <3>4. /\ pc' \in [Workers -> Locations]
          /\ \A v \in Workers : pc'[v] = "idle" \/ pc'[v] = pc[v]
      BY <2>6 DEF AppendFails
    <3>5. UNCHANGED <<up, seq, head, rec, calls, starts, run, overlap>>
      BY <2>6 DEF AppendFails
    <3>6. QED
      BY <3>2, <3>3, <3>4, <3>5
  <2>7. ASSUME NEW w \in Workers, Commit(w)
        PROVE  Shape'
    <3>1. rec[w].hash \in Hashes
      BY DEF Record, Hashes
    <3>2. QED
      BY <2>7, <3>1 DEF Commit
  <2>8. CASE UNCHANGED vars
    BY <2>8 DEF vars
  <2>9. QED
    BY <2>1, <2>2, <2>3, <2>4, <2>5, <2>6, <2>7, <2>8 DEF Next
<1>3. QED
  BY <1>1, <1>2, PTL DEF Spec

\* The other threads of the log are those of processes that do not run.
LEMMA OneThread ==
  ASSUME SingleThreaded, Shape, Resumed,
         NEW v \in Workers, NEW w \in Workers, up[Home[v]], up[Home[w]]
  PROVE  v = w
  BY LogAssumption DEF Resumed, SingleThreaded

LEMMA ResumedStep ==
  ASSUME SingleThreaded, Shape, Resumed, [Next]_vars, Calm'
  PROVE  Resumed'
<1> USE LogAssumption DEF Shape, TypeOK, Locations
<1>1. ASSUME NEW p \in Procs, Start(p)
      PROVE  Resumed'
  <2>1. \A q \in Procs : ~up[q]
    BY <1>1 DEF Start, Calm
  <2>2. \A w \in Workers : pc[w] = "idle"
    BY <2>1
  <2>3. /\ UNCHANGED <<file, pc>> /\ up' = [up EXCEPT ![p] = TRUE]
        /\ seq' = [seq EXCEPT ![p] = Len(file)]
        /\ head' = [head EXCEPT ![p] = HeadOf(file)]
    BY <1>1, EndOfChain DEF Start, Resumed
  <2>4. \A w \in Workers : up'[Home[w]] => Home[w] = p
    BY <2>1, <2>3
  <2>5. ASSUME NEW w \in Workers, up'[Home[w]]
        PROVE  Knows(w)'
    BY <2>2, <2>3, <2>4, <2>5 DEF Knows, HeadOf
  <2>6. QED
    BY <2>1, <2>3, <2>5 DEF Resumed
<1>2. ASSUME NEW p \in Procs, Stop(p)
      PROVE  Resumed'
  <2>1. /\ UNCHANGED <<file, seq, head, rec>> /\ up' = [up EXCEPT ![p] = FALSE]
        /\ pc' = [w \in Workers |-> IF Home[w] = p THEN "idle" ELSE pc[w]]
    BY <1>2 DEF Stop
  <2>2. ASSUME NEW w \in Workers, up'[Home[w]]
        PROVE  Knows(w)'
    <3>1. Home[w] # p /\ up[Home[w]]
      BY <2>1, <2>2
    <3>2. Knows(w) /\ pc'[w] = pc[w]
      BY <2>1, <3>1 DEF Resumed
    <3>3. QED
      BY <2>1, <3>2 DEF Knows, HeadOf
  <2>3. QED
    BY <2>1, <2>2 DEF Resumed
\* A step of the one thread that is running keeps what it knows.
<1>3. ASSUME NEW w \in Workers, up[Home[w]], UNCHANGED up,
             ChainIntact(file'), Knows(w)'
      PROVE  Resumed'
  <2>1. ASSUME NEW v \in Workers, up'[Home[v]]
        PROVE  Knows(v)'
    <3>1. v = w
      BY <1>3, <2>1, OneThread
    <3>2. QED
      BY <1>3, <3>1
  <2>2. \A p, q \in Procs : up'[p] /\ up'[q] => p = q
    BY <1>3 DEF Resumed
  <2>3. QED
    BY <1>3, <2>1, <2>2 DEF Resumed
<1>4. ASSUME NEW w \in Workers, TakeNumber(w)
      PROVE  Resumed'
  <2>1. up[Home[w]] /\ UNCHANGED <<file, up, head>> /\ pc'[w] = "build"
        /\ seq'[Home[w]] = seq[Home[w]] + 1
    BY <1>4 DEF TakeNumber
  <2>2. seq[Home[w]] = Len(file) /\ head[Home[w]] = HeadOf(file)
    BY <1>4, <2>1 DEF Resumed, Knows, TakeNumber
  <2>3. Knows(w)'
    BY <2>1, <2>2 DEF Knows, HeadOf
  <2>4. QED
    BY <1>3, <2>1, <2>3 DEF Resumed
<1>5. ASSUME NEW w \in Workers, Build(w)
      PROVE  Resumed'
  <2>1. /\ pc[w] = "build" /\ up[Home[w]] /\ UNCHANGED <<file, up, seq, head>>
        /\ pc'[w] = "append"
        /\ rec'[w].seq = seq[Home[w]] /\ rec'[w].prev = head[Home[w]]
        /\ rec'[w].hash = rec'[w].body
    BY <1>5 DEF Build
  <2>2. seq[Home[w]] = Len(file) + 1 /\ head[Home[w]] = HeadOf(file)
    BY <2>1 DEF Resumed, Knows
  <2>3. Knows(w)'
    BY <2>1, <2>2 DEF Knows, HeadOf
  <2>4. QED
    BY <1>3, <2>1, <2>3 DEF Resumed
<1>6. ASSUME NEW w \in Workers, AppendLine(w)
      PROVE  Resumed'
  <2>1. /\ pc[w] = "append" /\ up[Home[w]] /\ UNCHANGED <<up, seq, rec>>
        /\ pc'[w] = "commit" /\ file' = Append(file, rec[w])
    BY <1>6 DEF AppendLine
  <2>2. /\ rec[w].seq = Len(file) + 1 /\ rec[w].prev = HeadOf(file)
        /\ rec[w].hash = rec[w].body /\ seq[Home[w]] = Len(file) + 1
    BY <2>1 DEF Resumed, Knows
  <2>3. ChainIntact(file')
    BY <2>1, <2>2, ChainGrows DEF Resumed
  <2>4. Len(file') = Len(file) + 1 /\ file'[Len(file')] = rec[w]
    BY <2>1
  <2>5. Knows(w)'
    BY <2>1, <2>2, <2>4 DEF Knows
  <2>6. QED
    BY <1>3, <2>1, <2>3, <2>5
<1>7. ASSUME NEW w \in Workers, AppendFails(w)
      PROVE  Resumed'
  BY <1>7 DEF AppendFails, Calm
<1>8. ASSUME NEW w \in Workers, Commit(w)
      PROVE  Resumed'
  <2>1. /\ pc[w] = "commit" /\ up[Home[w]] /\ UNCHANGED <<file, up, seq>>
        /\ pc'[w] = "idle" /\ head'[Home[w]] = rec[w].hash
    BY <1>8 DEF Commit
  <2>2. /\ Len(file) > 0 /\ rec[w] = file[Len(file)] /\ seq[Home[w]] = Len(file)
    BY <2>1 DEF Resumed, Knows
  <2>3. Knows(w)'
    BY <2>1, <2>2 DEF Knows, HeadOf
  <2>4. QED
    BY <1>3, <2>1, <2>3 DEF Resumed
<1>9. CASE UNCHANGED vars
  BY <1>9 DEF vars, Resumed, Knows, HeadOf
<1>10. QED
  BY <1>1, <1>2, <1>4, <1>5, <1>6, <1>7, <1>8, <1>9 DEF Next

(* The file is an intact chain after every step of single-threaded         *)
(* processes, as long as they came one after another and no write failed.  *)
THEOREM ChainIsResumed ==
  ASSUME SingleThreaded
  PROVE  Spec => []ChainResumes
<1>1. Init => (Calm => Resumed)
  <2> SUFFICES ASSUME Init
               PROVE  Resumed
    OBVIOUS
  <2>1. file = << >> /\ \A p \in Procs : ~up[p]
    BY DEF Init
  <2>2. ChainIntact(file)
    BY <2>1 DEF ChainIntact
  <2>3. QED
    BY <2>1, <2>2, LogAssumption DEF Resumed
<1>2. Shape /\ (Calm => Resumed) /\ [Next]_vars => (Calm => Resumed)'
  <2> SUFFICES ASSUME Shape, Calm => Resumed, [Next]_vars, Calm'
               PROVE  Resumed'
    OBVIOUS
  <2>1. Calm
    <3>1. ASSUME NEW p \in Procs, Start(p)
          PROVE  Calm
      BY <3>1 DEF Calm, Start
    <3>2. ASSUME UNCHANGED <<overlap, faulty>>
          PROVE  Calm
      BY <3>2 DEF Calm
    <3>3. ASSUME NEW p \in Procs, Stop(p)
          PROVE  Calm
      BY <3>2, <3>3 DEF Stop
    <3>4. ASSUME NEW w \in Workers, TakeNumber(w) \/ Build(w) \/ AppendLine(w) \/ Commit(w)
          PROVE  Calm
      BY <3>2, <3>4 DEF TakeNumber, Build, AppendLine, Commit
    <3>5. ASSUME NEW w \in Workers, AppendFails(w)
          PROVE  Calm
      BY <3>5 DEF Calm, AppendFails
    <3>6. CASE UNCHANGED vars
      BY <3>2, <3>6 DEF vars
    <3>7. QED
      BY <3>1, <3>3, <3>4, <3>5, <3>6 DEF Next
  <2>2. QED
    BY <2>1, ResumedStep
<1>3. (Calm => Resumed) => ChainResumes
  BY DEF Calm, Resumed, ChainResumes
<1>4. QED
  BY <1>1, <1>2, <1>3, ShapeHolds, PTL DEF Spec

(* Every variable keeps its type: no record is numbered 0 or unsealed.     *)
THEOREM LogTyped == Spec => []TypeOK
<1>1. Shape => TypeOK
  BY DEF Shape
<1>2. QED
  BY <1>1, ShapeHolds, PTL

-----------------------------------------------------------------------------
(* Processes in parallel and writes that fail: what a start can say of the *)
(* records it wrote itself.                                                *)

\* Starts have numbers of their own, and a record bears its writer's.
OwnRuns ==
  /\ Len(authors) = Len(file)
  /\ \A p \in Procs : run[p] <= starts
  /\ \A i \in 1..Len(file) : authors[i] <= starts
  /\ \A p, q \in Procs : up[p] /\ up[q] /\ run[p] = run[q] => p = q

\* The records of w's process are numbered up to its number, and below the
\* number w has taken and not yet written.
NumberedBelow(w) ==
  LET p == Home[w] IN
  \A i \in 1..Len(file) :
    authors[i] = run[p] =>
      /\ file[i].seq <= seq[p]
      /\ pc[w] \in {"build", "append"} => file[i].seq < seq[p]

NumbersAhead ==
  /\ OwnNumbersIncrease
  /\ \A w \in Workers :
       /\ up[Home[w]] => NumberedBelow(w)
       /\ pc[w] = "append" => rec[w].seq = seq[Home[w]]

\* While the file's last record is of w's process, and no write of that start
\* has raised, the process or the record in w's hands chains to it.
FollowsOwn(w) ==
  LET p == Home[w]
      n == Len(file) IN
  n > 0 /\ authors[n] = run[p] /\ run[p] \notin faulty =>
    /\ pc[w] \in {"idle", "build"} => head[p] = file[n].hash
    /\ pc[w] = "append" => rec[w].prev = file[n].hash
    /\ pc[w] = "commit" => rec[w].hash = file[n].hash

OwnTails ==
  /\ BreaksOnlyAtHandover
  /\ \A w \in Workers : up[Home[w]] => FollowsOwn(w)

\* What the steps of record() leave of the runs: lines are only appended, by
\* a process that runs, and its start is among the known ones.
LEMMA OwnRunsStep ==
  ASSUME Shape, OwnRuns, [Next]_vars
  PROVE  OwnRuns'
<1> USE LogAssumption DEF Shape, TypeOK, Locations
<1>1. ASSUME NEW p \in Procs, Start(p)
      PROVE  OwnRuns'
  <2>1. /\ UNCHANGED <<file, authors>> /\ up' = [up EXCEPT ![p] = TRUE]
        /\ starts' = starts + 1 /\ run' = [run EXCEPT ![p] = starts + 1]
    BY <1>1 DEF Start
  <2>2. \A q \in Procs : run'[q] <= starts' /\ (q # p => run'[q] <= starts)
    BY <2>1 DEF OwnRuns
  <2>3. \A i \in 1..Len(file') : authors'[i] <= starts'
    BY <2>1 DEF OwnRuns
  <2>4. \A q, r \in Procs : up'[q] /\ up'[r] /\ run'[q] = run'[r] => q = r
    BY <2>1, <2>2 DEF OwnRuns
  <2>5. QED
    BY <2>1, <2>2, <2>3, <2>4 DEF OwnRuns
<1>2. ASSUME UNCHANGED <<file, authors, run, starts>>,
             \A p \in Procs : up'[p] => up[p]
      PROVE  OwnRuns'
  BY <1>2 DEF OwnRuns
<1>3. ASSUME NEW w \in Workers, UNCHANGED <<up, run, starts>>,
             file' = Append(file, rec[w]), authors' = Append(authors, run[Home[w]])
      PROVE  OwnRuns'
  <2>1. Len(authors') = Len(file')
    BY <1>3 DEF OwnRuns
  <2>2. \A i \in 1..Len(file') : authors'[i] <= starts'
    BY <1>3 DEF OwnRuns
  <2>3. QED
    BY <1>3, <2>1, <2>2 DEF OwnRuns
<1>4. ASSUME NEW p \in Procs, Stop(p)
      PROVE  OwnRuns'
  BY <1>2, <1>4 DEF Stop
<1>5. ASSUME NEW w \in Workers, TakeNumber(w) \/ Build(w) \/ Commit(w)
      PROVE  OwnRuns'
  BY <1>2, <1>5 DEF TakeNumber, Build, Commit
<1>6. ASSUME NEW w \in Workers, AppendLine(w)
      PROVE  OwnRuns'
  BY <1>3, <1>6 DEF AppendLine
<1>7. ASSUME NEW w \in Workers, AppendFails(w)
      PROVE  OwnRuns'
  BY <1>2, <1>3, <1>7 DEF AppendFails
<1>8. CASE UNCHANGED vars
  BY <1>2, <1>8 DEF vars
<1>9. QED
  BY <1>1, <1>4, <1>5, <1>6, <1>7, <1>8 DEF Next

LEMMA OwnRunsHold == Spec => []OwnRuns
<1>1. Init => OwnRuns
  BY LogAssumption DEF Init, OwnRuns
<1>2. QED
  BY <1>1, OwnRunsStep, ShapeHolds, PTL DEF Spec

\* A thread of another running process is of another start.
LEMMA OtherRun ==
  ASSUME SingleThreaded, Shape, OwnRuns,
         NEW v \in Workers, NEW w \in Workers, v # w, up[Home[v]], up[Home[w]]
  PROVE  run[Home[v]] # run[Home[w]] /\ Home[v] # Home[w]
  BY LogAssumption DEF OwnRuns, SingleThreaded

LEMMA NumbersAheadStep ==
  ASSUME SingleThreaded, Shape, OwnRuns, NumbersAhead, [Next]_vars
  PROVE  NumbersAhead'
<1> USE LogAssumption DEF Shape, TypeOK, Locations
<1>1. ASSUME NEW p \in Procs, Start(p)
      PROVE  NumbersAhead'
  <2>1. /\ UNCHANGED <<file, authors, pc, rec>> /\ up' = [up EXCEPT ![p] = TRUE]
        /\ run' = [run EXCEPT ![p] = starts + 1] /\ ~up[p]
        /\ \A q \in Procs : q # p => seq'[q] = seq[q]
    BY <1>1 DEF Start
  <2>2. \A i \in 1..Len(file) : authors[i] # starts + 1
    BY DEF OwnRuns
  <2>3. ASSUME NEW w \in Workers, up'[Home[w]]
        PROVE  NumberedBelow(w)'
    <3>1. CASE Home[w] = p
      BY <2>1, <2>2, <3>1 DEF NumberedBelow
    <3>2. CASE Home[w] # p
      BY <2>1, <2>3, <3>2 DEF NumbersAhead, NumberedBelow
    <3>3. QED
      BY <3>1, <3>2
  <2>4. \A w \in Workers : pc'[w] = "append" => rec'[w].seq = seq'[Home[w]]
    BY <2>1 DEF NumbersAhead
  <2>5. QED
    BY <2>1, <2>3, <2>4 DEF NumbersAhead, OwnNumbersIncrease
<1>2. ASSUME NEW p \in Procs, Stop(p)
      PROVE  NumbersAhead'
  <2>1. /\ UNCHANGED <<file, authors, rec, seq, run>> /\ up' = [up EXCEPT ![p] = FALSE]
        /\ pc' = [w \in Workers |-> IF Home[w] = p THEN "idle" ELSE pc[w]]
    BY <1>2 DEF Stop
  <2>2. ASSUME NEW w \in Workers, up'[Home[w]]
        PROVE  NumberedBelow(w)'
    <3>1. up[Home[w]] /\ pc'[w] = pc[w]
      BY <2>1, <2>2
    <3>2. QED
      BY <2>1, <3>1 DEF NumbersAhead, NumberedBelow
  <2>3. QED
    BY <2>1, <2>2 DEF NumbersAhead, OwnNumbersIncrease
\* A step of thread w that writes nothing disturbs no other thread.
<1>3. ASSUME NEW w \in Workers, up[Home[w]], UNCHANGED <<file, authors, run, up>>,
             \A v \in Workers : v # w => pc'[v] = pc[v] /\ rec'[v] = rec[v],
             \A q \in Procs : q # Home[w] => seq'[q] = seq[q],
             NumberedBelow(w)', pc'[w] = "append" => rec'[w].seq = seq'[Home[w]]
      PROVE  NumbersAhead'
  <2>1. ASSUME NEW v \in Workers, v # w, up'[Home[v]]
        PROVE  NumberedBelow(v)'
    BY <1>3, <2>1, OtherRun DEF NumbersAhead, NumberedBelow
  <2>2. ASSUME NEW v \in Workers, v # w, pc'[v] = "append"
        PROVE  rec'[v].seq = seq'[Home[v]]
    BY <1>3, <2>2, OtherRun DEF NumbersAhead
  <2>3. QED
    BY <1>3, <2>1, <2>2 DEF NumbersAhead, OwnNumbersIncrease
<1>4. ASSUME NEW w \in Workers, TakeNumber(w)
      PROVE  NumbersAhead'
  <2>1. /\ up[Home[w]] /\ UNCHANGED <<file, authors, run, up>>
        /\ pc' = [pc EXCEPT ![w] = "build"]
        /\ seq' = [seq EXCEPT ![Home[w]] = @ + 1]
        /\ \A v \in Workers : v # w => rec'[v] = rec[v]
    BY <1>4 DEF TakeNumber
  <2>2. NumberedBelow(w)'
    <3>1. Home[w] \in Procs /\ seq[Home[w]] \in Nat /\ seq'[Home[w]] = seq[Home[w]] + 1
      BY <2>1
    <3>2. ASSUME NEW i \in 1..Len(file), authors[i] = run[Home[w]]
          PROVE  file[i].seq <= seq'[Home[w]] /\ file[i].seq < seq'[Home[w]]
      <4>1. file[i].seq <= seq[Home[w]]
        BY <2>1, <3>2 DEF NumbersAhead, NumberedBelow
      <4>2. file[i] \in Record
        OBVIOUS
      <4>3. file[i].seq \in Nat
        BY <4>2 DEF Record
      <4> HIDE DEF Shape, TypeOK, Locations
      <4>4. QED
        BY <3>1, <4>1, <4>3
    <3>3. QED
      BY <2>1, <3>2 DEF NumberedBelow
  <2>3. QED
    BY <1>3, <2>1, <2>2
<1>5. ASSUME NEW w \in Workers, Build(w)
      PROVE  NumbersAhead'
  <2>1. /\ pc[w] = "build" /\ up[Home[w]] /\ UNCHANGED <<file, authors, run, up, seq>>
        /\ pc' = [pc EXCEPT ![w] = "append"] /\ rec'[w].seq = seq[Home[w]]
        /\ \A v \in Workers : v # w => rec'[v] = rec[v]
    BY <1>5 DEF Build
  <2>2. NumberedBelow(w)'
    BY <2>1 DEF NumbersAhead, NumberedBelow
  <2>3. QED
    BY <1>3, <2>1, <2>2
\* The line that w writes bears the number it took.
<1>6. ASSUME NEW w \in Workers, pc[w] = "append", UNCHANGED <<run, up, seq, rec>>,
             file' = Append(file, rec[w]), authors' = Append(authors, run[Home[w]]),
             pc'[w] \in {"idle", "commit"}, \A v \in Workers : v # w => pc'[v] = pc[v]
      PROVE  NumbersAhead'
  <2> DEFINE n == Len(file)
  <2>1. /\ up[Home[w]] /\ rec[w].seq = seq[Home[w]] /\ rec[w] \in Record
        /\ NumberedBelow(w)
    BY <1>6 DEF NumbersAhead
  <2>2. /\ Len(file') = n + 1 /\ n \in Nat /\ Len(authors) = n
        /\ file'[n + 1] = rec[w] /\ authors'[n + 1] = run[Home[w]]
        /\ \A i \in 1..n : file'[i] = file[i] /\ authors'[i] = authors[i]
    BY <1>6, <2>1 DEF OwnRuns
  <2>3. OwnNumbersIncrease'
    <3>1. ASSUME NEW i \in 1..(n + 1), NEW j \in 1..(n + 1), i < j,
                 authors'[i] = authors'[j]
          PROVE  file'[i].seq < file'[j].seq
      <4>1. CASE j = n + 1
        <5>1. i \in 1..n /\ authors[i] = run[Home[w]]
          BY <2>2, <3>1, <4>1
        <5>2. file[i].seq < seq[Home[w]]
          BY <1>6, <2>1, <5>1 DEF NumberedBelow
        <5>3. QED
          BY <2>1, <2>2, <4>1, <5>1, <5>2
      <4>2. CASE j # n + 1
        <5>1. i \in 1..n /\ j \in 1..n
          BY <2>2, <3>1, <4>2
        <5>2. authors[i] = authors[j]
          BY <2>2, <3>1, <5>1
        <5>3. file[i].seq < file[j].seq
          BY <3>1, <5>1, <5>2 DEF NumbersAhead, OwnNumbersIncrease
        <5>4. QED
          BY <2>2, <5>1, <5>3
      <4>3. QED
        BY <4>1, <4>2
    <3>2. QED
      BY <2>2, <3>1 DEF OwnNumbersIncrease
  <2>4. NumberedBelow(w)'
    <3>1. ASSUME NEW i \in 1..(n + 1), authors'[i] = run[Home[w]]
          PROVE  file'[i].seq <= seq[Home[w]]
      <4>1. CASE i = n + 1
        BY <2>1, <2>2, <4>1
      <4>2. CASE i # n + 1
        <5>1. i \in 1..n
          BY <2>2, <3>1, <4>2
        <5>2. authors[i] = run[Home[w]]
          BY <2>2, <3>1, <5>1
        <5>3. file[i].seq <= seq[Home[w]]
          BY <2>1, <5>1, <5>2 DEF NumberedBelow
        <5>4. QED
          BY <2>2, <5>1, <5>3
      <4>3. QED
        BY <4>1, <4>2
    <3>2. QED
      BY <1>6, <2>2, <3>1 DEF NumberedBelow
  <2>5. ASSUME NEW v \in Workers, v # w, up'[Home[v]]
        PROVE  NumberedBelow(v)'
    <3>1. run[Home[v]] # run[Home[w]] /\ NumberedBelow(v) /\ pc'[v] = pc[v]
      BY <1>6, <2>1, <2>5, OtherRun DEF NumbersAhead
    <3>2. ASSUME NEW i \in 1..(n + 1), authors'[i] = run[Home[v]]
          PROVE  i \in 1..n /\ authors[i] = run[Home[v]]
      BY <2>2, <3>1, <3>2
    <3>3. QED
      BY <1>6, <2>2, <3>1, <3>2 DEF NumberedBelow
  <2>6. \A v \in Workers : pc'[v] = "append" => rec'[v].seq = seq'[Home[v]]
    BY <1>6 DEF NumbersAhead
  <2>7. QED
    BY <1>6, <2>3, <2>4, <2>5, <2>6 DEF NumbersAhead
<1>7. ASSUME NEW w \in Workers, AppendLine(w)
      PROVE  NumbersAhead'
  BY <1>6, <1>7 DEF AppendLine
<1>8. ASSUME NEW w \in Workers, AppendFails(w)
      PROVE  NumbersAhead'
  <2>1. /\ pc[w] = "append" /\ pc' = [pc EXCEPT ![w] = "idle"] /\ up[Home[w]]
        /\ UNCHANGED <<run, up, seq, rec>>
    BY <1>8 DEF AppendFails
  <2>2. CASE UNCHANGED <<file, authors>>
    <3>1. NumberedBelow(w)'
      BY <2>1, <2>2 DEF NumbersAhead, NumberedBelow
    <3>2. QED
      BY <1>3, <2>1, <2>2, <3>1
  <2>3. CASE file' = Append(file, rec[w]) /\ authors' = Append(authors, run[Home[w]])
    BY <1>6, <2>1, <2>3
  <2>4. QED
    BY <1>8, <2>2, <2>3 DEF AppendFails
<1>9. ASSUME NEW w \in Workers, Commit(w)
      PROVE  NumbersAhead'
  <2>1. /\ up[Home[w]] /\ pc' = [pc EXCEPT ![w] = "idle"]
        /\ UNCHANGED <<file, authors, run, up, seq, rec>>
    BY <1>9 DEF Commit
  <2>2. NumberedBelow(w)'
    BY <2>1 DEF NumbersAhead, NumberedBelow
  <2>3. QED
    BY <1>3, <2>1, <2>2
<1>10. CASE UNCHANGED vars
  BY <1>10 DEF vars, NumbersAhead, NumberedBelow, OwnNumbersIncrease
<1>11. QED
  BY <1>1, <1>2, <1>4, <1>5, <1>7, <1>8, <1>9, <1>10 DEF Next

(* Whatever runs beside it, whatever writes fail, whenever it is killed,   *)
(* a single-threaded process never writes a number twice nor a smaller one *)
(* later (`self._seq += 1` before the append, audit.py).                   *)
THEOREM NumbersIncrease ==
  ASSUME SingleThreaded
  PROVE  Spec => []OwnNumbersIncrease
<1>1. Init => NumbersAhead
  BY LogAssumption DEF Init, NumbersAhead, OwnNumbersIncrease
<1>2. NumbersAhead => OwnNumbersIncrease
  BY DEF NumbersAhead
<1>3. QED
  BY <1>1, <1>2, NumbersAheadStep, OwnRunsHold, ShapeHolds, PTL DEF Spec

LEMMA OwnTailsStep ==
  ASSUME SingleThreaded, Shape, OwnRuns, OwnTails, [Next]_vars
  PROVE  OwnTails'
<1> USE LogAssumption DEF Shape, TypeOK, Locations
<1>1. ASSUME NEW p \in Procs, Start(p)
      PROVE  OwnTails'
  <2>1. /\ UNCHANGED <<file, authors, pc, rec, faulty>>
        /\ up' = [up EXCEPT ![p] = TRUE]
        /\ run' = [run EXCEPT ![p] = starts + 1]
        /\ \A q \in Procs : q # p => head'[q] = head[q]
    BY <1>1 DEF Start
  <2>2. Len(file) > 0 => authors[Len(file)] # starts + 1
    BY DEF OwnRuns
  <2>3. ASSUME NEW w \in Workers, up'[Home[w]]
        PROVE  FollowsOwn(w)'
    <3>1. CASE Home[w] = p
      BY <2>1, <2>2, <3>1 DEF FollowsOwn
    <3>2. CASE Home[w] # p
      BY <2>1, <2>3, <3>2 DEF OwnTails, FollowsOwn
    <3>3. QED
      BY <3>1, <3>2
  <2>4. QED
    BY <2>1, <2>3 DEF OwnTails, BreaksOnlyAtHandover
<1>2. ASSUME NEW p \in Procs, Stop(p)
      PROVE  OwnTails'
  <2>1. /\ UNCHANGED <<file, authors, rec, head, run, faulty>>
        /\ up' = [up EXCEPT ![p] = FALSE]
        /\ pc' = [w \in Workers |-> IF Home[w] = p THEN "idle" ELSE pc[w]]
    BY <1>2 DEF Stop
  <2>2. ASSUME NEW w \in Workers, up'[Home[w]]
        PROVE  FollowsOwn(w)'
    <3>1. up[Home[w]] /\ pc'[w] = pc[w]
      BY <2>1, <2>2
    <3>2. QED
      BY <2>1, <3>1 DEF OwnTails, FollowsOwn
  <2>3. QED
    BY <2>1, <2>2 DEF OwnTails, BreaksOnlyAtHandover
\* A step of thread w that writes nothing disturbs no other thread.
<1>3. ASSUME NEW w \in Workers, up[Home[w]], UNCHANGED <<file, authors, run, up>>,
             faulty \subseteq faulty',
             \A v \in Workers : v # w => pc'[v] = pc[v] /\ rec'[v] = rec[v],
             \A q \in Procs : q # Home[w] => head'[q] = head[q],
             FollowsOwn(w)'
      PROVE  OwnTails'
  <2>1. ASSUME NEW v \in Workers, v # w, up'[Home[v]]
        PROVE  FollowsOwn(v)'
    BY <1>3, <2>1, OtherRun DEF OwnTails, FollowsOwn
  <2>2. QED
    BY <1>3, <2>1 DEF OwnTails, BreaksOnlyAtHandover
<1>4. ASSUME NEW w \in Workers, TakeNumber(w)
      PROVE  OwnTails'
  <2>1. /\ up[Home[w]] /\ UNCHANGED <<file, authors, run, up, faulty, head>>
        /\ pc[w] = "idle" /\ pc' = [pc EXCEPT ![w] = "build"]
        /\ \A v \in Workers : v # w => rec'[v] = rec[v]
    BY <1>4 DEF TakeNumber
  <2>2. FollowsOwn(w)'
    BY <2>1 DEF OwnTails, FollowsOwn
  <2>3. QED
    BY <1>3, <2>1, <2>2
<1>5. ASSUME NEW w \in Workers, Build(w)
      PROVE  OwnTails'
  <2>1. /\ pc[w] = "build" /\ up[Home[w]] /\ UNCHANGED <<file, authors, run, up, faulty, head>>
        /\ pc' = [pc EXCEPT ![w] = "append"] /\ rec'[w].prev = head[Home[w]]
        /\ \A v \in Workers : v # w => rec'[v] = rec[v]
    BY <1>5 DEF Build
  <2>2. FollowsOwn(w)'
    BY <2>1 DEF OwnTails, FollowsOwn
  <2>3. QED
    BY <1>3, <2>1, <2>2
\* The line that w writes chains to the line before if that is its own.
<1>6. ASSUME NEW w \in Workers, pc[w] = "append", UNCHANGED <<run, up, head, rec>>,
             file' = Append(file, rec[w]), authors' = Append(authors, run[Home[w]]),
             \/ pc'[w] = "commit" /\ faulty' = faulty
             \/ faulty' = faulty \cup {run[Home[w]]},
             \A v \in Workers : v # w => pc'[v] = pc[v]
      PROVE  OwnTails'
  <2> DEFINE n == Len(file)
  <2>1. up[Home[w]] /\ FollowsOwn(w) /\ faulty \subseteq faulty'
    BY <1>6 DEF OwnTails
  <2>2. /\ Len(file') = n + 1 /\ n \in Nat /\ Len(authors) = n
        /\ file'[n + 1] = rec[w] /\ authors'[n + 1] = run[Home[w]]
        /\ \A i \in 1..n : file'[i] = file[i] /\ authors'[i] = authors[i]
    BY <1>6, <2>1 DEF OwnRuns
  <2>3. ASSUME NEW i \in 2..(n + 1), authors'[i] = authors'[i - 1], authors'[i] \notin faulty'
        PROVE  file'[i].prev = file'[i - 1].hash
    <3>1. CASE i = n + 1
      <4>1. /\ i - 1 = n /\ n \in 1..n /\ authors'[i - 1] = authors[n]
            /\ file'[i - 1] = file[n]
        BY <2>2, <3>1
      <4>2. authors[n] = run[Home[w]] /\ run[Home[w]] \notin faulty /\ n > 0
        BY <2>1, <2>2, <2>3, <3>1, <4>1
      <4>3. rec[w].prev = file[n].hash
        BY <1>6, <2>1, <4>2 DEF FollowsOwn
      <4>4. QED
        BY <2>2, <3>1, <4>1, <4>3
    <3>2. CASE i # n + 1
      <4>1. i \in 2..n /\ i \in 1..n /\ i - 1 \in 1..n
        BY <2>2, <3>2
      <4>2. authors[i] = authors[i - 1] /\ authors[i] \notin faulty
        BY <2>1, <2>2, <2>3, <4>1
      <4>3. file[i].prev = file[i - 1].hash
        BY <4>1, <4>2 DEF OwnTails, BreaksOnlyAtHandover
      <4>4. QED
        BY <2>2, <4>1, <4>3
    <3>3. QED
      BY <3>1, <3>2
  <2>4. FollowsOwn(w)'
    BY <1>6, <2>2 DEF FollowsOwn
  <2>5. ASSUME NEW v \in Workers, v # w, up'[Home[v]]
        PROVE  FollowsOwn(v)'
    <3>1. run[Home[v]] # run[Home[w]]
      BY <1>6, <2>1, <2>5, OtherRun
    <3>2. QED
      BY <1>6, <2>2, <3>1 DEF FollowsOwn
  <2>6. BreaksOnlyAtHandover'
    BY <2>2, <2>3 DEF BreaksOnlyAtHandover
  <2>7. QED
    BY <2>4, <2>5, <2>6 DEF OwnTails
<1>7. ASSUME NEW w \in Workers, AppendLine(w)
      PROVE  OwnTails'
  <2>1. /\ pc[w] = "append" /\ UNCHANGED <<run, up, head, rec, faulty>>
        /\ file' = Append(file, rec[w]) /\ authors' = Append(authors, run[Home[w]])
        /\ pc' = [pc EXCEPT ![w] = "commit"]
    BY <1>7 DEF AppendLine
  <2>2. pc'[w] = "commit" /\ \A v \in Workers : v # w => pc'[v] = pc[v]
    BY <2>1
  <2>3. QED
    BY <1>6, <2>1, <2>2
<1>8. ASSUME NEW w \in Workers, AppendFails(w)
      PROVE  OwnTails'
  <2>1. /\ pc[w] = "append" /\ pc' = [pc EXCEPT ![w] = "idle"] /\ up[Home[w]]
        /\ UNCHANGED <<run, up, head, rec>> /\ faulty' = faulty \cup {run[Home[w]]}
    BY <1>8 DEF AppendFails
  <2>2. CASE UNCHANGED <<file, authors>>
    <3>1. FollowsOwn(w)'
      BY <2>1, <2>2 DEF FollowsOwn
    <3>2. QED
      BY <1>3, <2>1, <2>2, <3>1
  <2>3. CASE file' = Append(file, rec[w]) /\ authors' = Append(authors, run[Home[w]])
    <3>1. \A v \in Workers : v # w => pc'[v] = pc[v]
      BY <2>1
    <3>2. QED
      BY <1>6, <2>1, <2>3, <3>1
  <2>4. QED
    BY <1>8, <2>2, <2>3 DEF AppendFails
<1>9. ASSUME NEW w \in Workers, Commit(w)
      PROVE  OwnTails'
  <2>1. /\ pc[w] = "commit" /\ up[Home[w]] /\ pc' = [pc EXCEPT ![w] = "idle"]
        /\ head' = [head EXCEPT ![Home[w]] = rec[w].hash]
        /\ UNCHANGED <<file, authors, run, up, faulty, rec>>
    BY <1>9 DEF Commit
  <2>2. FollowsOwn(w)'
    BY <2>1 DEF OwnTails, FollowsOwn
  <2>3. QED
    BY <1>3, <2>1, <2>2
<1>10. CASE UNCHANGED vars
  BY <1>10 DEF vars, OwnTails, FollowsOwn, BreaksOnlyAtHandover
<1>11. QED
  BY <1>1, <1>2, <1>4, <1>5, <1>7, <1>8, <1>9, <1>10 DEF Next

(* Whatever processes run in parallel, a record that follows one of its    *)
(* own start carries that record's hash, if no write of the start raised:  *)
(* the chain breaks only where two processes' records meet.                *)
THEOREM BreaksAreHandovers ==
  ASSUME SingleThreaded
  PROVE  Spec => []BreaksOnlyAtHandover
<1>1. Init => OwnTails
  BY LogAssumption DEF Init, OwnTails, BreaksOnlyAtHandover
<1>2. OwnTails => BreaksOnlyAtHandover
  BY DEF OwnTails
<1>3. QED
  BY <1>1, <1>2, OwnTailsStep, OwnRunsHold, ShapeHolds, PTL DEF Spec

-----------------------------------------------------------------------------
(***************************************************************************)
(* What the loop of verify() computes, for a chain of any length.            *)
(***************************************************************************)

\* A set of naturals that is not empty has a least member: the induction the
\* next lemmas use, on the number of records read.
LEMMA LeastMember ==
  ASSUME NEW T \in SUBSET Nat, T # {}
  PROVE  \E x \in T : \A y \in T : ~ (y < x)
<1> DEFINE smaller == {ss \in Nat \X Nat : ss[1] < ss[2]}
<1>1. IsWellFoundedOn(smaller, Nat)
  BY NatLessThanWellFounded DEF OpToRel
<1>2. \A x, y \in Nat : <<y, x>> \in smaller <=> y < x
  OBVIOUS
<1> HIDE DEF smaller
<1>3. PICK x \in T : \A y \in T : ~ (<<y, x>> \in smaller)
  BY <1>1, WFMin
<1>4. QED
  BY <1>2, <1>3

LEMMA NatSet ==
  ASSUME NEW S, 0 \in S, \A n \in Nat : n \in S => n + 1 \in S
  PROVE  \A n \in Nat : n \in S
<1> DEFINE T == Nat \ S
<1>1. SUFFICES ASSUME T # {} PROVE FALSE
  OBVIOUS
<1>2. PICK x \in T : \A y \in T : ~ (y < x)
  BY <1>1, LeastMember
<1>3. x # 0 /\ x - 1 \in Nat
  BY <1>2
<1>4. x - 1 \in S
  BY <1>2, <1>3
<1>5. QED
  BY <1>2, <1>3, <1>4

\* The recursion is one: there is a function that satisfies it.
LEMMA WalkSteps ==
  ASSUME NEW chain \in Seq(Record), NEW keyed \in BOOLEAN
  PROVE  LET walk == VerifyWalk(chain, keyed) IN
         /\ walk[0] = VerifyStart
         /\ \A n \in 1..Len(chain) : walk[n] = VerifyRecord(keyed, walk[n - 1], chain[n])
<1> DEFINE Walks(f, m) ==
             f = [n \in 0..m |-> IF n = 0 THEN VerifyStart
                                 ELSE VerifyRecord(keyed, f[n - 1], chain[n])]
           Lengths == {m \in Nat : \E f : Walks(f, m)}
<1>1. 0 \in Lengths
  <2> DEFINE f == [n \in 0..0 |-> VerifyStart]
  <2>1. f = [n \in 0..0 |-> IF n = 0 THEN VerifyStart
                            ELSE VerifyRecord(keyed, f[n - 1], chain[n])]
    OBVIOUS
  <2>2. QED
    BY <2>1
<1>2. ASSUME NEW m \in Lengths
      PROVE  m + 1 \in Lengths
  <2>1. PICK f : Walks(f, m)
    OBVIOUS
  <2> DEFINE g == [n \in 0..(m + 1) |-> IF n = m + 1 THEN VerifyRecord(keyed, f[m], chain[m + 1])
                                        ELSE f[n]]
  <2>2. \A n \in 0..m : g[n] = f[n]
    OBVIOUS
  <2>3. \A n \in 0..m : n # 0 => n - 1 \in 0..m
    OBVIOUS
  <2>4. \A n \in 0..m : f[n] = IF n = 0 THEN VerifyStart
                               ELSE VerifyRecord(keyed, f[n - 1], chain[n])
    BY <2>1
  <2>5. g[m + 1] = VerifyRecord(keyed, g[m], chain[m + 1])
    OBVIOUS
  <2>6. ASSUME NEW n \in 0..(m + 1)
        PROVE  g[n] = IF n = 0 THEN VerifyStart ELSE VerifyRecord(keyed, g[n - 1], chain[n])
    BY <2>2, <2>3, <2>4, <2>5
  <2>7. Walks(g, m + 1)
    BY <2>6
  <2> HIDE DEF g, Walks
  <2>8. \E h : Walks(h, m + 1)
    BY <2>7
  <2>9. QED
    BY <2>8
<1> HIDE DEF Lengths, Walks
<1>3. \A n \in Nat : n \in Lengths
  BY <1>1, <1>2, NatSet
<1>4. \E f : Walks(f, Len(chain))
  BY <1>3 DEF Lengths
<1>5. Walks(VerifyWalk(chain, keyed), Len(chain))
  BY <1>4 DEF VerifyWalk, Walks
<1>6. QED
  BY <1>5 DEF Walks

\* What verify() compares record n with: the record before it, nothing else.
Neighbour(chain, n) == [expected |-> IF n = 1 THEN 0 ELSE chain[n - 1].seq,
                      prev     |-> HashBefore(chain, n)]

FaultsAt(chain, keyed, n) == Faults(keyed, Neighbour(chain, n), chain[n])

LEMMA FaultsAreFinite ==
  ASSUME NEW keyed, NEW acc, NEW r
  PROVE  /\ Cardinality(Faults(keyed, acc, r)) \in Nat
         /\ Cardinality(Faults(keyed, acc, r)) = 0 <=> Faults(keyed, acc, r) = {}
<1>1. IsFiniteSet({"gap", "break", "altered", "unsigned", "forged"})
  <2>1. IsFiniteSet({"gap"} \cup {"break"} \cup {"altered"} \cup {"unsigned"} \cup {"forged"})
    BY FS_Singleton, FS_Union
  <2>2. {"gap"} \cup {"break"} \cup {"altered"} \cup {"unsigned"} \cup {"forged"}
          = {"gap", "break", "altered", "unsigned", "forged"}
    OBVIOUS
  <2>3. QED
    BY <2>1, <2>2
<1>2. Faults(keyed, acc, r) \subseteq {"gap", "break", "altered", "unsigned", "forged"}
  BY DEF Faults
<1>3. IsFiniteSet(Faults(keyed, acc, r))
  BY <1>1, <1>2, FS_Subset
<1>4. QED
  BY <1>3, FS_CardinalityType, FS_EmptySet

\* The errors of n records are those of n - 1 and the faults of record n.
LEMMA WalkCounts ==
  ASSUME NEW chain \in Seq(Record), NEW keyed \in BOOLEAN
  PROVE  LET walk == VerifyWalk(chain, keyed) IN
         /\ walk[0].errors = 0
         /\ \A n \in 1..Len(chain) :
              walk[n].errors = walk[n - 1].errors + Cardinality(FaultsAt(chain, keyed, n))
<1> DEFINE walk == VerifyWalk(chain, keyed)
<1>1. /\ walk[0] = VerifyStart
      /\ \A n \in 1..Len(chain) : walk[n] = VerifyRecord(keyed, walk[n - 1], chain[n])
  BY WalkSteps
<1>0. \A acc, r : /\ VerifyRecord(keyed, acc, r).expected = r.seq
                  /\ VerifyRecord(keyed, acc, r).prev = r.hash
                  /\ VerifyRecord(keyed, acc, r).errors
                       = acc.errors + Cardinality(Faults(keyed, acc, r))
  BY DEF VerifyRecord
<1> HIDE DEF walk
<1>2. ASSUME NEW n \in 1..Len(chain)
      PROVE  /\ walk[n - 1].expected = Neighbour(chain, n).expected
             /\ walk[n - 1].prev = Neighbour(chain, n).prev
  <2>1. CASE n = 1
    BY <1>1, <2>1 DEF VerifyStart, Neighbour, HashBefore
  <2>2. CASE n # 1
    <3>1. n - 1 \in 1..Len(chain)
      BY <2>2
    <3>2. walk[n - 1].expected = chain[n - 1].seq /\ walk[n - 1].prev = chain[n - 1].hash
      BY <1>1, <1>0, <3>1
    <3>3. QED
      BY <2>2, <3>2 DEF Neighbour, HashBefore
  <2>3. QED
    BY <2>1, <2>2
<1>3. ASSUME NEW n \in 1..Len(chain)
      PROVE  walk[n].errors = walk[n - 1].errors + Cardinality(FaultsAt(chain, keyed, n))
  <2>1. Faults(keyed, walk[n - 1], chain[n]) = FaultsAt(chain, keyed, n)
    BY <1>2 DEF Faults, FaultsAt
  <2>2. QED
    BY <1>1, <1>0, <2>1
<1>4. walk[0].errors = 0
  BY <1>1 DEF VerifyStart
<1>5. QED
  BY <1>3, <1>4 DEF walk

\* No message exactly when no record has a fault.
LEMMA NoErrorNoFault ==
  ASSUME NEW chain \in Seq(Record), NEW keyed \in BOOLEAN
  PROVE  VerifyOk(chain, keyed) <=> \A i \in 1..Len(chain) : FaultsAt(chain, keyed, i) = {}
<1> DEFINE walk == VerifyWalk(chain, keyed)
           Clean(n) == \A i \in 1..n : FaultsAt(chain, keyed, i) = {}
           Counted(n) == n \in 0..Len(chain) =>
                           /\ walk[n].errors \in Nat
                           /\ walk[n].errors = 0 <=> Clean(n)
           S == {n \in Nat : Counted(n)}
<1>1. /\ walk[0].errors = 0
      /\ \A n \in 1..Len(chain) :
           walk[n].errors = walk[n - 1].errors + Cardinality(FaultsAt(chain, keyed, n))
  BY WalkCounts
<1>2. VerifyOk(chain, keyed) <=> walk[Len(chain)].errors = 0
  BY DEF VerifyOk, VerifyErrors
<1> HIDE DEF walk
<1>3. 0 \in S
  BY <1>1
<1>4. ASSUME NEW n \in Nat, n \in S
      PROVE  n + 1 \in S
  <2>1. SUFFICES ASSUME n + 1 \in 0..Len(chain)
                 PROVE  /\ walk[n + 1].errors \in Nat
                        /\ walk[n + 1].errors = 0 <=> Clean(n + 1)
    OBVIOUS
  <2>2. walk[n].errors \in Nat /\ (walk[n].errors = 0 <=> Clean(n))
    BY <1>4, <2>1
  <2>3. PICK c : c = Cardinality(FaultsAt(chain, keyed, n + 1))
    OBVIOUS
  <2>4. c \in Nat /\ (c = 0 <=> FaultsAt(chain, keyed, n + 1) = {})
    BY <2>3, FaultsAreFinite DEF FaultsAt
  <2>5. walk[n + 1].errors = walk[n].errors + c
    BY <1>1, <2>1, <2>3
  <2>6. Clean(n + 1) <=> Clean(n) /\ FaultsAt(chain, keyed, n + 1) = {}
    <3>1. 1..(n + 1) = 1..n \cup {n + 1}
      OBVIOUS
    <3>2. QED
      BY <3>1
  <2> HIDE DEF Clean
  <2>7. QED
    BY <2>2, <2>4, <2>5, <2>6
<1> HIDE DEF S
<1>5. \A n \in Nat : n \in S
  BY <1>3, <1>4, NatSet
<1>6. QED
  BY <1>2, <1>5 DEF S

(* verify() collects no message exactly on the logs that are chained from   *)
(* the genesis hash, numbered from 1 and, if it holds the key, signed.      *)
LEMMA VerifyMeansIntact ==
  ASSUME NEW chain \in Seq(Record), NEW keyed \in BOOLEAN
  PROVE  VerifyOk(chain, keyed) <=> ChainIntact(chain) /\ (keyed => AllSigned(chain))
<1> DEFINE Fits(i) == /\ chain[i].seq = (IF i = 1 THEN 0 ELSE chain[i - 1].seq) + 1
                      /\ chain[i].prev = HashBefore(chain, i)
                      /\ chain[i].hash = RecordHash(chain[i])
                      /\ keyed => chain[i].sig = chain[i].hash
           S == {n \in Nat : \A i \in 1..n : i <= Len(chain) => chain[i].seq = i}
<1>1. ASSUME NEW i \in 1..Len(chain)
      PROVE  FaultsAt(chain, keyed, i) = {} <=> Fits(i)
  <2>1. chain[i].hash # NoSig
    <3>1. chain[i] \in Record
      BY <1>1
    <3>2. QED
      BY <3>1 DEF Record, Bodies, Genesis, NoSig
  <2>2. \A acc, rcd : Faults(keyed, acc, rcd) = {} <=>
          /\ rcd.seq = acc.expected + 1 /\ rcd.prev = acc.prev /\ rcd.hash = RecordHash(rcd)
          /\ keyed => rcd.sig # NoSig /\ rcd.sig \in {NoSig, rcd.hash}
    <3>1. ASSUME NEW acc, NEW rcd, Faults(keyed, acc, rcd) = {}
          PROVE  /\ rcd.seq = acc.expected + 1 /\ rcd.prev = acc.prev /\ rcd.hash = RecordHash(rcd)
                 /\ keyed => rcd.sig # NoSig /\ rcd.sig \in {NoSig, rcd.hash}
      <4>1. {"gap", "break", "altered", "unsigned", "forged"} \cap Faults(keyed, acc, rcd) = {}
        BY <3>1
      <4>2. QED
        BY <4>1 DEF Faults
    <3>2. ASSUME NEW acc, NEW rcd,
                 rcd.seq = acc.expected + 1, rcd.prev = acc.prev, rcd.hash = RecordHash(rcd),
                 keyed => rcd.sig # NoSig /\ rcd.sig \in {NoSig, rcd.hash}
          PROVE  Faults(keyed, acc, rcd) = {}
      BY <3>2 DEF Faults
    <3>3. QED
      BY <3>1, <3>2
  <2>3. /\ Neighbour(chain, i).expected = (IF i = 1 THEN 0 ELSE chain[i - 1].seq)
        /\ Neighbour(chain, i).prev = HashBefore(chain, i)
    BY DEF Neighbour
  <2> DEFINE acc == Neighbour(chain, i)
             rcd == chain[i]
  <2>4. FaultsAt(chain, keyed, i) = Faults(keyed, acc, rcd)
    BY DEF FaultsAt
  <2>5. Faults(keyed, acc, rcd) = {} <=>
          /\ rcd.seq = acc.expected + 1 /\ rcd.prev = acc.prev /\ rcd.hash = RecordHash(rcd)
          /\ keyed => rcd.sig # NoSig /\ rcd.sig \in {NoSig, rcd.hash}
    BY <2>2
  <2>6. (rcd.sig # NoSig /\ rcd.sig \in {NoSig, rcd.hash}) <=> rcd.sig = rcd.hash
    BY <2>1
  <2>7. QED
    BY <2>3, <2>4, <2>5, <2>6
<1>2. ASSUME \A i \in 1..Len(chain) : Fits(i)
      PROVE  ChainIntact(chain) /\ (keyed => AllSigned(chain))
  <2>1. 0 \in S
    OBVIOUS
  <2>2. ASSUME NEW n \in Nat, n \in S
        PROVE  n + 1 \in S
    <3>1. CASE n + 1 <= Len(chain)
      <4>1. \A i \in 1..n : chain[i].seq = i
        BY <2>2, <3>1
      <4>2. chain[n + 1].seq = n + 1
        BY <1>2, <3>1, <4>1
      <4>3. \A i \in 1..(n + 1) : chain[i].seq = i
        BY <4>1, <4>2
      <4>4. QED
        BY <4>3
    <3>2. CASE ~(n + 1 <= Len(chain))
      BY <2>2, <3>2
    <3>3. QED
      BY <3>1, <3>2
  <2>3. Len(chain) \in S
    <3> HIDE DEF S
    <3>1. QED
      BY <2>1, <2>2, NatSet
  <2>4. \A i \in 1..Len(chain) : chain[i].seq = i
    BY <2>3
  <2>5. QED
    BY <1>2, <2>4 DEF ChainIntact, Chained, AllSigned
<1>3. ASSUME ChainIntact(chain), keyed => AllSigned(chain)
      PROVE  \A i \in 1..Len(chain) : Fits(i)
  <2>1. ASSUME NEW i \in 1..Len(chain)
        PROVE  Fits(i)
    <3>1. i # 1 => i - 1 \in 1..Len(chain)
      OBVIOUS
    <3>2. QED
      BY <1>3, <3>1 DEF ChainIntact, Chained, AllSigned
  <2>2. QED
    BY <2>1
<1> HIDE DEF Fits
<1>4. QED
  BY <1>1, <1>2, <1>3, NoErrorNoFault

-----------------------------------------------------------------------------
\* With the key in every process, every line is signed.
Signed ==
  (\A p \in Procs : HasKey[p]) =>
    /\ AllSigned(file)
    /\ \A w \in Workers : pc[w] \in {"append", "commit"} => rec[w].sig = rec[w].hash

LEMMA SignedGrows ==
  ASSUME NEW chain \in Seq(Record), NEW r \in Record, AllSigned(chain), r.sig = r.hash
  PROVE  AllSigned(Append(chain, r))
  BY DEF AllSigned

LEMMA SignedStep ==
  ASSUME Shape, Signed, [Next]_vars
  PROVE  Signed'
<1> USE LogAssumption DEF Shape, TypeOK, Locations
<1>1. SUFFICES ASSUME \A p \in Procs : HasKey[p]
               PROVE  /\ AllSigned(file')
                      /\ \A w \in Workers : pc'[w] \in {"append", "commit"} => rec'[w].sig = rec'[w].hash
  BY DEF Signed
<1>2. AllSigned(file) /\ \A w \in Workers : pc[w] \in {"append", "commit"} => rec[w].sig = rec[w].hash
  BY <1>1 DEF Signed
<1>3. ASSUME NEW w \in Workers, pc[w] = "append", file' = Append(file, rec[w])
      PROVE  AllSigned(file')
  <2>1. rec[w].sig = rec[w].hash /\ rec[w] \in Record
    BY <1>2, <1>3
  <2>2. QED
    BY <1>2, <1>3, <2>1, SignedGrows
<1>4. ASSUME NEW p \in Procs, Start(p) \/ Stop(p)
      PROVE  Signed'
  <2>1. UNCHANGED <<file, rec>> /\ \A w \in Workers : pc'[w] \in {pc[w], "idle"}
    BY <1>4 DEF Start, Stop
  <2>2. QED
    BY <1>2, <2>1 DEF Signed
<1>5. ASSUME NEW w \in Workers, TakeNumber(w) \/ Commit(w)
      PROVE  Signed'
  <2>1. /\ UNCHANGED file /\ pc'[w] \in {"build", "idle"}
        /\ \A v \in Workers : v # w => pc'[v] = pc[v] /\ rec'[v] = rec[v]
    BY <1>5 DEF TakeNumber, Commit
  <2>2. QED
    BY <1>2, <2>1 DEF Signed
<1>6. ASSUME NEW w \in Workers, Build(w)
      PROVE  Signed'
  <2>1. /\ UNCHANGED file /\ Home[w] \in Procs
        /\ HasKey[Home[w]] => rec'[w].sig = rec'[w].hash
        /\ \A v \in Workers : v # w => pc'[v] = pc[v] /\ rec'[v] = rec[v]
    BY <1>6 DEF Build, Signature
  <2>2. QED
    BY <1>1, <1>2, <2>1 DEF Signed
<1>7. ASSUME NEW w \in Workers, AppendLine(w) \/ AppendFails(w)
      PROVE  Signed'
  <2>1. /\ pc[w] = "append" /\ UNCHANGED rec /\ pc'[w] \in {"idle", "commit"}
        /\ \A v \in Workers : v # w => pc'[v] = pc[v]
        /\ file' = file \/ file' = Append(file, rec[w])
    BY <1>7 DEF AppendLine, AppendFails
  <2>2. AllSigned(file')
    BY <1>2, <1>3, <2>1
  <2>3. QED
    BY <1>2, <2>1, <2>2 DEF Signed
<1>8. CASE UNCHANGED vars
  BY <1>2, <1>8 DEF vars, Signed
<1>9. QED
  BY <1>1, <1>4, <1>5, <1>6, <1>7, <1>8 DEF Next, Signed

(* Then verify() accepts what single-threaded processes wrote, one after   *)
(* another and with writes that succeed: without the key always, with the  *)
(* key if every process that wrote had it.                                 *)
THEOREM ResumedLogVerifies ==
  ASSUME SingleThreaded
  PROVE  Spec => []AlwaysVerifies
<1>1. Init => Signed
  BY DEF Init, Signed, AllSigned
<1>2. Shape /\ ChainResumes /\ Signed => AlwaysVerifies
  <2> SUFFICES ASSUME Shape, ChainResumes, Signed,
                      NEW keyed \in BOOLEAN,
                      ~overlap, faulty = {}, keyed => \A p \in Procs : HasKey[p]
               PROVE  VerifyOk(file, keyed)
    BY DEF AlwaysVerifies
  <2>1. file \in Seq(Record) /\ ChainIntact(file) /\ (keyed => AllSigned(file))
    BY DEF Shape, TypeOK, ChainResumes, Signed
  <2>2. QED
    BY <2>1, VerifyMeansIntact
<1>3. QED
  BY <1>1, <1>2, SignedStep, ShapeHolds, ChainIsResumed, PTL DEF Spec

-----------------------------------------------------------------------------
(* A log that changed on disk (AuditDamage). *)

\* A content of record()'s has one number and one place in the chain; every
\* signature with the key is of a record that record() wrote.
Known(n, r) ==
  /\ r \in Record
  /\ r.body > 0 => r.body \in 1..n /\ r.seq = r.body /\ r.prev = r.body - 1
  /\ r.sig \in 1..n \cup {NoSig, WrongKey}

\* Without a forger, a line is one that record() wrote, edited or not.
Written(n, r) ==
  /\ r.seq \in 1..n
  /\ r.prev = r.seq - 1 /\ r.hash = r.seq /\ r.sig = Signature(withKey, r.seq)
  /\ r.body = r.seq \/ r.body < 0

Faulting == {"edited", "deleted", "reordered", "forged"}

DamageInv ==
  /\ withKey \in BOOLEAN /\ made \in Nat
  /\ \E n \in Nat : pristine = Recorded(n, withKey)
  /\ log \in Seq(Record)
  /\ Len(log) <= Len(pristine)
  /\ \A i \in 1..Len(log) : Known(Len(pristine), log[i])
  /\ "forged" \notin Range(damage) => \A i \in 1..Len(log) : Written(Len(pristine), log[i])
  /\ damage \in Seq(Faulting)
  /\ damage = << >> => log = pristine
  /\ damage = <<"deleted">> => \E k \in 1..Len(pristine) : log = RemoveAt(pristine, k)

LEMMA RecordedLines ==
  ASSUME NEW n \in Nat, NEW key \in BOOLEAN
  PROVE  /\ Recorded(n, key) \in Seq(Record)
         /\ Len(Recorded(n, key)) = n
         /\ \A i \in 1..n :
              /\ Recorded(n, key)[i].seq = i /\ Recorded(n, key)[i].prev = i - 1
              /\ Recorded(n, key)[i].body = i /\ Recorded(n, key)[i].hash = i
              /\ Recorded(n, key)[i].sig = Signature(key, i)
<1>1. ASSUME NEW i \in 1..n
      PROVE  [seq |-> i, prev |-> i - 1, body |-> i, hash |-> i, sig |-> Signature(key, i)] \in Record
  BY <1>1 DEF Record, Hashes, Bodies, Genesis, WrongKey, NoSig, Signature
<1>2. Recorded(n, key) \in [1..n -> Record]
  BY <1>1 DEF Recorded
<1>3. QED
  BY <1>2 DEF Recorded

LEMMA RemoveLine ==
  ASSUME NEW S, NEW s \in Seq(S), NEW k \in 1..Len(s)
  PROVE  /\ RemoveAt(s, k) \in Seq(S)
         /\ Len(RemoveAt(s, k)) = Len(s) - 1
         /\ \A j \in 1..(Len(s) - 1) :
              RemoveAt(s, k)[j] = IF j < k THEN s[j] ELSE s[j + 1]
<1> DEFINE a == SubSeq(s, 1, k - 1)
           b == SubSeq(s, k + 1, Len(s))
<1>1. /\ a \in Seq(S) /\ Len(a) = k - 1
      /\ \A j \in 1..(k - 1) : a[j] = s[j]
  OBVIOUS
<1>2. /\ b \in Seq(S) /\ Len(b) = Len(s) - k
      /\ \A j \in 1..(Len(s) - k) : b[j] = s[k + j]
  OBVIOUS
<1>3. RemoveAt(s, k) = a \o b
  BY DEF RemoveAt
<1> HIDE DEF a, b
<1>4. /\ a \o b \in Seq(S)
      /\ Len(a \o b) = Len(s) - 1
      /\ \A j \in 1..(Len(s) - 1) : (a \o b)[j] = IF j < k THEN a[j] ELSE b[j - (k - 1)]
  <2>1. /\ a \o b \in Seq(S) /\ Len(a \o b) = Len(a) + Len(b)
        /\ \A j \in 1..(Len(a) + Len(b)) :
             (a \o b)[j] = IF j <= Len(a) THEN a[j] ELSE b[j - Len(a)]
    BY <1>1, <1>2, ConcatProperties
  <2>2. QED
    BY <1>1, <1>2, <2>1
<1>5. ASSUME NEW j \in 1..(Len(s) - 1)
      PROVE  (a \o b)[j] = IF j < k THEN s[j] ELSE s[j + 1]
  <2>1. CASE j < k
    BY <1>1, <1>4, <2>1
  <2>2. CASE ~(j < k)
    <3>1. j - (k - 1) \in 1..(Len(s) - k) /\ k + (j - (k - 1)) = j + 1
      BY <2>2
    <3>2. QED
      BY <1>2, <1>4, <2>2, <3>1
  <2>3. QED
    BY <2>1, <2>2
<1>6. QED
  BY <1>3, <1>4, <1>5

LEMMA PrefixLines ==
  ASSUME NEW S, NEW s \in Seq(S), NEW t \in Seq(S)
  PROVE  IsPrefix(s, t) <=> Len(s) <= Len(t) /\ \A i \in 1..Len(s) : s[i] = t[i]
<1>1. SubSeq(s, 1, Len(s)) = s
  OBVIOUS
<1>2. ASSUME Len(s) <= Len(t)
      PROVE  /\ SubSeq(t, 1, Len(s)) \in Seq(S) /\ Len(SubSeq(t, 1, Len(s))) = Len(s)
             /\ \A i \in 1..Len(s) : SubSeq(t, 1, Len(s))[i] = t[i]
  BY <1>2
<1>3. ASSUME Len(s) <= Len(t)
      PROVE  s = SubSeq(t, 1, Len(s)) <=> \A i \in 1..Len(s) : s[i] = t[i]
  BY <1>2, <1>3
<1>4. QED
  BY <1>1, <1>3 DEF IsPrefix

\* A content made up on disk is none of record()'s.
LEMMA MadeUpIsNew ==
  ASSUME made \in Nat, NEW k \in Nat
  PROVE  MadeUp(k) \in Bodies /\ MadeUp(k) < 0
BY DEF MadeUp, Bodies, Genesis, WrongKey

LEMMA DamageStep ==
  ASSUME DamageInv, [DamageNext]_damageVars
  PROVE  DamageInv'
<1>1. PICK n \in Nat : pristine = Recorded(n, withKey)
  BY DEF DamageInv
<1>2. /\ pristine \in Seq(Record) /\ Len(pristine) = n
      /\ withKey \in BOOLEAN /\ made \in Nat
      /\ log \in Seq(Record) /\ Len(log) \in 0..n
      /\ \A i \in 1..Len(log) : Known(n, log[i])
  <2>1. pristine \in Seq(Record) /\ Len(pristine) = n
    BY <1>1, RecordedLines DEF DamageInv
  <2>2. QED
    BY <2>1 DEF DamageInv
<1>3. ASSUME UNCHANGED <<pristine, withKey>>, made' \in Nat, NEW what \in Faulting,
             damage' = Append(damage, what),
             log' \in Seq(Record), Len(log') <= Len(log),
             \A i \in 1..Len(log') : Known(n, log'[i]),
             what = "forged" \/ ((\A i \in 1..Len(log) : Written(n, log[i]))
                                    => \A i \in 1..Len(log') : Written(n, log'[i])),
             what = "deleted" => \E k \in 1..Len(log) : log' = RemoveAt(log, k)
      PROVE  DamageInv'
  <2>1. damage \in Seq(Faulting)
    BY DEF DamageInv
  <2>2. /\ damage' \in Seq(Faulting) /\ Len(damage') = Len(damage) + 1
        /\ damage'[Len(damage) + 1] = what
        /\ \A i \in 1..Len(damage) : damage'[i] = damage[i]
    BY <1>3, <2>1
  <2>3. ASSUME damage' = <<"deleted">>
        PROVE  \E k \in 1..Len(pristine) : log' = RemoveAt(pristine, k)
    <3>1. damage = << >> /\ what = "deleted"
      <4>1. Len(damage) + 1 = 1
        BY <2>2, <2>3
      <4>2. Len(damage) = 0
        BY <2>1, <4>1
      <4>3. QED
        BY <2>1, <2>2, <2>3, <4>2
    <3>2. log = pristine
      BY <3>1 DEF DamageInv
    <3>3. QED
      BY <1>3, <3>1, <3>2
  <2>4. Len(log') <= Len(pristine')
    BY <1>2, <1>3
  <2>5. damage' # << >>
    BY <2>1, <2>2
  <2>6. ASSUME "forged" \notin Range(damage')
        PROVE  \A i \in 1..Len(log') : Written(n, log'[i])
    <3>1. what # "forged"
      <4>1. Len(damage) + 1 \in DOMAIN damage'
        BY <2>1, <2>2
      <4>2. QED
        BY <2>2, <2>6, <4>1 DEF Range
    <3>2. "forged" \notin Range(damage)
      <4>1. \A i \in DOMAIN damage : i \in DOMAIN damage' /\ damage'[i] = damage[i]
        BY <2>1, <2>2
      <4>2. QED
        BY <2>6, <4>1 DEF Range
    <3>3. QED
      BY <1>2, <1>3, <3>1, <3>2 DEF DamageInv
  <2>7. "forged" \notin Range(damage') => \A i \in 1..Len(log') : Written(n, log[i])'
    BY <1>3, <2>6 DEF Written
  <2>8. QED
    BY <1>1, <1>2, <1>3, <2>2, <2>3, <2>4, <2>5, <2>7 DEF DamageInv
<1>4. CASE Edit /\ UNCHANGED <<pristine, withKey>>
  <2>1. PICK i \in 1..Len(log) : /\ log' = [log EXCEPT ![i].body = MadeUp(0)]
                                 /\ damage' = Append(damage, "edited") /\ made' = made + 1
    BY <1>4 DEF Edit
  <2>2. Known(n, log[i]) /\ log[i] \in Record
    BY <1>2 DEF Known
  <2>3. PICK r : r = [log[i] EXCEPT !.body = MadeUp(0)]
    OBVIOUS
  <2>4. MadeUp(0) \in Bodies /\ MadeUp(0) < 0
    BY <1>2, MadeUpIsNew
  <2>5. /\ r \in Record /\ r.body = MadeUp(0)
        /\ r.seq = log[i].seq /\ r.prev = log[i].prev /\ r.hash = log[i].hash /\ r.sig = log[i].sig
    BY <2>2, <2>3, <2>4 DEF Record
  <2>6. Known(n, r) /\ (Written(n, log[i]) => Written(n, r))
    <3>1. ~(r.body > 0)
      BY <2>4, <2>5 DEF Bodies
    <3>2. QED
      BY <2>2, <2>4, <2>5, <3>1 DEF Known, Written
  <2>7. log' = [log EXCEPT ![i] = r]
    BY <2>1, <2>3
  <2>8. /\ log' \in Seq(Record) /\ Len(log') = Len(log)
        /\ \A j \in 1..Len(log) : log'[j] = IF j = i THEN r ELSE log[j]
    BY <1>2, <2>5, <2>7
  <2>9. /\ \A j \in 1..Len(log') : Known(n, log'[j])
        /\ (\A j \in 1..Len(log) : Written(n, log[j])) => \A j \in 1..Len(log') : Written(n, log'[j])
    BY <1>2, <2>6, <2>8
  <2>10. "edited" \in Faulting /\ "edited" # "deleted" /\ Len(log') <= Len(log) /\ made' \in Nat
    BY <1>2, <2>1, <2>8 DEF Faulting
  <2>11. damage' = Append(damage, "edited") /\ UNCHANGED <<pristine, withKey>>
    BY <1>4, <2>1
  <2>12. QED
    BY <1>3, <2>8, <2>9, <2>10, <2>11
<1>5. CASE Delete /\ UNCHANGED <<pristine, withKey>>
  <2>1. PICK k \in 1..Len(log) : /\ log' = RemoveAt(log, k)
                                 /\ damage' = Append(damage, "deleted") /\ made' = made
    BY <1>5 DEF Delete
  <2>2. /\ log' \in Seq(Record) /\ Len(log') = Len(log) - 1
        /\ \A j \in 1..(Len(log) - 1) : log'[j] = IF j < k THEN log[j] ELSE log[j + 1]
    BY <1>2, <2>1, RemoveLine
  <2>3. /\ \A j \in 1..Len(log') : Known(n, log'[j])
        /\ (\A j \in 1..Len(log) : Written(n, log[j])) => \A j \in 1..Len(log') : Written(n, log'[j])
    <3>1. \A j \in 1..Len(log') : \E m \in 1..Len(log) : log'[j] = log[m]
      BY <1>2, <2>2
    <3>2. QED
      BY <1>2, <3>1
  <2>4. "deleted" \in Faulting /\ Len(log') <= Len(log) /\ made' \in Nat
    BY <1>2, <2>1, <2>2 DEF Faulting
  <2>5. damage' = Append(damage, "deleted") /\ UNCHANGED <<pristine, withKey>>
    BY <1>5, <2>1
  <2>6. \E m \in 1..Len(log) : log' = RemoveAt(log, m)
    BY <2>1
  <2>7. QED
    BY <1>3, <2>2, <2>3, <2>4, <2>5, <2>6
<1>6. CASE Reorder /\ UNCHANGED <<pristine, withKey>>
  <2>1. PICK i, j \in 1..Len(log) : /\ log' = [log EXCEPT ![i] = log[j], ![j] = log[i]]
                                    /\ damage' = Append(damage, "reordered") /\ made' = made
    BY <1>6 DEF Reorder
  <2>2. log[i] \in Record /\ log[j] \in Record
    BY <1>2
  <2>3. /\ log' \in Seq(Record) /\ Len(log') = Len(log)
        /\ \A k \in 1..Len(log) : log'[k] \in {log[i], log[j], log[k]}
    BY <1>2, <2>1, <2>2
  <2>4. /\ \A k \in 1..Len(log') : Known(n, log'[k])
        /\ (\A k \in 1..Len(log) : Written(n, log[k])) => \A k \in 1..Len(log') : Written(n, log'[k])
    BY <1>2, <2>3
  <2>5. "reordered" \in Faulting /\ "reordered" # "deleted" /\ Len(log') <= Len(log) /\ made' \in Nat
    BY <1>2, <2>1, <2>3 DEF Faulting
  <2>6. damage' = Append(damage, "reordered") /\ UNCHANGED <<pristine, withKey>>
    BY <1>6, <2>1
  <2>7. QED
    BY <1>3, <2>3, <2>4, <2>5, <2>6
<1>7. CASE Forge /\ UNCHANGED <<pristine, withKey>>
  <2>1. PICK first \in 1..Len(log), last \in 1..Len(log), how \in {"kept", "stripped", "own"} :
          /\ log' = [i \in 1..Len(log) |-> IF i \in first..last THEN Forgery(i, first, how) ELSE log[i]]
          /\ damage' = Append(damage, "forged") /\ made' = made + Len(log) + 1
    BY <1>7 DEF Forge
  <2>2. ASSUME NEW i \in 1..Len(log), i \in first..last
        PROVE  Known(n, Forgery(i, first, how))
    <3>1. MadeUp(i) \in Bodies /\ MadeUp(i) < 0
      BY <1>2, MadeUpIsNew
    <3>2. (IF i = first THEN HashBefore(log, i) ELSE MadeUp(i - 1)) \in Hashes
      <4>1. CASE i = 1
        BY <2>1, <4>1, <2>2 DEF HashBefore, Hashes
      <4>2. CASE i # 1
        <5>1. i - 1 \in Nat /\ i - 1 \in 1..Len(log) /\ log[i - 1] \in Record
          BY <1>2, <4>2
        <5>2. MadeUp(i - 1) \in Hashes
          BY <1>2, <5>1, MadeUpIsNew DEF Hashes
        <5>3. HashBefore(log, i) \in Hashes
          BY <4>2, <5>1 DEF HashBefore, Record, Hashes
        <5>4. QED
          BY <5>2, <5>3
      <4>3. QED
        BY <4>1, <4>2
    <3>3. ForgedSigs(log[i])[how] \in {log[i].sig, NoSig, WrongKey}
      BY <2>1 DEF ForgedSigs
    <3>4. Known(n, log[i]) /\ log[i].sig \in Bodies \cup {NoSig, WrongKey}
      <4>1. Known(n, log[i]) /\ log[i] \in Record
        BY <1>2 DEF Known
      <4>2. QED
        BY <4>1 DEF Record
    <3>5. ForgedSigs(log[i])[how] \in (1..n \cup {NoSig, WrongKey}) \cap (Bodies \cup {NoSig, WrongKey})
      BY <3>3, <3>4 DEF Known
    <3>6. Forgery(i, first, how) \in Record
      BY <3>1, <3>2, <3>5 DEF Forgery, Record
    <3>7. ~(Forgery(i, first, how).body > 0)
      BY <3>1 DEF Forgery, Bodies
    <3>8. Forgery(i, first, how).sig \in 1..n \cup {NoSig, WrongKey}
      BY <3>5 DEF Forgery
    <3>9. QED
      BY <3>6, <3>7, <3>8 DEF Known
  <2>3. \A i \in 1..Len(log) : Known(n, log'[i])
    BY <1>2, <2>1, <2>2
  <2>4. log' \in Seq(Record) /\ Len(log') = Len(log)
    <3>1. \A i \in 1..Len(log) : log'[i] \in Record
      BY <2>3 DEF Known
    <3>2. log' \in [1..Len(log) -> Record] /\ Len(log) \in Nat
      BY <1>2, <2>1, <3>1
    <3>3. QED
      BY <3>2
  <2>5. QED
    BY <1>2, <1>3, <1>7, <2>1, <2>3, <2>4 DEF Faulting
<1>8. CASE UNCHANGED damageVars
  BY <1>8 DEF damageVars, DamageInv, Written
<1>9. QED
  BY <1>4, <1>5, <1>6, <1>7, <1>8 DEF DamageNext

LEMMA DamageHolds == DamageSpec => []DamageInv
<1>1. DamageInit => DamageInv
  <2> SUFFICES ASSUME DamageInit
               PROVE  DamageInv
    OBVIOUS
  <2>1. PICK n \in 0..MaxLength : pristine = Recorded(n, withKey)
    BY DEF DamageInit
  <2>2. n \in Nat
    BY DamageAssumption
  <2>3. log = pristine /\ damage = << >> /\ withKey \in BOOLEAN /\ made = 0
    BY DEF DamageInit
  <2>4. /\ pristine \in Seq(Record) /\ Len(pristine) = n
        /\ \A i \in 1..n : /\ pristine[i].seq = i /\ pristine[i].prev = i - 1
                            /\ pristine[i].body = i /\ pristine[i].hash = i
                            /\ pristine[i].sig = Signature(withKey, i)
    <3>1. PICK key \in BOOLEAN : key = withKey
      BY <2>3
    <3>2. pristine = Recorded(n, key)
      BY <2>1, <3>1
    <3>3. QED
      <4>1. /\ Recorded(n, key) \in Seq(Record) /\ Len(Recorded(n, key)) = n
            /\ \A i \in 1..n : /\ Recorded(n, key)[i].seq = i /\ Recorded(n, key)[i].prev = i - 1
                                /\ Recorded(n, key)[i].body = i /\ Recorded(n, key)[i].hash = i
                                /\ Recorded(n, key)[i].sig = Signature(key, i)
        BY <2>2, RecordedLines
      <4>2. QED
        BY <3>1, <3>2, <4>1
  <2>5. ASSUME NEW i \in 1..n
        PROVE  Known(n, pristine[i]) /\ Written(n, pristine[i])
    <3>1. pristine[i] \in Record
      BY <2>4
    <3>2. QED
      BY <2>4, <3>1 DEF Known, Written, Signature
  <2>6. QED
    BY <2>1, <2>2, <2>3, <2>4, <2>5 DEF DamageInv
<1>2. QED
  BY <1>1, DamageStep, PTL DEF DamageSpec

(* The loop of verify() reports no error exactly on the logs that are      *)
(* chained and, for a verifier with the key, signed.                       *)
THEOREM DamageIsMeasured == DamageSpec => []VerifyIsChainIntact
<1>1. DamageInv => VerifyIsChainIntact
  BY VerifyMeansIntact DEF DamageInv, VerifyIsChainIntact
<1>2. QED
  BY <1>1, DamageHolds, PTL

(* However many records are edited, deleted, exchanged or forged, a        *)
(* verifier with the key accepts exactly the beginnings of what record()   *)
(* wrote; one without it does so where nothing was forged.                 *)
THEOREM OnlyPrefixesPass == DamageSpec => []OnlyPrefixesVerify
<1>1. DamageInv => OnlyPrefixesVerify
  <2> SUFFICES ASSUME DamageInv, withKey \/ "forged" \notin Range(damage)
               PROVE  VerifyOk(log, withKey) <=> IsPrefix(log, pristine)
    BY DEF OnlyPrefixesVerify
  <2>1. PICK n \in Nat : pristine = Recorded(n, withKey)
    BY DEF DamageInv
  <2>2. /\ pristine \in Seq(Record) /\ Len(pristine) = n /\ withKey \in BOOLEAN
        /\ \A i \in 1..n :
             /\ pristine[i].seq = i /\ pristine[i].prev = i - 1
             /\ pristine[i].body = i /\ pristine[i].hash = i
             /\ pristine[i].sig = Signature(withKey, i)
    <3>1. PICK key \in BOOLEAN : key = withKey
      BY DEF DamageInv
    <3>2. pristine = Recorded(n, key)
      BY <2>1, <3>1
    <3>3. QED
      BY <3>1, <3>2, RecordedLines
  <2>3. log \in Seq(Record) /\ Len(log) <= n
    BY <2>2 DEF DamageInv
  <2>4. VerifyOk(log, withKey) <=> ChainIntact(log) /\ (withKey => AllSigned(log))
    BY <2>2, <2>3, VerifyMeansIntact
  <2>5. IsPrefix(log, pristine) <=> \A i \in 1..Len(log) : log[i] = pristine[i]
    BY <2>2, <2>3, PrefixLines
  \* An intact line is record()'s, by its signature or for want of a forger.
  <2>6. ASSUME ChainIntact(log), withKey => AllSigned(log), NEW i \in 1..Len(log)
        PROVE  log[i] = pristine[i]
    <3>1. log[i] \in Record /\ Known(n, log[i])
      BY <2>2, <2>3 DEF DamageInv
    <3>2. log[i].seq = i /\ log[i].hash = log[i].body
      BY <2>6 DEF ChainIntact, Chained, RecordHash
    <3>3. i \in 1..n /\ pristine[i] \in Record
      BY <2>2, <2>3
    <3>4. log[i].body = i /\ log[i].hash = i /\ log[i].prev = i - 1 /\ log[i].sig = Signature(withKey, i)
      <4>1. CASE withKey
        <5>1. log[i].sig = log[i].hash /\ log[i].hash \in Bodies
          BY <2>6, <3>1, <4>1 DEF AllSigned, Record
        <5>2. log[i].body \in 1..n
          BY <3>1, <3>2, <5>1 DEF Known, Bodies, NoSig, WrongKey, Genesis
        <5>3. QED
          BY <3>1, <3>2, <4>1, <5>1, <5>2 DEF Known, Signature
      <4>2. CASE "forged" \notin Range(damage)
        BY <2>2, <3>2, <3>3, <4>2 DEF DamageInv, Written
      <4>3. QED
        BY <4>1, <4>2
    <3>5. \A r \in Record : r = [seq |-> r.seq, prev |-> r.prev, body |-> r.body,
                                 hash |-> r.hash, sig |-> r.sig]
      BY DEF Record
    <3>6. /\ pristine[i].seq = i /\ pristine[i].prev = i - 1 /\ pristine[i].body = i
          /\ pristine[i].hash = i /\ pristine[i].sig = Signature(withKey, i)
      BY <2>2, <3>3
    <3>7. QED
      BY <3>1, <3>2, <3>3, <3>4, <3>5, <3>6
  <2>7. ASSUME \A i \in 1..Len(log) : log[i] = pristine[i]
        PROVE  ChainIntact(log) /\ (withKey => AllSigned(log))
    <3>1. ASSUME NEW i \in 1..Len(log)
          PROVE  Chained(log, i) /\ (withKey => log[i].sig = log[i].hash)
      <4>1. i \in 1..n /\ log[i] = pristine[i]
        BY <2>2, <2>3, <2>7
      <4>2. log[i].prev = HashBefore(log, i)
        <5>1. CASE i = 1
          BY <2>2, <4>1, <5>1 DEF HashBefore, Genesis
        <5>2. CASE i # 1
          <6>1. i - 1 \in 1..Len(log) /\ i - 1 \in 1..n
            BY <2>2, <2>3, <5>2
          <6>2. HashBefore(log, i) = log[i - 1].hash
            BY <5>2 DEF HashBefore
          <6>3. log[i - 1] = pristine[i - 1] /\ pristine[i - 1].hash = i - 1
            BY <2>2, <2>7, <6>1
          <6>4. log[i].prev = i - 1
            BY <2>2, <4>1
          <6>5. QED
            BY <6>2, <6>3, <6>4
        <5>3. QED
          BY <5>1, <5>2
      <4>3. QED
        BY <2>2, <4>1, <4>2 DEF Chained, RecordHash, Signature
    <3>2. QED
      BY <3>1 DEF ChainIntact, AllSigned
  <2>8. QED
    BY <2>4, <2>5, <2>6, <2>7
<1>2. QED
  BY <1>1, DamageHolds, PTL

\* One record lost from inside the log has two faults at its place and none
\* elsewhere.
LEMMA FaultsOfALoss ==
  ASSUME withKey \in BOOLEAN, NEW n \in Nat, NEW k \in 1..n, k # n,
         NEW i \in 1..(n - 1)
  PROVE  FaultsAt(RemoveAt(Recorded(n, withKey), k), withKey, i)
           = IF i = k THEN {"gap", "break"} ELSE {}
<1> DEFINE rest == RemoveAt(Recorded(n, withKey), k)
<1>1. /\ Recorded(n, withKey) \in Seq(Record) /\ Len(Recorded(n, withKey)) = n
      /\ \A j \in 1..n :
           /\ Recorded(n, withKey)[j].seq = j /\ Recorded(n, withKey)[j].prev = j - 1
           /\ Recorded(n, withKey)[j].body = j /\ Recorded(n, withKey)[j].hash = j
           /\ Recorded(n, withKey)[j].sig = Signature(withKey, j)
  BY RecordedLines
<1>2. \A j \in 1..(n - 1) :
        rest[j] = IF j < k THEN Recorded(n, withKey)[j] ELSE Recorded(n, withKey)[j + 1]
  <2>1. \A j \in 1..(Len(Recorded(n, withKey)) - 1) :
          rest[j] = IF j < k THEN Recorded(n, withKey)[j] ELSE Recorded(n, withKey)[j + 1]
    <3>1. k \in 1..Len(Recorded(n, withKey)) /\ Recorded(n, withKey) \in Seq(Record)
      BY <1>1
    <3> HIDE DEF Recorded
    <3>2. QED
      BY <3>1, RemoveLine
  <2>2. QED
    BY <1>1, <2>1
<1> HIDE DEF rest
<1>3. ASSUME NEW j \in 1..(n - 1)
      PROVE  LET m == IF j < k THEN j ELSE j + 1 IN
             /\ rest[j].seq = m /\ rest[j].prev = m - 1
             /\ rest[j].body = m /\ rest[j].hash = m /\ rest[j].sig = Signature(withKey, m)
  <2>1. (IF j < k THEN j ELSE j + 1) \in 1..n
    OBVIOUS
  <2>2. QED
    BY <1>1, <1>2, <2>1
<1>4. /\ Neighbour(rest, i).expected = IF i <= k THEN i - 1 ELSE i
      /\ Neighbour(rest, i).prev = IF i <= k THEN i - 1 ELSE i
  <2>1. CASE i = 1
    BY <2>1 DEF Neighbour, HashBefore, Genesis
  <2>2. CASE i # 1
    <3>1. i - 1 \in 1..(n - 1)
      BY <2>2
    <3>2. /\ rest[i - 1].seq = IF i <= k THEN i - 1 ELSE i
          /\ rest[i - 1].hash = IF i <= k THEN i - 1 ELSE i
      BY <1>3, <3>1
    <3>3. QED
      BY <2>2, <3>2 DEF Neighbour, HashBefore
  <2>3. QED
    BY <2>1, <2>2
<1>5. /\ rest[i].seq = IF i < k THEN i ELSE i + 1
      /\ rest[i].prev = IF i < k THEN i - 1 ELSE i
      /\ rest[i].hash = RecordHash(rest[i]) /\ rest[i].sig = Signature(withKey, rest[i].hash)
      /\ rest[i].hash # NoSig
  BY <1>3 DEF RecordHash, NoSig
<1>6. FaultsAt(rest, withKey, i) = IF i = k THEN {"gap", "break"} ELSE {}
  BY <1>4, <1>5 DEF FaultsAt, Faults, Signature
<1>7. QED
  BY <1>6 DEF rest

(* Then verify() reports the loss once: as one gap and one break.          *)
THEOREM LossIsReportedOnce == DamageSpec => []OneLossReportedOnce
<1>1. DamageInv => OneLossReportedOnce
  <2> SUFFICES ASSUME DamageInv, damage = <<"deleted">>, ~IsPrefix(log, pristine)
               PROVE  VerifyErrors(log, withKey) = 2
    BY DEF OneLossReportedOnce
  <2>0. withKey \in BOOLEAN
    BY DEF DamageInv
  <2>1. PICK n \in Nat : pristine = Recorded(n, withKey)
    BY DEF DamageInv
  <2>2. pristine \in Seq(Record) /\ Len(pristine) = n
    BY <2>0, <2>1, RecordedLines
  <2>3. PICK k \in 1..n : log = RemoveAt(pristine, k)
    BY <2>2 DEF DamageInv
  <2>4. /\ log \in Seq(Record) /\ Len(log) = n - 1
        /\ \A j \in 1..(n - 1) : log[j] = IF j < k THEN pristine[j] ELSE pristine[j + 1]
    BY <2>2, <2>3, RemoveLine
  <2>5. k # n
    <3>1. k = n => \A j \in 1..(n - 1) : log[j] = pristine[j]
      BY <2>4
    <3>2. k = n => IsPrefix(log, pristine)
      BY <2>2, <2>4, <3>1, PrefixLines
    <3>3. QED
      BY <3>2
  <2>6. \A i \in 1..(n - 1) :
          FaultsAt(log, withKey, i) = IF i = k THEN {"gap", "break"} ELSE {}
    BY <2>0, <2>1, <2>3, <2>5, FaultsOfALoss
  <2>7. Cardinality({"gap", "break"}) = 2 /\ Cardinality({}) = 0
    <3>1. {"gap", "break"} = {"gap"} \cup {"break"}
      OBVIOUS
    <3>2. IsFiniteSet({"gap"}) /\ Cardinality({"gap"}) = 1 /\ "break" \notin {"gap"}
      BY FS_Singleton
    <3>3. Cardinality({"gap"} \cup {"break"}) = 1 + 1
      BY <3>2, FS_AddElement, Zenon
    <3>4. Cardinality({}) = 0
      BY FS_EmptySet
    <3>5. QED
      BY <3>1, <3>3, <3>4
  <2>8. PICK walk : walk = VerifyWalk(log, withKey)
    OBVIOUS
  <2>9. /\ walk[0].errors = 0
        /\ \A j \in 1..(n - 1) :
             walk[j].errors = walk[j - 1].errors + (IF j = k THEN 2 ELSE 0)
    <3>1. /\ walk[0].errors = 0
          /\ \A j \in 1..(n - 1) :
               walk[j].errors = walk[j - 1].errors + Cardinality(FaultsAt(log, withKey, j))
      BY <2>0, <2>4, <2>8, WalkCounts
    <3>2. \A j \in 1..(n - 1) : Cardinality(FaultsAt(log, withKey, j)) = IF j = k THEN 2 ELSE 0
      BY <2>6, <2>7
    <3>3. QED
      BY <3>1, <3>2
  <2> DEFINE S == {j \in Nat : j <= n - 1 => walk[j].errors = IF j < k THEN 0 ELSE 2}
  <2>10. 0 \in S
    BY <2>9
  <2>11. ASSUME NEW j \in Nat, j \in S
         PROVE  j + 1 \in S
    BY <2>9, <2>11
  <2> HIDE DEF S
  <2>12. n - 1 \in S
    <3>1. n - 1 \in Nat
      OBVIOUS
    <3>2. QED
      BY <2>10, <2>11, <3>1, NatSet
  <2>13. walk[n - 1].errors = 2
    BY <2>5, <2>12 DEF S
  <2>14. QED
    BY <2>4, <2>8, <2>13 DEF VerifyErrors
<1>2. QED
  BY <1>1, DamageHolds, PTL
=============================================================================
