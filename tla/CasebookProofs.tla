--------------------------- MODULE CasebookProofs ---------------------------
(***************************************************************************)
(* Proofs about the casebook (soc/casebook.py, soc/correlation.py,         *)
(* engine.py): its files hold alerts and incidents whatever rewrites them, *)
(* alerts that share an entity are filed together, what a human decided is *)
(* lost only by overlap, a containment is on record, so is every deed, who *)
(* counts as told was told, and nobody is told twice without a kill.       *)
(*                                                                         *)
(* What a fold over a set computes is proved by induction on the number of *)
(* elements folded: the set of the numbers for which the claim fails has   *)
(* no least member, so it is empty (LeastMember, SetInduct, FoldExists).   *)
(***************************************************************************)
EXTENDS Casebook, FiniteSetTheorems, WellFoundedInduction, TLAPS

Shape ==
  /\ DOMAIN pc = Procs /\ DOMAIN loc = Procs /\ DOMAIN memIncidents = Procs
  /\ behind \subseteq Procs

\* A live process that missed no save has the incidents that were saved last,
\* and so has the file unless a kill cut it short.
UpToDate ==
  /\ \A p \in Procs : Up(p) /\ p \notin behind => memIncidents[p] = lastIncidents
  /\ "incidents" \notin torn => incidents = lastIncidents

Saving(p, new) ==
  /\ memIncidents' = [memIncidents EXCEPT ![p] = new]
  /\ incidents' = new /\ lastIncidents' = new
  /\ behind' = LeftBehind(p)

-----------------------------------------------------------------------------
(* What the steps do to the books.                                         *)

\* Every step but a start, an end and a save leaves the incidents alone.
Quiet ==
  /\ UNCHANGED <<incidents, lastIncidents, memIncidents, behind>>
  /\ "incidents" \in torn' <=> "incidents" \in torn
  /\ DOMAIN pc' = DOMAIN pc /\ DOMAIN loc' = DOMAIN loc
  /\ \A p \in Procs : Up(p)' <=> Up(p)

LEMMA QuietDetection ==
  ASSUME Shape, NEW p \in Procs,
         UpsertAlerts(p) \/ LoadNotified(p) \/ Dispatch(p) \/ SaveNotified(p)
  PROVE  Quiet
<1>1. CASE UpsertAlerts(p)
  BY <1>1 DEF UpsertAlerts, Shape, Quiet, Up, history
<1>2. CASE LoadNotified(p)
  BY <1>2 DEF LoadNotified, ToNotify, Shape, Quiet, Up, history, files
<1>3. CASE Dispatch(p)
  BY <1>3 DEF Dispatch, Shape, Quiet, Up, files
<1>4. CASE SaveNotified(p)
  BY <1>4 DEF SaveNotified, Shape, Quiet, Up, history
<1>5. QED
  BY <1>1, <1>2, <1>3, <1>4

LEMMA QuietOthers ==
  ASSUME Shape, NEW p \in Procs, NEW i, NEW action,
         Collect \/ Execute(p, i, action) \/ RecordResponse(p) \/ UNCHANGED vars
  PROVE  Quiet
<1>1. CASE Collect
  BY <1>1 DEF Collect, Shape, Quiet, Up, history, memory
<1>2. CASE Execute(p, i, action)
  BY <1>2 DEF Execute, Shape, Quiet, Up, files
<1>3. CASE RecordResponse(p)
  BY <1>3 DEF RecordResponse, Shape, Quiet, Up, history
<1>4. CASE UNCHANGED vars
  BY <1>4 DEF vars, files, memory, history, Quiet, Up
<1>5. QED
  BY <1>1, <1>2, <1>3, <1>4

LEMMA QuietKeeps ==
  ASSUME Shape, UpToDate, Quiet
  PROVE  Shape' /\ UpToDate'
BY DEF Shape, UpToDate, Quiet

LEMMA StartKeeps ==
  ASSUME Shape, UpToDate, NEW p \in Procs, Start(p)
  PROVE  Shape' /\ UpToDate' /\ lastIncidents' = lastIncidents
<1>1. /\ memIncidents' = [memIncidents EXCEPT ![p] = incidents] /\ torn = {}
      /\ UNCHANGED <<incidents, lastIncidents, torn>> /\ behind' = behind \ {p}
      /\ pc' = [pc EXCEPT ![p] = "idle"] /\ DOMAIN loc' = DOMAIN loc
  BY DEF Start, files
<1>2. QED
  BY <1>1 DEF Shape, UpToDate, Up

LEMMA EndKeeps ==
  ASSUME Shape, UpToDate, NEW p \in Procs, Stop(p) \/ Kill(p)
  PROVE  Shape' /\ UpToDate' /\ lastIncidents' = lastIncidents
<1>1. /\ memIncidents' = [memIncidents EXCEPT ![p] = Empty]
      /\ lastIncidents' = lastIncidents /\ behind' = behind \ {p}
      /\ pc' = [pc EXCEPT ![p] = "down"] /\ DOMAIN loc' = DOMAIN loc
  BY DEF Stop, Kill, Ended
<1>2. /\ torn \subseteq torn'
      /\ "incidents" \notin torn' => incidents' = incidents
  BY DEF Stop, Kill, Emptied, files
<1>3. QED
  BY <1>1, <1>2 DEF Shape, UpToDate, Up

\* The writer is up to date afterwards, all other live processes are behind.
LEMMA SaveKeeps ==
  ASSUME Shape, UpToDate, NEW p \in Procs, NEW new, Saving(p, new), Up(p),
         DOMAIN pc' = DOMAIN pc, DOMAIN loc' = DOMAIN loc, \A q \in Procs : Up(q)' <=> Up(q)
  PROVE  /\ Shape' /\ UpToDate'
         /\ p \notin behind => memIncidents[p] = lastIncidents
         /\ p \notin behind'
BY DEF Shape, UpToDate, Saving, LeftBehind

LEMMA MergeSaves ==
  ASSUME Shape, NEW p \in Procs, MergeIncidents(p)
  PROVE  /\ Saving(p, Merged(memIncidents[p], Correlate(memAlerts[p])))
         /\ Up(p) /\ DOMAIN pc' = DOMAIN pc /\ DOMAIN loc' = DOMAIN loc
         /\ \A q \in Procs : Up(q)' <=> Up(q)
BY DEF MergeIncidents, Saving, Shape, Up

\* What a human's hand on incident i of p's copy writes.
Hand(p, i, new) ==
  /\ \/ new.status \in {"triaged", memIncidents[p][i].status}
     \/ /\ new.status = "contained"
        /\ pc[p] = "responded" /\ i = loc[p].id /\ Contains(loc[p].action, loc[p].status)
  /\ new.summary \in {"auto", "assessed", memIncidents[p][i].summary}
  /\ memIncidents[p][i].notes \subseteq new.notes

Handled(p) ==
  /\ Up(p) /\ DOMAIN pc' = DOMAIN pc /\ DOMAIN loc' = DOMAIN loc
  /\ \A q \in Procs : Up(q)' <=> Up(q)
  /\ \A q \in Procs : pc'[q] = "responded" => pc[q] = "responded" /\ loc'[q] = loc[q]
  /\ \E i, new : Hand(p, i, new) /\ Saving(p, [memIncidents[p] EXCEPT ![i] = new])

LEMMA UpdateSaves ==
  ASSUME Shape, NEW p \in Procs, NEW i, NEW new, Update(p, i, new)
  PROVE  Saving(p, [memIncidents[p] EXCEPT ![i] = new])
BY DEF Update, Saving, Shape

LEMMA TriageAloneHandles ==
  ASSUME Shape, NEW p \in Procs, NEW i, TriageAlone(p, i)
  PROVE  Handled(p)
<1> DEFINE inc == memIncidents[p][i]
           new == Decided(inc, "triaged", inc.priority, "auto", inc.notes)
<1>1. Update(p, i, new) /\ pc[p] = "idle" /\ UNCHANGED <<pc, loc>>
  BY DEF TriageAlone
<1>2. Hand(p, i, new)
  BY DEF Hand, Decided
<1>3. Saving(p, [memIncidents[p] EXCEPT ![i] = new])
  BY <1>1, UpdateSaves
<1> HIDE DEF new
<1>4. QED
  BY <1>1, <1>2, <1>3 DEF Handled, Up

LEMMA TriageWithModelHandles ==
  ASSUME Shape, NEW p \in Procs, NEW i, NEW priority, TriageWithModel(p, i, priority)
  PROVE  Handled(p)
<1> DEFINE inc == memIncidents[p][i]
           new == Decided(inc, "triaged", priority, "assessed", inc.notes \cup {acts})
<1>1. Update(p, i, new) /\ pc[p] = "idle" /\ UNCHANGED <<pc, loc>>
  BY DEF TriageWithModel
<1>2. Hand(p, i, new)
  BY DEF Hand, Decided
<1>3. Saving(p, [memIncidents[p] EXCEPT ![i] = new])
  BY <1>1, UpdateSaves
<1> HIDE DEF new
<1>4. QED
  BY <1>1, <1>2, <1>3 DEF Handled, Up

LEMMA NoteResponseHandles ==
  ASSUME Shape, NEW p \in Procs, NoteResponse(p)
  PROVE  Handled(p)
<1> DEFINE i == loc[p].id
           inc == memIncidents[p][i]
           status == IF Contains(loc[p].action, loc[p].status) THEN "contained" ELSE inc.status
           new == Decided(inc, status, inc.priority, inc.summary, inc.notes \cup {acts})
<1>1. /\ Update(p, i, new) /\ pc[p] = "responded"
      /\ pc' = [pc EXCEPT ![p] = "idle"] /\ loc' = [loc EXCEPT ![p] = NoLocal]
  BY DEF NoteResponse
<1>2. Hand(p, i, new)
  BY <1>1 DEF Hand, Decided
<1>3. Saving(p, [memIncidents[p] EXCEPT ![i] = new])
  BY <1>1, UpdateSaves
<1> HIDE DEF i, new
<1>4. QED
  BY <1>1, <1>2, <1>3 DEF Handled, Up, Shape

LEMMA HandKeeps ==
  ASSUME Shape, UpToDate, NEW p \in Procs, Handled(p)
  PROVE  Shape' /\ UpToDate' /\ p \notin behind' 
         /\ (p \notin behind => memIncidents[p] = lastIncidents)
<1>1. PICK i, new : Saving(p, [memIncidents[p] EXCEPT ![i] = new])
  BY DEF Handled
<1>2. QED
  BY <1>1, SaveKeeps DEF Handled

-----------------------------------------------------------------------------
(* The kinds of steps there are.                                           *)

LEMMA StepKinds ==
  ASSUME Shape, [Next]_vars, CasebookAssumption
  PROVE  \/ Quiet
         \/ \E p \in Procs : Start(p) \/ Stop(p) \/ Kill(p) \/ MergeIncidents(p) \/ Handled(p)
<1>1. CASE \E p \in Detectors : DetectionStep(p)
  <2>1. PICK p \in Procs : DetectionStep(p)
    BY <1>1 DEF CasebookAssumption
  <2>2. QED
    BY <2>1, QuietDetection DEF DetectionStep
<1>2. CASE \E p \in Responders : HumanStep(p)
  <2>1. PICK p \in Procs : HumanStep(p)
    BY <1>2 DEF CasebookAssumption
  <2>2. CASE \E i \in DOMAIN memIncidents[p] : TriageAlone(p, i)
    BY <2>2, TriageAloneHandles
  <2>3. CASE \E i \in DOMAIN memIncidents[p] : \E priority \in Advice : TriageWithModel(p, i, priority)
    BY <2>3, TriageWithModelHandles
  <2>4. CASE \E i \in DOMAIN memIncidents[p] : \E action \in Asked : Execute(p, i, action)
    BY <2>4, QuietOthers
  <2>5. CASE RecordResponse(p)
    BY <2>5, QuietOthers
  <2>6. CASE NoteResponse(p)
    BY <2>6, NoteResponseHandles
  <2>7. QED
    BY <2>1, <2>2, <2>3, <2>4, <2>5, <2>6 DEF HumanStep
<1>3. CASE Collect
  BY <1>3 DEF Collect, Shape, Quiet, Up, history, memory
<1>4. CASE UNCHANGED vars
  BY <1>4 DEF vars, files, memory, history, Quiet, Up
<1>5. QED
  BY <1>1, <1>2, <1>3, <1>4 DEF Next

LEMMA CopiesStep ==
  ASSUME Shape, UpToDate, [Next]_vars
  PROVE  Shape' /\ UpToDate'
<1>1. CASE Quiet
  BY <1>1, QuietKeeps
<1>2. ASSUME NEW p \in Procs, Start(p) \/ Stop(p) \/ Kill(p)
      PROVE  Shape' /\ UpToDate'
  BY <1>2, StartKeeps, EndKeeps
<1>3. ASSUME NEW p \in Procs, MergeIncidents(p)
      PROVE  Shape' /\ UpToDate'
  BY <1>3, MergeSaves, SaveKeeps
<1>4. ASSUME NEW p \in Procs, Handled(p)
      PROVE  Shape' /\ UpToDate'
  BY <1>4, HandKeeps
<1>5. QED
  BY <1>1, <1>2, <1>3, <1>4, StepKinds, CasebookAssumption

-----------------------------------------------------------------------------
(* Nothing a human decided is taken back.                                  *)

LEMMA MergedKeeps ==
  ASSUME NEW old, NEW found, NEW i \in DOMAIN old
  PROVE  /\ i \in DOMAIN Merged(old, found)
         /\ Merged(old, found)[i].status = old[i].status
         /\ Merged(old, found)[i].summary = old[i].summary
         /\ Merged(old, found)[i].notes = old[i].notes
BY DEF Merged, Refreshed

LEMMA UpToDateKeeps ==
  ASSUME Shape, UpToDate, [Next]_vars
  PROVE  \/ \A i \in DOMAIN lastIncidents : HumanStateKept(i)
         \/ \E p \in behind : p \notin behind'
<1>1. ASSUME lastIncidents' = lastIncidents
      PROVE  \A i \in DOMAIN lastIncidents : HumanStateKept(i)
  BY <1>1 DEF HumanStateKept
<1>2. ASSUME NEW p \in Procs, MergeIncidents(p)
      PROVE  \/ \A i \in DOMAIN lastIncidents : HumanStateKept(i)
             \/ p \in behind /\ p \notin behind'
  <2>1. /\ p \notin behind'
        /\ p \notin behind => memIncidents[p] = lastIncidents
        /\ lastIncidents' = Merged(memIncidents[p], Correlate(memAlerts[p]))
    BY <1>2, MergeSaves, SaveKeeps DEF Saving
  <2>2. QED
    BY <2>1, MergedKeeps DEF HumanStateKept
<1>3. ASSUME NEW p \in Procs, Handled(p)
      PROVE  \/ \A i \in DOMAIN lastIncidents : HumanStateKept(i)
             \/ p \in behind /\ p \notin behind'
  <2>1. PICK i, new : Hand(p, i, new) /\ Saving(p, [memIncidents[p] EXCEPT ![i] = new])
    BY <1>3 DEF Handled
  <2>2. p \notin behind' /\ (p \notin behind => memIncidents[p] = lastIncidents)
    BY <1>3, HandKeeps
  <2>3. CASE memIncidents[p] = lastIncidents
    <3>1. lastIncidents' = [lastIncidents EXCEPT ![i] = new]
      BY <2>1, <2>3 DEF Saving
    <3>2. ASSUME NEW j \in DOMAIN lastIncidents
          PROVE  HumanStateKept(j)
      BY <2>1, <2>3, <3>1 DEF HumanStateKept, Hand
    <3>3. QED
      BY <3>2
  <2>4. QED
    BY <2>2, <2>3
<1>4. QED
  BY <1>1, <1>2, <1>3, StepKinds, StartKeeps, EndKeeps, CasebookAssumption DEF Quiet

\* casebook.py: status, triage summary and notes survive across runs, until a
\* process that missed another's save makes its own, or a kill comes between
\* the emptying and the filling of the file.
THEOREM HumanStateSurvives == Spec => HumanStateLostOnlyInRewrite
<1>1. Init => Shape /\ UpToDate
  BY DEF Init, Shape, UpToDate, Up
<1>2. Shape /\ UpToDate /\ [Next]_vars => Shape' /\ UpToDate'
  BY CopiesStep
<1>3. Shape /\ UpToDate /\ [Next]_vars =>
        [\/ \A i \in DOMAIN lastIncidents : HumanStateKept(i)
         \/ \E p \in behind : p \notin behind']_vars
  BY UpToDateKeeps
<1>4. UpToDate => (incidents = lastIncidents \/ "incidents" \in torn)
  BY DEF UpToDate
<1>5. QED
  BY <1>1, <1>2, <1>3, <1>4, PTL DEF Spec, HumanStateLostOnlyInRewrite

-----------------------------------------------------------------------------
(* Containment: the response is on record before the incident says so, and *)
(* a book never says "contained" of its own accord.                        *)

OnRecord(i) == \E r \in responses : r.id = i /\ Contains(r.action, r.status)

Backed(book) == \A i \in DOMAIN book : book[i].status = "contained" => OnRecord(i)

AllBacked ==
  /\ Backed(incidents)
  /\ \A p \in Procs : Backed(memIncidents[p])
  /\ \A p \in Procs : pc[p] = "responded" /\ Contains(loc[p].action, loc[p].status) => OnRecord(loc[p].id)

LEMMA EmptyBacked == Backed(Empty)
<1>1. DOMAIN Empty = {}
  BY DEF Empty
<1>2. QED
  BY <1>1 DEF Backed

\* Responses are only added to; a merge files what is new as new.
LEMMA RecordGrows ==
  ASSUME NEW i, OnRecord(i), responses \subseteq responses'
  PROVE  OnRecord(i)'
BY DEF OnRecord

LEMMA MergedBacked ==
  ASSUME NEW old, NEW found, Backed(old)
  PROVE  Backed(Merged(old, found))
BY DEF Backed, Merged, Refreshed

\* A step that leaves the books alone, and writes no response to anyone.
LEMMA RecordGrowsOnly ==
  ASSUME Shape, [Next]_vars
  PROVE  responses \subseteq responses'
<1> USE DEF files, memory, history
<1>1. ASSUME NEW p \in Procs, Start(p) \/ Stop(p) \/ Kill(p)
      PROVE  responses' = responses
  BY <1>1 DEF Start, Stop, Kill
<1>2. ASSUME NEW p, DetectionStep(p)
      PROVE  responses' = responses
  BY <1>2 DEF DetectionStep, UpsertAlerts, MergeIncidents, LoadNotified, Dispatch, SaveNotified
<1>3. ASSUME NEW p, HumanStep(p)
      PROVE  responses \subseteq responses'
  <2>1. ASSUME NEW i, NEW priority, NEW action,
               TriageAlone(p, i) \/ TriageWithModel(p, i, priority) \/ Execute(p, i, action)
        PROVE  responses' = responses
    BY <2>1 DEF TriageAlone, TriageWithModel, Execute
  <2>2. CASE RecordResponse(p)
    BY <2>2 DEF RecordResponse
  <2>3. CASE NoteResponse(p)
    BY <2>3 DEF NoteResponse
  <2>4. QED
    BY <1>3, <2>1, <2>2, <2>3 DEF HumanStep
<1>4. CASE Collect \/ UNCHANGED vars
  BY <1>4 DEF Collect, vars
<1>5. QED
  BY <1>1, <1>2, <1>3, <1>4 DEF Next

LEMMA BackedStep ==
  ASSUME Shape, AllBacked, [Next]_vars
  PROVE  AllBacked'
<1>1. responses \subseteq responses'
  BY RecordGrowsOnly
<1>2. \A i : OnRecord(i) => OnRecord(i)'
  BY <1>1, RecordGrows
<1>3. ASSUME NEW p \in Procs, Start(p) \/ Stop(p) \/ Kill(p)
      PROVE  AllBacked'
  <2>1. /\ incidents' \in {incidents, Empty}
        /\ \/ memIncidents' = [memIncidents EXCEPT ![p] = incidents] /\ pc' = [pc EXCEPT ![p] = "idle"]
           \/ memIncidents' = [memIncidents EXCEPT ![p] = Empty] /\ pc' = [pc EXCEPT ![p] = "down"]
        /\ loc' = [loc EXCEPT ![p] = NoLocal]
    BY <1>3 DEF Start, Stop, Kill, Emptied, Ended, files
  <2>2. \A q \in Procs : memIncidents'[q] \in {memIncidents[q], incidents, Empty}
    BY <2>1 DEF Shape
  <2>3. \A q \in Procs : pc'[q] = "responded" => pc[q] = "responded" /\ loc'[q] = loc[q]
    BY <2>1 DEF Shape
  <2>4. Backed(incidents)' /\ \A q \in Procs : Backed(memIncidents[q])'
    BY <1>2, <2>1, <2>2, EmptyBacked DEF AllBacked, Backed
  <2>5. QED
    BY <1>2, <2>3, <2>4 DEF AllBacked
<1>4. ASSUME NEW p \in Procs, MergeIncidents(p)
      PROVE  AllBacked'
  <2>1. Saving(p, Merged(memIncidents[p], Correlate(memAlerts[p])))
    BY <1>4, MergeSaves
  <2>2. Backed(Merged(memIncidents[p], Correlate(memAlerts[p])))
    BY MergedBacked DEF AllBacked
  <2>3. \A q \in Procs : pc'[q] = "responded" => pc[q] = "responded" /\ loc'[q] = loc[q]
    BY <1>4 DEF MergeIncidents, Shape
  <2> DEFINE new == Merged(memIncidents[p], Correlate(memAlerts[p]))
  <2>4. incidents' = new /\ \A q \in Procs : memIncidents'[q] \in {memIncidents[q], new}
    BY <2>1 DEF Saving, Shape
  <2> HIDE DEF new
  <2>5. Backed(incidents)' /\ \A q \in Procs : Backed(memIncidents[q])'
    BY <1>2, <2>2, <2>4 DEF AllBacked, Backed, new
  <2>6. QED
    BY <1>2, <2>3, <2>5 DEF AllBacked
<1>5. ASSUME NEW p \in Procs, Handled(p)
      PROVE  AllBacked'
  <2>1. PICK i, new : Hand(p, i, new) /\ Saving(p, [memIncidents[p] EXCEPT ![i] = new])
    BY <1>5 DEF Handled
  <2> DEFINE book == [memIncidents[p] EXCEPT ![i] = new]
  <2>2. Backed(book)
    <3>1. ASSUME NEW j \in DOMAIN memIncidents[p], book[j].status = "contained"
          PROVE  OnRecord(j)
      BY <2>1, <3>1 DEF AllBacked, Backed, Hand
    <3>2. QED
      BY <3>1 DEF Backed
  <2>3. incidents' = book /\ \A q \in Procs : memIncidents'[q] \in {memIncidents[q], book}
    BY <2>1 DEF Saving, Shape
  <2> HIDE DEF book
  <2>4. Backed(incidents)' /\ \A q \in Procs : Backed(memIncidents[q])'
    BY <1>2, <2>2, <2>3 DEF AllBacked, Backed
  <2>5. QED
    BY <1>2, <1>5, <2>4 DEF AllBacked, Handled
<1>6. ASSUME NEW p \in Procs, RecordResponse(p)
      PROVE  AllBacked'
  <2>1. UNCHANGED <<incidents, memIncidents, loc>> /\ pc' = [pc EXCEPT ![p] = "responded"]
    BY <1>6 DEF RecordResponse
  <2>2. Contains(loc[p].action, loc[p].status) => OnRecord(loc[p].id)'
    <3> DEFINE r == [number |-> Cardinality(responses), id |-> loc[p].id,
                     action |-> loc[p].action, status |-> loc[p].status]
    <3>1. r \in responses' /\ r.id = loc[p].id /\ r.action = loc[p].action /\ r.status = loc[p].status
      BY <1>6 DEF RecordResponse
    <3>2. loc' = loc
      BY <1>6 DEF RecordResponse
    <3> HIDE DEF r
    <3>3. QED
      BY <3>1, <3>2 DEF OnRecord, Contains
  <2>3. Backed(incidents)' /\ \A q \in Procs : Backed(memIncidents[q])'
    BY <1>2, <2>1 DEF AllBacked, Backed
  <2>4. QED
    BY <1>2, <2>1, <2>2, <2>3 DEF AllBacked, Shape
<1>7. ASSUME UNCHANGED <<incidents, memIncidents>>,
             \A q \in Procs : pc'[q] = "responded" => pc[q] = "responded" /\ loc'[q] = loc[q]
      PROVE  AllBacked'
  <2>1. Backed(incidents)' /\ \A q \in Procs : Backed(memIncidents[q])'
    BY <1>2, <1>7 DEF AllBacked, Backed
  <2>2. QED
    BY <1>2, <1>7, <2>1 DEF AllBacked
<1>8. ASSUME NEW p \in Procs, UpsertAlerts(p) \/ LoadNotified(p) \/ Dispatch(p) \/ SaveNotified(p)
      PROVE  AllBacked'
  <2>1. UNCHANGED <<incidents, memIncidents>>
    BY <1>8, QuietDetection DEF Quiet
  <2>2. /\ \E s \in {"idle", "merge", "notify"} : pc' = [pc EXCEPT ![p] = s] \/ pc' = pc
        /\ \E l : loc' = [loc EXCEPT ![p] = l] \/ loc' = loc
        /\ pc'[p] # "responded"
    BY <1>8 DEF UpsertAlerts, LoadNotified, ToNotify, Dispatch, SaveNotified, Shape, history
  <2>3. \A q \in Procs : pc'[q] = "responded" => pc[q] = "responded" /\ loc'[q] = loc[q]
    BY <2>2 DEF Shape
  <2>4. QED
    BY <1>7, <2>1, <2>3
<1>9. ASSUME NEW p \in Procs, NEW i, NEW action, Execute(p, i, action)
      PROVE  AllBacked'
  <2>1. UNCHANGED <<incidents, memIncidents>>
    BY <1>9, QuietOthers DEF Quiet
  <2>2. pc' = [pc EXCEPT ![p] = "acted"] /\ \E l : loc' = [loc EXCEPT ![p] = l]
    BY <1>9 DEF Execute
  <2>3. \A q \in Procs : pc'[q] = "responded" => pc[q] = "responded" /\ loc'[q] = loc[q]
    BY <2>2 DEF Shape
  <2>4. QED
    BY <1>7, <2>1, <2>3
<1>10. CASE Collect \/ UNCHANGED vars
  BY <1>7, <1>10 DEF Collect, vars, files, memory, history
<1>11. ASSUME NEW p \in Procs, DetectionStep(p) \/ HumanStep(p)
       PROVE  AllBacked'
  BY <1>4, <1>5, <1>6, <1>8, <1>9, <1>11, TriageAloneHandles, TriageWithModelHandles, NoteResponseHandles
     DEF DetectionStep, HumanStep
<1>12. QED
  BY <1>3, <1>10, <1>11, CasebookAssumption DEF Next, CasebookAssumption

\* An incident filed as contained has a response on record that was no dry run.
THEOREM ContainmentIsBacked == Spec => []ContainedIsOnRecord
<1>1. Init => Shape /\ UpToDate /\ AllBacked
  <2>1. Init => Shape /\ UpToDate
    BY DEF Init, Shape, UpToDate, Up
  <2>2. Init => AllBacked
    <3> SUFFICES ASSUME Init PROVE AllBacked
      OBVIOUS
    <3>1. incidents = Empty /\ \A p \in Procs : memIncidents[p] = Empty /\ pc[p] = "down"
      BY DEF Init
    <3>2. QED
      BY <3>1, EmptyBacked DEF AllBacked
  <2>3. QED
    BY <2>1, <2>2
<1>2. Shape /\ UpToDate /\ AllBacked /\ [Next]_vars => (Shape /\ UpToDate /\ AllBacked)'
  BY CopiesStep, BackedStep
<1>3. AllBacked => ContainedIsOnRecord
  BY DEF AllBacked, Backed, OnRecord, ContainedIsOnRecord
<1>4. QED
  BY <1>1, <1>2, <1>3, PTL DEF Spec

-----------------------------------------------------------------------------
(* Who counts as told: whom the dispatcher was given, or did not send.     *)

Heard == DOMAIN offered \cup passed

AllTold ==
  /\ notified \subseteq Heard
  /\ \A p \in Procs : pc[p] = "notify" => loc[p].seen \ loc[p].todo \subseteq Heard

\* A step that notifies nobody, and reports no notification as done.
Silent ==
  /\ UNCHANGED <<offered, passed>> /\ notified' \subseteq notified
  /\ \A q \in Procs : pc'[q] = "notify" => pc[q] = "notify" /\ loc'[q] = loc[q]

LEMMA SilentKeeps ==
  ASSUME AllTold, Silent
  PROVE  AllTold'
BY DEF AllTold, Silent, Heard

LEMMA SilentLife ==
  ASSUME Shape, NEW p \in Procs, Start(p) \/ Stop(p) \/ Kill(p)
  PROVE  Silent
<1>1. UNCHANGED <<offered, passed>> /\ notified' \subseteq notified
  BY DEF Start, Stop, Kill, Emptied, files
<1>2. /\ \E s \in {"idle", "down"} : pc' = [pc EXCEPT ![p] = s]
      /\ loc' = [loc EXCEPT ![p] = NoLocal]
  BY DEF Start, Stop, Kill, Ended
<1>3. QED
  BY <1>1, <1>2 DEF Silent, Shape

LEMMA SilentFiling ==
  ASSUME Shape, NEW p \in Procs, UpsertAlerts(p) \/ MergeIncidents(p)
  PROVE  Silent
<1>1. UNCHANGED <<notified, offered, passed, loc>>
  BY DEF UpsertAlerts, MergeIncidents, history
<1>2. \E s \in {"merge", "filed"} : pc' = [pc EXCEPT ![p] = s]
  BY DEF UpsertAlerts, MergeIncidents
<1>3. QED
  BY <1>1, <1>2 DEF Silent, Shape

LEMMA SilentHumans ==
  ASSUME Shape, NEW p \in Procs, HumanStep(p)
  PROVE  Silent
<1>1. ASSUME NEW i, NEW priority, TriageAlone(p, i) \/ TriageWithModel(p, i, priority)
      PROVE  Silent
  BY <1>1 DEF TriageAlone, TriageWithModel, Silent
<1>2. ASSUME NEW i, NEW action, Execute(p, i, action)
      PROVE  Silent
  <2>1. UNCHANGED <<notified, offered, passed>> /\ pc' = [pc EXCEPT ![p] = "acted"]
    BY <1>2 DEF Execute, files
  <2>2. \E l : loc' = [loc EXCEPT ![p] = l]
    BY <1>2 DEF Execute
  <2>3. QED
    BY <2>1, <2>2 DEF Silent, Shape
<1>3. CASE RecordResponse(p)
  BY <1>3 DEF RecordResponse, Silent, Shape, history
<1>4. CASE NoteResponse(p)
  BY <1>4 DEF NoteResponse, Silent, Shape
<1>5. QED
  BY <1>1, <1>2, <1>3, <1>4 DEF HumanStep

LEMMA ToldStep ==
  ASSUME Shape, AllTold, [Next]_vars
  PROVE  AllTold'
<1>1. ASSUME NEW p \in Procs, LoadNotified(p)
      PROVE  AllTold'
  <2> DEFINE new == DOMAIN memIncidents[p] \ notified
  <2>1. /\ UNCHANGED <<notified, offered, passed>>
        /\ loc' = [loc EXCEPT ![p] = Telling(notified \cup new, new)]
        /\ pc' = [pc EXCEPT ![p] = IF new = {} THEN "idle" ELSE "notify"]
    BY <1>1 DEF LoadNotified, ToNotify, files, history
  <2>2. notified \subseteq Heard
    BY DEF AllTold
  <2> HIDE DEF new
  <2>3. loc'[p].seen \ loc'[p].todo \subseteq Heard
    BY <2>1, <2>2 DEF Telling, Shape
  <2>4. \A q \in Procs \ {p} : pc'[q] = pc[q] /\ loc'[q] = loc[q]
    BY <2>1 DEF Shape
  <2>5. QED
    BY <2>1, <2>3, <2>4 DEF AllTold, Heard
<1>2. ASSUME NEW p \in Procs, Dispatch(p)
      PROVE  AllTold'
  <2>1. PICK i : /\ loc' = [loc EXCEPT ![p] = Telling(@.seen, @.todo \ {i})]
                 /\ IF Gated(memIncidents[p][i])
                      THEN passed' = passed \cup {i} /\ offered' = offered
                      ELSE DOMAIN offered' = DOMAIN offered \cup {i} /\ passed' = passed
    BY <1>2 DEF Dispatch
  <2>2. UNCHANGED <<notified, pc>> /\ pc[p] = "notify"
    BY <1>2 DEF Dispatch, files
  <2>3. Heard' = Heard \cup {i}
    BY <2>1 DEF Heard
  <2>4. loc'[p].seen = loc[p].seen /\ loc'[p].todo = loc[p].todo \ {i}
    BY <2>1 DEF Telling, Shape
  <2>5. \A q \in Procs \ {p} : loc'[q] = loc[q]
    BY <2>1 DEF Shape
  <2>6. QED
    BY <2>2, <2>3, <2>4, <2>5 DEF AllTold
<1>3. ASSUME NEW p \in Procs, SaveNotified(p)
      PROVE  AllTold'
  <2>1. /\ notified' = loc[p].seen /\ loc[p].todo = {} /\ pc[p] = "notify"
        /\ UNCHANGED <<offered, passed>>
        /\ pc' = [pc EXCEPT ![p] = "idle"] /\ loc' = [loc EXCEPT ![p] = NoLocal]
    BY <1>3 DEF SaveNotified, history
  <2>2. loc[p].seen \subseteq Heard
    BY <2>1 DEF AllTold
  <2>3. \A q \in Procs : pc'[q] = "notify" => pc[q] = "notify" /\ loc'[q] = loc[q]
    BY <2>1 DEF Shape
  <2>4. QED
    BY <2>1, <2>2, <2>3 DEF AllTold, Heard
<1>4. CASE Collect \/ UNCHANGED vars
  BY <1>4, SilentKeeps DEF Silent, Collect, vars, files, memory, history
<1>5. ASSUME NEW p \in Procs, Start(p) \/ Stop(p) \/ Kill(p) \/ DetectionStep(p) \/ HumanStep(p)
      PROVE  AllTold'
  BY <1>1, <1>2, <1>3, <1>5, SilentKeeps, SilentLife, SilentFiling, SilentHumans DEF DetectionStep
<1>6. QED
  BY <1>4, <1>5, CasebookAssumption DEF Next, CasebookAssumption

\* Who counts as told was handed to the channels, or was below the threshold.
THEOREM ToldWereTold == Spec => []SeenWasTold
<1>1. Init => Shape /\ UpToDate /\ AllTold
  BY DEF Init, Shape, UpToDate, Up, AllTold
<1>2. Shape /\ UpToDate /\ AllTold /\ [Next]_vars => (Shape /\ UpToDate /\ AllTold)'
  BY CopiesStep, ToldStep
<1>3. AllTold => SeenWasTold
  BY DEF AllTold, Heard, SeenWasTold
<1>4. QED
  BY <1>1, <1>2, <1>3, PTL DEF Spec

-----------------------------------------------------------------------------
(* Induction: naturals, finite sets, folds over finite sets.               *)

LEMMA LeastMember ==
  ASSUME NEW T \in SUBSET Nat, T # {}
  PROVE  \E x \in T : \A y \in T : x <= y
<1> DEFINE smaller == {ss \in Nat \X Nat : ss[1] < ss[2]}
<1>1. IsWellFoundedOn(smaller, Nat)
  BY NatLessThanWellFounded DEF OpToRel
<1>2. \A x, y \in Nat : <<y, x>> \in smaller <=> y < x
  OBVIOUS
<1> HIDE DEF smaller
<1>3. PICK x \in T : \A y \in T : ~ (<<y, x>> \in smaller)
  BY <1>1, WFMin
<1>4. ASSUME NEW y \in T
      PROVE  x <= y
  <2>1. x \in Nat /\ y \in Nat /\ ~ (y < x)
    BY <1>2, <1>3
  <2>2. QED
    BY <2>1
<1>5. QED
  BY <1>4

LEMMA NatSet ==
  ASSUME NEW S, 0 \in S, \A n \in Nat : n \in S => n + 1 \in S
  PROVE  \A n \in Nat : n \in S
<1> DEFINE T == Nat \ S
<1>1. SUFFICES ASSUME T # {} PROVE FALSE
  OBVIOUS
<1>2. PICK x \in T : \A y \in T : x <= y
  BY <1>1, LeastMember
<1>3. x # 0 /\ x - 1 \in Nat
  BY <1>2
<1>4. x - 1 \in S
  BY <1>2, <1>3
<1>5. QED
  BY <1>2, <1>3, <1>4

LEMMA ImageFinite ==
  ASSUME NEW S, IsFiniteSet(S), NEW f
  PROVE  IsFiniteSet({f[x] : x \in S})
<1> DEFINE T == {f[x] : x \in S}
           g == [x \in S |-> f[x]]
<1>1. g \in Surjection(S, T)
  BY DEF Surjection
<1>2. QED
  BY <1>1, FS_Surjection

\* The element that a fold takes next.
Pick(s) == CHOOSE x \in s : TRUE

\* What holds of the empty set, and of a set when it holds of the set without
\* the element picked from it, holds of all finite sets.
LEMMA SetInduct ==
  ASSUME NEW S, IsFiniteSet(S), NEW G, {} \in G,
         \A s \in SUBSET S : s # {} /\ s \ {Pick(s)} \in G => s \in G
  PROVE  \A s \in SUBSET S : s \in G
<1> DEFINE Sizes == {n \in Nat : \A s \in SUBSET S : Cardinality(s) = n => s \in G}
<1>1. \A s \in SUBSET S : IsFiniteSet(s) /\ Cardinality(s) \in Nat
  BY FS_Subset, FS_CardinalityType
<1>2. 0 \in Sizes
  <2>1. \A s \in SUBSET S : Cardinality(s) = 0 => s = {}
    BY <1>1, FS_EmptySet
  <2>2. QED
    BY <2>1
<1>3. ASSUME NEW n \in Nat, n \in Sizes
      PROVE  n + 1 \in Sizes
  <2> SUFFICES ASSUME NEW s \in SUBSET S, Cardinality(s) = n + 1
               PROVE  s \in G
    BY <1>3
  <2>1. s # {}
    <3>1. Cardinality({}) = 0 /\ n + 1 # 0
      BY <1>3, FS_EmptySet
    <3>2. QED
      BY <3>1
  <2>2. Pick(s) \in s
    BY <2>1 DEF Pick
  <2>3. Cardinality(s \ {Pick(s)}) = Cardinality(s) - 1
    BY <1>1, <2>2, FS_RemoveElement
  <2>4. Cardinality(s \ {Pick(s)}) = n
    BY <1>3, <2>3
  <2>5. s \ {Pick(s)} \in G
    BY <1>3, <2>4
  <2>6. QED
    BY <2>1, <2>5
<1> HIDE DEF Sizes
<1>4. \A n \in Nat : n \in Sizes
  BY <1>2, <1>3, NatSet
<1>5. QED
  BY <1>1, <1>4 DEF Sizes

\* f folds over the sets in D with the step function, from base on.
FoldsOver(f, D, base, step) ==
  f = [s \in D |-> IF s = {} THEN base ELSE step[<<Pick(s), f[s \ {Pick(s)}]>>]]

LEMMA FoldExists ==
  ASSUME NEW S, IsFiniteSet(S), NEW base, NEW step
  PROVE  \E f : FoldsOver(f, SUBSET S, base, step)
<1> DEFINE Small(n) == {s \in SUBSET S : Cardinality(s) <= n}
           Reached == {n \in Nat : \E f : FoldsOver(f, Small(n), base, step)}
<1>1. \A s \in SUBSET S : IsFiniteSet(s) /\ Cardinality(s) \in Nat
  BY FS_Subset, FS_CardinalityType
<1>2. ASSUME NEW s \in SUBSET S, s # {}
      PROVE  s \ {Pick(s)} \in SUBSET S /\ Cardinality(s \ {Pick(s)}) = Cardinality(s) - 1
  BY <1>1, <1>2, FS_RemoveElement DEF Pick
<1>3. Small(0) = {{}}
  BY <1>1, FS_EmptySet
<1>4. 0 \in Reached
  <2> DEFINE f == [s \in Small(0) |-> base]
  <2>1. FoldsOver(f, Small(0), base, step)
    BY <1>3 DEF FoldsOver
  <2>2. QED
    BY <2>1
<1>5. ASSUME NEW n \in Nat, n \in Reached
      PROVE  n + 1 \in Reached
  <2>1. PICK f : FoldsOver(f, Small(n), base, step)
    BY <1>5
  <2> DEFINE g == [s \in Small(n + 1) |->
                     IF s \in Small(n) THEN f[s] ELSE step[<<Pick(s), f[s \ {Pick(s)}]>>]]
  <2>2. ASSUME NEW s \in Small(n + 1), s # {}
        PROVE  /\ s \ {Pick(s)} \in Small(n) /\ s \ {Pick(s)} \in Small(n + 1)
               /\ g[s] = step[<<Pick(s), g[s \ {Pick(s)}]>>]
    <3>0. s \in SUBSET S /\ Cardinality(s) \in Nat /\ Cardinality(s) <= n + 1
      BY <1>1
    <3>1. s \ {Pick(s)} \in Small(n) /\ s \ {Pick(s)} \in Small(n + 1)
      <4>1. s \ {Pick(s)} \in SUBSET S /\ Cardinality(s \ {Pick(s)}) = Cardinality(s) - 1
        BY <1>2, <2>2, <3>0
      <4>2. Cardinality(s \ {Pick(s)}) <= n /\ Cardinality(s \ {Pick(s)}) <= n + 1
        BY <1>5, <3>0, <4>1
      <4>3. QED
        BY <4>1, <4>2
    <3>2. g[s \ {Pick(s)}] = f[s \ {Pick(s)}]
      BY <3>1
    <3>3. s \in Small(n) => f[s] = step[<<Pick(s), f[s \ {Pick(s)}]>>]
      BY <2>1, <2>2 DEF FoldsOver
    <3>4. QED
      BY <3>1, <3>2, <3>3
  <2>3. {} \in Small(n) /\ f[{}] = base
    BY <2>1, FS_EmptySet DEF FoldsOver
  <2>4. {} \in Small(n + 1) => g[{}] = base
    BY <2>3
  <2> HIDE DEF Small
  <2>5. g = [s \in Small(n + 1) |-> g[s]]
    OBVIOUS
  <2>6. \A s \in Small(n + 1) : g[s] = IF s = {} THEN base ELSE step[<<Pick(s), g[s \ {Pick(s)}]>>]
    BY <2>2, <2>4
  <2> HIDE DEF g
  <2>7. FoldsOver(g, Small(n + 1), base, step)
    BY <2>5, <2>6 DEF FoldsOver
  <2>8. QED
    BY <2>7
<1>6. \A n \in Nat : n \in Reached
  <2> HIDE DEF Reached
  <2>1. QED
    BY <1>4, <1>5, NatSet
<1>7. PICK n \in Nat : n = Cardinality(S)
  BY <1>1
<1>8. SUBSET S = Small(n)
  BY <1>1, <1>7, FS_Subset
<1> HIDE DEF Small
<1>9. QED
  BY <1>6, <1>8

LEMMA FoldTyped ==
  ASSUME NEW S, IsFiniteSet(S), NEW R, NEW base \in R, NEW step \in [S \X R -> R],
         NEW f, FoldsOver(f, SUBSET S, base, step)
  PROVE  \A s \in SUBSET S : f[s] \in R
<1> DEFINE G == {s \in SUBSET S : f[s] \in R}
<1>1. {} \in G
  BY DEF FoldsOver
<1>2. ASSUME NEW s \in SUBSET S, s # {}, s \ {Pick(s)} \in G
      PROVE  s \in G
  <2>1. Pick(s) \in S /\ f[s] = step[<<Pick(s), f[s \ {Pick(s)}]>>]
    BY <1>2 DEF FoldsOver, Pick
  <2>2. <<Pick(s), f[s \ {Pick(s)}]>> \in S \X R
    BY <1>2, <2>1
  <2>3. f[s] \in R
    BY <2>1, <2>2
  <2>4. QED
    BY <2>3
<1> HIDE DEF G
<1>3. \A s \in SUBSET S : s \in G
  BY <1>1, <1>2, SetInduct
<1>4. QED
  BY <1>3 DEF G

-----------------------------------------------------------------------------
(* The union-find of the correlation.                                      *)

\* What is linked in r stays linked in u.
StaysLinked(r, u) == \A m, n \in DOMAIN r : r[m] = r[n] => u[m] = u[n]

LEMMA UnionLinks ==
  ASSUME NEW D, NEW r \in [D -> D], NEW a \in D, NEW b \in D
  PROVE  /\ Union(a, b, r) \in [D -> D]
         /\ Union(a, b, r)[a] = Union(a, b, r)[b]
         /\ StaysLinked(r, Union(a, b, r))
BY DEF Union, StaysLinked

\* One alert's fold: every node of it is linked to the first.
LEMMA LinkedLinks ==
  ASSUME NEW D, NEW r \in [D -> D], NEW alert,
         IsFiniteSet(NodesOf(alert)), NodesOf(alert) # {}, NodesOf(alert) \subseteq D
  PROVE  /\ Linked(alert, r) \in [D -> D]
         /\ StaysLinked(r, Linked(alert, r))
         /\ \A m, n \in NodesOf(alert) : Linked(alert, r)[m] = Linked(alert, r)[n]
<1> DEFINE N == NodesOf(alert)
           first == CHOOSE n \in N : TRUE
           step == [x \in N \X [D -> D] |-> Union(first, x[1], x[2])]
           Linking(g) == g = [s \in SUBSET N |->
                               IF s = {} THEN r ELSE Union(first, Pick(s), g[s \ {Pick(s)}])]
<1>1. first \in N /\ first \in D
  OBVIOUS
<1> HIDE DEF N, first
<1>2. N \subseteq D /\ IsFiniteSet(N)
  BY DEF N
<1>3. step \in [N \X [D -> D] -> [D -> D]]
  BY <1>1, <1>2, UnionLinks
<1>4. \A x \in N, u \in [D -> D] : step[<<x, u>>] = Union(first, x, u)
  OBVIOUS
<1> HIDE DEF step
<1>5. PICK f : FoldsOver(f, SUBSET N, r, step)
  BY <1>2, FoldExists
<1>6. \A s \in SUBSET N : f[s] \in [D -> D]
  BY <1>2, <1>3, <1>5, FoldTyped
<1>7. ASSUME NEW s \in SUBSET N
      PROVE  f[s] = IF s = {} THEN r ELSE Union(first, Pick(s), f[s \ {Pick(s)}])
  <2>1. s # {} => Pick(s) \in N /\ s \ {Pick(s)} \in SUBSET N
    BY DEF Pick
  <2>2. f[s] = IF s = {} THEN r ELSE step[<<Pick(s), f[s \ {Pick(s)}]>>]
    BY <1>5 DEF FoldsOver
  <2>3. QED
    BY <1>4, <1>6, <2>1, <2>2
<1>8. f = [s \in SUBSET N |-> f[s]]
  BY <1>5 DEF FoldsOver
<1>9. Linking(f)
  BY <1>7, <1>8
<1>10. PICK g : Linking(g) /\ Linked(alert, r) = g[N]
  <2>1. \E g : Linking(g)
    BY <1>9
  <2>2. QED
    BY <2>1 DEF Linked, FoldSet, MapThenFoldSet, N, first, Pick
<1> DEFINE G == {s \in SUBSET N : /\ g[s] \in [D -> D] /\ StaysLinked(r, g[s])
                                  /\ \A n \in s : g[s][n] = g[s][first]}
<1>11. {} \in G
  BY <1>10 DEF StaysLinked
<1>12. ASSUME NEW s \in SUBSET N, s # {}, s \ {Pick(s)} \in G
       PROVE  s \in G
  <2> DEFINE x == Pick(s)
             u == g[s \ {x}]
  <2>1. x \in s /\ x \in D /\ g[s] = Union(first, x, u)
    BY <1>2, <1>10, <1>12 DEF Pick
  <2>2. u \in [D -> D] /\ StaysLinked(r, u) /\ \A n \in s \ {x} : u[n] = u[first]
    BY <1>12
  <2> HIDE DEF x, u
  <2>3. /\ g[s] \in [D -> D] /\ g[s][first] = g[s][x] /\ StaysLinked(u, g[s])
    <3>1. u \in [D -> D] /\ first \in D /\ x \in D
      BY <1>1, <2>1, <2>2
    <3>2. /\ Union(first, x, u) \in [D -> D]
          /\ Union(first, x, u)[first] = Union(first, x, u)[x]
          /\ StaysLinked(u, Union(first, x, u))
      BY ONLY <3>1, UnionLinks
    <3>3. QED
      BY <2>1, <3>2
  <2>4. StaysLinked(r, g[s])
    BY <2>2, <2>3 DEF StaysLinked
  <2>5. \A n \in s : g[s][n] = g[s][first]
    BY <1>1, <1>2, <2>2, <2>3 DEF StaysLinked
  <2>6. QED
    BY <2>3, <2>4, <2>5
<1> HIDE DEF G
<1>13. N \in G
  BY <1>2, <1>11, <1>12, SetInduct
<1>14. QED
  BY <1>10, <1>13 DEF G, N

\* The roots of a finite set of alerts: all nodes of an alert have one root.
LEMMA RootsLink ==
  ASSUME NEW A, IsFiniteSet(A), \A a \in A : IsFiniteSet(a[2])
  PROVE  /\ Roots(A) \in [Nodes(A) -> Nodes(A)]
         /\ \A a \in A : \A m, n \in NodesOf(a) : Roots(A)[m] = Roots(A)[n]
<1> DEFINE D == Nodes(A)
           apart == [n \in D |-> n]
           step == [x \in A \X [D -> D] |-> Linked(x[1], x[2])]
           Linking(g) == g = [s \in SUBSET A |->
                               IF s = {} THEN apart ELSE Linked(Pick(s), g[s \ {Pick(s)}])]
<1>1. \A a \in A : IsFiniteSet(NodesOf(a)) /\ NodesOf(a) # {} /\ NodesOf(a) \subseteq D
  <2> TAKE a \in A
  <2>1. IsFiniteSet({<<"alert", a>>})
    BY FS_Singleton
  <2>2. QED
    BY <2>1 DEF NodesOf, Nodes
<1> HIDE DEF D
<1>2. apart \in [D -> D]
  OBVIOUS
<1>3. ASSUME NEW a \in A, NEW r \in [D -> D]
      PROVE  /\ Linked(a, r) \in [D -> D] /\ StaysLinked(r, Linked(a, r))
             /\ \A m, n \in NodesOf(a) : Linked(a, r)[m] = Linked(a, r)[n]
  BY <1>1, LinkedLinks
<1>4. step \in [A \X [D -> D] -> [D -> D]]
  BY <1>3
<1>5. \A a \in A, r \in [D -> D] : step[<<a, r>>] = Linked(a, r)
  OBVIOUS
<1> HIDE DEF step, apart
<1>6. PICK f : FoldsOver(f, SUBSET A, apart, step)
  BY FoldExists
<1>7. \A s \in SUBSET A : f[s] \in [D -> D]
  BY <1>2, <1>4, <1>6, FoldTyped
<1>8. ASSUME NEW s \in SUBSET A
      PROVE  f[s] = IF s = {} THEN apart ELSE Linked(Pick(s), f[s \ {Pick(s)}])
  <2>1. s # {} => Pick(s) \in A /\ s \ {Pick(s)} \in SUBSET A
    BY DEF Pick
  <2>2. f[s] = IF s = {} THEN apart ELSE step[<<Pick(s), f[s \ {Pick(s)}]>>]
    BY <1>6 DEF FoldsOver
  <2>3. QED
    BY <1>5, <1>7, <2>1, <2>2
<1>9. f = [s \in SUBSET A |-> f[s]]
  BY <1>6 DEF FoldsOver
<1>10. Linking(f)
  BY <1>8, <1>9
<1>11. PICK g : Linking(g) /\ Roots(A) = g[A]
  <2>1. \E g : Linking(g)
    BY <1>10
  <2>2. QED
    BY <2>1 DEF Roots, FoldSet, MapThenFoldSet, D, apart, Pick
<1> DEFINE G == {s \in SUBSET A : /\ g[s] \in [D -> D]
                                  /\ \A a \in s : \A m, n \in NodesOf(a) : g[s][m] = g[s][n]}
<1>12. {} \in G
  BY <1>2, <1>11
<1>13. ASSUME NEW s \in SUBSET A, s # {}, s \ {Pick(s)} \in G
       PROVE  s \in G
  <2> DEFINE x == Pick(s)
             u == g[s \ {x}]
  <2>1. x \in s /\ x \in A /\ g[s] = Linked(x, u)
    BY <1>11, <1>13 DEF Pick
  <2>2. /\ u \in [D -> D]
        /\ \A a \in s \ {x} : \A m, n \in NodesOf(a) : u[m] = u[n]
    BY <1>13
  <2> HIDE DEF x, u
  <2>3. /\ g[s] \in [D -> D] /\ StaysLinked(u, g[s])
        /\ \A m, n \in NodesOf(x) : g[s][m] = g[s][n]
    BY <1>3, <2>1, <2>2
  <2>4. ASSUME NEW a \in s, NEW m \in NodesOf(a), NEW n \in NodesOf(a)
        PROVE  g[s][m] = g[s][n]
    <3>1. CASE a = x
      BY <2>3, <3>1
    <3>2. CASE a # x
      <4>1. u[m] = u[n] /\ m \in D /\ n \in D
        BY <1>1, <2>2, <3>2
      <4>2. QED
        BY <2>2, <2>3, <4>1 DEF StaysLinked
    <3>3. QED
      BY <3>1, <3>2
  <2>5. QED
    BY <2>3, <2>4
<1> HIDE DEF G
<1>14. A \in G
  BY <1>12, <1>13, SetInduct
<1>15. QED
  BY <1>11, <1>14 DEF G, D

\* No group is empty, and alerts that share an entity are in one group, whose
\* id no other group has.
LEMMA GroupsShare ==
  ASSUME NEW A, IsFiniteSet(A), \A a \in A : IsFiniteSet(a[2])
  PROVE  /\ \A g \in Groups(A) : g # {} /\ g \subseteq A
         /\ \A a, b \in A : a[2] \cap b[2] # {} =>
              \E g \in Groups(A) : /\ {a, b} \subseteq g
                                   /\ \A h \in Groups(A) : EntitiesOf(h) = EntitiesOf(g) => h = g
<1> DEFINE root == Roots(A)
           Group(r) == {a \in A : NodesOf(a) \subseteq {n \in DOMAIN root : root[n] = r}}
<1>1. DOMAIN root = Nodes(A) /\ \A a \in A : \A m, n \in NodesOf(a) : root[m] = root[n]
  BY RootsLink
<1>2. Groups(A) = {Group(r) : r \in {root[n] : n \in DOMAIN root}}
  BY DEF Groups
<1> HIDE DEF root
<1>3. ASSUME NEW a \in A, NEW n \in NodesOf(a)
      PROVE  a \in Group(root[n]) /\ Group(root[n]) \in Groups(A)
  <2>1. NodesOf(a) \subseteq DOMAIN root
    BY <1>1 DEF Nodes
  <2>2. \A m \in NodesOf(a) : root[m] = root[n]
    BY <1>1
  <2>3. QED
    BY <1>2, <2>1, <2>2
<1>4. ASSUME NEW g \in Groups(A)
      PROVE  g # {} /\ g \subseteq A
  <2>1. PICK n \in Nodes(A) : g = Group(root[n])
    BY <1>1, <1>2
  <2>2. PICK a \in A : n \in NodesOf(a)
    BY DEF Nodes
  <2>3. QED
    BY <1>3, <2>1, <2>2
<1>5. ASSUME NEW a \in A, NEW b \in A, a[2] \cap b[2] # {}
      PROVE  \E g \in Groups(A) : /\ {a, b} \subseteq g
                                  /\ \A h \in Groups(A) : EntitiesOf(h) = EntitiesOf(g) => h = g
  <2>1. PICK e : e \in a[2] /\ e \in b[2]
    BY <1>5
  <2>2. \A c \in A : e \in c[2] => e \in NodesOf(c)
    BY DEF NodesOf
  <2>3. Group(root[e]) \in Groups(A) /\ {a, b} \subseteq Group(root[e])
    BY <1>3, <2>1, <2>2
  <2>4. ASSUME NEW h \in Groups(A), EntitiesOf(h) = EntitiesOf(Group(root[e]))
        PROVE  h = Group(root[e])
    <3>1. e \in EntitiesOf(Group(root[e]))
      BY <2>1, <2>3 DEF EntitiesOf
    <3>2. PICK c \in h : e \in c[2]
      BY <2>4, <3>1 DEF EntitiesOf
    <3>3. PICK r : h = Group(r)
      BY <1>2
    <3>4. e \in NodesOf(c)
      BY <1>4, <2>2, <3>2
    <3>5. root[e] = r
      BY <3>2, <3>3, <3>4
    <3>6. QED
      BY <3>3, <3>5
  <2>5. QED
    BY <2>3, <2>4
<1>6. QED
  BY <1>4, <1>5

-----------------------------------------------------------------------------
(* What the correlation files.                                             *)

AlertBook(book) ==
  /\ IsFiniteSet(DOMAIN book)
  /\ \A a \in DOMAIN book : IsFiniteSet(a[2]) /\ book[a] \in Severities

LEMMA WorstIsLeast ==
  ASSUME NEW book, NEW g, g # {}, \A a \in g : book[a] \in Severities
  PROVE  Worst(book, g) \in Severities /\ \A a \in g : Worst(book, g) <= book[a]
<1> DEFINE T == {book[a] : a \in g}
<1>1. T \in SUBSET Nat /\ T # {} /\ T \subseteq Severities
  BY DEF Severities
<1>2. PICK s \in T : \A y \in T : s <= y
  BY <1>1, LeastMember
<1>3. s \in {book[a] : a \in g} /\ \A a \in g : s <= book[a]
  BY <1>2
<1>4. Worst(book, g) \in {book[a] : a \in g} /\ \A a \in g : Worst(book, g) <= book[a]
  BY <1>3 DEF Worst
<1>5. QED
  BY <1>1, <1>4

LEMMA LastFiledIsOne ==
  ASSUME NEW found, NEW i, \E f \in found : f.id = i, \A f \in found : f.severity \in Severities
  PROVE  LastFiled(found, i) \in found /\ LastFiled(found, i).id = i
<1> DEFINE T == {4 - f.severity : f \in {g \in found : g.id = i}}
<1>1. T \in SUBSET Nat /\ T # {}
  BY DEF Severities
<1>2. PICK s \in T : \A y \in T : s <= y
  BY <1>1, LeastMember
<1>3. PICK f \in found : f.id = i /\ s = 4 - f.severity
  BY <1>2
<1>4. ASSUME NEW g \in found, g.id = i
      PROVE  g.severity <= f.severity
  <2>1. 4 - f.severity <= 4 - g.severity
    BY <1>2, <1>3, <1>4
  <2>2. f.severity \in 0..4 /\ g.severity \in 0..4
    BY <1>3, <1>4 DEF Severities
  <2>3. QED
    BY <2>1, <2>2
<1>5. f.id = i /\ \A g \in found : g.id = i => g.severity <= f.severity
  BY <1>3, <1>4
<1>6. QED
  BY <1>5 DEF LastFiled

\* Alerts a and b are in one of the incidents, which names all their entities
\* and is as severe as the worse of the two.
Together(book, incs, a, b) ==
  \E i \in DOMAIN incs :
    /\ {a, b} \subseteq incs[i].alerts
    /\ a[2] \cup b[2] \subseteq i
    /\ incs[i].severity <= book[a] /\ incs[i].severity <= book[b]

LEMMA CorrelateTypes ==
  ASSUME NEW book, AlertBook(book)
  PROVE  \A f \in Correlate(book) : f.severity \in Severities
<1>1. \A g \in Groups(DOMAIN book) : g # {} /\ g \subseteq DOMAIN book
  BY GroupsShare DEF AlertBook
<1>2. \A g \in Groups(DOMAIN book) : Worst(book, g) \in Severities
  <2> TAKE g \in Groups(DOMAIN book)
  <2>1. QED
    BY <1>1, WorstIsLeast DEF AlertBook
<1>3. QED
  BY <1>2 DEF Correlate

LEMMA MergeFilesTogether ==
  ASSUME NEW book, AlertBook(book), NEW old, NEW a \in DOMAIN book, NEW b \in DOMAIN book,
         a[2] \cap b[2] # {}
  PROVE  Together(book, Merged(old, Correlate(book)), a, b)
<1> DEFINE found == Correlate(book)
           incs == Merged(old, found)
<1>1. PICK g \in Groups(DOMAIN book) :
        /\ {a, b} \subseteq g
        /\ \A h \in Groups(DOMAIN book) : EntitiesOf(h) = EntitiesOf(g) => h = g
  BY GroupsShare DEF AlertBook
<1>2. g # {} /\ g \subseteq DOMAIN book
  BY GroupsShare DEF AlertBook
<1>3. Worst(book, g) \in Severities /\ \A c \in g : Worst(book, g) <= book[c]
  BY <1>2, WorstIsLeast DEF AlertBook
<1> DEFINE i == EntitiesOf(g)
           mine == [id |-> i, severity |-> Worst(book, g), alerts |-> g]
<1>4. mine \in found
  BY DEF Correlate
<1>5. \A f \in found : f.id = i => f = mine
  BY <1>1 DEF Correlate
<1>6. \A f \in found : f.severity \in Severities
  BY CorrelateTypes
<1> HIDE DEF found
<1>7. LastFiled(found, i) = mine
  <2>1. mine.id = i
    OBVIOUS
  <2> HIDE DEF mine, i
  <2>2. LastFiled(found, i) \in found /\ LastFiled(found, i).id = i
    BY <1>4, <1>6, <2>1, LastFiledIsOne
  <2>3. QED
    BY <1>5, <2>2
<1>8. i \in {f.id : f \in found}
  BY <1>4
<1>9. i \in DOMAIN incs /\ incs[i] = Refreshed(old, i, mine)
  BY <1>7, <1>8 DEF Merged
<1>10. incs[i].alerts = g /\ incs[i].severity = Worst(book, g)
  BY <1>9 DEF Refreshed
<1>11. a[2] \cup b[2] \subseteq i
  BY <1>1 DEF EntitiesOf
<1> HIDE DEF i, incs
<1>12. Together(book, incs, a, b)
  BY <1>1, <1>3, <1>9, <1>10, <1>11 DEF Together
<1>13. QED
  BY <1>12 DEF incs, found

-----------------------------------------------------------------------------
(* What the detection finds: finitely many alerts of known severities.     *)

\* Finitely many alerts, each with finitely many entities.
Findable(found) ==
  /\ IsFiniteSet(found)
  /\ \A a \in found : /\ a = [id |-> a.id, severity |-> a.severity]
                      /\ IsFiniteSet(a.id[2]) /\ a.severity \in Severities

LEMMA EntitiesFinite ==
  ASSUME NEW ev
  PROVE  IsFiniteSet(Entities(ev))
<1>1. IsFiniteSet({<<"ip", ev.ip>>, <<"user", ev.user>>, <<"host", ev.host>>})
  <2>1. IsFiniteSet({<<"ip", ev.ip>>})
    BY FS_Singleton
  <2>2. IsFiniteSet({<<"ip", ev.ip>>} \cup {<<"user", ev.user>>})
    BY <2>1, FS_AddElement
  <2>3. IsFiniteSet(({<<"ip", ev.ip>>} \cup {<<"user", ev.user>>}) \cup {<<"host", ev.host>>})
    BY <2>2, FS_AddElement
  <2>4. QED
    BY <2>3
<1>2. Entities(ev) \in SUBSET {<<"ip", ev.ip>>, <<"user", ev.user>>, <<"host", ev.host>>}
  BY DEF Entities
<1>3. QED
  BY <1>1, <1>2, FS_Subset

\* The alerts of a finite number of inputs.
LEMMA FindableImage ==
  ASSUME NEW S, IsFiniteSet(S), NEW f, NEW T \in SUBSET {f[x] : x \in S},
         \A t \in T : /\ t = [id |-> t.id, severity |-> t.severity]
                      /\ IsFiniteSet(t.id[2]) /\ t.severity \in Severities
  PROVE  Findable(T)
<1>1. IsFiniteSet({f[x] : x \in S})
  BY ImageFinite
<1>2. IsFiniteSet(T)
  BY <1>1, FS_Subset
<1>3. QED
  BY <1>2 DEF Findable

LEMMA SigmaFindable ==
  ASSUME NEW events, IsFiniteSet(events)
  PROVE  Findable(SigmaAlerts(events))
<1> DEFINE S == SigmaRules \X events
           f == [x \in S |-> Alert(x[1].name, x[1].severity, Entities(x[2]))]
<1>1. IsFiniteSet(S)
  BY FS_Product, DetectionAssumption DEF DetectionAssumption
<1>2. SigmaAlerts(events) \in SUBSET {f[x] : x \in S}
  <2>1. ASSUME NEW m \in [rule : SigmaRules, ev : events]
        PROVE  Alert(m.rule.name, m.rule.severity, Entities(m.ev)) \in {f[x] : x \in S}
    <3>1. <<m.rule, m.ev>> \in S
      OBVIOUS
    <3>2. f[<<m.rule, m.ev>>] = Alert(m.rule.name, m.rule.severity, Entities(m.ev))
      BY <3>1
    <3>3. QED
      BY <3>1, <3>2
  <2>2. QED
    BY <2>1 DEF SigmaAlerts
<1>3. ASSUME NEW t \in SigmaAlerts(events)
      PROVE  /\ t = [id |-> t.id, severity |-> t.severity]
             /\ IsFiniteSet(t.id[2]) /\ t.severity \in Severities
  <2>1. PICK m \in [rule : SigmaRules, ev : events] :
          t = Alert(m.rule.name, m.rule.severity, Entities(m.ev))
    BY DEF SigmaAlerts
  <2>2. m.rule.severity \in Severities /\ IsFiniteSet(Entities(m.ev))
    BY EntitiesFinite, DetectionAssumption DEF DetectionAssumption
  <2>3. QED
    BY <2>1, <2>2 DEF Alert
<1> HIDE DEF S, f
<1>4. QED
  BY <1>1, <1>2, <1>3, FindableImage

LEMMA SingleEventsFindable ==
  ASSUME NEW events, IsFiniteSet(events)
  PROVE  /\ Findable(SudoAlerts(events)) /\ Findable(GroupAlerts(events))
         /\ Findable(WebAlerts(events))
<1>1. \A ev : IsFiniteSet(Entities(ev))
  BY EntitiesFinite
<1>2. {0, 1, 2} \subseteq Severities
  BY DEF Severities
<1>3. Findable(SudoAlerts(events))
  <2> DEFINE f == [ev \in events |-> Alert("sudo-suspicious-command", 2, Entities(ev))]
  <2>1. SudoAlerts(events) \in SUBSET {f[x] : x \in events}
    BY DEF SudoAlerts
  <2>2. \A t \in SudoAlerts(events) : /\ t = [id |-> t.id, severity |-> t.severity]
                                      /\ IsFiniteSet(t.id[2]) /\ t.severity \in Severities
    BY <1>1, <1>2 DEF SudoAlerts, Alert
  <2>3. QED
    BY <2>1, <2>2, FindableImage
<1>4. Findable(GroupAlerts(events))
  <2> DEFINE f == [ev \in events |-> Alert("privileged-group-change", 1, Entities(ev))]
  <2>1. GroupAlerts(events) \in SUBSET {f[x] : x \in events}
    BY DEF GroupAlerts
  <2>2. \A t \in GroupAlerts(events) : /\ t = [id |-> t.id, severity |-> t.severity]
                                       /\ IsFiniteSet(t.id[2]) /\ t.severity \in Severities
    BY <1>1, <1>2 DEF GroupAlerts, Alert
  <2>3. QED
    BY <2>1, <2>2, FindableImage
<1>5. Findable(WebAlerts(events))
  <2> DEFINE signs == {"sqli", "path_traversal", "xss", "cmd_injection"}
             S == signs \X events
             f == [x \in S |-> Alert(WebRule[x[1]], 1, Entities(x[2]))]
  <2>1. DOMAIN WebRule = signs
    BY DEF WebRule
  <2>2. IsFiniteSet(S)
    <3>1. IsFiniteSet({"sqli"})
      BY FS_Singleton
    <3>2. IsFiniteSet({"sqli"} \cup {"path_traversal"})
      BY <3>1, FS_AddElement
    <3>3. IsFiniteSet(({"sqli"} \cup {"path_traversal"}) \cup {"xss"})
      BY <3>2, FS_AddElement
    <3>4. IsFiniteSet((({"sqli"} \cup {"path_traversal"}) \cup {"xss"}) \cup {"cmd_injection"})
      BY <3>3, FS_AddElement
    <3>5. signs = (({"sqli"} \cup {"path_traversal"}) \cup {"xss"}) \cup {"cmd_injection"}
      OBVIOUS
    <3>6. IsFiniteSet(signs)
      BY <3>4, <3>5
    <3> HIDE DEF signs
    <3>7. QED
      BY <3>6, FS_Product
  <2> HIDE DEF signs
  <2>3. WebAlerts(events) \in SUBSET {f[x] : x \in S}
    <3>1. ASSUME NEW m \in [sign : signs, ev : events]
          PROVE  Alert(WebRule[m.sign], 1, Entities(m.ev)) \in {f[x] : x \in S}
      <4>1. <<m.sign, m.ev>> \in S
        OBVIOUS
      <4>2. f[<<m.sign, m.ev>>] = Alert(WebRule[m.sign], 1, Entities(m.ev))
        BY <4>1
      <4>3. QED
        BY <4>1, <4>2
    <3>2. QED
      BY <2>1, <3>1 DEF WebAlerts
  <2>4. \A t \in WebAlerts(events) : /\ t = [id |-> t.id, severity |-> t.severity]
                                     /\ IsFiniteSet(t.id[2]) /\ t.severity \in Severities
    BY <1>1, <1>2 DEF WebAlerts, Alert
  <2> HIDE DEF S, f
  <2>5. QED
    BY <2>2, <2>3, <2>4, FindableImage
<1>6. QED
  BY <1>3, <1>4, <1>5

LEMMA CountingFindable ==
  ASSUME NEW events, IsFiniteSet(events)
  PROVE  Findable(BruteAlerts(events)) /\ Findable(BreachAlerts(events))
<1> DEFINE ips == {ev.ip : ev \in events}
<1>1. IsFiniteSet(ips)
  <2> DEFINE f == [ev \in events |-> ev.ip]
  <2>1. ips = {f[x] : x \in events}
    OBVIOUS
  <2> HIDE DEF f, ips
  <2>2. QED
    BY <2>1, ImageFinite
<1>2. BruteForcers(events) \subseteq ips
  BY DEF BruteForcers
<1> HIDE DEF ips
<1>3. \A ip : IsFiniteSet({<<"ip", ip>>})
  BY FS_Singleton
<1>4. {0, 1, 2} \subseteq Severities
  BY DEF Severities
<1>5. Findable(BruteAlerts(events))
  <2> DEFINE name(ip) == IF Cardinality(Users(Failed(events, ip))) >= SprayThreshold
                           THEN "password-spray" ELSE "ssh-brute-force"
             f == [ip \in ips |-> Alert(name(ip), 1, {<<"ip", ip>>})]
  <2>1. BruteAlerts(events) = {Alert(name(ip), 1, {<<"ip", ip>>}) : ip \in BruteForcers(events)}
    BY DEF BruteAlerts
  <2> HIDE DEF name
  <2>2. BruteAlerts(events) \in SUBSET {f[x] : x \in ips}
    BY <1>2, <2>1
  <2>3. \A t \in BruteAlerts(events) : /\ t = [id |-> t.id, severity |-> t.severity]
                                       /\ IsFiniteSet(t.id[2]) /\ t.severity \in Severities
    BY <1>3, <1>4, <2>1 DEF Alert
  <2>4. QED
    BY <1>1, <2>2, <2>3, FindableImage
<1>6. Findable(BreachAlerts(events))
  <2> DEFINE users(ip) == Users(Succeeded(events, ip))
             them(ip) == {<<"ip", ip>>} \cup
                           (IF users(ip) = {} THEN {} ELSE {<<"user", First(users(ip))>>})
             f == [ip \in ips |-> Alert("successful-login-after-bruteforce", 0, them(ip))]
  <2>1. BreachAlerts(events) =
          {Alert("successful-login-after-bruteforce", 0, them(ip)) :
             ip \in {b \in BruteForcers(events) : Succeeded(events, b) # {}}}
    BY DEF BreachAlerts
  <2>2. \A ip : IsFiniteSet(them(ip))
    <3> TAKE ip
    <3>1. IsFiniteSet({<<"ip", ip>>} \cup {<<"user", First(users(ip))>>})
      BY <1>3, FS_AddElement
    <3>2. QED
      BY <1>3, <3>1
  <2> HIDE DEF them
  <2>3. BreachAlerts(events) \in SUBSET {f[x] : x \in ips}
    BY <1>2, <2>1
  <2>4. \A t \in BreachAlerts(events) : /\ t = [id |-> t.id, severity |-> t.severity]
                                        /\ IsFiniteSet(t.id[2]) /\ t.severity \in Severities
    BY <1>4, <2>1, <2>2 DEF Alert
  <2>5. QED
    BY <1>1, <2>3, <2>4, FindableImage
<1>7. QED
  BY <1>5, <1>6

LEMMA AlertsFindable ==
  ASSUME NEW events, IsFiniteSet(events), NEW known
  PROVE  Findable(Alerts(events, known))
<1> DEFINE D == Detected(events)
           f == [a \in D |-> Enriched(a, known)]
<1>1. \A S, T : Findable(S) /\ Findable(T) => Findable(S \cup T)
  BY FS_Union DEF Findable
<1>2. Findable(D)
  <2>1. Findable(SigmaAlerts(events) \cup SudoAlerts(events))
    BY <1>1, SigmaFindable, SingleEventsFindable
  <2>2. Findable(SigmaAlerts(events) \cup SudoAlerts(events) \cup GroupAlerts(events))
    BY <1>1, <2>1, SingleEventsFindable
  <2>3. Findable(SigmaAlerts(events) \cup SudoAlerts(events) \cup GroupAlerts(events)
                   \cup WebAlerts(events))
    BY <1>1, <2>2, SingleEventsFindable
  <2>4. Findable(SigmaAlerts(events) \cup SudoAlerts(events) \cup GroupAlerts(events)
                   \cup WebAlerts(events) \cup BruteAlerts(events))
    BY <1>1, <2>3, CountingFindable
  <2>5. QED
    BY <1>1, <2>4, CountingFindable DEF Detected
<1>3. Alerts(events, known) = {Enriched(a, known) : a \in D}
  BY DEF Alerts
<1> HIDE DEF D
<1>4. \A a \in D : /\ Enriched(a, known).id = a.id
                   /\ Enriched(a, known).severity \in Severities
                   /\ Enriched(a, known) =
                        [id |-> Enriched(a, known).id, severity |-> Enriched(a, known).severity]
  <2> TAKE a \in D
  <2>1. a = [id |-> a.id, severity |-> a.severity] /\ a.severity \in Severities
    BY <1>2 DEF Findable
  <2>2. PICK i, s : i = a.id /\ s = a.severity
    OBVIOUS
  <2>3. a = [id |-> i, severity |-> s] /\ s \in 0..4
    BY <2>1, <2>2 DEF Severities
  <2>4. [a EXCEPT !.severity = @ - 1] = [id |-> i, severity |-> s - 1]
    BY <2>3
  <2>5. \/ Enriched(a, known) = a
        \/ Enriched(a, known) = [a EXCEPT !.severity = @ - 1] /\ s > 0
    BY <2>2 DEF Enriched
  <2>6. QED
    BY <2>3, <2>4, <2>5 DEF Severities
<1>5. Alerts(events, known) \in SUBSET {f[x] : x \in D}
  BY <1>3
<1>6. \A t \in Alerts(events, known) : /\ t = [id |-> t.id, severity |-> t.severity]
                                       /\ IsFiniteSet(t.id[2]) /\ t.severity \in Severities
  BY <1>2, <1>3, <1>4 DEF Findable
<1>7. QED
  BY <1>2, <1>5, <1>6, FindableImage DEF Findable

LEMMA UpsertKeepsBook ==
  ASSUME NEW book, AlertBook(book), NEW found, Findable(found)
  PROVE  AlertBook(Upserted(book, found))
<1> DEFINE ids == {a.id : a \in found}
           f == [a \in found |-> a.id]
<1>1. IsFiniteSet(ids)
  <2>1. ids = {f[x] : x \in found}
    OBVIOUS
  <2> HIDE DEF f, ids
  <2>2. QED
    BY <2>1, ImageFinite DEF Findable
<1>2. DOMAIN Upserted(book, found) = DOMAIN book \cup ids
  BY DEF Upserted
<1>3. IsFiniteSet(DOMAIN book \cup ids)
  <2> HIDE DEF ids
  <2>1. QED
    BY <1>1, FS_Union DEF AlertBook
<1>4. ASSUME NEW i \in DOMAIN book \cup ids
      PROVE  IsFiniteSet(i[2]) /\ Upserted(book, found)[i] \in Severities
  <2>1. CASE i \in ids
    <3> DEFINE a == CHOOSE x \in found : x.id = i
    <3>1. a \in found /\ a.id = i
      BY <2>1
    <3>2. Upserted(book, found)[i] = a.severity
      BY <2>1 DEF Upserted
    <3> HIDE DEF a
    <3>3. QED
      BY <3>1, <3>2 DEF Findable
  <2>2. CASE i \notin ids
    <3>1. Upserted(book, found)[i] = book[i] /\ i \in DOMAIN book
      BY <2>2 DEF Upserted
    <3>2. QED
      BY <3>1 DEF AlertBook
  <2>3. QED
    BY <2>1, <2>2
<1>5. QED
  BY <1>2, <1>3, <1>4 DEF AlertBook

-----------------------------------------------------------------------------
(* The books hold what they are to hold, in the files and in every copy,   *)
(* and what detection filed is together.                                   *)

IncidentBook(incs) ==
  \A i \in DOMAIN incs : /\ incs[i].severity \in Severities
                         /\ incs[i].status \in {"new", "triaged", "contained"}
                         /\ incs[i].notes \subseteq Nat

\* One process: where it is, its local variables and its two copies.
Own(place, l, book, incs) ==
  /\ AlertBook(book) /\ IncidentBook(incs)
  /\ l.todo \subseteq l.seen
  /\ place = "notify" => l.todo \subseteq DOMAIN incs
  /\ place \in {"acted", "responded"} => l.id \in DOMAIN incs
  /\ place \in {"filed", "notify"} =>
       \A a, b \in DOMAIN book : a[2] \cap b[2] # {} => Together(book, incs, a, b)

FilesSound ==
  /\ collected \in 0..Len(Log) /\ acts \in Nat
  /\ AlertBook(alerts) /\ IncidentBook(incidents)
  /\ torn \subseteq {"alerts", "incidents"}

Sound ==
  /\ FilesSound
  /\ pc \in [Procs -> Locations] /\ DOMAIN memAlerts = Procs
  /\ \A p \in Procs : Own(pc[p], loc[p], memAlerts[p], memIncidents[p])

Untouched(q) ==
  /\ pc'[q] = pc[q] /\ loc'[q] = loc[q]
  /\ memAlerts'[q] = memAlerts[q] /\ memIncidents'[q] = memIncidents[q]

LEMMA MoveKeeps ==
  ASSUME Sound, NEW p \in Procs, FilesSound', \A q \in Procs \ {p} : Untouched(q),
         pc' \in [Procs -> Locations], DOMAIN memAlerts' = Procs,
         Own(pc'[p], loc'[p], memAlerts'[p], memIncidents'[p])
  PROVE  Sound'
<1>1. \A q \in Procs : Own(pc'[q], loc'[q], memAlerts'[q], memIncidents'[q])
  BY DEF Sound, Untouched
<1>2. QED
  BY <1>1 DEF Sound

LEMMA MergeTyped ==
  ASSUME NEW book, AlertBook(book), NEW old, IncidentBook(old)
  PROVE  IncidentBook(Merged(old, Correlate(book)))
<1> DEFINE found == Correlate(book)
           ids == {f.id : f \in found}
<1>1. \A f \in found : f.severity \in Severities
  BY CorrelateTypes
<1> HIDE DEF found
<1>2. ASSUME NEW i \in DOMAIN old \cup ids
      PROVE  /\ Merged(old, found)[i].severity \in Severities
             /\ Merged(old, found)[i].status \in {"new", "triaged", "contained"}
             /\ Merged(old, found)[i].notes \subseteq Nat
  <2>1. CASE i \in ids
    <3>1. LastFiled(found, i) \in found
      BY <1>1, <2>1, LastFiledIsOne
    <3>2. Merged(old, found)[i] = Refreshed(old, i, LastFiled(found, i))
      BY <2>1 DEF Merged
    <3>3. QED
      BY <1>1, <3>1, <3>2 DEF Refreshed, IncidentBook
  <2>2. CASE i \notin ids
    <3>1. i \in DOMAIN old /\ Merged(old, found)[i] = old[i]
      BY <2>2 DEF Merged
    <3>2. QED
      BY <3>1 DEF IncidentBook
  <2>3. QED
    BY <2>1, <2>2
<1>3. DOMAIN Merged(old, found) = DOMAIN old \cup ids
  BY DEF Merged
<1>4. IncidentBook(Merged(old, found))
  BY <1>2, <1>3 DEF IncidentBook
<1>5. QED
  BY <1>4 DEF found

LEMMA LifeKeepsSound ==
  ASSUME Shape, Sound, NEW p \in Procs, Start(p) \/ Stop(p) \/ Kill(p)
  PROVE  Sound'
<1>1. \E s \in {"idle", "down"} : pc' = [pc EXCEPT ![p] = s]
  BY DEF Start, Stop, Kill, Ended
<1>2. /\ loc' = [loc EXCEPT ![p] = NoLocal]
      /\ \/ memAlerts' = [memAlerts EXCEPT ![p] = alerts]
         \/ memAlerts' = [memAlerts EXCEPT ![p] = Empty]
      /\ \/ memIncidents' = [memIncidents EXCEPT ![p] = incidents]
         \/ memIncidents' = [memIncidents EXCEPT ![p] = Empty]
  BY DEF Start, Stop, Kill, Ended
<1>3. AlertBook(Empty) /\ IncidentBook(Empty)
  <2>1. DOMAIN Empty = {}
    BY DEF Empty
  <2>2. QED
    BY <2>1, FS_EmptySet DEF AlertBook, IncidentBook
<1>4. FilesSound'
  <2>1. UNCHANGED <<collected, acts>>
    BY DEF Start, Stop, Kill, files
  <2>2. alerts' \in {alerts, Empty} /\ incidents' \in {incidents, Empty}
    BY DEF Start, Stop, Kill, Emptied, files
  <2>3. torn' \subseteq {"alerts", "incidents"}
    BY DEF Start, Stop, Kill, Emptied, files, Sound, FilesSound, Writing
  <2>4. QED
    BY <1>3, <2>1, <2>2, <2>3 DEF Sound, FilesSound
<1>5. \A q \in Procs \ {p} : Untouched(q)
  BY <1>1, <1>2 DEF Shape, Sound, Untouched
<1>6. AlertBook(memAlerts'[p]) /\ IncidentBook(memIncidents'[p])
  BY <1>2, <1>3 DEF Shape, Sound, FilesSound
<1>7. pc'[p] \in {"idle", "down"} /\ loc'[p].todo = {} /\ loc'[p].seen = {}
  BY <1>1, <1>2 DEF Shape, Sound, NoLocal, Telling
<1>8. Own(pc'[p], loc'[p], memAlerts'[p], memIncidents'[p])
  BY <1>6, <1>7 DEF Own
<1>9. pc' \in [Procs -> Locations] /\ DOMAIN memAlerts' = Procs
  BY <1>1, <1>2 DEF Sound, Locations
<1>10. QED
  BY <1>4, <1>5, <1>8, <1>9, MoveKeeps

LEMMA UpsertKeepsSound ==
  ASSUME Shape, Sound, NEW p \in Procs, UpsertAlerts(p)
  PROVE  Sound'
<1> DEFINE events == UNION {Log[n] : n \in 1..collected}
           book == Upserted(memAlerts[p], Alerts(events, feed[p]))
<1>1. IsFiniteSet(events)
  <2>1. collected \in Nat /\ \A n \in 1..collected : IsFiniteSet(Log[n])
    BY CasebookAssumption DEF CasebookAssumption, Sound, FilesSound
  <2> DEFINE chunks == {Log[n] : n \in 1..collected}
  <2>2. IsFiniteSet(1..collected)
    BY <2>1, FS_Interval
  <2>3. IsFiniteSet(chunks)
    BY <2>2, ImageFinite
  <2>4. \A c \in chunks : IsFiniteSet(c)
    BY <2>1
  <2> HIDE DEF chunks
  <2>5. IsFiniteSet(UNION chunks)
    BY <2>3, <2>4, FS_UNION
  <2>6. QED
    BY <2>5 DEF chunks
<1>2. /\ memAlerts' = [memAlerts EXCEPT ![p] = book] /\ alerts' = memAlerts'[p]
      /\ pc' = [pc EXCEPT ![p] = "merge"] /\ torn' = torn \ {"alerts"}
      /\ UNCHANGED <<collected, incidents, memIncidents, loc, acts>>
  BY DEF UpsertAlerts, history
<1> HIDE DEF events
<1>3. AlertBook(book)
  BY <1>1, AlertsFindable, UpsertKeepsBook DEF Sound, Own
<1> HIDE DEF book
<1>4. memAlerts'[p] = book /\ alerts' = book /\ pc'[p] = "merge"
  BY <1>2 DEF Sound
<1>5. FilesSound'
  BY <1>2, <1>3, <1>4 DEF Sound, FilesSound
<1>6. Own(pc'[p], loc'[p], memAlerts'[p], memIncidents'[p])
  BY <1>2, <1>3, <1>4 DEF Sound, Own
<1>7. /\ \A q \in Procs \ {p} : Untouched(q)
      /\ pc' \in [Procs -> Locations] /\ DOMAIN memAlerts' = Procs
  BY <1>2 DEF Sound, Untouched, Locations
<1>8. QED
  BY <1>5, <1>6, <1>7, MoveKeeps

LEMMA MergeKeepsSound ==
  ASSUME Shape, Sound, NEW p \in Procs, MergeIncidents(p)
  PROVE  Sound'
<1> DEFINE book == memAlerts[p]
           incs == Merged(memIncidents[p], Correlate(book))
<1>1. /\ memIncidents' = [memIncidents EXCEPT ![p] = incs] /\ incidents' = memIncidents'[p]
      /\ pc' = [pc EXCEPT ![p] = "filed"] /\ torn' = torn \ {"incidents"}
      /\ UNCHANGED <<collected, alerts, memAlerts, loc, acts>>
  BY DEF MergeIncidents
<1>2. AlertBook(book) /\ IncidentBook(memIncidents[p])
  BY DEF Sound, Own
<1>3. IncidentBook(incs)
  BY <1>2, MergeTyped
<1>4. \A a, b \in DOMAIN book : a[2] \cap b[2] # {} => Together(book, incs, a, b)
  BY <1>2, MergeFilesTogether
<1> HIDE DEF incs
<1>5. memIncidents'[p] = incs /\ incidents' = incs /\ pc'[p] = "filed" /\ memAlerts'[p] = book
  BY <1>1 DEF Sound, Shape
<1>6. FilesSound'
  BY <1>1, <1>3, <1>5 DEF Sound, FilesSound
<1>7. Own(pc'[p], loc'[p], memAlerts'[p], memIncidents'[p])
  <2>1. loc'[p].todo \subseteq loc'[p].seen
    BY <1>1 DEF Sound, Own
  <2>2. QED
    BY <1>2, <1>3, <1>4, <1>5, <2>1 DEF Own
<1>8. /\ \A q \in Procs \ {p} : Untouched(q)
      /\ pc' \in [Procs -> Locations] /\ DOMAIN memAlerts' = Procs
  BY <1>1 DEF Sound, Shape, Untouched, Locations
<1>9. QED
  BY <1>6, <1>7, <1>8, MoveKeeps

LEMMA TellingKeepsSound ==
  ASSUME Shape, Sound, NEW p \in Procs, LoadNotified(p) \/ Dispatch(p) \/ SaveNotified(p)
  PROVE  Sound'
<1>1. UNCHANGED <<collected, alerts, incidents, memAlerts, memIncidents, acts>>
  BY DEF LoadNotified, Dispatch, SaveNotified, files, history
<1>2. FilesSound'
  <2>1. torn' \subseteq torn
    BY DEF LoadNotified, Dispatch, SaveNotified, files
  <2>2. QED
    BY <1>1, <2>1 DEF Sound, FilesSound
<1>3. Own(pc[p], loc[p], memAlerts[p], memIncidents[p])
  BY DEF Sound
<1>4. CASE LoadNotified(p)
  <2> DEFINE new == DOMAIN memIncidents[p] \ notified
  <2>1. /\ pc[p] = "filed" /\ loc' = [loc EXCEPT ![p] = Telling(notified \cup new, new)]
        /\ pc' = [pc EXCEPT ![p] = IF new = {} THEN "idle" ELSE "notify"]
    BY <1>4 DEF LoadNotified, ToNotify
  <2>2. /\ loc'[p].todo \subseteq loc'[p].seen /\ loc'[p].todo \subseteq DOMAIN memIncidents[p]
        /\ pc'[p] \in {"idle", "notify"}
    BY <2>1 DEF Shape, Sound, Telling
  <2> HIDE DEF new
  <2>3. Own(pc'[p], loc'[p], memAlerts'[p], memIncidents'[p])
    BY <1>1, <1>3, <2>1, <2>2 DEF Own
  <2>4. /\ \A q \in Procs \ {p} : Untouched(q)
        /\ pc' \in [Procs -> Locations] /\ DOMAIN memAlerts' = Procs
    BY <1>1, <2>1 DEF Sound, Shape, Untouched, Locations
  <2>5. QED
    BY <1>2, <2>3, <2>4, MoveKeeps
<1>5. CASE Dispatch(p)
  <2>1. PICK j : loc' = [loc EXCEPT ![p] = Telling(@.seen, @.todo \ {j})]
    BY <1>5 DEF Dispatch
  <2>2. pc[p] = "notify" /\ UNCHANGED pc
    BY <1>5 DEF Dispatch
  <2>3. loc'[p].seen = loc[p].seen /\ loc'[p].todo = loc[p].todo \ {j}
    BY <2>1 DEF Shape, Telling
  <2>4. Own(pc'[p], loc'[p], memAlerts'[p], memIncidents'[p])
    BY <1>1, <1>3, <2>2, <2>3 DEF Own
  <2>5. /\ \A q \in Procs \ {p} : Untouched(q)
        /\ pc' \in [Procs -> Locations] /\ DOMAIN memAlerts' = Procs
    BY <1>1, <2>1, <2>2 DEF Sound, Shape, Untouched
  <2>6. QED
    BY <1>2, <2>4, <2>5, MoveKeeps
<1>6. CASE SaveNotified(p)
  <2>1. /\ pc' = [pc EXCEPT ![p] = "idle"] /\ loc' = [loc EXCEPT ![p] = NoLocal]
    BY <1>6 DEF SaveNotified
  <2>2. pc'[p] = "idle" /\ loc'[p].todo = {} /\ loc'[p].seen = {}
    BY <2>1 DEF Shape, Sound, NoLocal, Telling
  <2>3. Own(pc'[p], loc'[p], memAlerts'[p], memIncidents'[p])
    BY <1>1, <1>3, <2>2 DEF Own
  <2>4. /\ \A q \in Procs \ {p} : Untouched(q)
        /\ pc' \in [Procs -> Locations] /\ DOMAIN memAlerts' = Procs
    BY <1>1, <2>1 DEF Sound, Shape, Untouched, Locations
  <2>5. QED
    BY <1>2, <2>3, <2>4, MoveKeeps
<1>7. QED
  BY <1>4, <1>5, <1>6

\* A human's hand on an incident leaves a book of incidents.
LEMMA UpdateKeepsBook ==
  ASSUME NEW incs, IncidentBook(incs), NEW i \in DOMAIN incs, NEW new,
         new.severity = incs[i].severity, new.notes \subseteq Nat,
         new.status \in {"new", "triaged", "contained"}
  PROVE  /\ IncidentBook([incs EXCEPT ![i] = new])
         /\ DOMAIN [incs EXCEPT ![i] = new] = DOMAIN incs
BY DEF IncidentBook

LEMMA UpdateKeepsSound ==
  ASSUME Shape, Sound, NEW p \in Procs, NEW i \in DOMAIN memIncidents[p], NEW new,
         Update(p, i, new), UNCHANGED <<collected, alerts, memAlerts>>,
         new.severity = memIncidents[p][i].severity, new.notes \subseteq Nat,
         new.status \in {"new", "triaged", "contained"},
         pc' = [pc EXCEPT ![p] = "idle"],
         UNCHANGED loc \/ loc' = [loc EXCEPT ![p] = NoLocal]
  PROVE  Sound'
<1> DEFINE incs == [memIncidents[p] EXCEPT ![i] = new]
<1>1. Own(pc[p], loc[p], memAlerts[p], memIncidents[p])
  BY DEF Sound
<1>2. IncidentBook(incs)
  BY <1>1, UpdateKeepsBook DEF Own
<1>3. /\ memIncidents' = [memIncidents EXCEPT ![p] = incs] /\ incidents' = memIncidents'[p]
      /\ torn' = torn \ {"incidents"} /\ acts' = acts + 1
  BY DEF Update
<1> HIDE DEF incs
<1>4. memIncidents'[p] = incs /\ incidents' = incs /\ pc'[p] = "idle"
  BY <1>3 DEF Sound, Shape
<1>5. FilesSound'
  <2>1. acts' \in Nat /\ torn' \subseteq torn
    BY <1>3 DEF Sound, FilesSound
  <2>2. QED
    BY <1>2, <1>4, <2>1 DEF Sound, FilesSound
<1>6. loc'[p].todo \subseteq loc'[p].seen
  <2>1. CASE UNCHANGED loc
    BY <1>1, <2>1 DEF Own
  <2>2. CASE loc' = [loc EXCEPT ![p] = NoLocal]
    BY <2>2 DEF Shape, NoLocal, Telling
  <2>3. QED
    BY <2>1, <2>2
<1>7. Own(pc'[p], loc'[p], memAlerts'[p], memIncidents'[p])
  BY <1>1, <1>2, <1>4, <1>6 DEF Own
<1>8. /\ \A q \in Procs \ {p} : Untouched(q)
      /\ pc' \in [Procs -> Locations] /\ DOMAIN memAlerts' = Procs
  BY <1>3 DEF Sound, Shape, Untouched, Locations
<1>9. QED
  BY <1>5, <1>7, <1>8, MoveKeeps

LEMMA HumanKeepsSound ==
  ASSUME Shape, Sound, NEW p \in Procs, HumanStep(p)
  PROVE  Sound'
<1>1. /\ Own(pc[p], loc[p], memAlerts[p], memIncidents[p]) /\ FilesSound
      /\ pc \in [Procs -> Locations]
  BY DEF Sound
<1>2. ASSUME NEW i \in DOMAIN memIncidents[p], TriageAlone(p, i)
      PROVE  Sound'
  <2> DEFINE inc == memIncidents[p][i]
             new == Decided(inc, "triaged", inc.priority, "auto", inc.notes)
  <2>1. /\ Update(p, i, new) /\ UNCHANGED <<collected, alerts, memAlerts, pc, loc>>
        /\ pc[p] = "idle"
    BY <1>2 DEF TriageAlone
  <2>2. /\ new.severity = inc.severity /\ new.notes \subseteq Nat /\ new.status = "triaged"
    BY <1>1 DEF Decided, Own, IncidentBook
  <2> HIDE DEF new
  <2>3. pc' = [pc EXCEPT ![p] = "idle"]
    BY <1>1, <2>1
  <2>4. QED
    BY <2>1, <2>2, <2>3, UpdateKeepsSound
<1>3. ASSUME NEW i \in DOMAIN memIncidents[p], NEW priority, TriageWithModel(p, i, priority)
      PROVE  Sound'
  <2> DEFINE inc == memIncidents[p][i]
             new == Decided(inc, "triaged", priority, "assessed", inc.notes \cup {acts})
  <2>1. /\ Update(p, i, new) /\ UNCHANGED <<collected, alerts, memAlerts, pc, loc>>
        /\ pc[p] = "idle"
    BY <1>3 DEF TriageWithModel
  <2>2. /\ new.severity = inc.severity /\ new.notes \subseteq Nat /\ new.status = "triaged"
    BY <1>1 DEF Decided, Own, IncidentBook, FilesSound
  <2> HIDE DEF new
  <2>3. pc' = [pc EXCEPT ![p] = "idle"]
    BY <1>1, <2>1
  <2>4. QED
    BY <2>1, <2>2, <2>3, UpdateKeepsSound
<1>4. ASSUME NEW i \in DOMAIN memIncidents[p], NEW action, Execute(p, i, action)
      PROVE  Sound'
  <2>1. PICK s : loc' = [loc EXCEPT ![p] = Responding(i, action, s)]
    BY <1>4 DEF Execute
  <2>2. /\ pc' = [pc EXCEPT ![p] = "acted"]
        /\ UNCHANGED <<collected, alerts, incidents, torn, memAlerts, memIncidents, acts>>
    BY <1>4 DEF Execute, files
  <2>3. FilesSound'
    BY <1>1, <2>2 DEF FilesSound
  <2>4. /\ pc'[p] = "acted" /\ loc'[p].id = i
        /\ loc'[p].todo = {} /\ loc'[p].seen = {}
    BY <1>1, <2>1, <2>2 DEF Shape, Responding
  <2>5. Own(pc'[p], loc'[p], memAlerts'[p], memIncidents'[p])
    BY <1>1, <2>2, <2>4 DEF Own
  <2>6. /\ \A q \in Procs \ {p} : Untouched(q)
        /\ pc' \in [Procs -> Locations] /\ DOMAIN memAlerts' = Procs
    BY <2>1, <2>2 DEF Sound, Shape, Untouched, Locations
  <2>7. QED
    BY <2>3, <2>5, <2>6, MoveKeeps
<1>5. CASE RecordResponse(p)
  <2>1. /\ pc[p] = "acted" /\ pc' = [pc EXCEPT ![p] = "responded"]
        /\ UNCHANGED <<collected, alerts, incidents, torn, memAlerts, memIncidents, loc, acts>>
    BY <1>5 DEF RecordResponse, history
  <2>2. FilesSound'
    BY <1>1, <2>1 DEF FilesSound
  <2>3. pc'[p] = "responded"
    BY <1>1, <2>1
  <2>4. Own(pc'[p], loc'[p], memAlerts'[p], memIncidents'[p])
    BY <1>1, <2>1, <2>3 DEF Own
  <2>5. /\ \A q \in Procs \ {p} : Untouched(q)
        /\ pc' \in [Procs -> Locations] /\ DOMAIN memAlerts' = Procs
    BY <2>1 DEF Sound, Untouched, Locations
  <2>6. QED
    BY <2>2, <2>4, <2>5, MoveKeeps
<1>6. CASE NoteResponse(p)
  <2> DEFINE i == loc[p].id
             inc == memIncidents[p][i]
             status == IF Contains(loc[p].action, loc[p].status) THEN "contained" ELSE inc.status
             new == Decided(inc, status, inc.priority, inc.summary, inc.notes \cup {acts})
  <2>1. /\ Update(p, i, new) /\ pc[p] = "responded"
        /\ UNCHANGED <<collected, alerts, memAlerts>>
        /\ pc' = [pc EXCEPT ![p] = "idle"] /\ loc' = [loc EXCEPT ![p] = NoLocal]
    BY <1>6 DEF NoteResponse
  <2>2. i \in DOMAIN memIncidents[p]
    BY <1>1, <2>1 DEF Own
  <2>3. /\ new.severity = inc.severity /\ new.notes \subseteq Nat
        /\ new.status \in {"new", "triaged", "contained"}
    BY <1>1, <2>2 DEF Decided, Own, IncidentBook, FilesSound
  <2> HIDE DEF new, i
  <2>4. QED
    BY <2>1, <2>2, <2>3, UpdateKeepsSound
<1>7. QED
  BY <1>2, <1>3, <1>4, <1>5, <1>6 DEF HumanStep

LEMMA SoundStep ==
  ASSUME Shape, Sound, [Next]_vars
  PROVE  Sound'
<1>1. CASE Collect
  <2>1. /\ collected' = collected + 1 /\ collected < Len(Log)
        /\ UNCHANGED <<alerts, incidents, torn, memAlerts, memIncidents, pc, loc, acts>>
    BY <1>1 DEF Collect, memory, history
  <2>2. collected' \in 0..Len(Log)
    BY <2>1, CasebookAssumption DEF Sound, FilesSound, CasebookAssumption
  <2>3. QED
    BY <2>1, <2>2 DEF Sound, FilesSound
<1>2. CASE UNCHANGED vars
  BY <1>2 DEF vars, files, memory, history, Sound, FilesSound
<1>3. ASSUME NEW p \in Procs, Start(p) \/ Stop(p) \/ Kill(p) \/ DetectionStep(p) \/ HumanStep(p)
      PROVE  Sound'
  BY <1>3, LifeKeepsSound, UpsertKeepsSound, MergeKeepsSound, TellingKeepsSound, HumanKeepsSound
     DEF DetectionStep
<1>4. QED
  BY <1>1, <1>2, <1>3, CasebookAssumption DEF Next, CasebookAssumption

LEMMA SoundInit ==
  ASSUME Init
  PROVE  Shape /\ UpToDate /\ Sound
<1>1. Shape /\ UpToDate
  BY DEF Init, Shape, UpToDate, Up
<1>2. AlertBook(Empty) /\ IncidentBook(Empty)
  <2>1. DOMAIN Empty = {}
    BY DEF Empty
  <2>2. QED
    BY <2>1, FS_EmptySet DEF AlertBook, IncidentBook
<1>3. FilesSound
  BY <1>2, CasebookAssumption DEF Init, FilesSound, CasebookAssumption
<1>4. \A p \in Procs : Own(pc[p], loc[p], memAlerts[p], memIncidents[p])
  BY <1>2 DEF Init, Own, NoLocal, Telling
<1>5. pc \in [Procs -> Locations] /\ DOMAIN memAlerts = Procs
  BY DEF Init, Locations
<1>6. QED
  BY <1>1, <1>3, <1>4, <1>5 DEF Sound

\* The books hold alerts and incidents with known severities and statuses, in
\* the files and in every copy, however many processes rewrite them and
\* wherever a kill leaves them.
THEOREM BooksTyped == Spec => []TypeOK
<1>1. Init => Shape /\ UpToDate /\ Sound
  BY SoundInit
<1>2. Shape /\ UpToDate /\ Sound /\ [Next]_vars => (Shape /\ UpToDate /\ Sound)'
  BY CopiesStep, SoundStep
<1>3. Shape /\ Sound => TypeOK
  BY DEF Shape, Sound, FilesSound, Own, AlertBook, IncidentBook, IsBook, TypeOK
<1>4. QED
  BY <1>1, <1>2, <1>3, PTL DEF Spec

\* Alerts that share an entity are in one incident together once detection has
\* filed its incidents, which names all their entities and is as severe as the
\* worst: for every log, every number of alerts and every order of the folds.
THEOREM SharedAreFiledTogether == Spec => []SharedEntityFiledTogether
<1>1. Init => Shape /\ UpToDate /\ Sound
  BY SoundInit
<1>2. Shape /\ UpToDate /\ Sound /\ [Next]_vars => (Shape /\ UpToDate /\ Sound)'
  BY CopiesStep, SoundStep
<1>3. Sound => SharedEntityFiledTogether
  BY CasebookAssumption DEF Sound, Own, Together, SharedEntityFiledTogether, CasebookAssumption
<1>4. QED
  BY <1>1, <1>2, <1>3, PTL DEF Spec

-----------------------------------------------------------------------------
(* Every deed is on record, or its process was killed before it could be.  *)

Effective == {r \in responses : r.status \in {"executed", "failed"}}

\* Processes between an action that may have taken effect and its record.
Owing == {p \in Procs : pc[p] = "acted" /\ loc[p].status \in {"executed", "failed"}}

Accounted ==
  /\ deeds \in Nat /\ kills \in Nat
  /\ IsFiniteSet(responses)
  /\ \A r \in responses : r.number \in 0..(Cardinality(responses) - 1)
  /\ deeds <= Cardinality(Effective) + kills + Cardinality(Owing)

LEMMA CountsAreFinite ==
  ASSUME Accounted
  PROVE  /\ IsFiniteSet(Effective) /\ Cardinality(Effective) \in Nat
         /\ IsFiniteSet(Owing) /\ Cardinality(Owing) \in Nat
<1>1. Effective \subseteq responses /\ Owing \subseteq Procs
  BY DEF Effective, Owing
<1>2. IsFiniteSet(Effective) /\ IsFiniteSet(Owing)
  BY <1>1, FS_Subset, CasebookAssumption DEF Accounted
<1>3. QED
  BY <1>2, FS_CardinalityType

\* A step that does nothing to another system, and nothing to the record.
Harmless ==
  /\ UNCHANGED <<responses, deeds, kills>>
  /\ \A q \in Procs : pc[q] = "acted" => pc'[q] = "acted" /\ loc'[q] = loc[q]
  /\ \A q \in Procs : pc'[q] = "acted" => pc[q] = "acted"

LEMMA HarmlessKeeps ==
  ASSUME Accounted, Harmless
  PROVE  Accounted'
<1>1. Effective' = Effective /\ Owing' = Owing
  BY DEF Harmless, Effective, Owing
<1>2. QED
  BY <1>1 DEF Accounted, Harmless

LEMMA OwnPlace ==
  ASSUME Shape, NEW p \in Procs, NEW i, NEW priority,
         \/ Start(p) \/ Stop(p) \/ DetectionStep(p)
         \/ TriageAlone(p, i) \/ TriageWithModel(p, i, priority) \/ NoteResponse(p)
  PROVE  \A q \in Procs \ {p} : pc'[q] = pc[q] /\ loc'[q] = loc[q]
<1>1. CASE Start(p) \/ Stop(p)
  BY <1>1 DEF Start, Stop, Ended, Shape
<1>2. CASE UpsertAlerts(p) \/ MergeIncidents(p) \/ SaveNotified(p)
  BY <1>2 DEF UpsertAlerts, MergeIncidents, SaveNotified, Shape
<1>3. CASE LoadNotified(p)
  BY <1>3 DEF LoadNotified, ToNotify, Shape
<1>4. CASE Dispatch(p)
  BY <1>4 DEF Dispatch, Shape
<1>5. CASE TriageAlone(p, i) \/ TriageWithModel(p, i, priority) \/ NoteResponse(p)
  BY <1>5 DEF TriageAlone, TriageWithModel, NoteResponse, Shape
<1>6. QED
  BY <1>1, <1>2, <1>3, <1>4, <1>5 DEF DetectionStep

LEMMA HarmlessSteps ==
  ASSUME Shape, NEW p \in Procs, NEW i, NEW priority,
         \/ Start(p) \/ Stop(p) \/ DetectionStep(p)
         \/ TriageAlone(p, i) \/ TriageWithModel(p, i, priority) \/ NoteResponse(p)
  PROVE  Harmless
<1>1. /\ UNCHANGED <<responses, deeds, kills>>
      /\ pc[p] # "acted" /\ pc'[p] # "acted"
  <2>1. CASE Start(p) \/ Stop(p)
    BY <2>1 DEF Start, Stop, Ended, Up, Shape, files
  <2>2. CASE UpsertAlerts(p) \/ MergeIncidents(p) \/ SaveNotified(p)
    BY <2>2 DEF UpsertAlerts, MergeIncidents, SaveNotified, Shape, history
  <2>3. CASE LoadNotified(p)
    BY <2>3 DEF LoadNotified, ToNotify, Shape, files, history
  <2>4. CASE Dispatch(p)
    BY <2>4 DEF Dispatch, files
  <2>5. CASE TriageAlone(p, i) \/ TriageWithModel(p, i, priority)
    BY <2>5 DEF TriageAlone, TriageWithModel
  <2>6. CASE NoteResponse(p)
    BY <2>6 DEF NoteResponse, Shape
  <2>7. QED
    BY <2>1, <2>2, <2>3, <2>4, <2>5, <2>6 DEF DetectionStep
<1>2. \A q \in Procs \ {p} : pc'[q] = pc[q] /\ loc'[q] = loc[q]
  BY OwnPlace
<1>3. QED
  BY <1>1, <1>2 DEF Harmless

LEMMA AccountedStep ==
  ASSUME Shape, Accounted, [Next]_vars
  PROVE  Accounted'
<1>1. PICK e, o, k, d : /\ e = Cardinality(Effective) /\ o = Cardinality(Owing)
                        /\ k = kills /\ d = deeds
  OBVIOUS
<1>2. /\ e \in Nat /\ o \in Nat /\ k \in Nat /\ d \in Nat /\ d <= e + k + o
      /\ IsFiniteSet(Effective) /\ IsFiniteSet(Owing)
  BY <1>1, CountsAreFinite DEF Accounted
<1>3. ASSUME NEW p \in Procs, Kill(p)
      PROVE  Accounted'
  <2>1. /\ UNCHANGED <<responses, deeds>> /\ kills' = k + 1
        /\ pc' = [pc EXCEPT ![p] = "down"] /\ loc' = [loc EXCEPT ![p] = NoLocal]
    BY <1>1, <1>3 DEF Kill, Ended
  <2>2. Effective' = Effective /\ Owing' = Owing \ {p}
    BY <2>1 DEF Effective, Owing, Shape
  <2>3. Cardinality(Owing') >= o - 1 /\ Cardinality(Owing') \in Nat
    <3>1. /\ IsFiniteSet(Owing \ {p})
          /\ Cardinality(Owing \ {p}) = IF p \in Owing THEN o - 1 ELSE o
      BY <1>1, <1>2, FS_RemoveElement
    <3>2. Cardinality(Owing \ {p}) \in Nat
      BY <3>1, FS_CardinalityType
    <3>3. QED
      BY <1>2, <2>2, <3>1, <3>2
  <2>4. d <= e + (k + 1) + Cardinality(Owing')
    BY <1>2, <2>3
  <2>5. QED
    BY <1>1, <1>2, <2>1, <2>2, <2>4 DEF Accounted
<1>4. ASSUME NEW p \in Procs, NEW i, NEW action, Execute(p, i, action)
      PROVE  Accounted'
  <2>1. PICK executor \in Executors : \E o1 \in Outcomes(executor, action, i) :
          /\ loc' = [loc EXCEPT ![p] = Responding(i, action, o1.status)]
          /\ deeds' = IF o1.acted THEN deeds + 1 ELSE deeds
    BY <1>4 DEF Execute
  <2>2. PICK o1 \in Outcomes(executor, action, i) :
          /\ loc' = [loc EXCEPT ![p] = Responding(i, action, o1.status)]
          /\ deeds' = IF o1.acted THEN deeds + 1 ELSE deeds
    BY <2>1
  <2>3. executor \in {"none", "command", "webhook"}
    BY CasebookAssumption DEF CasebookAssumption
  <2>4. o1.acted => o1.status \in {"executed", "failed"}
    BY <2>2, <2>3 DEF Outcomes, CommandOutcomes, WebhookOutcomes, DryRun, Rejected, Tried, Outcome
  <2>5. /\ pc[p] = "idle" /\ pc' = [pc EXCEPT ![p] = "acted"]
        /\ UNCHANGED <<responses, kills>>
    BY <1>4 DEF Execute, files
  <2>6. Effective' = Effective
    BY <2>5 DEF Effective
  <2>7. p \notin Owing
    BY <2>5 DEF Owing
  <2>8. Owing' = IF o1.status \in {"executed", "failed"} THEN Owing \cup {p} ELSE Owing
    BY <2>2, <2>5 DEF Owing, Shape, Responding
  <2>9. Cardinality(Owing') = IF o1.status \in {"executed", "failed"} THEN o + 1 ELSE o
    BY <1>1, <1>2, <2>7, <2>8, FS_AddElement
  <2>10. deeds' = IF o1.acted THEN d + 1 ELSE d
    BY <1>1, <2>2
  <2>11. deeds' \in Nat /\ deeds' <= e + k + Cardinality(Owing')
    BY <1>2, <2>4, <2>9, <2>10
  <2>12. QED
    BY <1>1, <1>2, <2>5, <2>6, <2>11 DEF Accounted
<1>5. ASSUME NEW p \in Procs, RecordResponse(p)
      PROVE  Accounted'
  <2>1. PICK r : r = [number |-> Cardinality(responses), id |-> loc[p].id,
                      action |-> loc[p].action, status |-> loc[p].status]
    OBVIOUS
  <2>2. /\ pc[p] = "acted" /\ responses' = responses \cup {r}
        /\ pc' = [pc EXCEPT ![p] = "responded"] /\ UNCHANGED <<loc, deeds, kills>>
    BY <1>5, <2>1 DEF RecordResponse, history
  <2>3. PICK n : n = Cardinality(responses)
    OBVIOUS
  <2>4. /\ n \in Nat /\ r.number = n /\ r.status = loc[p].status
        /\ \A x \in responses : x.number \in 0..(n - 1)
    BY <2>1, <2>3, FS_CardinalityType DEF Accounted
  <2>5. r \notin responses
    BY <2>4
  <2>6. IsFiniteSet(responses') /\ Cardinality(responses') = n + 1
    BY <2>2, <2>3, <2>5, FS_AddElement DEF Accounted
  <2>7. \A x \in responses' : x.number \in 0..(Cardinality(responses') - 1)
    BY <2>2, <2>4, <2>6
  <2>8. Owing' = Owing \ {p}
    BY <2>2 DEF Owing, Shape
  <2>9. CASE loc[p].status \in {"executed", "failed"}
    <3>1. p \in Owing /\ Effective' = Effective \cup {r} /\ r \notin Effective
      BY <2>2, <2>4, <2>5, <2>9 DEF Owing, Effective
    <3>2. Cardinality(Owing') = o - 1 /\ Cardinality(Effective') = e + 1
      BY <1>1, <1>2, <2>8, <3>1, FS_RemoveElement, FS_AddElement
    <3>3. d <= Cardinality(Effective') + k + Cardinality(Owing')
      BY <1>2, <3>2
    <3>4. QED
      BY <1>1, <1>2, <2>2, <2>6, <2>7, <3>3 DEF Accounted
  <2>10. CASE loc[p].status \notin {"executed", "failed"}
    <3>1. Owing' = Owing /\ Effective' = Effective
      BY <2>2, <2>4, <2>8, <2>10 DEF Owing, Effective
    <3>2. QED
      BY <1>1, <1>2, <2>2, <2>6, <2>7, <3>1 DEF Accounted
  <2>11. QED
    BY <2>9, <2>10
<1>6. CASE Collect \/ UNCHANGED vars
  BY <1>6, HarmlessKeeps DEF Harmless, Collect, vars, files, memory, history
<1>7. ASSUME NEW p \in Procs, HumanStep(p)
      PROVE  Accounted'
  BY <1>4, <1>5, <1>7, HarmlessSteps, HarmlessKeeps DEF HumanStep
<1>8. ASSUME NEW p \in Procs, Start(p) \/ Stop(p) \/ DetectionStep(p)
      PROVE  Accounted'
  BY <1>8, HarmlessSteps, HarmlessKeeps
<1>9. QED
  BY <1>3, <1>6, <1>7, <1>8, CasebookAssumption DEF Next, CasebookAssumption

\* Each action that changed another system is on record as executed or failed,
\* or the process that took it was killed before it could say so.
THEOREM DeedsAreRecorded == Spec => []DeedsOnRecord
<1>1. Init => Shape /\ UpToDate /\ Accounted
  <2>1. Init => Shape /\ UpToDate
    BY DEF Init, Shape, UpToDate, Up
  <2>2. ASSUME Init
        PROVE  Accounted
    <3>1. responses = {} /\ deeds = 0 /\ kills = 0 /\ \A p \in Procs : pc[p] = "down"
      BY <2>2 DEF Init
    <3>2. Effective = {} /\ Owing = {}
      BY <3>1 DEF Effective, Owing
    <3>3. IsFiniteSet({}) /\ Cardinality({}) = 0
      BY FS_EmptySet
    <3>4. deeds <= Cardinality(Effective) + kills + Cardinality(Owing)
      BY <3>1, <3>2, <3>3
    <3>5. QED
      BY <3>1, <3>3, <3>4 DEF Accounted
  <2>3. QED
    BY <2>1, <2>2
<1>2. Shape /\ UpToDate /\ Accounted /\ [Next]_vars => (Shape /\ UpToDate /\ Accounted)'
  BY CopiesStep, AccountedStep
<1>3. Accounted => DeedsOnRecord
  <2> SUFFICES ASSUME Accounted
               PROVE  DeedsOnRecord
    OBVIOUS
  <2> DEFINE busy == {p \in Procs : pc[p] = "acted"}
  <2>1. Owing \subseteq busy /\ IsFiniteSet(busy)
    BY FS_Subset, CasebookAssumption DEF Owing, CasebookAssumption
  <2>2. Cardinality(Owing) <= Cardinality(busy) /\ Cardinality(busy) \in Nat
    BY <2>1, FS_Subset, FS_CardinalityType
  <2> HIDE DEF busy
  <2>3. PICK e, o, b : /\ e = Cardinality(Effective) /\ o = Cardinality(Owing)
                       /\ b = Cardinality(busy)
    OBVIOUS
  <2>4. e \in Nat /\ o \in Nat /\ b \in Nat /\ o <= b
    BY <2>2, <2>3, CountsAreFinite
  <2>5. deeds \in Nat /\ kills \in Nat /\ deeds <= e + kills + o
    BY <2>3 DEF Accounted
  <2>6. deeds - e <= kills + b
    BY <2>4, <2>5
  <2>7. QED
    BY <2>3, <2>6 DEF DeedsOnRecord, Effective, busy
<1>4. QED
  BY <1>1, <1>2, <1>3, PTL DEF Spec

-----------------------------------------------------------------------------
(* How often a human is told.  Two processes that both detect would tell   *)
(* twice without any kill: each loads the list before the other saves it.  *)

OneDetector == \A p, q \in Detectors : p = q

\* Incident i has been handed over no more often than there were kills.
InArrears(i) == Offered(i) <= kills

\* What the detecting process may still tell is in arrears: the incidents it
\* is about to tell, and those its list, or the file it will load, does not name.
Told(i) ==
  /\ kills \in Nat /\ Offered(i) \in Nat /\ Offered(i) <= 1 + kills
  /\ \A p \in Detectors :
       /\ pc[p] = "notify" => /\ loc[p].todo \subseteq loc[p].seen
                              /\ i \in loc[p].todo \/ i \notin loc[p].seen => InArrears(i)
       /\ pc[p] # "notify" /\ i \notin notified => InArrears(i)

\* A step that tells nobody and leaves the list and its reader alone.
NotTelling ==
  /\ UNCHANGED <<offered, kills, notified>>
  /\ \A q \in Procs : \/ pc'[q] # "notify" /\ pc[q] # "notify"
                      \/ pc'[q] = pc[q] /\ loc'[q] = loc[q]

LEMMA NotTellingKeeps ==
  ASSUME NEW i, Told(i), NotTelling
  PROVE  Told(i)'
<1>1. Offered(i)' = Offered(i) /\ (InArrears(i)' <=> InArrears(i))
  BY DEF NotTelling, Offered, InArrears
<1>2. Detectors \subseteq Procs
  BY CasebookAssumption DEF CasebookAssumption
<1>3. ASSUME NEW p \in Detectors
      PROVE  /\ pc'[p] = "notify" =>
                  /\ loc'[p].todo \subseteq loc'[p].seen
                  /\ i \in loc'[p].todo \/ i \notin loc'[p].seen => InArrears(i)'
             /\ pc'[p] # "notify" /\ i \notin notified' => InArrears(i)'
  <2>1. \/ pc'[p] # "notify" /\ pc[p] # "notify"
        \/ pc'[p] = pc[p] /\ loc'[p] = loc[p]
    BY <1>2 DEF NotTelling
  <2>2. notified' = notified
    BY DEF NotTelling
  <2>3. QED
    BY <1>1, <2>1, <2>2 DEF Told
<1>4. kills' \in Nat /\ Offered(i)' \in Nat /\ Offered(i)' <= 1 + kills'
  <2>1. kills' = kills /\ Offered(i)' = Offered(i)
    BY <1>1 DEF NotTelling
  <2>2. QED
    BY <2>1 DEF Told
<1>5. QED
  BY <1>3, <1>4 DEF Told

LEMMA NotTellingSteps ==
  ASSUME Shape, NEW p \in Procs, NEW i, NEW priority, NEW action,
         \/ Start(p) \/ UpsertAlerts(p) \/ MergeIncidents(p) \/ Stop(p)
         \/ TriageAlone(p, i) \/ TriageWithModel(p, i, priority)
         \/ Execute(p, i, action) \/ RecordResponse(p) \/ NoteResponse(p)
  PROVE  NotTelling
<1>1. UNCHANGED <<offered, kills, notified>>
  <2>1. CASE Start(p) \/ Stop(p)
    BY <2>1 DEF Start, Stop, Ended, files
  <2>2. CASE UpsertAlerts(p) \/ MergeIncidents(p)
    BY <2>2 DEF UpsertAlerts, MergeIncidents, history
  <2>3. CASE TriageAlone(p, i) \/ TriageWithModel(p, i, priority) \/ NoteResponse(p)
    BY <2>3 DEF TriageAlone, TriageWithModel, NoteResponse
  <2>4. CASE Execute(p, i, action)
    BY <2>4 DEF Execute, files
  <2>5. CASE RecordResponse(p)
    BY <2>5 DEF RecordResponse, history
  <2>6. QED
    BY <2>1, <2>2, <2>3, <2>4, <2>5
<1>2. pc[p] # "notify" /\ pc'[p] # "notify"
  <2>1. CASE Start(p) \/ Stop(p)
    BY <2>1 DEF Start, Stop, Ended, Up, Shape
  <2>2. CASE UpsertAlerts(p) \/ MergeIncidents(p)
    BY <2>2 DEF UpsertAlerts, MergeIncidents, Shape
  <2>3. CASE TriageAlone(p, i) \/ TriageWithModel(p, i, priority) \/ NoteResponse(p)
    BY <2>3 DEF TriageAlone, TriageWithModel, NoteResponse, Shape
  <2>4. CASE Execute(p, i, action)
    BY <2>4 DEF Execute, Shape
  <2>5. CASE RecordResponse(p)
    BY <2>5 DEF RecordResponse, Shape
  <2>6. QED
    BY <2>1, <2>2, <2>3, <2>4, <2>5
<1>3. \A q \in Procs \ {p} : pc'[q] = pc[q] /\ loc'[q] = loc[q]
  <2>1. CASE Execute(p, i, action)
    BY <2>1 DEF Execute, Shape
  <2>2. CASE RecordResponse(p)
    BY <2>2 DEF RecordResponse, Shape
  <2>3. QED
    BY <2>1, <2>2, OwnPlace DEF DetectionStep
<1>4. QED
  BY <1>1, <1>2, <1>3 DEF NotTelling

\* The incident dispatched next is one of those still to be told.
LEMMA MostSevereIsOne ==
  ASSUME NEW book, IncidentBook(book), NEW ids \in SUBSET DOMAIN book, ids # {}
  PROVE  MostSevere(book, ids) \in ids
<1> DEFINE T == {book[i].severity : i \in ids}
<1>1. T \in SUBSET Nat /\ T # {}
  BY DEF IncidentBook, Severities
<1>2. PICK s \in T : \A y \in T : s <= y
  BY <1>1, LeastMember
<1>3. PICK i \in ids : book[i].severity = s
  BY <1>2
<1>4. \A j \in ids : book[i].severity <= book[j].severity
  BY <1>2, <1>3
<1>5. QED
  BY <1>4 DEF MostSevere

LEMMA TellingStep ==
  ASSUME OneDetector, Shape, Sound, NEW i, Told(i), [Next]_vars
  PROVE  Told(i)'
<1>1. Detectors \subseteq Procs /\ Responders \subseteq Procs
  BY CasebookAssumption DEF CasebookAssumption
\* A kill pays for everything.
<1>2. ASSUME NEW p \in Procs, Kill(p)
      PROVE  Told(i)'
  <2>1. kills' = kills + 1 /\ offered' = offered
    BY <1>2 DEF Kill
  <2>2. /\ pc' = [pc EXCEPT ![p] = "down"] /\ loc' = [loc EXCEPT ![p] = NoLocal]
    BY <1>2 DEF Kill, Ended
  <2>3. Offered(i)' = Offered(i) /\ Offered(i)' \in Nat
    BY <2>1 DEF Offered, Told
  <2>4. kills' \in Nat /\ Offered(i)' <= kills' /\ Offered(i)' <= 1 + kills'
    BY <2>1, <2>3 DEF Told
  <2>5. InArrears(i)'
    BY <2>4 DEF InArrears
  <2>6. ASSUME NEW q \in Detectors, pc'[q] = "notify"
        PROVE  loc'[q].todo \subseteq loc'[q].seen
    <3>1. q # p /\ pc[q] = "notify" /\ loc'[q] = loc[q]
      BY <1>1, <2>2, <2>6 DEF Shape
    <3>2. QED
      BY <3>1 DEF Told
  <2>7. QED
    BY <2>3, <2>4, <2>5, <2>6 DEF Told
<1>3. ASSUME NEW p \in Detectors, LoadNotified(p)
      PROVE  Told(i)'
  <2> DEFINE new == DOMAIN memIncidents[p] \ notified
  <2>1. /\ UNCHANGED <<offered, kills, notified>> /\ pc[p] = "filed"
        /\ loc' = [loc EXCEPT ![p] = Telling(notified \cup new, new)]
        /\ pc' = [pc EXCEPT ![p] = IF new = {} THEN "idle" ELSE "notify"]
    BY <1>3 DEF LoadNotified, ToNotify, files, history
  <2>2. Offered(i)' = Offered(i) /\ notified' = notified /\ (InArrears(i)' <=> InArrears(i))
    BY <2>1 DEF Offered, InArrears
  <2>3. i \notin notified => InArrears(i)
    BY <2>1 DEF Told
  <2>4. /\ loc'[p].seen = notified \cup new /\ loc'[p].todo = new
    BY <1>1, <2>1 DEF Shape, Telling
  <2>5. new \cap notified = {}
    OBVIOUS
  <2> HIDE DEF new
  <2>6. \A q \in Detectors : q = p
    BY DEF OneDetector
  <2>7. kills' \in Nat /\ Offered(i)' \in Nat /\ Offered(i)' <= 1 + kills'
    BY <2>1, <2>2 DEF Told
  <2>8. /\ loc'[p].todo \subseteq loc'[p].seen
        /\ i \in loc'[p].todo \/ i \notin loc'[p].seen => InArrears(i)'
        /\ i \notin notified' => InArrears(i)'
    BY <2>2, <2>3, <2>4, <2>5
  <2>9. QED
    BY <2>6, <2>7, <2>8 DEF Told
<1>4. ASSUME NEW p \in Detectors, Dispatch(p)
      PROVE  Told(i)'
  <2>1. PICK j : /\ j = MostSevere(memIncidents[p], loc[p].todo)
                 /\ loc' = [loc EXCEPT ![p] = Telling(@.seen, @.todo \ {j})]
                 /\ \/ UNCHANGED offered
                    \/ offered' = [k \in DOMAIN offered \cup {j} |->
                                     IF k = j THEN Offered(j) + 1 ELSE offered[k]]
    BY <1>4 DEF Dispatch
  <2>2. /\ pc[p] = "notify" /\ UNCHANGED <<pc, kills, notified>>
        /\ loc[p].todo # {}
    BY <1>4 DEF Dispatch, files
  <2>3. \A q \in Detectors : q = p
    BY DEF OneDetector
  <2>4. j \in loc[p].todo
    <3>1. IncidentBook(memIncidents[p]) /\ loc[p].todo \in SUBSET DOMAIN memIncidents[p]
      BY <1>1, <2>2 DEF Sound, Own
    <3>2. QED
      BY <2>1, <2>2, <3>1, MostSevereIsOne
  <2>5. loc'[p].seen = loc[p].seen /\ loc'[p].todo = loc[p].todo \ {j}
    BY <1>1, <2>1 DEF Shape, Telling
  <2>6. CASE i = j
    <3>1. InArrears(i) /\ i \in loc[p].seen /\ Offered(i) \in Nat
      BY <2>2, <2>4, <2>6 DEF Told
    <3>2. Offered(i)' \in {Offered(i), Offered(i) + 1}
      BY <2>1, <2>6 DEF Offered
    <3>3. Offered(i)' \in Nat /\ Offered(i)' <= 1 + kills' /\ kills' \in Nat
      <4>1. PICK o, k : o = Offered(i) /\ k = kills
        OBVIOUS
      <4>2. o \in Nat /\ k \in Nat /\ o <= k
        BY <3>1, <4>1 DEF InArrears, Told
      <4>3. Offered(i)' \in {o, o + 1} /\ kills' = k
        BY <2>2, <3>2, <4>1
      <4>4. QED
        BY <4>2, <4>3
    <3>4. i \in loc'[p].seen /\ i \notin loc'[p].todo /\ loc'[p].todo \subseteq loc'[p].seen
      BY <2>2, <2>5, <2>6, <3>1 DEF Told
    <3>5. QED
      BY <2>2, <2>3, <3>3, <3>4 DEF Told
  <2>7. CASE i # j
    <3>1. Offered(i)' = Offered(i)
      BY <2>1, <2>7 DEF Offered
    <3>2. InArrears(i)' <=> InArrears(i)
      BY <2>2, <3>1 DEF InArrears
    <3>3. /\ loc'[p].todo \subseteq loc'[p].seen
          /\ i \in loc'[p].todo <=> i \in loc[p].todo
          /\ i \in loc'[p].seen <=> i \in loc[p].seen
      BY <2>2, <2>5, <2>7 DEF Told
    <3>4. QED
      BY <2>2, <2>3, <3>1, <3>2, <3>3 DEF Told
  <2>8. QED
    BY <2>6, <2>7
<1>5. ASSUME NEW p \in Detectors, SaveNotified(p)
      PROVE  Told(i)'
  <2>1. /\ pc[p] = "notify" /\ loc[p].todo = {} /\ notified' = loc[p].seen
        /\ UNCHANGED <<offered, kills>>
        /\ pc' = [pc EXCEPT ![p] = "idle"]
    BY <1>5 DEF SaveNotified, history
  <2>2. Offered(i)' = Offered(i) /\ (InArrears(i)' <=> InArrears(i))
    BY <2>1 DEF Offered, InArrears
  <2>3. \A q \in Detectors : q = p
    BY DEF OneDetector
  <2>4. pc'[p] = "idle"
    BY <1>1, <2>1 DEF Shape
  <2>5. QED
    BY <2>1, <2>2, <2>3, <2>4 DEF Told
<1>6. ASSUME NEW p \in Detectors, UpsertAlerts(p) \/ MergeIncidents(p)
      PROVE  Told(i)'
  BY <1>1, <1>6, NotTellingSteps, NotTellingKeeps
<1>7. ASSUME NEW p \in Procs, Start(p) \/ Stop(p) \/ HumanStep(p)
      PROVE  Told(i)'
  BY <1>7, NotTellingSteps, NotTellingKeeps DEF HumanStep
<1>8. CASE Collect \/ UNCHANGED vars
  <2>1. NotTelling
    BY <1>8 DEF NotTelling, Collect, vars, files, memory, history
  <2>2. QED
    BY <2>1, NotTellingKeeps
<1>9. QED
  BY <1>1, <1>2, <1>3, <1>4, <1>5, <1>6, <1>7, <1>8 DEF Next, DetectionStep

\* With one detecting process nobody is told of an incident more than once,
\* and once more for each kill, also one that came while the list of those told was rewritten.
THEOREM ToldOnce ==
  ASSUME OneDetector
  PROVE  Spec => []ToldOncePerKill
<1> DEFINE AllToldOnce == \A i : Told(i)
<1>1. Init => Shape /\ UpToDate /\ Sound /\ AllToldOnce
  <2>1. Init => Shape /\ UpToDate /\ Sound
    BY SoundInit
  <2>2. ASSUME Init, NEW i
        PROVE  Told(i)
    <3>1. offered = Empty /\ kills = 0 /\ \A p \in Procs : pc[p] = "down"
      BY <2>2 DEF Init
    <3>2. Offered(i) = 0
      BY <3>1 DEF Offered, Empty
    <3>3. QED
      BY <3>1, <3>2, CasebookAssumption DEF Told, InArrears, CasebookAssumption
  <2>3. QED
    BY <2>1, <2>2
<1>2. /\ Shape /\ UpToDate /\ Sound /\ AllToldOnce /\ [Next]_vars
      => (Shape /\ UpToDate /\ Sound /\ AllToldOnce)'
  BY CopiesStep, SoundStep, TellingStep
<1>3. AllToldOnce => ToldOncePerKill
  BY DEF Told, Offered, ToldOncePerKill
<1>4. QED
  BY <1>1, <1>2, <1>3, PTL DEF Spec
=============================================================================
