-------------------------- MODULE RemediationProofs --------------------------
(***************************************************************************)
(* Proofs about the vulnerability register and the control monitor         *)
(* (vulnmgmt.py, ccm.py): what becomes of verdicts and deadlines, and what *)
(* the register's log tells.                                               *)
(***************************************************************************)
EXTENDS Remediation, TLAPS

Shape ==
  /\ DOMAIN pc = Procs /\ DOMAIN toLog = Procs
  /\ DOMAIN memRegister = Procs /\ DOMAIN memCcm = Procs
  /\ DOMAIN stale = Files /\ DOMAIN condition = Files /\ DOMAIN thread = Threads

\* A file that cannot be read is being rewritten by somebody or was spoilt.
Excused(file) ==
  /\ condition[file] \in {"whole", "empty", "torn"}
  /\ condition[file] = "empty" => file \in spoilt \/ \E p \in Procs : file \in Rewriting(p)
  /\ condition[file] = "torn" => file \in spoilt

\* A file holds what was last written, or nothing.
FilesHeld ==
  /\ \A file \in Files : Excused(file)
  /\ register \in {lastRegister, <<>>} /\ (condition["register"] = "whole" => register = lastRegister)
  /\ ccm \in {lastCcm, <<>>} /\ (condition["ccm"] = "whole" => ccm = lastCcm)

Ahead(p) == pc[p] \in {"logFirst", "open", "write"}

\* The register in p's memory keeps what was last written, but for what p is
\* about to save.
Follows(p) ==
  /\ Ahead(p) \/ memRegister[p] = lastRegister
  /\ \A f \in DOMAIN lastRegister :
       /\ f \in DOMAIN memRegister[p]
       /\ Kept(lastRegister[f], memRegister[p][f], pc[p] \in {"open", "write"} /\ f \in toLog[p])

RegisterRead == \A p \in Procs : pc[p] # "down" /\ p \notin stale["register"] => Follows(p)

\* Threads assess in a process that does nothing else; those that do so at once
\* are known, and their process counts as one that may have missed something.
Asleep == \A t \in Threads : thread[t] # Rest => pc[Home[t]] = "idle"

Beside ==
  \A t, u \in Threads : Home[t] = Home[u] /\ t # u /\ thread[t] # Rest /\ thread[u] # Rest => t \in together

Apart == \A t \in together : t \in Threads /\ thread[t] # Rest /\ Home[t] \in stale["ccm"]

\* Who assesses alone is about to write what its process has in memory.
Texts ==
  \A t \in Threads : thread[t].stage \in {"open", "write"} /\ t \notin together => thread[t].text = memCcm[Home[t]]

\* What a thread has read agrees with the deadlines last written.
Sees(l) ==
  /\ l.stage \in {"look", "put"} => \A c \in DOMAIN lastCcm : Hits(l.seen, c) # {}
  /\ l.stage = "put" => \A c \in DOMAIN lastCcm : c = Control(l) => c \in DOMAIN l.prior /\ l.prior[c] = lastCcm[c]

FollowsCcm(p) ==
  /\ \A c \in DOMAIN lastCcm : c \in DOMAIN memCcm[p] /\ memCcm[p][c] = lastCcm[c]
  /\ \A t \in Threads : Home[t] = p => Sees(thread[t])

CcmRead == \A p \in Procs : pc[p] # "down" /\ p \notin stale["ccm"] => FollowsCcm(p)

\* A control held to fail has findings, and will always have them.
Failing(state) == \A c \in DOMAIN state : Hits(findings, c) # {}

AllFailing ==
  /\ Failing(lastCcm) /\ \A p \in Procs : Failing(memCcm[p])
  /\ \A t \in Threads : Failing(thread[t].text) /\ thread[t].seen \subseteq findings

ThreadStep(t) == Assess(t) \/ Look(t) \/ Put(t) \/ Dump(t) \/ OpenCcm(t) \/ WriteCcm(t)

CommandStep(p) ==
  \/ Sync(p) \/ LogEvent(p) \/ AllLogged(p) \/ OpenRegister(p) \/ WriteRegister(p)
  \/ \E f \in Detectable, status \in Statuses : SetStatus(p, f, status)

-----------------------------------------------------------------------------
\* Threads leave the register alone, and commands the control states.
LEMMA ThreadsApart ==
  ASSUME Shape, NEW t \in Threads, ThreadStep(t)
  PROVE  /\ UNCHANGED <<register, lastRegister, log, today, findings, pc, memRegister, toLog, doubtful>>
         /\ stale'["register"] = stale["register"] /\ condition'["register"] = condition["register"]
         /\ "register" \in spoilt' <=> "register" \in spoilt
<1>1. CASE Assess(t)
  BY <1>1 DEF Assess, disk, written, Shape, Files
<1>2. CASE Look(t) \/ Put(t) \/ Dump(t)
  BY <1>2 DEF Look, Put, Dump, disk, history, written
<1>3. CASE OpenCcm(t)
  BY <1>3 DEF OpenCcm, Opens, history, written, Shape, Files
<1>4. CASE WriteCcm(t)
  BY <1>4 DEF WriteCcm, Fills, Shape, Files
<1>5. QED
  BY <1>1, <1>2, <1>3, <1>4 DEF ThreadStep

LEMMA CommandsApart ==
  ASSUME Shape, NEW p \in Procs, CommandStep(p)
  PROVE  /\ UNCHANGED <<ccm, lastCcm, today, findings, memCcm, thread, together>>
         /\ stale'["ccm"] = stale["ccm"] /\ condition'["ccm"] = condition["ccm"]
         /\ "ccm" \in spoilt' <=> "ccm" \in spoilt
<1>1. CASE Sync(p) \/ \E f \in Detectable, status \in Statuses : SetStatus(p, f, status)
  BY <1>1 DEF Sync, SetStatus, disk, written
<1>2. CASE LogEvent(p) \/ AllLogged(p)
  BY <1>2 DEF LogEvent, AllLogged, disk, memory, history, written
<1>3. CASE OpenRegister(p)
  BY <1>3 DEF OpenRegister, Opens, memory, history, written, Shape, Files
<1>4. CASE WriteRegister(p)
  BY <1>4 DEF WriteRegister, Fills, memory, Shape, Files
<1>5. QED
  BY <1>1, <1>2, <1>3, <1>4 DEF CommandStep

\* Where a command can be.
LEMMA CommandPlaces ==
  ASSUME Shape, NEW p \in Procs, CommandStep(p)
  PROVE  /\ pc[p] # "down" /\ (pc[p] = "idle" => Resting(p)) /\ pc'[p] # "down"
         /\ \A q \in Procs \ {p} : pc'[q] = pc[q]
<1>1. CASE Sync(p) \/ \E f \in Detectable, status \in Statuses : SetStatus(p, f, status)
  BY <1>1 DEF Sync, SetStatus, Begin, Shape
<1>2. CASE LogEvent(p)
  BY <1>2 DEF LogEvent
<1>3. CASE AllLogged(p) \/ OpenRegister(p) \/ WriteRegister(p)
  BY <1>3 DEF AllLogged, OpenRegister, WriteRegister, Shape
<1>4. QED
  BY <1>1, <1>2, <1>3 DEF CommandStep

LEMMA ShapeStep ==
  ASSUME Shape, [Next]_vars
  PROVE  Shape'
<1>1. ASSUME NEW p \in Procs, Start(p) \/ Stop(p) \/ Kill(p)
      PROVE  Shape'
  BY <1>1 DEF Start, Stop, Kill, Forgotten, Shape, disk
<1>2. ASSUME NEW p \in Procs, Sync(p) \/ LogEvent(p) \/ AllLogged(p)
      PROVE  Shape'
  BY <1>2 DEF Sync, LogEvent, AllLogged, Shape, disk, memory, history
<1>3. ASSUME NEW p \in Procs, OpenRegister(p) \/ WriteRegister(p)
      PROVE  Shape'
  BY <1>3 DEF OpenRegister, WriteRegister, Opens, Fills, Shape, memory, history
<1>4. ASSUME NEW t \in Threads, Assess(t) \/ Look(t) \/ Put(t) \/ Dump(t)
      PROVE  Shape'
  BY <1>4 DEF Assess, Look, Put, Dump, Shape, disk, history
<1>5. ASSUME NEW t \in Threads, OpenCcm(t) \/ WriteCcm(t)
      PROVE  Shape'
  BY <1>5 DEF OpenCcm, WriteCcm, Opens, Fills, Shape, history
<1>6. ASSUME NEW p \in Procs, NEW f, NEW status, SetStatus(p, f, status)
      PROVE  Shape'
  BY <1>6 DEF SetStatus, Shape, disk
<1>7. CASE NextDay \/ UNCHANGED vars \/ \E f \in Detectable \ findings : Scan(f)
  BY <1>7 DEF NextDay, Scan, vars, disk, memory, history, Shape
<1>8. QED
  BY <1>1, <1>2, <1>3, <1>4, <1>5, <1>6, <1>7 DEF Next

\* The steps that are neither a command's nor a thread's.
Apartness == NextDay \/ UNCHANGED vars \/ \E f \in Detectable \ findings : Scan(f)

LEMMA StepKinds ==
  ASSUME [Next]_vars
  PROVE  \/ Apartness
         \/ \E p \in Procs : Start(p) \/ Stop(p) \/ Kill(p)
         \/ \E p \in Procs : CommandStep(p)
         \/ \E t \in Threads : ThreadStep(t)
BY DEF Next, Apartness, CommandStep, ThreadStep

LEMMA OutsideStill ==
  ASSUME Apartness
  PROVE  UNCHANGED <<disk, pc, memory, history>>
BY DEF Apartness, NextDay, Scan, vars

-----------------------------------------------------------------------------
(* The files.                                                              *)

LEMMA WhoRewrites ==
  /\ \A p : "register" \in Rewriting(p) <=> pc[p] = "write"
  /\ \A p : "ccm" \in Rewriting(p) <=> \E t \in Threads : Home[t] = p /\ thread[t].stage = "write"
BY DEF Rewriting, Files

LEMMA ExcusedStays ==
  ASSUME NEW file, Excused(file), condition'[file] = condition[file], file \in spoilt => file \in spoilt',
         condition[file] = "empty" => \A p \in Procs : file \in Rewriting(p) => file \in Rewriting(p)' \/ file \in spoilt'
  PROVE  Excused(file)'
BY DEF Excused

\* As in the state before, and so in the one after.
LEMMA RewritingSame ==
  ASSUME pc' = pc, thread' = thread, NEW p
  PROVE  Rewriting(p)' = Rewriting(p)
BY DEF Rewriting

LEMMA FilesLife ==
  ASSUME Shape, FilesHeld, NEW p \in Procs, Start(p) \/ Stop(p) \/ Kill(p)
  PROVE  FilesHeld'
<1>1. /\ UNCHANGED <<disk, lastRegister, lastCcm>> /\ spoilt \subseteq spoilt'
      /\ \A q \in Procs \ {p} : pc'[q] = pc[q]
      /\ \A t \in Threads : Home[t] # p => thread'[t] = thread[t]
  BY DEF Start, Stop, Kill, Forgotten, written, Shape
<1>2. \A q \in Procs \ {p} : \A file : file \in Rewriting(q) => file \in Rewriting(q)'
  BY <1>1 DEF Rewriting
<1>3. ASSUME NEW file, file \in Rewriting(p), condition[file] = "empty"
      PROVE  file \in Rewriting(p)' \/ file \in spoilt'
  <2>1. CASE Start(p)
    BY <1>3, <2>1 DEF Start, Rewriting
  <2>2. CASE Stop(p)
    <3>1. pc[p] = "idle" /\ \A t \in Threads : Home[t] = p => thread[t].stage = "rest"
      BY <2>2 DEF Stop, Resting, Rest, At
    <3>2. QED
      BY <1>3, <3>1 DEF Rewriting
  <2>3. CASE Kill(p)
    BY <1>3, <2>3 DEF Kill
  <2>4. QED
    BY <2>1, <2>2, <2>3
<1>4. ASSUME NEW file \in Files
      PROVE  Excused(file)'
  BY <1>1, <1>2, <1>3, ExcusedStays DEF FilesHeld, disk
<1>5. QED
  BY <1>1, <1>4 DEF FilesHeld, disk

LEMMA FilesCommand ==
  ASSUME Shape, FilesHeld, NEW p \in Procs, CommandStep(p)
  PROVE  FilesHeld'
<1>1. UNCHANGED <<ccm, lastCcm, thread>> /\ condition'["ccm"] = condition["ccm"]
      /\ ("ccm" \in spoilt' <=> "ccm" \in spoilt)
  BY CommandsApart
<1>2. Excused("ccm")'
  <2>1. \A q : "ccm" \in Rewriting(q)' <=> "ccm" \in Rewriting(q)
    BY <1>1 DEF Rewriting, Files
  <2>2. QED
    BY <1>1, <2>1, ExcusedStays DEF FilesHeld, Files
<1>3. /\ Excused("register")'
      /\ register' \in {lastRegister', <<>>} /\ (condition'["register"] = "whole" => register' = lastRegister')
  <2>1. CASE Sync(p) \/ LogEvent(p) \/ AllLogged(p) \/ \E f \in Detectable, status \in Statuses : SetStatus(p, f, status)
    <3>1. UNCHANGED <<register, condition, lastRegister, spoilt>>
      BY <2>1 DEF Sync, LogEvent, AllLogged, SetStatus, disk, history, written
    <3>2. \A q \in Procs : pc[q] = "write" => pc'[q] = "write"
      BY <2>1 DEF Sync, LogEvent, AllLogged, SetStatus, Begin, Shape
    <3>3. \A q \in Procs : "register" \in Rewriting(q) => "register" \in Rewriting(q)'
      BY <3>2 DEF Rewriting, Files
    <3>4. QED
      BY <3>1, <3>3, ExcusedStays DEF FilesHeld, Files
  <2>2. CASE OpenRegister(p)
    <3>1. register' = <<>> /\ condition'["register"] = "empty" /\ pc'[p] = "write"
      BY <2>2 DEF OpenRegister, Opens, Shape, Files
    <3>2. "register" \in Rewriting(p)'
      BY <3>1 DEF Rewriting, Files
    <3>3. QED
      BY <3>1, <3>2 DEF Excused
  <2>3. CASE WriteRegister(p)
    <3>1. /\ condition'["register"] \in {"whole", "torn"} /\ (condition'["register"] = "torn" => "register" \in spoilt')
          /\ lastRegister' = memRegister[p]
          /\ register' = IF condition'["register"] = "whole" THEN memRegister[p] ELSE <<>>
      BY <2>3 DEF WriteRegister, Fills, Legible, Shape, Files
    <3>2. QED
      BY <3>1 DEF Excused
  <2>4. QED
    BY <2>1, <2>2, <2>3 DEF CommandStep
<1>4. QED
  BY <1>1, <1>2, <1>3 DEF FilesHeld, Files

LEMMA FilesThread ==
  ASSUME Shape, FilesHeld, NEW t \in Threads, ThreadStep(t)
  PROVE  FilesHeld'
<1>1. UNCHANGED <<register, lastRegister, pc>> /\ condition'["register"] = condition["register"]
      /\ ("register" \in spoilt' <=> "register" \in spoilt)
  BY ThreadsApart
<1>2. Excused("register")'
  <2>1. \A q : "register" \in Rewriting(q)' <=> "register" \in Rewriting(q)
    BY <1>1 DEF Rewriting, Files
  <2>2. QED
    BY <1>1, <2>1, ExcusedStays DEF FilesHeld, Files
<1>3. /\ Excused("ccm")'
      /\ ccm' \in {lastCcm', <<>>} /\ (condition'["ccm"] = "whole" => ccm' = lastCcm')
  <2>1. CASE Assess(t) \/ Look(t) \/ Put(t) \/ Dump(t)
    <3>1. UNCHANGED <<ccm, condition, lastCcm, spoilt>>
      BY <2>1 DEF Assess, Look, Put, Dump, disk, history, written
    <3>2. \A u \in Threads : thread[u].stage = "write" => thread'[u] = thread[u]
      BY <2>1 DEF Assess, Look, Put, Dump, Shape, Rest, At
    <3>3. \A q \in Procs : "ccm" \in Rewriting(q) => "ccm" \in Rewriting(q)'
      BY <3>2 DEF Rewriting, Files
    <3>4. QED
      BY <3>1, <3>3, ExcusedStays DEF FilesHeld, Files
  <2>2. CASE OpenCcm(t)
    <3>1. ccm' = <<>> /\ condition'["ccm"] = "empty"
      BY <2>2 DEF OpenCcm, Opens, Shape, Files
    <3>2. thread'[t].stage = "write"
      BY <2>2 DEF OpenCcm, At, Shape
    <3>3. Home[t] \in Procs /\ "ccm" \in Rewriting(Home[t])'
      BY <3>2, RemediationAssumption DEF Rewriting, Files
    <3>4. QED
      BY <3>1, <3>3 DEF Excused
  <2>3. CASE WriteCcm(t)
    <3>1. /\ condition'["ccm"] \in {"whole", "torn"} /\ (condition'["ccm"] = "torn" => "ccm" \in spoilt')
          /\ lastCcm' = thread[t].text
          /\ ccm' = IF condition'["ccm"] = "whole" THEN thread[t].text ELSE <<>>
      BY <2>3 DEF WriteCcm, Fills, Legible, Shape, Files
    <3>2. QED
      BY <3>1 DEF Excused
  <2>4. QED
    BY <2>1, <2>2, <2>3 DEF ThreadStep
<1>4. QED
  BY <1>1, <1>2, <1>3 DEF FilesHeld, Files

LEMMA FilesStep ==
  ASSUME Shape, FilesHeld, [Next]_vars
  PROVE  FilesHeld'
<1>1. CASE Apartness
  BY <1>1, OutsideStill DEF FilesHeld, Excused, Rewriting, disk, memory, history, written
<1>2. QED
  BY <1>1, StepKinds, FilesLife, FilesCommand, FilesThread

LEMMA SyncKeeps ==
  ASSUME NEW r, NEW found, NEW now, NEW f \in DOMAIN r
  PROVE  f \in DOMAIN Synced(r, found, now) /\ Kept(r[f], Synced(r, found, now)[f], FALSE)
BY DEF Synced, Kept, Updated, Entry

-----------------------------------------------------------------------------
(* The register.                                                           *)

\* A step that does not concern the register as process q has it.
Unmoved(q) ==
  /\ memRegister'[q] = memRegister[q] /\ toLog'[q] = toLog[q]
  /\ \/ pc'[q] = pc[q]
     \/ pc[q] \notin {"down", "logFirst", "open", "write"} /\ pc'[q] \notin {"down", "logFirst", "open", "write"}

\* Processes other than p are left as they are, and so is the file.
Alone(p) ==
  /\ lastRegister' = lastRegister
  /\ \A q \in Procs \ {p} : Unmoved(q)
  /\ \A q \in Procs \ {p} : q \in stale["register"] => q \in stale'["register"]

LEMMA UnmovedFollows ==
  ASSUME NEW q, Follows(q), Unmoved(q), lastRegister' = lastRegister
  PROVE  Follows(q)'
<1>1. CASE pc'[q] = pc[q]
  BY <1>1 DEF Follows, Unmoved, Ahead
<1>2. CASE pc[q] \notin {"down", "logFirst", "open", "write"} /\ pc'[q] \notin {"down", "logFirst", "open", "write"}
  BY <1>2 DEF Follows, Unmoved, Ahead, Kept
<1>3. QED
  BY <1>1, <1>2 DEF Unmoved

LEMMA AloneKeeps ==
  ASSUME RegisterRead, NEW p \in Procs, Alone(p),
         pc'[p] # "down" /\ p \notin stale'["register"] => Follows(p)'
  PROVE  RegisterRead'
<1>1. ASSUME NEW q \in Procs \ {p}, pc'[q] # "down", q \notin stale'["register"]
      PROVE  Follows(q)'
  <2>1. pc[q] # "down" /\ q \notin stale["register"] /\ Unmoved(q)
    BY <1>1 DEF Alone, Unmoved
  <2>2. QED
    BY <2>1, UnmovedFollows DEF RegisterRead, Alone
<1>2. QED
  BY <1>1 DEF RegisterRead

LEMMA EntriesKept ==
  ASSUME NEW r, NEW f
  PROVE  Kept(r[f], r[f], FALSE)
BY DEF Kept

LEMMA LifeStep ==
  ASSUME Shape, FilesHeld, RegisterRead, NEW p \in Procs, Start(p) \/ Stop(p) \/ Kill(p)
  PROVE  RegisterRead'
<1>1. CASE Start(p)
  <2>1. /\ lastRegister' = lastRegister /\ toLog' = toLog
        /\ memRegister' = [memRegister EXCEPT ![p] = lastRegister] /\ pc' = [pc EXCEPT ![p] = "idle"]
        /\ stale'["register"] = stale["register"] \ {p}
    BY <1>1 DEF Start, disk, written, FilesHeld, Files
  <2>2. Alone(p)
    BY <2>1 DEF Alone, Unmoved, Shape
  <2>3. memRegister'[p] = lastRegister'
    BY <2>1 DEF Shape
  <2>4. Follows(p)'
    BY <2>3 DEF Follows, Kept
  <2>5. QED
    BY <2>2, <2>4, AloneKeeps
<1>2. CASE Stop(p) \/ Kill(p)
  <2>1. /\ lastRegister' = lastRegister /\ toLog' = [toLog EXCEPT ![p] = {}]
        /\ memRegister' = [memRegister EXCEPT ![p] = <<>>] /\ pc' = [pc EXCEPT ![p] = "down"]
        /\ stale'["register"] = stale["register"] \ {p}
    BY <1>2 DEF Stop, Kill, Forgotten, written, Files
  <2>2. Alone(p) /\ pc'[p] = "down"
    BY <2>1 DEF Alone, Unmoved, Shape
  <2>3. QED
    BY <2>2, AloneKeeps
<1>3. QED
  BY <1>1, <1>2

LEMMA SyncStep ==
  ASSUME Shape, RegisterRead, NEW p \in Procs, Sync(p)
  PROVE  RegisterRead'
<1>1. /\ lastRegister' = lastRegister /\ stale' = stale /\ pc[p] = "idle"
      /\ pc' = [pc EXCEPT ![p] = "logFirst"]
      /\ memRegister' = [memRegister EXCEPT ![p] = Synced(memRegister[p], findings, today)]
      /\ \E l : toLog' = [toLog EXCEPT ![p] = l]
  BY DEF Sync, Begin, written
<1>2. Alone(p)
  BY <1>1 DEF Alone, Unmoved, Shape
<1>3. ASSUME p \notin stale["register"]
      PROVE  Follows(p)'
  <2>1. memRegister[p] = lastRegister
    BY <1>1, <1>3 DEF RegisterRead, Follows, Ahead
  <2>2. memRegister'[p] = Synced(lastRegister, findings, today) /\ pc'[p] = "logFirst"
    BY <1>1, <2>1 DEF Shape
  <2>3. \A f \in DOMAIN lastRegister :
          f \in DOMAIN memRegister'[p] /\ Kept(lastRegister[f], memRegister'[p][f], FALSE)
    BY <2>2, SyncKeeps
  <2>4. QED
    BY <1>1, <2>2, <2>3 DEF Follows, Ahead, Kept
<1>4. QED
  BY <1>1, <1>2, <1>3, AloneKeeps

LEMMA SetStatusStep ==
  ASSUME Shape, RegisterRead, NEW p \in Procs, NEW f, NEW status, SetStatus(p, f, status)
  PROVE  RegisterRead'
<1>1. /\ lastRegister' = lastRegister /\ stale' = stale /\ pc[p] = "idle"
      /\ pc' = [pc EXCEPT ![p] = "open"] /\ toLog' = [toLog EXCEPT ![p] = {f}]
      /\ memRegister' = [memRegister EXCEPT ![p] = WithStatus(@, f, status)]
  BY DEF SetStatus, Begin, written
<1>2. Alone(p)
  BY <1>1 DEF Alone, Unmoved, Shape
<1>3. ASSUME p \notin stale["register"]
      PROVE  Follows(p)'
  <2>1. memRegister[p] = lastRegister
    BY <1>1, <1>3 DEF RegisterRead, Follows, Ahead
  <2>2. /\ memRegister'[p] = WithStatus(lastRegister, f, status)
        /\ pc'[p] = "open" /\ toLog'[p] = {f}
    BY <1>1, <2>1 DEF Shape
  <2>3. ASSUME NEW g \in DOMAIN lastRegister
        PROVE  /\ g \in DOMAIN memRegister'[p]
               /\ g # f => memRegister'[p][g] = lastRegister[g]
               /\ memRegister'[p][g].first = lastRegister[g].first
    BY <2>2 DEF WithStatus, Updated, Entry
  <2>4. QED
    BY <1>1, <2>2, <2>3 DEF Follows, Ahead, Kept
<1>4. QED
  BY <1>1, <1>2, <1>3, AloneKeeps

LEMMA LogStep ==
  ASSUME Shape, RegisterRead, NEW p \in Procs, LogEvent(p) \/ AllLogged(p) \/ OpenRegister(p)
  PROVE  RegisterRead'
<1>1. CASE LogEvent(p)
  <2>1. /\ UNCHANGED <<lastRegister, stale, pc, memRegister>> /\ pc[p] \in {"logFirst", "logLast"}
        /\ \E l : toLog' = [toLog EXCEPT ![p] = l]
    BY <1>1 DEF LogEvent, written
  <2>2. Alone(p)
    BY <2>1 DEF Alone, Unmoved, Shape
  <2>3. Follows(p) => Follows(p)'
    BY <2>1 DEF Follows, Ahead
  <2>4. QED
    BY <2>1, <2>2, <2>3, AloneKeeps DEF RegisterRead
<1>2. CASE AllLogged(p)
  <2>1. UNCHANGED <<lastRegister, stale, memRegister, toLog>> /\ toLog[p] = {}
    BY <1>2 DEF AllLogged, memory, history, written
  <2>2. \/ pc[p] = "logFirst" /\ pc' = [pc EXCEPT ![p] = "open"]
        \/ pc[p] = "logLast" /\ pc' = [pc EXCEPT ![p] = "idle"]
    BY <1>2 DEF AllLogged
  <2>3. Alone(p)
    BY <2>1, <2>2 DEF Alone, Unmoved, Shape
  <2>4. Follows(p) => Follows(p)'
    BY <2>1, <2>2 DEF Follows, Ahead, Shape, Kept
  <2>5. QED
    BY <2>1, <2>2, <2>3, <2>4, AloneKeeps DEF RegisterRead
<1>3. CASE OpenRegister(p)
  <2>1. /\ UNCHANGED <<lastRegister, stale, memRegister, toLog>>
        /\ pc[p] = "open" /\ pc' = [pc EXCEPT ![p] = "write"]
    BY <1>3 DEF OpenRegister, memory, history, written
  <2>2. Alone(p)
    BY <2>1 DEF Alone, Unmoved, Shape
  <2>3. Follows(p) => Follows(p)'
    BY <2>1 DEF Follows, Ahead, Shape, Kept
  <2>4. QED
    BY <2>1, <2>2, <2>3, AloneKeeps DEF RegisterRead
<1>4. QED
  BY <1>1, <1>2, <1>3

\* The writer's memory is the file now, and all other live processes missed it.
LEMMA WriteStep ==
  ASSUME Shape, RegisterRead, NEW p \in Procs, WriteRegister(p)
  PROVE  RegisterRead'
<1>1. /\ lastRegister' = memRegister[p] /\ memRegister' = memRegister
      /\ stale' = [stale EXCEPT !["register"] = {q \in Procs : pc[q] # "down"} \ {p}]
      /\ pc' = [pc EXCEPT ![p] = IF toLog[p] = {} THEN "idle" ELSE "logLast"]
  BY DEF WriteRegister, memory
<1>2. ASSUME NEW q \in Procs, pc'[q] # "down", q \notin stale'["register"]
      PROVE  q = p
  BY <1>1, <1>2 DEF Shape, Files
<1>3. Follows(p)'
  BY <1>1 DEF Follows, Kept
<1>4. QED
  BY <1>2, <1>3 DEF RegisterRead

LEMMA RegisterStep ==
  ASSUME Shape, FilesHeld, RegisterRead, [Next]_vars
  PROVE  RegisterRead'
<1>1. CASE Apartness
  BY <1>1, OutsideStill DEF RegisterRead, Follows, Ahead, memory, history, written
<1>2. ASSUME NEW t \in Threads, ThreadStep(t)
      PROVE  RegisterRead'
  BY <1>2, ThreadsApart DEF RegisterRead, Follows, Ahead
<1>3. ASSUME NEW p \in Procs, CommandStep(p)
      PROVE  RegisterRead'
  BY <1>3, SyncStep, SetStatusStep, LogStep, WriteStep DEF CommandStep
<1>4. QED
  BY <1>1, <1>2, <1>3, LifeStep, StepKinds

\* Who writes the register, and who leaves it alone.
LEMMA RegisterWriters ==
  ASSUME Shape, [Next]_vars, lastRegister' # lastRegister
  PROVE  \E p \in Procs : WriteRegister(p)
<1>1. ASSUME NEW p, Start(p) \/ Stop(p) \/ Kill(p)
      PROVE  FALSE
  BY <1>1 DEF Start, Stop, Kill, written
<1>2. ASSUME NEW p \in Procs, CommandStep(p)
      PROVE  WriteRegister(p)
  BY <1>2 DEF CommandStep, Sync, SetStatus, LogEvent, AllLogged, OpenRegister, history, written
<1>3. ASSUME NEW t \in Threads, ThreadStep(t)
      PROVE  FALSE
  BY <1>3, ThreadsApart
<1>4. CASE Apartness
  BY <1>4, OutsideStill DEF history, written
<1>5. QED
  BY <1>1, <1>2, <1>3, <1>4, StepKinds

LEMMA RegisterKeeps ==
  ASSUME Shape, RegisterRead, [Next]_vars
  PROVE  \A f \in DOMAIN lastRegister :
           \/ /\ f \in DOMAIN lastRegister'
              /\ Kept(lastRegister[f], lastRegister'[f], \E p \in Procs : pc[p] = "write" /\ f \in toLog[p])
           \/ \E p \in stale["register"] : pc[p] = "write" /\ pc'[p] # "write"
<1>1. CASE lastRegister' = lastRegister
  BY <1>1 DEF Kept
<1>2. CASE lastRegister' # lastRegister
  <2>1. PICK p \in Procs : WriteRegister(p)
    BY <1>2, RegisterWriters
  <2>2. pc[p] = "write" /\ pc'[p] # "write" /\ lastRegister' = memRegister[p]
    BY <2>1 DEF WriteRegister, Shape
  <2>3. CASE p \in stale["register"]
    BY <2>2, <2>3
  <2>4. CASE p \notin stale["register"]
    <3>1. Follows(p)
      BY <2>2, <2>4 DEF RegisterRead
    <3>2. QED
      BY <2>2, <3>1 DEF Follows, Kept
  <2>5. QED
    BY <2>3, <2>4
<1>3. QED
  BY <1>1, <1>2

\* What a process saves keeps the verdicts and first-seen days last saved,
\* unless it has missed a write; and the file holds what was last saved, but
\* while it is rewritten or when that was cut short or overlapped.
THEOREM VerdictsSurvive == Spec => VerdictLostOnlyInRewrite
<1>1. Init => Shape /\ FilesHeld /\ RegisterRead
  BY DEF Init, Shape, FilesHeld, Excused, RegisterRead, Files
<1>2. Shape /\ FilesHeld /\ RegisterRead /\ [Next]_vars => (Shape /\ FilesHeld /\ RegisterRead)'
  BY ShapeStep, FilesStep, RegisterStep
<1>3. Shape /\ RegisterRead /\ [Next]_vars =>
        [\A f \in DOMAIN lastRegister :
           \/ /\ f \in DOMAIN lastRegister'
              /\ Kept(lastRegister[f], lastRegister'[f], \E p \in Procs : pc[p] = "write" /\ f \in toLog[p])
           \/ \E p \in stale["register"] : pc[p] = "write" /\ pc'[p] # "write"]_vars
  BY RegisterKeeps
<1>4. FilesHeld => register = lastRegister \/ "register" \in spoilt \/ \E p \in Procs : "register" \in Rewriting(p)
  BY DEF FilesHeld, Excused, Files
<1>5. QED
  BY <1>1, <1>2, <1>3, <1>4, PTL DEF Spec, VerdictLostOnlyInRewrite

-----------------------------------------------------------------------------
(* The threads.                                                            *)

\* What is said of threads and of the process they are in.
Threading == Asleep /\ Beside /\ Apart /\ Texts

LEMMA ThreadingLife ==
  ASSUME Shape, Threading, NEW p \in Procs, Start(p) \/ Stop(p) \/ Kill(p)
  PROVE  Threading'
<1>1. CASE Start(p)
  <2>1. /\ thread' = thread /\ together' = together /\ pc[p] = "down" /\ pc' = [pc EXCEPT ![p] = "idle"]
        /\ \A q \in Procs \ {p} : memCcm'[q] = memCcm[q] /\ (q \in stale["ccm"] => q \in stale'["ccm"])
    BY <1>1 DEF Start, Shape, Files
  <2>2. \A t \in Threads : Home[t] = p => thread[t] = Rest
    BY <2>1 DEF Threading, Asleep
  <2>3. Asleep' /\ Beside'
    BY <2>1 DEF Threading, Asleep, Beside, Shape
  <2>4. Apart'
    BY <2>1, <2>2, RemediationAssumption DEF Threading, Apart
  <2>5. Texts'
    BY <2>1, <2>2, RemediationAssumption DEF Threading, Texts, Rest, At
  <2>6. QED
    BY <2>3, <2>4, <2>5 DEF Threading
<1>2. CASE Stop(p) \/ Kill(p)
  <2>1. /\ \A t \in Threads : thread'[t] = IF Home[t] = p THEN Rest ELSE thread[t]
        /\ together' = {t \in together : Home[t] # p}
        /\ \A q \in Procs \ {p} : /\ pc'[q] = pc[q] /\ memCcm'[q] = memCcm[q]
                                  /\ q \in stale["ccm"] => q \in stale'["ccm"]
    BY <1>2 DEF Stop, Kill, Forgotten, Shape, Files
  <2>2. Asleep'
    BY <2>1, RemediationAssumption DEF Threading, Asleep
  <2>3. Beside'
    BY <2>1 DEF Threading, Beside
  <2>4. Apart'
    BY <2>1, RemediationAssumption DEF Threading, Apart
  <2>5. Texts'
    BY <2>1, RemediationAssumption DEF Threading, Texts, Rest, At
  <2>6. QED
    BY <2>2, <2>3, <2>4, <2>5 DEF Threading
<1>3. QED
  BY <1>1, <1>2

LEMMA ThreadingCommand ==
  ASSUME Shape, Threading, NEW p \in Procs, CommandStep(p)
  PROVE  Threading'
<1>1. UNCHANGED <<memCcm, thread, together>> /\ stale'["ccm"] = stale["ccm"]
  BY CommandsApart
<1>2. \A t \in Threads : thread[t] # Rest => Home[t] # p
  BY CommandPlaces DEF Threading, Asleep, Resting
<1>3. Asleep'
  BY <1>1, <1>2, CommandPlaces, RemediationAssumption DEF Threading, Asleep
<1>4. QED
  BY <1>1, <1>3 DEF Threading, Beside, Apart, Texts

\* A thread that reads, judges or makes its text.
LEMMA ThreadingBusy ==
  ASSUME Shape, Threading, NEW t \in Threads, Look(t) \/ Put(t) \/ Dump(t) \/ OpenCcm(t)
  PROVE  Threading'
<1>1. /\ UNCHANGED <<pc, together, stale>> /\ thread[t] # Rest
      /\ \A u \in Threads \ {t} : thread'[u] = thread[u]
      /\ \A q \in Procs \ {Home[t]} : memCcm'[q] = memCcm[q]
  BY DEF Look, Put, Dump, OpenCcm, history, Shape, Rest, At
<1>2. thread'[t] # Rest
  BY DEF Look, Put, Dump, OpenCcm, Shape, Rest, At
<1>3. Asleep' /\ Beside' /\ Apart'
  BY <1>1, <1>2 DEF Threading, Asleep, Beside, Apart
<1>4. ASSUME NEW u \in Threads, thread'[u].stage \in {"open", "write"}, u \notin together
      PROVE  thread'[u].text = memCcm'[Home[u]]
  <2>1. CASE u = t
    <3>1. CASE Look(t) \/ Put(t)
      BY <1>4, <2>1, <3>1 DEF Look, Put, Shape, At
    <3>2. CASE Dump(t)
      BY <2>1, <3>2 DEF Dump, Shape, At
    <3>3. CASE OpenCcm(t)
      <4>1. memCcm' = memCcm /\ thread[t].stage = "open" /\ thread'[t].text = thread[t].text
        BY <3>3 DEF OpenCcm, Shape, At
      <4>2. QED
        BY <1>4, <2>1, <4>1 DEF Threading, Texts
    <3>4. QED
      BY <3>1, <3>2, <3>3
  <2>2. CASE u # t
    <3>1. thread[u] # Rest
      BY <1>1, <1>4, <2>2 DEF Rest, At
    <3>2. Home[u] # Home[t]
      BY <1>1, <1>4, <2>2, <3>1 DEF Threading, Beside
    <3>3. QED
      BY <1>1, <1>4, <2>2, <3>2, RemediationAssumption DEF Threading, Texts
  <2>3. QED
    BY <2>1, <2>2
<1>5. QED
  BY <1>1, <1>3, <1>4 DEF Threading, Texts

LEMMA ThreadingEnds ==
  ASSUME Shape, Threading, NEW t \in Threads, Assess(t) \/ WriteCcm(t)
  PROVE  Threading'
<1>1. CASE Assess(t)
  <2> DEFINE beside == {u \in Threads : Home[u] = Home[t] /\ thread[u] # Rest}
  <2>1. /\ UNCHANGED <<pc, memCcm>> /\ pc[Home[t]] = "idle" /\ thread[t] = Rest
        /\ thread'[t] = At("look", findings, today, Failable, <<>>, <<>>)
        /\ \A u \in Threads \ {t} : thread'[u] = thread[u]
    BY <1>1 DEF Assess, Shape
  <2>2. thread'[t] # Rest /\ thread'[t].stage = "look"
    BY <2>1 DEF Rest, At
  <2>3. together' = IF beside = {} THEN together ELSE together \cup beside \cup {t}
    BY <1>1 DEF Assess
  <2>4. \A q \in Procs : q \in stale'["ccm"] <=> q \in stale["ccm"] \/ (q = Home[t] /\ beside # {})
    BY <1>1 DEF Assess, Shape, Files
  <2>5. \A u \in Threads : u \in beside <=> Home[u] = Home[t] /\ thread[u] # Rest
    OBVIOUS
  <2> HIDE DEF beside
  <2>6. Asleep'
    BY <2>1 DEF Threading, Asleep
  <2>7. Beside'
    BY <2>1, <2>3, <2>5 DEF Threading, Beside
  <2>8. beside \subseteq Threads
    BY DEF beside
  <2>9. Apart'
    BY <2>1, <2>2, <2>3, <2>4, <2>5, <2>8, RemediationAssumption DEF Threading, Apart
  <2>10. Texts'
    BY <2>1, <2>2, <2>3 DEF Threading, Texts
  <2>11. QED
    BY <2>6, <2>7, <2>9, <2>10 DEF Threading
<1>2. CASE WriteCcm(t)
  <2>1. /\ UNCHANGED <<pc, memCcm>> /\ thread[t] # Rest /\ thread'[t] = Rest
        /\ \A u \in Threads \ {t} : thread'[u] = thread[u]
        /\ together' = together \ {t}
        /\ stale'["ccm"] = {q \in Procs : pc[q] # "down" /\ (q = Home[t] => t \in together)}
    BY <1>2 DEF WriteCcm, Shape, Rest, At, Files
  <2>2. Asleep' /\ Beside' /\ Texts'
    <3>1. Rest.stage = "rest"
      BY DEF Rest, At
    <3>2. QED
      BY <2>1, <3>1 DEF Threading, Asleep, Beside, Texts
  <2>3. ASSUME NEW u \in together'
        PROVE  u \in Threads /\ thread'[u] # Rest /\ Home[u] \in stale'["ccm"]
    <3>1. u \in Threads /\ u # t /\ thread'[u] = thread[u] /\ thread[u] # Rest
      BY <2>1, <2>3 DEF Threading, Apart
    <3>2. pc[Home[u]] = "idle" /\ Home[u] \in Procs
      BY <3>1, RemediationAssumption DEF Threading, Asleep
    <3>3. Home[u] = Home[t] => t \in together
      BY <2>1, <3>1 DEF Threading, Beside
    <3>4. QED
      BY <2>1, <3>1, <3>2, <3>3
  <2>4. QED
    BY <2>2, <2>3 DEF Threading, Apart
<1>3. QED
  BY <1>1, <1>2

LEMMA ThreadingStep ==
  ASSUME Shape, Threading, [Next]_vars
  PROVE  Threading'
<1>1. CASE Apartness
  BY <1>1, OutsideStill DEF Threading, Asleep, Beside, Apart, Texts, memory, history
<1>2. QED
  BY <1>1, StepKinds, ThreadingLife, ThreadingCommand, ThreadingBusy, ThreadingEnds DEF ThreadStep

-----------------------------------------------------------------------------
(* The control states.                                                     *)

LEMMA FindingsGrow ==
  ASSUME Shape, [Next]_vars
  PROVE  findings \subseteq findings'
<1>1. CASE Apartness
  BY <1>1 DEF Apartness, Scan, NextDay, vars
<1>2. ASSUME NEW p \in Procs, Start(p) \/ Stop(p) \/ Kill(p)
      PROVE  findings' = findings
  BY <1>2 DEF Start, Stop, Kill
<1>3. QED
  BY <1>1, <1>2, StepKinds, CommandsApart, ThreadsApart

LEMMA FailingGrows ==
  ASSUME NEW state, Failing(state), findings \subseteq findings'
  PROVE  \A c \in DOMAIN state : Hits(findings', c) # {}
BY DEF Failing, Hits

\* Judging adds only what has findings, keeps what has some, and keeps its
\* deadline when it had one.
LEMMA JudgedFails ==
  ASSUME NEW state, Failing(state), NEW l, l.seen \subseteq findings, NEW c
  PROVE  Failing(Judged(state, l, c))
<1>1. ASSUME NEW d \in DOMAIN Judged(state, l, c)
      PROVE  d \in DOMAIN state \/ Hits(l.seen, d) # {}
  BY <1>1 DEF Judged
<1>2. \A d : Hits(l.seen, d) \subseteq Hits(findings, d)
  BY DEF Hits
<1>3. QED
  BY <1>1, <1>2 DEF Failing

LEMMA JudgedKeeps ==
  ASSUME NEW state, NEW l, NEW c, NEW d \in DOMAIN state, Hits(l.seen, d) # {},
         d = c => d \in DOMAIN l.prior /\ l.prior[d] = state[d]
  PROVE  d \in DOMAIN Judged(state, l, c) /\ Judged(state, l, c)[d] = state[d]
BY DEF Judged, Due

LEMMA FailingStep ==
  ASSUME Shape, FilesHeld, AllFailing, [Next]_vars
  PROVE  AllFailing'
<1> DEFINE Lasting(state) == \A c \in DOMAIN state : Hits(findings', c) # {}
<1>1. findings \subseteq findings'
  BY FindingsGrow
<1>2. /\ Lasting(lastCcm) /\ \A p \in Procs : Lasting(memCcm[p])
      /\ \A t \in Threads : Lasting(thread[t].text) /\ thread[t].seen \subseteq findings'
  BY <1>1, FailingGrows DEF AllFailing
<1>3. Lasting(<<>>)
  OBVIOUS
<1>4. SUFFICES /\ Lasting(lastCcm') /\ \A p \in Procs : Lasting(memCcm'[p])
               /\ \A t \in Threads : Lasting(thread'[t].text) /\ thread'[t].seen \subseteq findings'
  BY DEF AllFailing, Failing
<1> HIDE DEF Lasting
<1>5. CASE UNCHANGED <<lastCcm, memCcm, thread>>
  BY <1>2, <1>5
<1>6. ASSUME NEW p \in Procs, Start(p) \/ Stop(p) \/ Kill(p)
      PROVE  /\ Lasting(lastCcm') /\ \A q \in Procs : Lasting(memCcm'[q])
             /\ \A t \in Threads : Lasting(thread'[t].text) /\ thread'[t].seen \subseteq findings'
  <2>1. ccm \in {lastCcm, <<>>} /\ lastCcm' = lastCcm
    BY <1>6 DEF FilesHeld, Start, Stop, Kill, written
  <2>2. \A q \in Procs : memCcm'[q] \in {memCcm[q], ccm, <<>>}
    BY <1>6 DEF Start, Stop, Kill, Forgotten, Shape
  <2>3. \A t \in Threads : thread'[t] \in {thread[t], Rest}
    BY <1>6 DEF Start, Stop, Kill, Forgotten
  <2>4. Rest.text = <<>> /\ Rest.seen = {}
    BY DEF Rest, At
  <2>5. QED
    BY <1>2, <1>3, <2>1, <2>2, <2>3, <2>4
<1>7. ASSUME NEW t \in Threads, ThreadStep(t)
      PROVE  /\ Lasting(lastCcm') /\ \A q \in Procs : Lasting(memCcm'[q])
             /\ \A u \in Threads : Lasting(thread'[u].text) /\ thread'[u].seen \subseteq findings'
  <2>1. /\ \A u \in Threads \ {t} : thread'[u] = thread[u]
        /\ findings' = findings
    BY <1>7, ThreadsApart DEF ThreadStep, Assess, Look, Put, Dump, OpenCcm, WriteCcm, Shape
  <2>2. lastCcm' \in {lastCcm, thread[t].text}
    BY <1>7 DEF ThreadStep, Assess, Look, Put, Dump, OpenCcm, WriteCcm, history, written
  <2>3. Home[t] \in Procs
    BY RemediationAssumption
  <2>4. /\ thread'[t].text \in {<<>>, memCcm[Home[t]], thread[t].text}
        /\ thread'[t].seen \in {{}, findings, thread[t].seen}
    BY <1>7, <2>3 DEF ThreadStep, Assess, Look, Put, Dump, OpenCcm, WriteCcm, At, Rest, Shape
  <2>5. ASSUME NEW q \in Procs
        PROVE  Lasting(memCcm'[q])
    <3>1. CASE Put(t) /\ q = Home[t]
      <4>1. memCcm'[q] = Judged(memCcm[q], thread[t], Control(thread[t]))
        BY <3>1 DEF Put, Shape
      <4>2. Failing(memCcm'[q])
        BY <4>1, JudgedFails DEF AllFailing
      <4>3. QED
        BY <2>1, <4>2 DEF Failing, Lasting
    <3>2. CASE ~(Put(t) /\ q = Home[t])
      <4>1. memCcm'[q] = memCcm[q]
        BY <1>7, <3>2 DEF ThreadStep, Assess, Look, Put, Dump, OpenCcm, WriteCcm, Shape
      <4>2. QED
        BY <1>2, <4>1
    <3>3. QED
      BY <3>1, <3>2
  <2>6. QED
    BY <1>2, <1>3, <2>1, <2>2, <2>3, <2>4, <2>5
<1>8. QED
  BY <1>5, <1>6, <1>7, StepKinds, OutsideStill, CommandsApart DEF memory, history, written

LEMMA CcmLife ==
  ASSUME Shape, FilesHeld, Threading, CcmRead, NEW p \in Procs, Start(p) \/ Stop(p) \/ Kill(p)
  PROVE  CcmRead'
<1>1. lastCcm' = lastCcm
  BY DEF Start, Stop, Kill, written
<1>2. \A q \in Procs \ {p} : /\ pc'[q] = pc[q] /\ memCcm'[q] = memCcm[q]
                             /\ q \in stale["ccm"] => q \in stale'["ccm"]
                             /\ \A t \in Threads : Home[t] = q => thread'[t] = thread[t]
  BY DEF Start, Stop, Kill, Forgotten, Shape, Files
<1>3. ASSUME NEW q \in Procs \ {p}, pc'[q] # "down", q \notin stale'["ccm"]
      PROVE  FollowsCcm(q)'
  <2>1. FollowsCcm(q)
    BY <1>2, <1>3 DEF CcmRead
  <2>2. QED
    BY <1>1, <1>2, <2>1 DEF FollowsCcm, Sees, Control
<1>4. ASSUME pc'[p] # "down", p \notin stale'["ccm"]
      PROVE  FollowsCcm(p)'
  <2>1. Start(p)
    BY <1>4 DEF Stop, Kill, Forgotten, Shape
  <2>2. /\ condition["ccm"] = "whole" /\ thread' = thread /\ pc[p] = "down" /\ memCcm'[p] = ccm
    BY <1>4, <2>1 DEF Start, Shape, Files
  <2>3. memCcm'[p] = lastCcm'
    BY <1>1, <2>2 DEF FilesHeld
  <2>4. \A t \in Threads : Home[t] = p => thread'[t].stage = "rest"
    BY <2>2 DEF Threading, Asleep, Rest, At
  <2>5. QED
    BY <2>3, <2>4 DEF FollowsCcm, Sees
<1>5. QED
  BY <1>3, <1>4 DEF CcmRead

\* What one thread does does not concern other processes.
LEMMA CcmElsewhere ==
  ASSUME Shape, CcmRead, NEW t \in Threads, Assess(t) \/ Look(t) \/ Put(t) \/ Dump(t) \/ OpenCcm(t),
         NEW q \in Procs \ {Home[t]}, pc'[q] # "down", q \notin stale'["ccm"]
  PROVE  FollowsCcm(q)'
<1>1. /\ UNCHANGED <<lastCcm, pc>> /\ memCcm'[q] = memCcm[q]
      /\ \A u \in Threads : Home[u] = q => thread'[u] = thread[u]
      /\ q \in stale["ccm"] => q \in stale'["ccm"]
  BY DEF Assess, Look, Put, Dump, OpenCcm, history, written, Shape, Files
<1>2. FollowsCcm(q)
  BY <1>1 DEF CcmRead
<1>3. QED
  BY <1>1, <1>2 DEF FollowsCcm, Sees, Control

LEMMA CcmHere ==
  ASSUME Shape, Threading, AllFailing, CcmRead, NEW t \in Threads,
         Assess(t) \/ Look(t) \/ Put(t) \/ Dump(t) \/ OpenCcm(t),
         Home[t] \notin stale'["ccm"]
  PROVE  FollowsCcm(Home[t])'
<1>1. PICK p \in Procs : p = Home[t]
  BY RemediationAssumption
<1> SUFFICES FollowsCcm(p)'
  BY <1>1
<1>2. /\ UNCHANGED <<lastCcm, pc>> /\ p \notin stale["ccm"]
      /\ \A u \in Threads \ {t} : thread'[u] = thread[u]
  BY <1>1 DEF Assess, Look, Put, Dump, OpenCcm, history, written, Shape, Files
<1>3. pc[p] # "down"
  <2>1. thread[t] # Rest => pc[p] = "idle"
    BY <1>1 DEF Threading, Asleep
  <2>2. QED
    BY <1>1, <2>1 DEF Assess, Look, Put, Dump, OpenCcm, Rest, At
<1>4. FollowsCcm(p)
  BY <1>1, <1>2, <1>3 DEF CcmRead
<1>5. ASSUME NEW u \in Threads, u # t, Home[u] = p
      PROVE  Sees(thread[u])'
  BY <1>2, <1>4, <1>5 DEF FollowsCcm, Sees, Control
<1>6. CASE Assess(t)
  <2>1. /\ memCcm' = memCcm /\ thread'[t] = At("look", findings, today, Failable, <<>>, <<>>)
    BY <1>6 DEF Assess, Shape
  <2>2. Sees(thread[t])'
    BY <1>2, <2>1 DEF Sees, At, AllFailing, Failing
  <2>3. QED
    BY <1>2, <1>4, <1>5, <2>1, <2>2 DEF FollowsCcm
<1>7. CASE Look(t)
  <2>1. /\ memCcm' = memCcm /\ thread[t].stage = "look"
        /\ thread'[t] = At("put", thread[t].seen, thread[t].day, thread[t].left,
                           [c \in {Control(thread[t])} \cap DOMAIN memCcm[p] |-> memCcm[p][c]], <<>>)
    BY <1>1, <1>7 DEF Look, Shape
  <2>2. \A c \in DOMAIN lastCcm : Hits(thread[t].seen, c) # {} /\ c \in DOMAIN memCcm[p] /\ memCcm[p][c] = lastCcm[c]
    BY <1>1, <1>4, <2>1 DEF FollowsCcm, Sees
  <2>3. Control(thread'[t]) = Control(thread[t])
    BY <2>1 DEF Control, At
  <2>4. Sees(thread[t])'
    BY <1>2, <2>1, <2>2, <2>3 DEF Sees, At
  <2>5. QED
    BY <1>2, <1>4, <1>5, <2>1, <2>4 DEF FollowsCcm
<1>8. CASE Put(t)
  <2> DEFINE l == thread[t]
             new == Judged(memCcm[p], l, Control(l))
  <2>1. /\ l.stage = "put" /\ memCcm'[p] = new
        /\ thread'[t] = At("look", l.seen, l.day, l.left \ {Control(l)}, <<>>, <<>>)
    BY <1>1, <1>8 DEF Put, Shape
  <2>2. \A c \in DOMAIN lastCcm : /\ Hits(l.seen, c) # {}
                                  /\ c = Control(l) => c \in DOMAIN l.prior /\ l.prior[c] = lastCcm[c]
                                  /\ c \in DOMAIN memCcm[p] /\ memCcm[p][c] = lastCcm[c]
    BY <1>1, <1>4, <2>1 DEF FollowsCcm, Sees
  <2> HIDE DEF l
  <2>3. \A c \in DOMAIN lastCcm : c \in DOMAIN new /\ new[c] = lastCcm[c]
    BY <2>2, JudgedKeeps
  <2>4. Sees(thread[t])'
    BY <1>2, <2>1, <2>2 DEF Sees, At
  <2>5. QED
    BY <1>2, <1>5, <2>1, <2>3, <2>4 DEF FollowsCcm
<1>9. CASE Dump(t) \/ OpenCcm(t)
  <2>1. memCcm' = memCcm /\ thread'[t].stage \in {"open", "write"}
    BY <1>9 DEF Dump, OpenCcm, Shape, At
  <2>2. Sees(thread[t])'
    BY <2>1 DEF Sees
  <2>3. QED
    BY <1>2, <1>4, <1>5, <2>1, <2>2 DEF FollowsCcm
<1>10. QED
  BY <1>1, <1>6, <1>7, <1>8, <1>9

\* The text is in the writer's memory, and all other processes missed it.
LEMMA CcmWrite ==
  ASSUME Shape, Threading, NEW t \in Threads, WriteCcm(t)
  PROVE  CcmRead'
<1>1. /\ UNCHANGED <<pc, memCcm>> /\ thread[t].stage = "write" /\ thread[t] # Rest
      /\ lastCcm' = thread[t].text /\ thread'[t] = Rest
      /\ \A u \in Threads \ {t} : thread'[u] = thread[u]
      /\ stale'["ccm"] = {q \in Procs : pc[q] # "down" /\ (q = Home[t] => t \in together)}
  BY DEF WriteCcm, Shape, Rest, At, Files
<1>2. ASSUME NEW q \in Procs, pc'[q] # "down", q \notin stale'["ccm"]
      PROVE  FollowsCcm(q)'
  <2>1. q = Home[t] /\ t \notin together
    BY <1>1, <1>2
  <2>2. memCcm'[q] = lastCcm'
    BY <1>1, <2>1 DEF Threading, Texts
  <2>3. \A u \in Threads : Home[u] = q => thread'[u] = Rest
    BY <1>1, <2>1 DEF Threading, Beside
  <2>4. \A u \in Threads : Home[u] = q => Sees(thread[u])'
    BY <2>3 DEF Sees, Rest, At
  <2>5. QED
    BY <2>2, <2>4 DEF FollowsCcm
<1>3. QED
  BY <1>2 DEF CcmRead

LEMMA CcmStep ==
  ASSUME Shape, FilesHeld, Threading, AllFailing, CcmRead, [Next]_vars
  PROVE  CcmRead'
<1>1. CASE Apartness
  BY <1>1, OutsideStill DEF CcmRead, FollowsCcm, Sees, Control, memory, history, written
<1>2. ASSUME NEW p \in Procs, CommandStep(p)
      PROVE  CcmRead'
  <2>1. UNCHANGED <<lastCcm, memCcm, thread>> /\ stale'["ccm"] = stale["ccm"]
    BY <1>2, CommandsApart
  <2>2. \A q \in Procs : pc'[q] # "down" => pc[q] # "down"
    BY <1>2, CommandPlaces
  <2>3. QED
    BY <2>1, <2>2 DEF CcmRead, FollowsCcm, Sees, Control
<1>3. ASSUME NEW t \in Threads, ThreadStep(t)
      PROVE  CcmRead'
  BY <1>3, CcmHere, CcmElsewhere, CcmWrite DEF ThreadStep, CcmRead
<1>4. QED
  BY <1>1, <1>2, <1>3, StepKinds, CcmLife

LEMMA CcmKeeps ==
  ASSUME Shape, Threading, CcmRead, [Next]_vars
  PROVE  \A c \in DOMAIN lastCcm :
           \/ c \in DOMAIN lastCcm' /\ lastCcm'[c] = lastCcm[c]
           \/ \E t \in Threads : Home[t] \in stale["ccm"] /\ thread[t].stage = "write" /\ thread'[t].stage # "write"
<1>1. CASE lastCcm' = lastCcm
  BY <1>1
<1>2. ASSUME NEW t \in Threads, WriteCcm(t)
      PROVE  \A c \in DOMAIN lastCcm :
               \/ c \in DOMAIN lastCcm' /\ lastCcm'[c] = lastCcm[c]
               \/ \E u \in Threads : Home[u] \in stale["ccm"] /\ thread[u].stage = "write" /\ thread'[u].stage # "write"
  <2>1. /\ thread[t].stage = "write" /\ thread[t] # Rest /\ thread'[t].stage = "rest" /\ lastCcm' = thread[t].text
    BY <1>2 DEF WriteCcm, Shape, Rest, At
  <2>2. Home[t] \in Procs /\ pc[Home[t]] = "idle"
    BY <2>1, RemediationAssumption DEF Threading, Asleep
  <2>3. ASSUME Home[t] \notin stale["ccm"]
        PROVE  lastCcm' = memCcm[Home[t]] /\ FollowsCcm(Home[t])
    BY <2>1, <2>2, <2>3 DEF Threading, Texts, Apart, CcmRead
  <2>4. QED
    BY <2>1, <2>3 DEF FollowsCcm
<1>3. lastCcm' = lastCcm \/ \E t \in Threads : WriteCcm(t)
  <2>1. ASSUME NEW p \in Procs, Start(p) \/ Stop(p) \/ Kill(p)
        PROVE  lastCcm' = lastCcm
    BY <2>1 DEF Start, Stop, Kill, written
  <2>2. ASSUME NEW t \in Threads, ThreadStep(t)
        PROVE  lastCcm' = lastCcm \/ WriteCcm(t)
    BY <2>2 DEF ThreadStep, Assess, Look, Put, Dump, OpenCcm, history, written
  <2>3. QED
    BY <2>1, <2>2, StepKinds, OutsideStill, CommandsApart DEF history, written
<1>4. QED
  BY <1>1, <1>2, <1>3

\* What is written keeps the deadline of every failing control last written,
\* unless its process has missed a write, read an unreadable file or assessed in
\* several threads at once; and the file holds what was last written, but while
\* it is rewritten or when that was cut short or overlapped.
THEOREM DeadlinesStay == Spec => DeadlineMovesOnlyInRewrite
<1> DEFINE Inv == Shape /\ FilesHeld /\ Threading /\ AllFailing /\ CcmRead
<1>1. Init => Inv
  <2>1. Init => Shape /\ FilesHeld /\ CcmRead
    BY DEF Init, Shape, FilesHeld, Excused, CcmRead, Files
  <2>2. Init => Threading
    BY DEF Init, Threading, Asleep, Beside, Apart, Texts, Rest, At
  <2>3. Init => AllFailing
    BY DEF Init, AllFailing, Failing, Rest, At
  <2>4. QED
    BY <2>1, <2>2, <2>3
<1>2. Inv /\ [Next]_vars => Inv'
  <2> SUFFICES ASSUME Inv, [Next]_vars
               PROVE  Inv'
    OBVIOUS
  <2>1. Shape' /\ FilesHeld' /\ Threading'
    BY ShapeStep, FilesStep, ThreadingStep
  <2>2. AllFailing' /\ CcmRead'
    BY FailingStep, CcmStep
  <2>3. QED
    BY <2>1, <2>2
<1>3. Inv /\ [Next]_vars =>
        [\A c \in DOMAIN lastCcm :
           \/ c \in DOMAIN lastCcm' /\ lastCcm'[c] = lastCcm[c]
           \/ \E t \in Threads : Home[t] \in stale["ccm"] /\ thread[t].stage = "write" /\ thread'[t].stage # "write"]_vars
  BY CcmKeeps
<1>4. Inv => ccm = lastCcm \/ "ccm" \in spoilt \/ \E p \in Procs : "ccm" \in Rewriting(p)
  BY DEF FilesHeld, Excused, Files
<1> HIDE DEF Inv
<1>5. QED
  BY <1>1, <1>2, <1>3, <1>4, PTL DEF Spec, DeadlineMovesOnlyInRewrite

-----------------------------------------------------------------------------
(* Types.                                                                  *)

LEMMA SyncTyped ==
  ASSUME NEW r, IsRegister(r), NEW found \in SUBSET Detectable, NEW now \in Days
  PROVE  IsRegister(Synced(r, found, now))
<1> DEFINE new == Synced(r, found, now)
<1>1. DOMAIN new \subseteq Detectable
  BY DEF Synced, IsRegister
<1>2. ASSUME NEW f \in DOMAIN new
      PROVE  new[f] \in Entries
  <2>1. f \in DOMAIN r => r[f] \in Entries /\ r[f].first \in Days
    BY DEF IsRegister, Entries
  <2>2. new[f] = Entry("open", now) \/ (f \in DOMAIN r /\ new[f] \in {r[f], Entry("open", r[f].first)})
    BY <1>2 DEF Synced, Updated
  <2>3. \A d \in Days : Entry("open", d) \in Entries
    BY DEF Entry, Entries
  <2>4. QED
    BY <2>1, <2>2, <2>3
<1>3. QED
  BY <1>1, <1>2 DEF IsRegister

LEMMA StatusTyped ==
  ASSUME NEW r, IsRegister(r), NEW f \in DOMAIN r, NEW status \in Statuses
  PROVE  IsRegister(WithStatus(r, f, status))
<1>1. r[f].first \in Days
  BY DEF IsRegister, Entries
<1>2. Updated(r[f], status) \in Entries
  BY <1>1 DEF Updated, Entry, Entries
<1>3. QED
  BY <1>2 DEF WithStatus, IsRegister

\* What can differ between two registers has an entry in one of them.
LEMMA DifferingTyped ==
  ASSUME NEW old, NEW new, IsRegister(old), IsRegister(new)
  PROVE  Differing(old, new) \in SUBSET Detectable
BY DEF Differing, IsRegister

LEMMA RegisterTyped ==
  ASSUME Shape, TypeOK, [Next]_vars
  PROVE  /\ IsRegister(register') /\ IsRegister(lastRegister') /\ \A p \in Procs : IsRegister(memRegister'[p])
         /\ toLog' \in [Procs -> SUBSET Detectable]
<1>1. IsRegister(<<>>)
  BY DEF IsRegister
<1>2. CASE UNCHANGED <<register, lastRegister, memRegister, toLog>>
  BY <1>2 DEF TypeOK
<1>3. ASSUME NEW p \in Procs, Start(p) \/ Stop(p) \/ Kill(p)
      PROVE  /\ IsRegister(register') /\ IsRegister(lastRegister') /\ \A q \in Procs : IsRegister(memRegister'[q])
             /\ toLog' \in [Procs -> SUBSET Detectable]
  <2>1. /\ register' = register /\ lastRegister' = lastRegister
        /\ \/ memRegister' = [memRegister EXCEPT ![p] = register]
           \/ memRegister' = [memRegister EXCEPT ![p] = <<>>]
        /\ toLog' = toLog \/ toLog' = [toLog EXCEPT ![p] = {}]
    BY <1>3 DEF Start, Stop, Kill, Forgotten, disk, written
  <2>2. \A q \in Procs : memRegister'[q] \in {memRegister[q], register, <<>>}
    BY <2>1 DEF Shape
  <2>3. QED
    BY <1>1, <2>1, <2>2 DEF TypeOK
<1>4. ASSUME NEW p \in Procs, Sync(p)
      PROVE  /\ IsRegister(register') /\ IsRegister(lastRegister') /\ \A q \in Procs : IsRegister(memRegister'[q])
             /\ toLog' \in [Procs -> SUBSET Detectable]
  <2> DEFINE new == Synced(memRegister[p], findings, today)
  <2>1. IsRegister(new) /\ Differing(memRegister[p], new) \in SUBSET Detectable
    BY SyncTyped, DifferingTyped DEF TypeOK
  <2>2. /\ register' = register /\ lastRegister' = lastRegister /\ memRegister' = [memRegister EXCEPT ![p] = new]
        /\ toLog' = [toLog EXCEPT ![p] = Differing(memRegister[p], new)]
    BY <1>4 DEF Sync, disk, written
  <2> HIDE DEF new
  <2>3. \A q \in Procs : memRegister'[q] \in {memRegister[q], new}
    BY <2>2 DEF Shape
  <2>4. QED
    BY <2>1, <2>2, <2>3 DEF TypeOK
<1>5. ASSUME NEW p \in Procs, NEW f \in Detectable, NEW status \in Statuses, SetStatus(p, f, status)
      PROVE  /\ IsRegister(register') /\ IsRegister(lastRegister') /\ \A q \in Procs : IsRegister(memRegister'[q])
             /\ toLog' \in [Procs -> SUBSET Detectable]
  <2> DEFINE new == WithStatus(memRegister[p], f, status)
  <2>1. IsRegister(new)
    BY <1>5, StatusTyped DEF SetStatus, TypeOK
  <2>2. /\ register' = register /\ lastRegister' = lastRegister /\ memRegister' = [memRegister EXCEPT ![p] = new]
        /\ toLog' = [toLog EXCEPT ![p] = {f}]
    BY <1>5 DEF SetStatus, disk, written
  <2> HIDE DEF new
  <2>3. \A q \in Procs : memRegister'[q] \in {memRegister[q], new}
    BY <2>2 DEF Shape
  <2>4. QED
    BY <2>1, <2>2, <2>3 DEF TypeOK
<1>6. ASSUME NEW p \in Procs, LogEvent(p)
      PROVE  /\ IsRegister(register') /\ IsRegister(lastRegister') /\ \A q \in Procs : IsRegister(memRegister'[q])
             /\ toLog' \in [Procs -> SUBSET Detectable]
  BY <1>6 DEF LogEvent, TypeOK, written
<1>7. ASSUME NEW p \in Procs, OpenRegister(p) \/ WriteRegister(p)
      PROVE  /\ IsRegister(register') /\ IsRegister(lastRegister') /\ \A q \in Procs : IsRegister(memRegister'[q])
             /\ toLog' \in [Procs -> SUBSET Detectable]
  <2>1. /\ UNCHANGED <<memRegister, toLog>> /\ register' \in {<<>>, memRegister[p]}
        /\ lastRegister' \in {lastRegister, memRegister[p]}
    BY <1>7 DEF OpenRegister, WriteRegister, Legible, memory, history, written
  <2>2. QED
    BY <1>1, <2>1 DEF TypeOK
<1>8. ASSUME NEW p \in Procs, CommandStep(p)
      PROVE  /\ IsRegister(register') /\ IsRegister(lastRegister') /\ \A q \in Procs : IsRegister(memRegister'[q])
             /\ toLog' \in [Procs -> SUBSET Detectable]
  <2>1. AllLogged(p) => UNCHANGED <<register, lastRegister, memRegister, toLog>>
    BY DEF AllLogged, disk, memory, history, written
  <2>2. QED
    BY <1>2, <1>4, <1>5, <1>6, <1>7, <1>8, <2>1 DEF CommandStep
<1>9. Apartness => UNCHANGED <<register, lastRegister, memRegister, toLog>>
  BY OutsideStill DEF disk, memory, history, written
<1>10. QED
  BY <1>2, <1>3, <1>8, <1>9, StepKinds, ThreadsApart

\* The two files, and who has missed a write to one.
LEMMA FilesTyped ==
  ASSUME TypeOK, [Next]_vars
  PROVE  /\ condition' \in [Files -> {"whole", "empty", "torn"}] /\ spoilt' \subseteq Files
         /\ stale' \in [Files -> SUBSET Procs] /\ together' \subseteq Threads
<1>1. CASE UNCHANGED <<condition, spoilt, stale, together>>
  BY <1>1 DEF TypeOK
<1>2. ASSUME NEW p \in Procs, Start(p)
      PROVE  /\ condition' = condition /\ spoilt' = spoilt /\ together' = together
             /\ stale' \in [Files -> SUBSET Procs]
  BY <1>2 DEF Start, disk, written, TypeOK
<1>3. ASSUME NEW p \in Procs, Stop(p) \/ Kill(p)
      PROVE  /\ condition' = condition /\ spoilt' \subseteq Files /\ together' \subseteq Threads
             /\ stale' \in [Files -> SUBSET Procs]
  BY <1>3 DEF Stop, Kill, Forgotten, Rewriting, disk, written, TypeOK
<1>4. ASSUME NEW file \in Files, Fills(file) \/ (Opens(file) /\ spoilt' = spoilt)
      PROVE  condition' \in [Files -> {"whole", "empty", "torn"}] /\ spoilt' \subseteq Files
  BY <1>4 DEF Fills, Opens, TypeOK
<1>5. ASSUME NEW p \in Procs, OpenRegister(p) \/ WriteRegister(p)
      PROVE  /\ condition' \in [Files -> {"whole", "empty", "torn"}] /\ spoilt' \subseteq Files
             /\ stale' \in [Files -> SUBSET Procs] /\ together' = together
  <2>1. Fills("register") \/ (Opens("register") /\ spoilt' = spoilt)
    BY <1>5 DEF OpenRegister, WriteRegister, history, written
  <2>2. stale' \in [Files -> SUBSET Procs] /\ together' = together
    BY <1>5 DEF OpenRegister, WriteRegister, history, TypeOK, Files
  <2>3. QED
    BY <1>4, <2>1, <2>2 DEF Files
<1>6. ASSUME NEW t \in Threads, OpenCcm(t) \/ WriteCcm(t)
      PROVE  /\ condition' \in [Files -> {"whole", "empty", "torn"}] /\ spoilt' \subseteq Files
             /\ stale' \in [Files -> SUBSET Procs] /\ together' \subseteq Threads
  <2>1. Fills("ccm") \/ (Opens("ccm") /\ spoilt' = spoilt)
    BY <1>6 DEF OpenCcm, WriteCcm, history, written
  <2>2. stale' \in [Files -> SUBSET Procs] /\ together' \subseteq Threads
    BY <1>6 DEF OpenCcm, WriteCcm, history, TypeOK, Files
  <2>3. QED
    BY <1>4, <2>1, <2>2 DEF Files
<1>7. ASSUME NEW t \in Threads, Assess(t)
      PROVE  /\ condition' = condition /\ spoilt' = spoilt /\ together' \subseteq Threads
             /\ stale' \in [Files -> SUBSET Procs]
  <2>1. Home[t] \in Procs
    BY RemediationAssumption
  <2>2. \E b \in SUBSET Threads :
          \/ UNCHANGED <<stale, together>>
          \/ together' = together \cup b \cup {t} /\ stale' = [stale EXCEPT !["ccm"] = @ \cup {Home[t]}]
    <3> DEFINE b == {u \in Threads : Home[u] = Home[t] /\ thread[u] # Rest}
    <3>1. \/ UNCHANGED <<stale, together>>
          \/ together' = together \cup b \cup {t} /\ stale' = [stale EXCEPT !["ccm"] = @ \cup {Home[t]}]
      BY <1>7 DEF Assess
    <3>2. b \in SUBSET Threads
      OBVIOUS
    <3>3. QED
      BY <3>1, <3>2
  <2>3. UNCHANGED <<condition, spoilt>>
    BY <1>7 DEF Assess, disk, written
  <2>4. QED
    BY <2>1, <2>2, <2>3 DEF TypeOK, Files
<1>8. \/ UNCHANGED <<condition, spoilt, stale, together>>
      \/ \E p \in Procs : Start(p) \/ Stop(p) \/ Kill(p) \/ OpenRegister(p) \/ WriteRegister(p)
      \/ \E t \in Threads : OpenCcm(t) \/ WriteCcm(t) \/ Assess(t)
  <2>1. ASSUME NEW p \in Procs, Sync(p) \/ LogEvent(p) \/ AllLogged(p) \/ \E f, status : SetStatus(p, f, status)
        PROVE  UNCHANGED <<condition, spoilt, stale, together>>
    BY <2>1 DEF Sync, LogEvent, AllLogged, SetStatus, disk, history, written
  <2>2. ASSUME NEW t \in Threads, Look(t) \/ Put(t) \/ Dump(t)
        PROVE  UNCHANGED <<condition, spoilt, stale, together>>
    BY <2>2 DEF Look, Put, Dump, disk, history, written
  <2>3. Apartness => UNCHANGED <<condition, spoilt, stale, together>>
    BY OutsideStill DEF disk, history, written
  <2>4. QED
    BY <2>1, <2>2, <2>3, StepKinds DEF CommandStep, ThreadStep
<1>9. QED
  BY <1>1, <1>2, <1>3, <1>5, <1>6, <1>7, <1>8 DEF TypeOK

LEMMA PlacesTyped ==
  ASSUME TypeOK, [Next]_vars
  PROVE  findings' \subseteq Detectable /\ today' \in Days /\ pc' \in [Procs -> Stages]
<1>1. CASE \E f \in Detectable \ findings : Scan(f)
  BY <1>1 DEF Scan, TypeOK
<1>2. CASE NextDay
  BY <1>2, RemediationAssumption DEF NextDay, TypeOK, Days
<1>3. CASE UNCHANGED vars
  BY <1>3 DEF vars, TypeOK
<1>4. ASSUME NEW p \in Procs, Start(p) \/ Stop(p) \/ Kill(p) \/ CommandStep(p)
      PROVE  findings' \subseteq Detectable /\ today' \in Days /\ pc' \in [Procs -> Stages]
  <2>1. UNCHANGED <<findings, today>>
    BY <1>4 DEF CommandStep, Start, Stop, Kill, Sync, LogEvent, AllLogged, OpenRegister, WriteRegister, SetStatus
  <2>2. \E s \in Stages : pc' = pc \/ pc' = [pc EXCEPT ![p] = s]
    BY <1>4 DEF CommandStep, Start, Stop, Kill, Forgotten, Sync, LogEvent, AllLogged, OpenRegister, WriteRegister,
                SetStatus, Stages
  <2>3. QED
    BY <2>1, <2>2 DEF TypeOK
<1>5. ASSUME NEW t \in Threads, ThreadStep(t)
      PROVE  UNCHANGED <<findings, today, pc>>
  BY <1>5 DEF ThreadStep, Assess, Look, Put, Dump, OpenCcm, WriteCcm
<1>6. QED
  BY <1>1, <1>2, <1>3, <1>4, <1>5, StepKinds DEF Apartness, TypeOK

\* Where threads are.
LEMMA ThreadsTyped ==
  ASSUME Shape, TypeOK, [Next]_vars
  PROVE  \A t \in Threads : thread'[t].stage \in {"rest", "look", "put", "open", "write"} /\ thread'[t].left \subseteq Failable
<1>1. Rest.stage = "rest" /\ Rest.left = {}
  BY DEF Rest, At
<1>2. ASSUME NEW t \in Threads, ThreadStep(t)
      PROVE  /\ \A u \in Threads \ {t} : thread'[u] = thread[u]
             /\ thread'[t].stage \in {"rest", "look", "put", "open", "write"}
             /\ thread'[t].left \subseteq Failable
  <2>1. \A u \in Threads \ {t} : thread'[u] = thread[u]
    BY <1>2 DEF ThreadStep, Assess, Look, Put, Dump, OpenCcm, WriteCcm, Shape
  <2>2. thread[t].left \subseteq Failable
    BY DEF TypeOK
  <2>3. CASE Assess(t)
    BY <2>3 DEF Assess, At, Shape
  <2>4. CASE Look(t) \/ Put(t)
    BY <2>2, <2>4 DEF Look, Put, At, Shape
  <2>5. CASE Dump(t) \/ OpenCcm(t) \/ WriteCcm(t)
    BY <1>1, <2>5 DEF Dump, OpenCcm, WriteCcm, At, Shape
  <2>6. QED
    BY <1>2, <2>1, <2>3, <2>4, <2>5 DEF ThreadStep
<1>3. ASSUME NEW p \in Procs, Start(p) \/ Stop(p) \/ Kill(p)
      PROVE  \A t \in Threads : thread'[t] \in {thread[t], Rest}
  BY <1>3 DEF Start, Stop, Kill, Forgotten
<1>4. Apartness => thread' = thread
  BY OutsideStill DEF memory
<1>5. QED
  BY <1>1, <1>2, <1>3, <1>4, StepKinds, CommandsApart DEF TypeOK

\* Every entry of the register, on file or in a process's memory, is about a
\* finding that can be reported, with a status the code knows.
THEOREM RemediationTyped == Spec => []TypeOK
<1>1. Init => Shape /\ TypeOK
  <2>1. Init => Shape
    BY DEF Init, Shape
  <2>2. IsRegister(<<>>) /\ 0 \in Days
    BY RemediationAssumption DEF IsRegister, Days
  <2>3. Init => TypeOK
    BY <2>2 DEF Init, TypeOK, Stages, Rest, At
  <2>4. QED
    BY <2>1, <2>3
<1>2. Shape /\ TypeOK /\ [Next]_vars => Shape' /\ TypeOK'
  <2> SUFFICES ASSUME Shape, TypeOK, [Next]_vars
               PROVE  Shape' /\ TypeOK'
    OBVIOUS
  <2>1. \A r \in {register', lastRegister'} : IsRegister(r)
    BY RegisterTyped
  <2>2. QED
    BY <2>1, ShapeStep, RegisterTyped, FilesTyped, PlacesTyped, ThreadsTyped DEF TypeOK, IsRegister
<1>3. QED
  BY <1>1, <1>2, PTL DEF Spec

-----------------------------------------------------------------------------
(* The log tells the status.                                               *)

\* What a process is to log has an entry in its memory.
OwnTellings == \A p \in Procs : Busy(p) => toLog[p] \subseteq DOMAIN memRegister[p]

Differs(p, f) == f \in Differing(lastRegister, memRegister[p])

Informed(p) == Ahead(p) /\ p \notin stale["register"]

\* p saves the register and then logs f.
Owes(p, f) == pc[p] = "logLast" /\ f \in toLog[p]

\* Whoever logs first has logged all it changed, but for what it has yet to log.
LoggedFirst(p, f) ==
  Informed(p) /\ Differs(p, f) /\ f \notin toLog[p] =>
    f \in DOMAIN log /\ log[f] = memRegister[p][f].status

\* What is yet to be logged is on file as it will be logged, or is the matter
\* of another who owes it; and whoever is about to save it anew will owe it too.
LoggedLast(p, f) ==
  Owes(p, f) =>
    /\ f \in DOMAIN lastRegister
    /\ \/ lastRegister[f].status = memRegister[p][f].status
       \/ \E q \in Procs \ {p} : Owes(q, f)
    /\ \A q \in Procs \ {p} : Informed(q) /\ Differs(q, f) => f \in toLog[q]

\* The log tells the status on file, or that which is about to be saved, or one
\* process still owes the event.
Told(f) ==
  \/ f \in DOMAIN log /\ log[f] = lastRegister[f].status
  \/ \E p \in Procs :
       /\ Ahead(p) /\ Differs(p, f)
       /\ f \in DOMAIN log \cap DOMAIN memRegister[p] /\ log[f] = memRegister[p][f].status
  \/ \E p \in Procs : Owes(p, f)

LogFor(f) ==
  f \notin doubtful =>
    /\ \A p \in Procs : LoggedFirst(p, f) /\ LoggedLast(p, f)
    /\ f \in DOMAIN lastRegister => Told(f)

LogInv == OwnTellings /\ \A f \in Detectable : LogFor(f)

\* What process q has is left as it is.
Undisturbed(q) ==
  /\ pc'[q] = pc[q] /\ memRegister'[q] = memRegister[q] /\ toLog'[q] = toLog[q]
  /\ q \in stale'["register"] <=> q \in stale["register"]

\* Only process p takes a step, and does not write the register.
OnlyStep(p) ==
  /\ lastRegister' = lastRegister /\ doubtful \subseteq doubtful'
  /\ \A q \in Procs \ {p} : Undisturbed(q)

LEMMA TellingsStep ==
  ASSUME Shape, OwnTellings, [Next]_vars
  PROVE  OwnTellings'
<1>1. ASSUME NEW p \in Procs, \A q \in Procs \ {p} : Undisturbed(q),
             Busy(p)' => toLog'[p] \subseteq DOMAIN memRegister'[p]
      PROVE  OwnTellings'
  BY <1>1 DEF OwnTellings, Undisturbed, Busy
<1>2. ASSUME NEW p \in Procs, Start(p) \/ Stop(p) \/ Kill(p)
      PROVE  OwnTellings'
  <2>1. \A q \in Procs \ {p} : Undisturbed(q)
    BY <1>2 DEF Start, Stop, Kill, Forgotten, Shape, Undisturbed, Files
  <2>2. ~Busy(p)'
    BY <1>2 DEF Start, Stop, Kill, Forgotten, Shape, Busy
  <2>3. QED
    BY <1>1, <2>1, <2>2
<1>3. ASSUME NEW p \in Procs, Sync(p)
      PROVE  OwnTellings'
  <2>1. \A q \in Procs \ {p} : Undisturbed(q)
    BY <1>3 DEF Sync, Shape, Undisturbed
  <2>2. toLog'[p] \subseteq DOMAIN memRegister'[p]
    BY <1>3 DEF Sync, Shape, Differing, Synced
  <2>3. QED
    BY <1>1, <2>1, <2>2
<1>4. ASSUME NEW p \in Procs, NEW f, NEW status, SetStatus(p, f, status)
      PROVE  OwnTellings'
  <2>1. \A q \in Procs \ {p} : Undisturbed(q)
    BY <1>4 DEF SetStatus, Shape, Undisturbed
  <2>2. toLog'[p] \subseteq DOMAIN memRegister'[p]
    BY <1>4 DEF SetStatus, Shape, WithStatus
  <2>3. QED
    BY <1>1, <2>1, <2>2
<1>5. ASSUME NEW p \in Procs, LogEvent(p) \/ AllLogged(p) \/ OpenRegister(p)
      PROVE  OwnTellings'
  <2>1. \A q \in Procs \ {p} : Undisturbed(q)
    BY <1>5 DEF LogEvent, AllLogged, OpenRegister, Shape, Undisturbed, memory, history
  <2>2. Busy(p)
    BY <1>5 DEF LogEvent, AllLogged, OpenRegister, Busy
  <2>3. toLog'[p] \subseteq toLog[p] /\ memRegister' = memRegister
    BY <1>5 DEF LogEvent, AllLogged, OpenRegister, Shape, memory
  <2>4. QED
    BY <1>1, <2>1, <2>2, <2>3 DEF OwnTellings
<1>6. ASSUME NEW p \in Procs, WriteRegister(p)
      PROVE  OwnTellings'
  <2>1. UNCHANGED <<memRegister, toLog>> /\ Busy(p)
    BY <1>6 DEF WriteRegister, memory, Busy
  <2>2. \A q \in Procs : Busy(q)' => Busy(q)
    BY <1>6, <2>1 DEF WriteRegister, Busy, Shape
  <2>3. QED
    BY <2>1, <2>2 DEF OwnTellings
<1>7. ASSUME NEW t \in Threads, ThreadStep(t)
      PROVE  OwnTellings'
  BY <1>7, ThreadsApart DEF OwnTellings, Busy
<1>8. CASE NextDay \/ UNCHANGED vars \/ \E f \in Detectable \ findings : Scan(f)
  <2>1. UNCHANGED <<memRegister, toLog, pc>>
    BY <1>8 DEF NextDay, Scan, vars, memory
  <2>2. QED
    BY <2>1 DEF OwnTellings, Busy
<1>9. QED
  BY <1>2, <1>3, <1>4, <1>5, <1>6, <1>7, <1>8 DEF Next, ThreadStep

\* Logging, and owing, are a process's own matter.
LEMMA UndisturbedSame ==
  ASSUME NEW q, NEW f, Undisturbed(q), lastRegister' = lastRegister
  PROVE  /\ Owes(q, f)' <=> Owes(q, f)
         /\ Ahead(q)' <=> Ahead(q)
         /\ Informed(q)' <=> Informed(q)
         /\ Differs(q, f)' <=> Differs(q, f)
BY DEF Undisturbed, Owes, Informed, Ahead, Differs

\* A process that neither begins nor ends an operation on the register, or
\* gives one up that was not about f, leaves what is said of f.
LEMMA BesideStep ==
  ASSUME NEW f, LogFor(f), NEW p \in Procs, OnlyStep(p), log' = log,
         Ahead(p) => f \in doubtful' \/ ~Differs(p, f),
         Owes(p, f) => f \in doubtful',
         ~Ahead(p)', ~Owes(p, f)'
  PROVE  LogFor(f)'
<1> SUFFICES ASSUME f \notin doubtful'
             PROVE  LogFor(f)'
  BY DEF LogFor
<1>1. f \notin doubtful /\ ~Owes(p, f) /\ (Ahead(p) => ~Differs(p, f))
  BY DEF OnlyStep
<1>2. \A q \in Procs \ {p} : /\ Owes(q, f)' <=> Owes(q, f)
                             /\ Ahead(q)' <=> Ahead(q)
                             /\ Informed(q)' <=> Informed(q)
                             /\ Differs(q, f)' <=> Differs(q, f)
                             /\ memRegister'[q] = memRegister[q] /\ toLog'[q] = toLog[q]
  BY UndisturbedSame DEF OnlyStep, Undisturbed
<1>3. ASSUME NEW q \in Procs
      PROVE  LoggedFirst(q, f)'
  BY <1>1, <1>2 DEF LogFor, LoggedFirst, Informed
<1>4. ASSUME NEW q \in Procs
      PROVE  LoggedLast(q, f)'
  BY <1>1, <1>2 DEF LogFor, LoggedLast, Informed, OnlyStep
<1>5. f \in DOMAIN lastRegister' => Told(f)'
  BY <1>1, <1>2 DEF LogFor, Told, OnlyStep
<1>6. QED
  BY <1>3, <1>4, <1>5 DEF LogFor

LEMMA LogLifeStep ==
  ASSUME Shape, NEW f, LogFor(f), NEW p \in Procs, Start(p) \/ Stop(p) \/ Kill(p)
  PROVE  LogFor(f)'
<1>1. /\ lastRegister' = lastRegister /\ log' = log
      /\ pc'[p] \in {"down", "idle"}
      /\ doubtful \subseteq doubtful'
  BY DEF Start, Stop, Kill, Forgotten, disk, written, Shape
<1>2. OnlyStep(p)
  BY <1>1 DEF Start, Stop, Kill, Forgotten, written, Files, Shape, OnlyStep, Undisturbed
<1>3. /\ Ahead(p) => f \in doubtful' \/ ~Differs(p, f)
      /\ Owes(p, f) => f \in doubtful'
  BY DEF Start, Stop, Kill, Ahead, Owes, Differs, Busy
<1>4. ~Ahead(p)' /\ ~Owes(p, f)'
  BY <1>1 DEF Ahead, Owes
<1>5. QED
  BY <1>1, <1>2, <1>3, <1>4, BesideStep

LEMMA LogThreadStep ==
  ASSUME Shape, NEW f, LogFor(f), NEW t \in Threads, ThreadStep(t)
  PROVE  LogFor(f)'
<1>1. /\ UNCHANGED <<lastRegister, log, pc, memRegister, toLog, doubtful>>
      /\ stale'["register"] = stale["register"]
  BY ThreadsApart
<1>2. QED
  BY <1>1 DEF LogFor, LoggedFirst, LoggedLast, Told, Owes, Informed, Ahead, Differs

\* Who begins an operation with all it changes still to be logged.
LEMMA BeginStep ==
  ASSUME NEW f, LogFor(f), NEW p \in Procs, OnlyStep(p), log' = log, doubtful' = doubtful,
         pc[p] = "idle", pc'[p] \in {"logFirst", "open"},
         Informed(p)' /\ Differs(p, f)' => f \in toLog'[p]
  PROVE  LogFor(f)'
<1> SUFFICES ASSUME f \notin doubtful
             PROVE  LogFor(f)'
  BY DEF LogFor
<1>1. ~Owes(p, f) /\ ~Owes(p, f)' /\ ~Ahead(p)
  BY DEF Owes, Ahead
<1>2. \A q \in Procs \ {p} : /\ Owes(q, f)' <=> Owes(q, f)
                             /\ Ahead(q)' <=> Ahead(q)
                             /\ Informed(q)' <=> Informed(q)
                             /\ Differs(q, f)' <=> Differs(q, f)
                             /\ memRegister'[q] = memRegister[q] /\ toLog'[q] = toLog[q]
  BY UndisturbedSame DEF OnlyStep, Undisturbed
<1>3. ASSUME NEW q \in Procs
      PROVE  LoggedFirst(q, f)'
  BY <1>1, <1>2 DEF LogFor, LoggedFirst
<1>4. ASSUME NEW q \in Procs
      PROVE  LoggedLast(q, f)'
  BY <1>1, <1>2 DEF LogFor, LoggedLast, OnlyStep
<1>5. f \in DOMAIN lastRegister' => Told(f)'
  BY <1>1, <1>2 DEF LogFor, Told, OnlyStep
<1>6. QED
  BY <1>3, <1>4, <1>5 DEF LogFor

LEMMA LogBeginStep ==
  ASSUME Shape, RegisterRead, NEW f, LogFor(f), NEW p \in Procs,
         Sync(p) \/ \E g, status : SetStatus(p, g, status)
  PROVE  LogFor(f)'
<1>1. CASE Sync(p)
  <2>1. /\ UNCHANGED <<lastRegister, log, stale, doubtful>> /\ pc[p] = "idle" /\ pc' = [pc EXCEPT ![p] = "logFirst"]
        /\ memRegister' = [memRegister EXCEPT ![p] = Synced(memRegister[p], findings, today)]
        /\ toLog' = [toLog EXCEPT ![p] = Differing(memRegister[p], Synced(memRegister[p], findings, today))]
    BY <1>1 DEF Sync, Begin, disk, written
  <2>2. OnlyStep(p) /\ pc'[p] = "logFirst"
    BY <2>1 DEF OnlyStep, Undisturbed, Shape
  <2>3. Informed(p)' => memRegister[p] = lastRegister
    BY <2>1 DEF Informed, RegisterRead, Follows, Ahead
  <2>4. Informed(p)' /\ Differs(p, f)' => f \in toLog'[p]
    BY <2>1, <2>3 DEF Differs, Shape
  <2>5. QED
    BY <2>1, <2>2, <2>4, BeginStep
<1>2. ASSUME NEW g, NEW status, SetStatus(p, g, status)
      PROVE  LogFor(f)'
  <2>1. /\ UNCHANGED <<lastRegister, log, stale, doubtful>> /\ pc[p] = "idle" /\ pc' = [pc EXCEPT ![p] = "open"]
        /\ memRegister' = [memRegister EXCEPT ![p] = WithStatus(memRegister[p], g, status)]
        /\ toLog' = [toLog EXCEPT ![p] = {g}]
    BY <1>2 DEF SetStatus, Begin, disk, written
  <2>2. OnlyStep(p) /\ pc'[p] = "open"
    BY <2>1 DEF OnlyStep, Undisturbed, Shape
  <2>3. Informed(p)' => memRegister[p] = lastRegister
    BY <2>1 DEF Informed, RegisterRead, Follows, Ahead
  <2>4. Differing(lastRegister, WithStatus(lastRegister, g, status)) \subseteq {g}
    BY DEF Differing, WithStatus
  <2>5. Informed(p)' /\ Differs(p, f)' => f \in toLog'[p]
    BY <2>1, <2>3, <2>4 DEF Differs, Shape
  <2>6. QED
    BY <2>1, <2>2, <2>5, BeginStep
<1>3. QED
  BY <1>1, <1>2

\* An event is logged: nothing else is under way, or its subject is doubtful.
LEMMA LogEventStep ==
  ASSUME Shape, OwnTellings, NEW f, LogFor(f), NEW p \in Procs, LogEvent(p)
  PROVE  LogFor(f)'
<1>1. PICK g \in toLog[p] :
        /\ log' = [h \in DOMAIN log \cup {g} |-> IF h = g THEN memRegister[p][g].status ELSE log[h]]
        /\ toLog' = [toLog EXCEPT ![p] = @ \ {g}]
        /\ doubtful' = IF \E q \in Procs \ {p} : Busy(q) THEN doubtful \cup {g} ELSE doubtful
  BY DEF LogEvent
<1>2. UNCHANGED <<lastRegister, pc, memRegister, stale>> /\ pc[p] \in {"logFirst", "logLast"}
  BY DEF LogEvent, written
<1>3. OnlyStep(p) /\ toLog'[p] = toLog[p] \ {g}
  BY <1>1, <1>2 DEF OnlyStep, Undisturbed, Shape
<1> SUFFICES ASSUME f \notin doubtful'
             PROVE  LogFor(f)'
  BY DEF LogFor
<1>4. \A q \in Procs \ {p} : /\ Owes(q, f)' <=> Owes(q, f)
                             /\ Ahead(q)' <=> Ahead(q)
                             /\ Informed(q)' <=> Informed(q)
                             /\ Differs(q, f)' <=> Differs(q, f)
                             /\ memRegister'[q] = memRegister[q] /\ toLog'[q] = toLog[q]
  BY <1>3, UndisturbedSame DEF OnlyStep, Undisturbed
<1>5. /\ Ahead(p)' <=> Ahead(p)
      /\ Informed(p)' <=> Informed(p)
      /\ Differs(p, f)' <=> Differs(p, f)
  BY <1>2 DEF Ahead, Informed, Differs
<1>6. f \notin doubtful
  BY <1>3 DEF OnlyStep
<1>7. CASE f # g
  <2>1. /\ f \in DOMAIN log' <=> f \in DOMAIN log
        /\ f \in DOMAIN log => log'[f] = log[f]
        /\ f \in toLog'[p] <=> f \in toLog[p]
    BY <1>1, <1>3, <1>7
  <2>2. Owes(p, f)' <=> Owes(p, f)
    BY <1>2, <2>1 DEF Owes
  <2>3. ASSUME NEW q \in Procs
        PROVE  LoggedFirst(q, f)' /\ LoggedLast(q, f)'
    <3>1. LoggedFirst(q, f)'
      BY <1>2, <1>4, <1>5, <1>6, <2>1 DEF LogFor, LoggedFirst
    <3>2. LoggedLast(q, f)'
      BY <1>2, <1>4, <1>5, <1>6, <2>1, <2>2 DEF LogFor, LoggedLast
    <3>3. QED
      BY <3>1, <3>2
  <2>4. f \in DOMAIN lastRegister' => Told(f)'
    BY <1>2, <1>4, <1>5, <1>6, <2>1, <2>2 DEF LogFor, Told
  <2>5. QED
    BY <2>3, <2>4 DEF LogFor
<1>8. CASE f = g
  <2>1. \A q \in Procs \ {p} : ~Busy(q)
    BY <1>1, <1>8
  <2>2. \A q \in Procs \ {p} : ~Ahead(q) /\ ~Owes(q, f)
    BY <2>1 DEF Busy, Ahead, Owes
  <2>3. f \in DOMAIN log' /\ log'[f] = memRegister'[p][f].status /\ f \notin toLog'[p]
    BY <1>1, <1>2, <1>3, <1>8
  <2>4. ASSUME NEW q \in Procs
        PROVE  LoggedFirst(q, f)' /\ LoggedLast(q, f)'
    BY <1>4, <2>2, <2>3 DEF LoggedFirst, LoggedLast, Informed, Owes
  <2>5. ASSUME f \in DOMAIN lastRegister
        PROVE  Told(f)'
    <3>1. f \in DOMAIN memRegister[p]
      BY <1>2, <1>8 DEF OwnTellings, Busy
    <3>2. CASE pc[p] = "logLast"
      <4>1. Owes(p, f) /\ LoggedLast(p, f)
        BY <1>6, <1>8, <3>2 DEF Owes, LogFor
      <4>2. lastRegister[f].status = memRegister[p][f].status
        BY <2>2, <4>1 DEF LoggedLast
      <4>3. QED
        BY <1>2, <2>3, <4>2 DEF Told
    <3>3. CASE pc[p] = "logFirst" /\ Differs(p, f)
      BY <1>2, <1>5, <2>3, <3>1, <3>3 DEF Told, Ahead
    <3>4. CASE ~Differs(p, f)
      <4>1. lastRegister[f].status = memRegister[p][f].status
        BY <2>5, <3>1, <3>4 DEF Differs, Differing
      <4>2. QED
        BY <1>2, <2>3, <4>1 DEF Told
    <3>5. QED
      BY <1>2, <3>2, <3>3, <3>4
  <2>6. QED
    BY <1>2, <2>4, <2>5 DEF LogFor
<1>9. QED
  BY <1>7, <1>8

LEMMA LogGoesOn ==
  ASSUME Shape, NEW f, LogFor(f), NEW p \in Procs, AllLogged(p) \/ OpenRegister(p)
  PROVE  LogFor(f)'
<1>1. UNCHANGED <<lastRegister, log, doubtful, memRegister, toLog, stale>>
  BY DEF AllLogged, OpenRegister, disk, memory, history, written
<1>2. \/ pc[p] = "logFirst" /\ pc' = [pc EXCEPT ![p] = "open"]
      \/ pc[p] = "logLast" /\ pc' = [pc EXCEPT ![p] = "idle"] /\ toLog[p] = {}
      \/ pc[p] = "open" /\ pc' = [pc EXCEPT ![p] = "write"]
  BY DEF AllLogged, OpenRegister
<1>3. \A q \in Procs : /\ Owes(q, f)' <=> Owes(q, f)
                       /\ Ahead(q)' <=> Ahead(q)
                       /\ Informed(q)' <=> Informed(q)
                       /\ Differs(q, f)' <=> Differs(q, f)
  BY <1>1, <1>2 DEF Owes, Ahead, Informed, Differs, Shape
<1>4. (\A q \in Procs : LoggedFirst(q, f) /\ LoggedLast(q, f)) => \A q \in Procs : LoggedFirst(q, f)' /\ LoggedLast(q, f)'
  BY <1>1, <1>3 DEF LoggedFirst, LoggedLast
<1>5. Told(f) => Told(f)'
  BY <1>1, <1>3 DEF Told
<1>6. QED
  BY <1>1, <1>4, <1>5 DEF LogFor

\* The register is saved: what the writer has yet to log it owes from now on,
\* and nobody else knows the file any more.
LEMMA LogWriteStep ==
  ASSUME Shape, RegisterRead, OwnTellings, NEW f, LogFor(f), NEW p \in Procs, WriteRegister(p)
  PROVE  LogFor(f)'
<1>1. /\ lastRegister' = memRegister[p] /\ UNCHANGED <<memRegister, toLog, log>>
      /\ stale' = [stale EXCEPT !["register"] = {q \in Procs : pc[q] # "down"} \ {p}]
      /\ doubtful' = IF p \in stale["register"] THEN doubtful \cup Differing(lastRegister, memRegister[p]) ELSE doubtful
      /\ pc[p] = "write" /\ pc' = [pc EXCEPT ![p] = IF toLog[p] = {} THEN "idle" ELSE "logLast"]
  BY DEF WriteRegister, memory
<1> SUFFICES ASSUME f \notin doubtful'
             PROVE  LogFor(f)'
  BY DEF LogFor
<1>2. f \notin doubtful /\ (p \in stale["register"] => ~Differs(p, f))
  BY <1>1 DEF Differs
<1>3. \A q \in Procs \ {p} : (Owes(q, f)' <=> Owes(q, f)) /\ (Ahead(q)' <=> Ahead(q))
  BY <1>1 DEF Owes, Ahead, Shape
<1>4. /\ ~Owes(p, f) /\ Ahead(p) /\ ~Ahead(p)'
      /\ Owes(p, f)' <=> f \in toLog[p]
  BY <1>1 DEF Owes, Ahead, Shape
<1>5. \A q \in Procs : ~Informed(q)'
  BY <1>1, <1>4 DEF Informed, Ahead, Shape, Files
<1>6. CASE Differs(p, f)
  <2>1. Informed(p) /\ LoggedFirst(p, f)
    BY <1>2, <1>4, <1>6 DEF Informed, LogFor
  <2>2. f \in toLog[p] \/ (f \in DOMAIN log /\ log[f] = lastRegister'[f].status)
    BY <1>1, <1>6, <2>1 DEF LoggedFirst
  <2>3. Follows(p)
    BY <1>1, <2>1 DEF RegisterRead, Informed
  <2>4. DOMAIN lastRegister \subseteq DOMAIN lastRegister'
    BY <1>1, <2>3 DEF Follows
  <2>5. \A q \in Procs \ {p} : Owes(q, f) => f \in toLog[p] /\ f \in DOMAIN lastRegister
    BY <1>2, <1>6, <2>1 DEF LogFor, LoggedLast
  <2>6. f \in toLog[p] => Owes(p, f)' /\ f \in DOMAIN lastRegister' /\ lastRegister'[f].status = memRegister'[p][f].status
    BY <1>1, <1>4 DEF OwnTellings, Busy
  <2>7. Told(f)'
    BY <1>1, <2>2, <2>6 DEF Told
  <2>8. ASSUME NEW q \in Procs
        PROVE  LoggedLast(q, f)'
    <3>1. CASE q = p
      BY <1>4, <1>5, <2>6, <3>1 DEF LoggedLast
    <3>2. CASE q # p
      BY <1>3, <1>5, <2>4, <2>5, <2>6, <3>2 DEF LoggedLast
    <3>3. QED
      BY <3>1, <3>2
  <2>9. QED
    BY <1>5, <2>7, <2>8 DEF LogFor, LoggedFirst
<1>7. CASE ~Differs(p, f)
  <2>1. /\ f \in DOMAIN lastRegister' <=> f \in DOMAIN lastRegister
        /\ f \in DOMAIN lastRegister => lastRegister'[f].status = lastRegister[f].status
    BY <1>1, <1>7 DEF Differs, Differing
  <2>2. \A q \in Procs : f \in DOMAIN lastRegister => (Differs(q, f)' <=> Differs(q, f))
    BY <1>1, <2>1 DEF Differs, Differing
  <2>3. ASSUME f \in DOMAIN lastRegister'
        PROVE  Told(f)'
    BY <1>1, <1>2, <1>3, <1>4, <1>7, <2>1, <2>2, <2>3 DEF LogFor, Told
  <2>4. ASSUME NEW q \in Procs, Owes(q, f)'
        PROVE  LoggedLast(q, f)'
    <3>1. CASE q = p
      <4>1. f \in toLog[p] /\ f \in DOMAIN memRegister[p]
        BY <1>1, <1>4, <2>4, <3>1 DEF OwnTellings, Busy
      <4>2. QED
        BY <1>1, <1>5, <3>1, <4>1 DEF LoggedLast
    <3>2. CASE q # p
      <4>1. Owes(q, f) /\ LoggedLast(q, f)
        BY <1>2, <1>3, <2>4, <3>2 DEF LogFor
      <4>2. /\ f \in DOMAIN lastRegister
            /\ \/ lastRegister[f].status = memRegister[q][f].status
               \/ \E r \in Procs \ {q, p} : Owes(r, f)
        BY <1>4, <4>1 DEF LoggedLast
      <4>3. QED
        BY <1>1, <1>3, <1>5, <2>1, <4>2 DEF LoggedLast
    <3>3. QED
      BY <3>1, <3>2
  <2>5. QED
    BY <1>5, <2>3, <2>4 DEF LogFor, LoggedFirst, LoggedLast
<1>8. QED
  BY <1>6, <1>7

LEMMA LogForStep ==
  ASSUME Shape, RegisterRead, OwnTellings, NEW f, LogFor(f), [Next]_vars
  PROVE  LogFor(f)'
<1>1. CASE NextDay \/ UNCHANGED vars \/ \E g \in Detectable \ findings : Scan(g)
  <2>1. UNCHANGED <<lastRegister, log, memRegister, toLog, pc, stale, doubtful>>
    BY <1>1 DEF NextDay, Scan, vars, disk, memory, history, written
  <2>2. QED
    BY <2>1 DEF LogFor, LoggedFirst, LoggedLast, Told, Owes, Informed, Ahead, Differs
<1>2. QED
  BY <1>1, LogLifeStep, LogThreadStep, LogBeginStep, LogEventStep, LogGoesOn, LogWriteStep DEF Next, ThreadStep

\* The log's last word on an entry on file is its status, unless an operation on
\* the entry was killed or ran beside another, or a process that has missed a
\* write saved its own.
THEOREM LogTells == Spec => []LogTellsStatus
<1>1. Init => Shape /\ FilesHeld /\ RegisterRead /\ OwnTellings /\ \A f \in Detectable : LogFor(f)
  <2>1. Init => Shape /\ FilesHeld /\ RegisterRead /\ OwnTellings
    BY DEF Init, Shape, FilesHeld, Excused, Files, RegisterRead, OwnTellings, Busy
  <2>2. ASSUME Init, NEW f
        PROVE  LogFor(f)
    BY <2>2 DEF Init, LogFor, LoggedFirst, LoggedLast, Owes, Informed, Ahead
  <2>3. QED
    BY <2>1, <2>2
<1>2. Shape /\ FilesHeld /\ RegisterRead /\ LogInv /\ [Next]_vars => (Shape /\ FilesHeld /\ RegisterRead /\ LogInv)'
  BY ShapeStep, FilesStep, RegisterStep, TellingsStep, LogForStep DEF LogInv
<1>3. TypeOK /\ FilesHeld /\ LogInv => LogTellsStatus
  <2>1. ASSUME TypeOK, FilesHeld, LogInv, \A p \in Procs : ~Busy(p), NEW f \in DOMAIN register \ doubtful
        PROVE  f \in DOMAIN log /\ log[f] = register[f].status
    <3>1. register = lastRegister
      BY <2>1 DEF FilesHeld
    <3>2. f \in Detectable /\ LogFor(f)
      BY <2>1 DEF TypeOK, IsRegister, LogInv
    <3>3. Told(f)
      BY <2>1, <3>1, <3>2 DEF LogFor
    <3>4. \A p \in Procs : ~Ahead(p) /\ ~Owes(p, f)
      BY <2>1 DEF Busy, Ahead, Owes
    <3>5. QED
      BY <3>1, <3>3, <3>4 DEF Told
  <2>2. QED
    BY <2>1 DEF LogTellsStatus
<1>4. QED
  BY <1>1, <1>2, <1>3, RemediationTyped, PTL DEF Spec, LogInv
=============================================================================
