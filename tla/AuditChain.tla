----------------------------- MODULE AuditChain -----------------------------
(***************************************************************************)
(* The record format of audit.jsonl and AuditLog.verify (audit.py).        *)
(*                                                                         *)
(* SHA-256 is collision-free here.  The field `body` is the identity of    *)
(* the canonical JSON of a record without "hash" and "sig" (its seq, ts,   *)
(* actor, action, params and prev_hash): two records have the same body    *)
(* exactly when that JSON is the same, so the digest of a body is the body *)
(* itself.  Every call of record() stamps a body never seen before (`ts`), *)
(* a positive number; contents made up on disk, which no call produced,    *)
(* are numbers below WrongKey.  An HMAC with the key is the hash it was    *)
(* computed of; nobody can compute one without the key.                    *)
(***************************************************************************)
EXTENDS Integers, Sequences, FiniteSets, SequencesExt

Genesis  == 0     \* GENESIS_HASH, the prev_hash of the first record
NoSig    == 0     \* a record without "sig"
WrongKey == -1    \* a signature that was made with another key

Bodies == Int \ {Genesis, WrongKey}
Hashes == Bodies \cup {Genesis}

\* One line of audit.jsonl.
Record == [seq  : Nat \ {0},
           prev : Hashes,
           body : Bodies,
           hash : Bodies,
           sig  : Bodies \cup {NoSig, WrongKey}]

\* _sign: the signature of a hash, for a holder of the key.
Signature(keyed, hash) == IF keyed THEN hash ELSE NoSig

RecordHash(rec) == rec.body

\* Mutant: a restarted process begins a chain of its own.
HeadForgotten(log) == Genesis

\* The hash the next record must name as its prev_hash.
HeadOf(log) == IF log = << >> THEN Genesis ELSE log[Len(log)].hash

\* Mutant: a restarted process counts from 1 again.
SeqForgotten(log) == 0

LastSeq(log) == IF log = << >> THEN 0 ELSE log[Len(log)].seq

HashBefore(log, i) == IF i = 1 THEN Genesis ELSE log[i - 1].hash

(***************************************************************************)
(* The loop of verify(): `expected` is expected_seq (re-synchronised after *)
(* a gap), `prev` the hash of the record before, `errors` the number of    *)
(* messages collected.  A verifier that holds the key requires signatures  *)
(* and recomputes them; one without it does not look at them.              *)
(***************************************************************************)
VerifyStart == [expected |-> 0, prev |-> Genesis, errors |-> 0]

Faults(keyed, acc, rec) ==
  {f \in {"gap", "break", "altered", "unsigned", "forged"} :
     \/ f = "gap"      /\ rec.seq # acc.expected + 1
     \/ f = "break"    /\ rec.prev # acc.prev
     \/ f = "altered"  /\ rec.hash # RecordHash(rec)
     \/ f = "unsigned" /\ keyed /\ rec.sig = NoSig
     \/ f = "forged"   /\ keyed /\ rec.sig \notin {NoSig, rec.hash}}

\* Mutants: the hash is not recomputed; a signature is looked for but not
\* compared; the number expected is not re-synchronised after a gap.
VerifyUnhashed(keyed, acc, rec) ==
  [expected |-> rec.seq, prev |-> rec.hash,
   errors |-> acc.errors + Cardinality(Faults(keyed, acc, rec) \ {"altered"})]

VerifyUncompared(keyed, acc, rec) ==
  [expected |-> rec.seq, prev |-> rec.hash,
   errors |-> acc.errors + Cardinality(Faults(keyed, acc, rec) \ {"forged"})]

VerifyUnsynchronised(keyed, acc, rec) ==
  [expected |-> acc.expected + 1, prev |-> rec.hash,
   errors |-> acc.errors + Cardinality(Faults(keyed, acc, rec))]

VerifyRecord(keyed, acc, rec) ==
  [expected |-> rec.seq, prev |-> rec.hash,
   errors |-> acc.errors + Cardinality(Faults(keyed, acc, rec))]

\* after[n] is what the loop knows once it has read n records.
VerifyWalk(log, keyed) ==
  LET after[n \in 0..Len(log)] ==
        IF n = 0 THEN VerifyStart ELSE VerifyRecord(keyed, after[n - 1], log[n])
  IN after

VerifyErrors(log, keyed) == VerifyWalk(log, keyed)[Len(log)].errors

VerifyOk(log, keyed) == VerifyErrors(log, keyed) = 0

(***************************************************************************)
(* What verify() promises, without the loop: consecutive numbers from 1,   *)
(* every record chained to the one before it, every digest recomputable.   *)
(***************************************************************************)
Chained(log, i) ==
  /\ log[i].seq = i
  /\ log[i].prev = HashBefore(log, i)
  /\ log[i].hash = RecordHash(log[i])

ChainIntact(log) == \A i \in 1..Len(log) : Chained(log, i)

\* Every record bears the signature of its own hash.
AllSigned(log) == \A i \in 1..Len(log) : log[i].sig = log[i].hash
=============================================================================
