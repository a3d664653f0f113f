---------------------------- MODULE AuditDamage -----------------------------
(***************************************************************************)
(* What `virgent audit verify` can tell about an audit.jsonl that changed  *)
(* on disk after it was written.  `pristine` is the log as record() wrote  *)
(* it; `log` is the file verify() reads, after at most MaxDamage faults of *)
(* the kinds README.md, audit.py and its tests name: a record edited,      *)
(* deleted or moved, or records that somebody who does not hold the key    *)
(* replaced by others of their own, hashed and chained as record() does.   *)
(***************************************************************************)
EXTENDS AuditChain, FiniteSets

CONSTANTS MaxLength,   \* longest log considered
          MaxDamage    \* number of faults applied to it

ASSUME DamageAssumption == MaxLength \in Nat /\ MaxDamage \in Nat

VARIABLES pristine, log, damage,
          withKey,     \* does the process that wrote and verifies hold the key
          made         \* number of contents made up so far

damageVars == <<pristine, log, damage, withKey, made>>

\* The log that n calls of record() by one process leave.
Recorded(n, key) ==
  [i \in 1..n |-> [seq |-> i, prev |-> i - 1, body |-> i, hash |-> i, sig |-> Signature(key, i)]]

DamageInit ==
  /\ withKey \in BOOLEAN
  /\ \E n \in 0..MaxLength : pristine = Recorded(n, withKey)
  /\ log = pristine
  /\ damage = << >> /\ made = 0

\* A content that nobody has seen before.
MadeUp(k) == WrongKey - 1 - (made + k)

Edit ==
  \E i \in 1..Len(log) :
    /\ log' = [log EXCEPT ![i].body = MadeUp(0)]
    /\ damage' = Append(damage, "edited") /\ made' = made + 1

Delete ==
  \E i \in 1..Len(log) :
    /\ log' = RemoveAt(log, i)
    /\ damage' = Append(damage, "deleted") /\ UNCHANGED made

Reorder ==
  \E i, j \in 1..Len(log) :
    /\ i < j
    /\ log' = [log EXCEPT ![i] = log[j], ![j] = log[i]]
    /\ damage' = Append(damage, "reordered") /\ UNCHANGED made

\* What the forger puts for the signature of a record.
ForgedSigs(rec) == [kept |-> rec.sig, stripped |-> NoSig, own |-> WrongKey]

\* Record i of the forger's, chained to the record before or to the one the
\* forger has put there.
Forgery(i, first, how) ==
  [seq |-> i, prev |-> IF i = first THEN HashBefore(log, i) ELSE MadeUp(i - 1),
   body |-> MadeUp(i), hash |-> MadeUp(i), sig |-> ForgedSigs(log[i])[how]]

\* The records from the first to the last are rewritten: one, all, or the rest
\* of the file as test_forged_chain_without_key_fails_hmac does.
Forge ==
  \E first, last \in 1..Len(log), how \in {"kept", "stripped", "own"} :
    /\ first <= last
    /\ log' = [i \in 1..Len(log) |-> IF i \in first..last THEN Forgery(i, first, how) ELSE log[i]]
    /\ damage' = Append(damage, "forged") /\ made' = made + Len(log) + 1

DamageNext ==
  /\ Len(damage) < MaxDamage
  /\ Edit \/ Delete \/ Reorder \/ Forge
  /\ UNCHANGED <<pristine, withKey>>

DamageSpec == DamageInit /\ [][DamageNext]_damageVars

-----------------------------------------------------------------------------
(* The loop of verify(), with its re-synchronised expected_seq, reports no *)
(* error exactly on the logs that are chained from the genesis hash and,   *)
(* for a verifier with the key, signed throughout.                         *)
VerifyIsChainIntact ==
  \A key \in BOOLEAN :
    VerifyOk(log, key) <=> ChainIntact(log) /\ (key => AllSigned(log))

(* "An attacker who can rewrite the file but does not hold the key cannot  *)
(* forge a valid chain" (audit.py): with the key, verify() accepts after   *)
(* any mixture of faults only what record() wrote, or a beginning of it.   *)
(* Without the key that holds of every mixture but one with a forgery,     *)
(* which can then pass.                                                   *)
OnlyPrefixesVerify ==
  withKey \/ "forged" \notin Range(damage) => (VerifyOk(log, withKey) <=> IsPrefix(log, pristine))

(* One record lost from inside the log is reported as one sequence gap and *)
(* one chain break, not once for every record after it: verify() adopts    *)
(* the number it found (`expected_seq = seq`).                             *)
OneLossReportedOnce ==
  damage = <<"deleted">> /\ ~IsPrefix(log, pristine) => VerifyErrors(log, withKey) = 2
=============================================================================
