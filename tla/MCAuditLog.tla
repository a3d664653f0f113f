----------------------------- MODULE MCAuditLog -----------------------------
(* Deployments of the audit log for TLC. *)
EXTENDS AuditLog

CONSTANTS p1, p2, w1, w2

\* `virgent watch` (p1) and one `virgent decide` after another (p2).
TwoProcs   == {p1, p2}
OneEach    == (w1 :> p1) @@ (w2 :> p2)
AllKeyed   == [p \in TwoProcs |-> TRUE]

\* `virgent serve`: one process, a thread per request.
OneProc    == {p1}
ThreadPool == (w1 :> p1) @@ (w2 :> p1)
ServeKey   == [p \in OneProc |-> TRUE]
=============================================================================
