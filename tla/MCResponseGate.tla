--------------------------- MODULE MCResponseGate ---------------------------
(* Deployments of the response gate for TLC. *)
EXTENDS ResponseGate, TLC

CONSTANTS p1, p2, w1, w2, w3

TwoProcs   == {p1, p2}
OneEach    == (w1 :> p1) @@ (w2 :> p2)
OneProc    == {p1}
\* `virgent soc respond` in p1, two requests of `virgent serve` in p2.
ThreadPool == (w1 :> p1) @@ (w2 :> p2) @@ (w3 :> p2)
Alone      == (w1 :> p1)

\* The access block of the default policy ...
DefaultAccess ==
  [roles     |-> <<"agent", "analyst", "responder", "admin">>,
   autonomy  |-> [observe |-> "auto", enrich |-> "auto", active |-> "confirm",
                  respond |-> "confirm", destructive |-> "escalate"],
   minRole   |-> [observe |-> "agent", enrich |-> "agent", active |-> "analyst",
                  respond |-> "responder", destructive |-> "admin"],
   threshold |-> 80]

\* ... and one that never isolates a host and blocks addresses by itself.
StrictAccess ==
  [DefaultAccess EXCEPT !.autonomy.respond = "auto", !.autonomy.destructive = "deny"]

\* The default rules put every response action under require_approval.
RespondAll == DOMAIN ResponseActions

DefaultRules ==
  [deny |-> {}, require_approval |-> {RespondAll}, allow |-> {}, default |-> "deny"]

Severities == {70, 90}   \* _SEVERITY_SCORE of high and critical
OnlyHigh   == {70}
=============================================================================
