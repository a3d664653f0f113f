--------------------------- MODULE MCRemediation ---------------------------
(* Two processes on one workdir: a server with two threads and a command in *)
(* one; two findings of different severity that fail one control.           *)
EXTENDS Remediation, TLC

CONSTANTS server, command, first, second, main

\* The two threads of the server run the same code.
Alike == Permutations({first, second})

Homes == (first :> server) @@ (second :> server) @@ (main :> command)

Reported(rule) ==
  {[rule |-> i.rule, severity |-> i.severity, controls |-> i.controls, subject |-> "Dockerfile"] :
     i \in Analyse("image", "code", "dockerfile", {{rule}})}

Reportable == Reported("image-integrity-check-disabled") \cup Reported("image-remote-add")

\* 7, 30, 90, 180 and 365 days, in their order.
FewDays == (Critical :> 1) @@ (High :> 1) @@ (Medium :> 2) @@ (Low :> 3) @@ (4 :> 4)

\* The built-in capabilities, of which those named in MONITORED_CONTROLS matter.
BuiltIn == {"secrets", "dependencies", "iac", "host", "runtime", "cloud", "identity", "soc", "fim"}
=============================================================================
