----------------------------- MODULE MCFindings -----------------------------
(* A watcher of one host, and a human who inventories, baselines and tests. *)
EXTENDS Findings, TLC

\* A listening port, an administrator, a file, a host to test.
Estate == {"ports", "root", "passwd", "web"}

EstateKinds ==
  ("ports"  :> [kind |-> "host-fact",        fact |-> "listening"]) @@
  ("root"   :> [kind |-> "identity-account", fact |-> "account"]) @@
  ("passwd" :> [kind |-> "file",             fact |-> "none"]) @@
  ("web"    :> [kind |-> "host",             fact |-> "none"]) @@
  ("pentest" :> [kind |-> "pentest",         fact |-> "none"])

\* Redis listens on all interfaces or on one; the administrator has
\* no second factor; the file is there or not.
EstateContents ==
  ("ports"  :> {{{"exposed-service-redis", "all-interfaces"}}, {{"exposed-service-redis"}}}) @@
  ("root"   :> {{{"active", "admin", "identity-no-mfa"}}}) @@
  ("passwd" :> {{{"root"}}, {}}) @@
  ("web"    :> {{{"http", "missing-headers", ".git"}}})

\* In the beginning Redis listens on one interface and the file is there.
Orderly ==
  {("ports" :> {{"exposed-service-redis"}}) @@ ("root" :> {{"active", "admin", "identity-no-mfa"}}) @@
   ("passwd" :> {{"root"}}) @@ ("web" :> {{"http", "missing-headers", ".git"}})}

\* Cut short, JSON is passed over; of a text nothing is left, or it lacks words.
Torn(item) ==
  IF item.kind = "identity-account" THEN {{}}
  ELSE {{}, {spot \ {"all-interfaces", ".git"} : spot \in item.content}}

\* watch --capability host --capability identity
HostAndIdentity == <<"host", "identity">>

IdentityThenCloud == <<"identity", "cloud">>
=============================================================================
