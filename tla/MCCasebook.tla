----------------------------- MODULE MCCasebook -----------------------------
(* A watcher and the commands of an analyst on one casebook. *)
EXTENDS Casebook, TLC

Event(line, type, ip, user, host, signs) ==
  [line |-> line, type |-> type, ip |-> ip, user |-> user, host |-> host, signs |-> signs]

FailedLogin(line) == Event(line, "ssh_login_failed", "10.0.0.9", "bob", Nobody, {})

Login == Event(4, "ssh_login_success", "10.0.0.9", "bob", Nobody, {})

Sudo == Event(3, "sudo_command", Nobody, "bob", "web1", {"suspicious"})

Attack(line, sign) == Event(line, "generic", Nobody, Nobody, Nobody, {sign})

\* Two equal failures to log in from an address and a suspicious command of a
\* user on a host make two incidents; the login of that user from that address
\* joins them.
\* A line of an attack names nobody.
SmallLog == <<{FailedLogin(1), FailedLogin(2), Sudo}, {Login, Attack(5, "sqli")}>>

\* Two attacks in lines that name nobody.
NamelessLog == <<{Attack(1, "sqli"), Attack(2, "xss")}>>

Alphabet == ("10.0.0.9" :> 1) @@ ("bob" :> 2) @@ ("web1" :> 3)

NoRules == {}

KnownBad == {{"web1"}}
=============================================================================
