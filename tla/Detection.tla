----------------------------- MODULE Detection -----------------------------
(* soc/detection.py, soc/sigma.py, soc/threatintel.py: from the events of  *)
(* the collected logs to alerts.  An event is a record with the number of  *)
(* its line (equal lines are events of their own), its type, the ip, user  *)
(* and host that parse_line found (Nobody when it found none) and the      *)
(* signatures its message carries.  Severities are ranks, from 0 for       *)
(* critical to 4 for info.                                                 *)
EXTENDS Integers, FiniteSets

CONSTANTS
  BruteThreshold,   \* DetectionConfig.brute_force_threshold
  SprayThreshold,   \* DetectionConfig.spray_user_threshold
  SigmaRules,       \* imported rules: records [name, sign, severity]
  Place             \* each name's place in the alphabet, a number

Nobody == "-"

Severities == 0..4

ASSUME DetectionAssumption ==
  IsFiniteSet(SigmaRules) /\ \A rule \in SigmaRules : rule.severity \in Severities

WebRule ==
  [sqli |-> "web-attack-sqli", path_traversal |-> "web-attack-path_traversal",
   xss  |-> "web-attack-xss",  cmd_injection  |-> "web-attack-cmd_injection"]

\* LogEvent.entities: what alerts are correlated by.
Entities(ev) ==
  {e \in {<<"ip", ev.ip>>, <<"user", ev.user>>, <<"host", ev.host>>} : e[2] # Nobody}

\* alert_id: rule and entities make the alert, so a recurring alert is the same.
Alert(rule, severity, entities) == [id |-> <<rule, entities>>, severity |-> severity]

First(names) == CHOOSE n \in names : \A m \in names : Place[n] <= Place[m]

\* The rules that look at a single event; imported rules are tried on all of them.
SigmaAlerts(events) ==
  {Alert(m.rule.name, m.rule.severity, Entities(m.ev)) :
     m \in {x \in [rule : SigmaRules, ev : events] : x.rule.sign \in x.ev.signs}}

SudoAlerts(events) ==
  {Alert("sudo-suspicious-command", 2, Entities(ev)) :
     ev \in {e \in events : e.type = "sudo_command" /\ "suspicious" \in e.signs}}

GroupAlerts(events) ==
  {Alert("privileged-group-change", 1, Entities(ev)) :
     ev \in {e \in events : e.type = "group_change"}}

WebAlerts(events) ==
  {Alert(WebRule[m.sign], 1, Entities(m.ev)) :
     m \in {x \in [sign : DOMAIN WebRule, ev : events] :
              x.ev.type \in {"web_request", "generic"} /\ x.sign \in x.ev.signs}}

\* The rules that count over all events, in whatever order they came.
Failed(events, ip) ==
  {ev \in events : ev.type \in {"ssh_login_failed", "ssh_invalid_user"} /\ ev.ip = ip}

Succeeded(events, ip) == {ev \in events : ev.type = "ssh_login_success" /\ ev.ip = ip}

Users(events) == {ev.user : ev \in events} \ {Nobody}

BruteForcers(events) ==
  {ip \in {ev.ip : ev \in events} \ {Nobody} : Cardinality(Failed(events, ip)) >= BruteThreshold}

BruteAlerts(events) ==
  {Alert(IF Cardinality(Users(Failed(events, ip))) >= SprayThreshold
           THEN "password-spray" ELSE "ssh-brute-force", 1, {<<"ip", ip>>}) :
     ip \in BruteForcers(events)}

BreachAlerts(events) ==
  {LET users == Users(Succeeded(events, ip)) IN
     Alert("successful-login-after-bruteforce", 0,
           {<<"ip", ip>>} \cup (IF users = {} THEN {} ELSE {<<"user", First(users)>>})) :
     ip \in {b \in BruteForcers(events) : Succeeded(events, b) # {}}}

\* DetectionEngine.run
Detected(events) ==
  SigmaAlerts(events) \cup SudoAlerts(events) \cup GroupAlerts(events)
    \cup WebAlerts(events) \cup BruteAlerts(events) \cup BreachAlerts(events)

\* ThreatIntel.enrich_alerts: a known-bad value raises the severity by one.
Enriched(alert, feed) ==
  IF \E e \in alert.id[2] : e[2] \in feed /\ alert.severity > 0
    THEN [alert EXCEPT !.severity = @ - 1] ELSE alert

Alerts(events, feed) == {Enriched(a, feed) : a \in Detected(events)}
=============================================================================
