---------------------------- MODULE Correlation ----------------------------
(* soc/correlation.py: alerts that share an entity make one incident, by   *)
(* union-find over the entity values.  An alert is its id, <<rule, set of  *)
(* entities>>; the incident's id is the hash of all entities of its group, *)
(* here the set of them.                                                   *)
EXTENDS Integers, FiniteSets, FiniteSetsExt

\* mutant: users link nothing.
NodesWithoutUsers(alert) ==
  LET nodes == {e \in alert[2] : e[1] # "user"} IN
  IF nodes = {} THEN {<<"alert", alert>>} ELSE nodes

\* _entity_nodes; an alert without entities has a node of its own.
NodesOf(alert) == IF alert[2] = {} THEN {<<"alert", alert>>} ELSE alert[2]

Nodes(alerts) == UNION {NodesOf(a) : a \in alerts}

\* _UnionFind: root[n] is what find(n) returns; union(a, b) hangs the tree of b
\* below the root of a.
Union(a, b, root) ==
  [n \in DOMAIN root |-> IF root[n] = root[b] THEN root[a] ELSE root[n]]

\* One alert's nodes are linked to the first of them.
Linked(alert, root) ==
  LET first == CHOOSE n \in NodesOf(alert) : TRUE
  IN  FoldSet(LAMBDA n, r : Union(first, n, r), root, NodesOf(alert))

\* The roots after all alerts have been linked, one after another.
Roots(alerts) == FoldSet(Linked, [n \in Nodes(alerts) |-> n], alerts)

\* The alerts whose nodes have one root make a group.
Groups(alerts) ==
  LET root == Roots(alerts)
  IN  {{a \in alerts : NodesOf(a) \subseteq {n \in DOMAIN root : root[n] = r}} :
         r \in {root[n] : n \in DOMAIN root}}

EntitiesOf(group) == UNION {a[2] : a \in group}

\* The worst severity of a group, and PRIORITY_BY_SEVERITY: "P1" to "P4".
Worst(alerts, group) ==
  CHOOSE s \in {alerts[a] : a \in group} : \A a \in group : s <= alerts[a]

Priority(severity) == IF severity < 4 THEN severity + 1 ELSE 4

\* correlate(alerts), alerts being a function from ids to severities.
Correlate(alerts) ==
  {[id |-> EntitiesOf(g), severity |-> Worst(alerts, g), alerts |-> g] :
     g \in Groups(DOMAIN alerts)}
=============================================================================
