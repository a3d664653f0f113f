---------------------------- MODULE Capabilities ----------------------------
(* capabilities/*.py, redaction.py: which issues a piece of evidence shows. *)
(* A content is a set of spots (a line, an account, an open port), a spot  *)
(* the set of the conditions met there, each named by the rule that asks   *)
(* for it.  The tables hold what every rule reports; the checks, when one  *)
(* rule gives way to another.  Severities are ranks, 0 critical .. 4 info. *)
EXTENDS Integers, FiniteSets, Sequences

Critical == 0
High == 1
Medium == 2
Low == 3

Issues(severity, controls, rules) ==
  {[rule |-> r, severity |-> severity, controls |-> controls] : r \in rules}

\* The issues of a table whose rule is met at a spot.
Met(spot, table) == {i \in table : i.rule \in spot}

MetAnywhere(content, table) == Met(UNION content, table)

-----------------------------------------------------------------------------
(* secrets.py and redaction.py *)

\* SECRET_PATTERNS: a token that several patterns match is of the first kind.
SecretKinds ==
  <<"private-key", "aws-access-key", "aws-secret-key", "github-token", "gitlab-token",
    "slack-token", "stripe-key", "anthropic-key", "openai-key", "google-api-key",
    "gcp-service-account", "azure-client-secret", "azure-storage-key", "twilio-key",
    "sendgrid-key", "npm-token", "pypi-token", "datadog-key", "digitalocean-token",
    "hashicorp-vault-token", "slack-webhook", "discord-webhook", "telegram-bot-token",
    "square-token", "mailgun-key", "jwt", "bearer-token", "basic-auth-url", "generic-assignment">>

CriticalKinds == {"private-key", "aws-access-key", "aws-secret-key", "stripe-key"}

\* find_secrets: an assignment of a placeholder or of a low-entropy value is none.
FindSecrets(spot) ==
  LET matching == {n \in DOMAIN SecretKinds :
                     /\ SecretKinds[n] \in spot
                     /\ SecretKinds[n] = "generic-assignment" => "placeholder" \notin spot}
  IN  {SecretKinds[n] : n \in {m \in matching : \A k \in matching : m <= k}}

CheckSecrets(content) ==
  LET kinds == UNION {FindSecrets(spot) : spot \in content}
      controls == {"SOC2:CC6.1", "ISO27001:A.8.24", "NIST:IA-5", "OWASP:A07"}
  IN  Issues(Critical, controls, kinds \cap CriticalKinds)
        \cup Issues(High, controls, kinds \ CriticalKinds)

-----------------------------------------------------------------------------
(* dependencies.py, image.py, iac.py, sast.py: what is ingested from code. *)

\* A spot is a dependency; vulnerabilities are asked for when online.
DependencyTable ==
  Issues(Low, {"SOC2:CC8.1", "ISO27001:A.8.9", "NIST:SR-3", "OWASP:A08"}, {"unpinned"})

Advisories ==
  LET controls == {"SOC2:CC7.1", "ISO27001:A.8.8", "NIST:RA-5", "NIST:SI-2", "OWASP:A06"}
  IN  Issues(Critical, controls, {"advisory-critical"}) \cup Issues(High, controls, {"advisory-high"})
        \cup Issues(Medium, controls, {"advisory"})

\* _vuln_severity: the worst word in the advisory counts.
CheckAdvisories(spot) == LET met == Met(spot, Advisories) IN {i \in met : \A j \in met : i.severity <= j.severity}

CheckDependencies(content, online) ==
  MetAnywhere(content, DependencyTable)
    \cup (IF online THEN UNION {CheckAdvisories(spot) : spot \in content} ELSE {})

ImageTable ==
  Issues(Low, {"NIST:SR-3", "OWASP:A06", "ISO27001:A.8.9"},
         {"image-unpinned-os-package", "image-unpinned-pip"})
  \cup Issues(Medium, {"NIST:SR-3", "OWASP:A08", "ISO27001:A.8.9"}, {"image-remote-add"})
  \cup Issues(High, {"NIST:SR-3", "OWASP:A08", "ISO27001:A.8.9"}, {"image-integrity-check-disabled"})

Misconfig == {"SOC2:CC6.6", "ISO27001:A.8.9", "NIST:CM-6", "OWASP:A05"}

Integrity == {"SOC2:CC8.1", "NIST:SR-3", "OWASP:A08"}

DockerTable ==
  Issues(Low, Integrity, {"docker-unpinned-base-image"}) \cup Issues(High, Integrity, {"docker-curl-pipe-sh"})
  \cup Issues(High, {"SOC2:CC6.1", "NIST:IA-5", "OWASP:A07"}, {"docker-secret-in-env"})

\* One non-root USER instruction anywhere is enough.
CheckDockerfile(content) ==
  MetAnywhere(content, DockerTable)
    \cup (IF "from" \in UNION content /\ "user" \notin UNION content
            THEN Issues(Medium, Misconfig, {"docker-runs-as-root"}) ELSE {})

WorkflowTable ==
  Issues(Medium, Integrity, {"gha-unpinned-action"})
  \cup Issues(High, {"SOC2:CC6.1", "NIST:IA-5", "NIST:AU-2"}, {"gha-secret-echoed"})

CheckWorkflow(content) ==
  MetAnywhere(content, WorkflowTable)
    \cup (IF {"pull_request_target", "checkout"} \subseteq UNION content
            THEN Issues(Critical, {"SOC2:CC8.1", "NIST:SR-3", "OWASP:A08", "SOC2:CC6.6"},
                        {"gha-pull-request-target-checkout"}) ELSE {})

KubernetesTable ==
  Issues(High, Misconfig, {"k8s-privileged"})
  \cup Issues(Medium, Misconfig, {"k8s-host-network", "k8s-allow-priv-esc", "k8s-run-as-root"})

TerraformTable ==
  Issues(High, {"SOC2:CC6.6", "NIST:SC-7", "CIS:4.4", "OWASP:A05", "PCI:1"}, {"tf-open-ingress"})
  \cup Issues(High, {"SOC2:CC6.1", "NIST:AC-3", "ISO27001:A.5.15", "OWASP:A01"}, {"tf-public-bucket"})
  \cup Issues(High, {"SOC2:CC6.1", "NIST:IA-5", "ISO27001:A.8.24", "OWASP:A07"}, {"tf-hardcoded-secret"})

CheckTerraform(content) ==
  UNION {Met(IF "variable" \in spot THEN spot \ {"tf-hardcoded-secret"} ELSE spot, TerraformTable) :
           spot \in content}
    \cup (IF "bucket" \in UNION content /\ "server-side-encryption" \notin UNION content
            THEN Issues(Medium, {"SOC2:CC6.1", "NIST:SC-28", "ISO27001:A.8.24", "OWASP:A02", "PCI:3"},
                        {"tf-unencrypted-storage"}) ELSE {})

CheckIaC(fact, content) ==
  CASE fact = "dockerfile" -> CheckDockerfile(content)
    [] fact = "workflow"   -> CheckWorkflow(content)
    [] fact = "kubernetes" -> MetAnywhere(content, KubernetesTable)
    [] fact = "terraform"  -> CheckTerraform(content)
    [] OTHER               -> {}

Coding == {"ISO27001:A.8.28", "OWASP:A03"}

PythonTable ==
  Issues(High, Coding, {"py-code-injection", "py-command-injection", "py-subprocess-shell", "py-sql-injection"})
  \cup Issues(High, {"ISO27001:A.8.28", "OWASP:A08"}, {"py-insecure-deserialization"})
  \cup Issues(Medium, {"OWASP:A02", "NIST:SC-8"}, {"py-tls-verification-disabled"})
  \cup Issues(Medium, {"ISO27001:A.8.24", "OWASP:A02"}, {"py-weak-hash"})
  \cup Issues(Low, Coding, {"py-insecure-temp"})

JavaScriptTable ==
  Issues(High, Coding, {"js-code-injection", "js-command-injection"}) \cup Issues(Medium, Coding, {"js-xss-innerhtml"})

CheckCode(fact, content) ==
  CASE fact = "python"     -> MetAnywhere(content, PythonTable)
    [] fact = "javascript" -> MetAnywhere(content, JavaScriptTable)
    [] OTHER               -> {}

-----------------------------------------------------------------------------
(* host.py and runtime.py: what is collected from the machine itself.      *)

SshTable ==
  LET controls == {"CIS:5.2", "NIST:AC-6", "NIST:AC-17", "ISO27001:A.8.5"} IN
  Issues(Critical, controls, {"ssh-permit-empty-passwords"})
    \cup Issues(High, controls, {"ssh-permit-root-login", "ssh-protocol-1"})
    \cup Issues(Medium, controls, {"ssh-password-auth"})
    \cup Issues(Low, controls, {"ssh-x11-forwarding", "ssh-permit-user-env"})

\* A spot is a directive; of several with one name the last is in force.
InForce(content) == {spot \in content : "overridden" \notin spot}

AccountTable ==
  Issues(Critical, {"CIS:5.4", "NIST:AC-2", "NIST:IA-5", "ISO27001:A.5.16"},
         {"account-uid0-nonroot", "account-empty-password"})

SysctlTable ==
  LET controls == {"CIS:3.3", "NIST:CM-6", "NIST:SC-7", "ISO27001:A.8.9"} IN
  Issues(Medium, controls, {"sysctl-kernel.randomize_va_space", "sysctl-net.ipv4.tcp_syncookies"})
    \cup Issues(Low, controls,
           {"sysctl-fs.suid_dumpable", "sysctl-net.ipv4.ip_forward", "sysctl-net.ipv4.conf.all.accept_redirects",
            "sysctl-net.ipv4.conf.all.send_redirects", "sysctl-net.ipv4.conf.all.accept_source_route"})

FirewallTable == Issues(Medium, {"CIS:4.4", "NIST:SC-7", "ISO27001:A.8.20"}, {"firewall-inactive"})

ListeningTable ==
  LET controls == {"CIS:2.2", "NIST:CM-7", "NIST:SC-7", "ISO27001:A.8.20"} IN
  Issues(Critical, controls, {"exposed-service-telnet", "exposed-service-docker-api"})
    \cup Issues(High, controls,
           {"exposed-service-etcd", "exposed-service-mysql", "exposed-service-postgresql",
            "exposed-service-couchdb", "exposed-service-redis", "exposed-service-elasticsearch",
            "exposed-service-memcached", "exposed-service-mongodb"})

\* A spot is a socket: a sensitive service counts when it listens everywhere.
Exposed(content) == {spot \in content : "all-interfaces" \in spot}

PermTable ==
  LET controls == {"CIS:1.4", "NIST:AC-6", "NIST:CM-6", "ISO27001:A.8.9"} IN
  Issues(High, controls, {"perm-shadow-exposed", "perm-world-writable"})
    \cup Issues(Medium, controls, {"perm-nonroot-owner"})

\* A shadow file has a rule of its own in place of the general one.
CheckFilePerms(spot) ==
  Met(spot \ {IF "shadow" \in spot THEN "perm-world-writable" ELSE "perm-shadow-exposed"}, PermTable)

CheckHost(fact, content) ==
  CASE fact = "sshd_config" -> MetAnywhere(InForce(content), SshTable)
    [] fact = "users"       -> MetAnywhere(content, AccountTable)
    [] fact = "sysctl"      -> MetAnywhere(InForce(content), SysctlTable)
    [] fact = "firewall"    -> MetAnywhere(content, FirewallTable)
    [] fact = "listening"   -> MetAnywhere(Exposed(content), ListeningTable)
    [] fact = "file-perms"  -> UNION {CheckFilePerms(spot) : spot \in content}
    [] OTHER                -> {}

Monitor == {"NIST:SI-4", "SOC2:CC7.2", "ISO27001:A.8.16"}

Function == {"NIST:CM-7", "NIST:SC-7", "ISO27001:A.8.20"}

ProcessTable ==
  Issues(Critical, Monitor, {"proc-reverse-shell"}) \cup Issues(High, Monitor, {"proc-staging-dir-exec"})
    \cup Issues(Medium, Function, {"proc-network-tool"})

\* A spot is a process: the first rule that fits it is the only one.
CheckProcess(spot) == LET met == Met(spot, ProcessTable) IN {i \in met : \A j \in met : i.severity <= j.severity}

ConnectionTable == Issues(High, Monitor, {"conn-suspicious-process"})

SessionTable == Issues(Medium, {"NIST:AC-17", "NIST:AC-6", "ISO27001:A.8.5"}, {"session-remote-root"})

ServiceTable ==
  Issues(High, Function, {"service-risky-telnet", "service-risky-rsh", "service-risky-rlogin", "service-risky-rexec"})
    \cup Issues(Medium, Function, {"service-risky-tftp", "service-risky-vsftpd", "service-risky-ftp"})

CheckRuntime(fact, content) ==
  CASE fact = "processes"   -> UNION {CheckProcess(spot) : spot \in content}
    [] fact = "connections" -> MetAnywhere(content, ConnectionTable)
    [] fact = "sessions"    -> MetAnywhere(content, SessionTable)
    [] fact = "services"    -> MetAnywhere(content, ServiceTable)
    [] OTHER                -> {}

-----------------------------------------------------------------------------
(* cloud.py and identity.py: resources and accounts, one in each evidence. *)

Public == {"SOC2:CC6.1", "NIST:AC-3", "ISO27001:A.5.15", "OWASP:A01"}

Crypto == {"NIST:SC-28", "ISO27001:A.8.24", "OWASP:A02"}

Boundary == {"SOC2:CC6.6", "NIST:SC-7", "CIS:4.4", "OWASP:A05", "PCI:1"}

IamControls == {"SOC2:CC6.1", "NIST:AC-2", "NIST:IA-5", "ISO27001:A.5.15"}

BucketTable ==
  Issues(Critical, Public, {"cloud-s3-public"}) \cup Issues(Medium, Public, {"cloud-s3-no-pab"})
    \cup Issues(Medium, Crypto, {"cloud-s3-unencrypted"})

\* A bucket that is public is not also reported for a missing block.
CheckBucket(spot) ==
  Met(IF "cloud-s3-public" \in spot THEN spot \ {"cloud-s3-no-pab"} ELSE spot, BucketTable)

IngressTable == Issues(High, Boundary, {"cloud-sg-open-all", "cloud-sg-open-sensitive"})

\* A spot is an open ingress rule; one for all ports is reported as that only.
CheckIngress(spot) ==
  Met(IF "cloud-sg-open-all" \in spot THEN {"cloud-sg-open-all"} ELSE spot, IngressTable)

DatabaseTable ==
  Issues(High, Boundary, {"cloud-rds-public"}) \cup Issues(Medium, Crypto, {"cloud-rds-unencrypted"})

IamTable ==
  Issues(High, IamControls, {"cloud-iam-no-mfa", "cloud-iam-admin"})
    \cup Issues(Medium, IamControls, {"cloud-iam-stale-key"})

\* Without console access nobody misses the second factor.
CheckIamUser(spot) ==
  Met(IF "console" \in spot THEN spot ELSE spot \ {"cloud-iam-no-mfa"}, IamTable)

\* One resource type of the three providers each, normalized to one configuration.
CheckCloud(fact, content) ==
  CASE fact = "bucket"         -> UNION {CheckBucket(spot) : spot \in content}
    [] fact = "security_group" -> UNION {CheckIngress(spot) : spot \in content}
    [] fact = "db_instance"    -> MetAnywhere(content, DatabaseTable)
    [] fact \in {"user", "service_account"} -> UNION {CheckIamUser(spot) : spot \in content}
    [] OTHER                   -> {}

Authentication == {"NIST:IA-5", "SOC2:CC6.1", "ISO27001:A.8.5"}

Lifecycle == {"NIST:AC-2", "NIST:IA-5", "SOC2:CC6.1", "ISO27001:A.5.16"}

\* Two rules are more severe for an administrator.
AccountIssues(spot) ==
  LET raised == IF "admin" \in spot THEN High ELSE Medium IN
  Issues(raised, Authentication, {"identity-no-mfa"})
    \cup Issues(raised, Lifecycle, {"identity-dormant"})
    \cup Issues(High, {"NIST:AC-6", "NIST:AC-2", "ISO27001:A.5.15"}, {"identity-privileged-svc-account"})
    \cup Issues(Medium, Lifecycle, {"identity-disabled-present"})
    \cup Issues(Medium, Authentication, {"identity-stale-credential"})

\* check_account: some rules are about active accounts, or about people, only.
CheckAccount(spot) ==
  {i \in Met(spot, AccountIssues(spot)) :
     /\ i.rule \in {"identity-no-mfa", "identity-dormant"} => "active" \in spot
     /\ i.rule = "identity-no-mfa" => "service" \notin spot
     /\ i.rule = "identity-privileged-svc-account" => {"admin", "service"} \subseteq spot}

-----------------------------------------------------------------------------
\* Capability.analyze: which evidence a capability looks at, and its issues.
Analyse(capability, kind, fact, content) ==
  CASE capability = "secrets" /\ kind \in {"code", "config", "text", "commit", "log", "data"} -> CheckSecrets(content)
    [] capability = "dependencies" /\ fact = "manifest" -> CheckDependencies(content, FALSE)
    [] capability = "image" /\ fact = "dockerfile"      -> MetAnywhere(content, ImageTable)
    [] capability = "iac"                               -> CheckIaC(fact, content)
    [] capability = "sast" /\ kind = "code"             -> CheckCode(fact, content)
    [] capability = "host" /\ kind = "host-fact"        -> CheckHost(fact, content)
    [] capability = "runtime" /\ kind = "runtime-fact"  -> CheckRuntime(fact, content)
    [] capability = "cloud" /\ kind = "cloud-asset"     -> CheckCloud(fact, content)
    [] capability = "identity" /\ kind = "identity-account" -> UNION {CheckAccount(spot) : spot \in content}
    [] OTHER -> {}
=============================================================================
