------------------------- MODULE MCSnapshotIngestion -------------------------
(* Instances of SnapshotIngestion and of Dashboards for TLC. *)
EXTENDS IngestionAndBoards, TLC

\* Findings of two hosts: one CVE with two severities, a severity that is none
\* of the five, and two findings of one CVE on one host.
Found(n, cve, host, severity, cvss) ==
  [n |-> n, cve |-> cve, host |-> host, severity |-> severity, cvss |-> cvss]

SomeFindings ==
  {Found(1, "c1", "h1", "critical", 9), Found(2, "c1", "h2", "high", 7),
   Found(3, "c1", "h1", "high", 8), Found(4, "c2", "h1", "none", 3),
   Found(5, "c2", "h1", "info", 2), Found(6, "c2", "h1", "info", 1)}

Counts(c, h, m, l, i) ==
  [critical |-> c, high |-> h, medium |-> m, low |-> l, info |-> i]

Row(tenant, provider, target, at, status, counts, its, down) ==
  [tenant |-> tenant, provider |-> provider, target |-> target, at |-> at,
   status |-> status, counts |-> counts, findings |-> its, down |-> down]

\* Scans of today's noon and midnight, of yesterday, of a week ago, and of the
\* quarter before; one that still runs, and one of another tenant.
SampleRows ==
  {Row("T", "nessus", "t1", 401, "completed", Counts(1, 2, 0, 3, 4), SomeFindings, 0),
   Row("T", "nessus", "t1", 400, "completed", Counts(40, 0, 0, 0, 1), {Found(7, "c1", "h1", "high", 7)}, 0),
   Row("T", "nessus", "t2", 387, "running", Counts(5, 0, 0, 0, 0), {}, 0),
   Row("T", "insightvm", "t1", 398, "completed", Counts(0, 9, 1, 0, 7), SomeFindings, 0),
   Row("T", "tenable", "t1", 200, "completed", Counts(0, 1, 0, 0, 0), {}, 0),
   Row("T", "wazuh", "w", 388, "completed", Counts(90, 3, 2, 1, 5), {Found(8, "none", "h1", "high", 0)}, 0),
   Row("T", "zabbix", "z", 399, "completed", Counts(1, 1, 0, 0, 0), {Found(9, "none", "h3", "none", 0)}, 0),
   Row("T", "uptime_kuma", "k", 400, "completed", Counts(0, 0, 0, 0, 0), {}, 2),
   Row("U", "nessus", "t1", 400, "completed", Counts(7, 0, 0, 0, 0), SomeFindings, 0)}

SamplePatches ==
  {[integrations |-> {}], [integrations |-> {"nessus"}, hide |-> FALSE],
   [preventions |-> {"nessus", "wazuh"}, severities |-> {"critical", "info"}],
   [preventions |-> {}, severities |-> {}]}

\* Uploads, copies and requests differ by name only.
Symmetry == Permutations(Uploads) \cup Permutations(Copies) \cup Permutations(Savers)
=============================================================================
