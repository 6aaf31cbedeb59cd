----------------------------- MODULE Dashboards -----------------------------
(***************************************************************************)
(* What a tenant's dashboards show: home with its cards, the page of a     *)
(* provider, the lists and analytics of scans, the numbers of preventions  *)
(* with their health index, and the operators' view of a client.  All of   *)
(* them are read anew from the same rows by code of their own, so that     *)
(* they may disagree; the rows, the integrations, the agent keys and the   *)
(* tenant's preferences change in between.                                 *)
(*                                                                         *)
(* Time is counted in half days.  Left out: texts and labels, the limits   *)
(* of lists (10, 20, 30 rows), the metrics a scan's meta_info carries, but *)
(* for the services that are down, and the data of demo tenants.           *)
(***************************************************************************)
EXTENDS Integers, FiniteSets, FiniteSetsExt

CONSTANTS
  ScanRows,    \* rows of scan_summaries and scan_summaries_noc that may come
  Patches,     \* bodies of PUT /tenants/preferences
  Savers,      \* such requests, which may overlap
  MaxChanges,  \* bound: changes of rows, integrations, keys and preferences
  RecentLimit, \* findings of a scan that insightvm's page reads, 5
  Unset        \* no row, no record

Now == 401
Me == "T"  \* the tenant

HomeProviders == {"openvas", "insightvm", "nessus", "wazuh", "zabbix", "uptime_kuma"}
Vulnerability == {"openvas", "insightvm", "nessus", "tenable"}
Supported == HomeProviders \cup {"tenable"}
Connectable == {"wazuh", "zabbix", "nessus", "uptime_kuma"}

Severities == {"critical", "high", "medium", "low", "info"}
SeverityNames == (Severities \ {"info"}) \cup {"informational"}

VARIABLES
  rows,       \* the rows of scans, of this tenant and of others
  connected,  \* the tenant's integrations
  keys,       \* its active agent keys, by type
  saved,      \* its tenant_preferences row
  saving,     \* what each PUT is about to save
  changes

boardVars == <<rows, connected, keys, saved, saving, changes>>

Preferences ==
  [severities : SUBSET SeverityNames, preventions : SUBSET HomeProviders,
   integrations : SUBSET HomeProviders, hide : BOOLEAN]

DefaultPreferences ==
  [severities |-> SeverityNames, preventions |-> HomeProviders,
   integrations |-> HomeProviders, hide |-> TRUE]

\* Rows as the processors write them, with the numbers of findings a scanner
\* reports, and bodies that normalize_tenant_preferences lets through.
ASSUME BoardsAssumption ==
  /\ Unset \notin ScanRows \cup Preferences \cup Supported \cup {"soc", "noc"}
  /\ \A r \in ScanRows :
       /\ r.provider \in Supported /\ r.at \in Nat
       /\ r.counts \in [Severities -> Nat] /\ r.down \in Nat
       /\ IsFiniteSet(r.findings) /\ \A f \in r.findings : f.cvss \in Nat
  /\ \A b \in Patches :
       /\ "severities" \in DOMAIN b => b.severities \subseteq Severities \cup SeverityNames
       /\ "preventions" \in DOMAIN b => b.preventions \subseteq HomeProviders
       /\ "integrations" \in DOMAIN b => b.integrations \subseteq HomeProviders
       /\ "hide" \in DOMAIN b => b.hide \in BOOLEAN
  /\ MaxChanges \in Nat /\ RecentLimit \in Nat

BoardsTypeOK ==
  /\ rows \subseteq ScanRows
  /\ connected \subseteq Connectable /\ keys \subseteq Supported
  /\ saved \in Preferences \cup {Unset}
  /\ saving \in [Savers -> [new : Preferences, insert : BOOLEAN] \cup {Unset}]
  /\ changes \in 0..MaxChanges

BoardsInit ==
  /\ rows = {} /\ connected = {} /\ keys = {} /\ saved = Unset
  /\ saving = [s \in Savers |-> Unset] /\ changes = 0

-----------------------------------------------------------------------------
(* Preferences.                                                            *)

\* _normalize_severity
Named(s) == IF s = "info" THEN "informational" ELSE s

\* merge_tenant_preferences: the defaults, the record, the body.
Merged(base, patch) ==
  LET whole == IF base = Unset THEN DefaultPreferences ELSE base
      field(f) == IF f \in DOMAIN patch THEN patch[f] ELSE whole[f]
  IN [severities |-> {Named(s) : s \in field("severities")},
      preventions |-> field("preventions"),
      integrations |-> field("integrations"), hide |-> field("hide")]

\* An empty list stands for everything.
OrAll(chosen, all) == IF chosen = {} THEN all ELSE chosen

\* get_tenant_preferences
Current == IF saved = Unset THEN DefaultPreferences ELSE saved

-----------------------------------------------------------------------------
(* What changes.                                                           *)

Changing == changes < MaxChanges /\ changes' = changes + 1

\* A processor's transaction, or one that marks a scan completed.
ScanArrives(r) ==
  /\ Changing /\ r \notin rows
  /\ rows' = rows \cup {r}
  /\ UNCHANGED <<connected, keys, saved, saving>>

\* POST and DELETE /integrations
Connect(p) ==
  /\ Changing
  /\ connected' = SymDiff(connected, {p})
  /\ UNCHANGED <<rows, keys, saved, saving>>

\* /tenants/agent-keys: created, toggled, or deleted.
ToggleKey(p) ==
  /\ Changing
  /\ keys' = SymDiff(keys, {p})
  /\ UNCHANGED <<rows, connected, saved, saving>>

\* PUT /tenants/preferences reads the record...
BeginSave(s, patch) ==
  /\ Changing /\ saving[s] = Unset
  /\ saving' = [saving EXCEPT ![s] = [new |-> Merged(saved, patch), insert |-> saved = Unset]]
  /\ UNCHANGED <<rows, connected, keys, saved>>

\* ...and saves all of it. A second first record breaks the unique constraint.
CommitSave(s) ==
  /\ saving[s] # Unset
  /\ saving[s].insert => saved = Unset
  /\ saved' = saving[s].new
  /\ saving' = [saving EXCEPT ![s] = Unset]
  /\ UNCHANGED <<rows, connected, keys, changes>>

FailSave(s) ==
  /\ saving[s] # Unset
  /\ saving' = [saving EXCEPT ![s] = Unset]
  /\ UNCHANGED <<rows, connected, keys, saved, changes>>

BoardsNext ==
  \/ \E r \in ScanRows : ScanArrives(r)
  \/ \E p \in Connectable : Connect(p)
  \/ \E p \in Supported : ToggleKey(p)
  \/ \E s \in Savers : CommitSave(s) \/ FailSave(s) \/ \E b \in Patches : BeginSave(s, b)

BoardsSpec == BoardsInit /\ [][BoardsNext]_boardVars

-----------------------------------------------------------------------------
(* Ranges of time.                                                         *)

Day(t) == t \div 2
Midnight(t) == 2 * Day(t)
Ago(days) == [start |-> Now - 2 * days, end |-> Now]

Custom(from, to) == [preset |-> "custom", from |-> from, to |-> to]

\* _parse_range: dates in either order, and no more than 90 days of them.
ParseRange(q) ==
  CASE q.preset = "today" -> [start |-> Midnight(Now), end |-> Now]
    [] q.preset = "yesterday" -> [start |-> Midnight(Now) - 2, end |-> Midnight(Now) - 1]
    [] q.preset = "7d" -> Ago(7)
    [] q.preset = "custom" ->
         LET first == Min({q.from, q.to}) last == Max({q.from, q.to})
         IN [start |-> first, end |-> Min({last, first + 180})]
    [] OTHER -> Ago(30)

\* parse_analytics_range_args: such dates are refused.
AnalyticsRange(q) ==
  IF q.preset # "custom" THEN Ago(IF q.preset = "7d" THEN 7 ELSE 30)
  ELSE IF q.from > q.to \/ q.to - q.from > 180 THEN Unset
  ELSE [start |-> q.from, end |-> q.to]

Within(r, range) == r.at >= range.start /\ r.at <= range.end

-----------------------------------------------------------------------------
(* One provider.                                                           *)

Scans(p) == {r \in rows : r.tenant = Me /\ r.provider = p}
NoCounts == [s \in Severities |-> 0]

LatestScan(p) ==
  IF Scans(p) = {} THEN Unset
  ELSE CHOOSE r \in Scans(p) : \A o \in Scans(p) : o.at <= r.at

\* _scan_counts
ScanCounts(r) == IF r = Unset THEN NoCounts ELSE r.counts
Total(counts, some) == MapThenSumSet(LAMBDA s : counts[s], some)
Down(r) == IF r = Unset THEN 0 ELSE r.down

\* _base_status
Configured(p) == p \in connected \cup keys
Active(p) == p \in keys

NotConfigured ==
  [configured |-> FALSE, active |-> FALSE, has_data |-> FALSE,
   counts |-> NoCounts, alerts |-> 0, down |-> 0, scans |-> 0, running |-> 0]

\* What every summary and every page begins with.
Shown(p) ==
  [NotConfigured EXCEPT !.configured = TRUE, !.active = Active(p),
                        !.has_data = LatestScan(p) # Unset]

Running(some) == {r \in some : r.status = "running"}

VulnerabilitySummary(p) ==
  [Shown(p) EXCEPT !.counts = ScanCounts(LatestScan(p)),
     !.scans = Cardinality(Scans(p)), !.running = Cardinality(Running(Scans(p)))]

WazuhSummary ==
  LET counts == ScanCounts(LatestScan("wazuh"))
  IN [Shown("wazuh") EXCEPT !.counts = counts, !.alerts = Total(counts, Severities)]

ZabbixSummary ==
  [Shown("zabbix") EXCEPT !.alerts = Total(ScanCounts(LatestScan("zabbix")), Severities)]

UptimeSummary == [Shown("uptime_kuma") EXCEPT !.down = Down(LatestScan("uptime_kuma"))]

\* The entries of build_dashboard_summary.
Entry(p) ==
  IF ~Configured(p) THEN NotConfigured
  ELSE CASE p = "wazuh" -> WazuhSummary
         [] p = "zabbix" -> ZabbixSummary
         [] p = "uptime_kuma" -> UptimeSummary
         [] OTHER -> VulnerabilitySummary(p)

Operational(p, e) == IF p = "uptime_kuma" THEN e.down ELSE e.alerts

\* _build_integration_summary_slots: the alerts of wazuh leave out "info".
Slot(p, e) ==
  CASE p \in Vulnerability -> [total |-> Total(e.counts, Severities), danger |-> e.counts["critical"]]
    [] p = "wazuh" -> [total |-> Total(e.counts, Severities \ {"info"}),
                       danger |-> Total(e.counts, {"critical", "high"})]
    [] p = "zabbix" -> [total |-> e.alerts, danger |-> e.alerts]
    [] p = "uptime_kuma" -> [total |-> e.down, danger |-> e.down]

\* _build_home_integration_status
Card(p) == LET e == Entry(p) IN
  [configured |-> e.configured, active |-> e.active, has_data |-> e.has_data, slot |-> Slot(p, e)]

Cards == {p \in HomeProviders : /\ p \in OrAll(Current.integrations, Supported)
                                /\ Current.hide => Configured(p)}

\* Mutant: an empty list is taken at its word.
OnlyListed(p) == p \in Current.integrations \/ (p = "tenable" /\ "nessus" \in Current.integrations)

\* build_provider_dashboard: tenable is shown with nessus.
PageOpens(p) ==
  LET visible == OrAll(Current.integrations, Supported)
  IN p \in visible \/ (p = "tenable" /\ "nessus" \in visible)

\* total_findings stands among the alerts.
VulnerabilityPage(p) ==
  LET counts == ScanCounts(LatestScan(p))
  IN [Shown(p) EXCEPT !.counts = counts, !.alerts = Total(counts, Severities),
        !.scans = Cardinality(Scans(p)), !.running = Cardinality(Running(Scans(p)))]

\* With the snapshot of its newest scan.
WazuhPage ==
  LET counts == ScanCounts(LatestScan("wazuh"))
  IN [Shown("wazuh") EXCEPT !.counts = counts, !.alerts = Total(counts, Severities)]

ZabbixPage ==
  [Shown("zabbix") EXCEPT !.alerts = Total(ScanCounts(LatestScan("zabbix")), Severities)]

UptimePage == [Shown("uptime_kuma") EXCEPT !.down = Down(LatestScan("uptime_kuma"))]

Page(p) ==
  IF ~Configured(p) THEN NotConfigured
  ELSE CASE p = "wazuh" -> WazuhPage
         [] p = "zabbix" -> ZabbixPage
         [] p = "uptime_kuma" -> UptimePage
         [] OTHER -> VulnerabilityPage(p)

-----------------------------------------------------------------------------
(* Preventions and the health index.                                       *)

\* Mutant: the totals of the preferences' names are looked up by the scans'.
UnnamedCount(e, name) == IF name \in Severities THEN e.counts[name] ELSE 0

CountOf(e, name) == IF name = "informational" THEN e.counts["info"] ELSE e.counts[name]

VisibleProviders == OrAll(Current.preventions, HomeProviders)
VisibleSeverities == OrAll(Current.severities, SeverityNames)

VulnerabilityCounts ==
  [name \in SeverityNames |->
     MapThenSumSet(LAMBDA p : CountOf(Entry(p), name),
                   VisibleProviders \cap {"nessus", "openvas", "insightvm"})]

PreventionsTotal ==
  Total(VulnerabilityCounts, VisibleSeverities)
    + MapThenSumSet(LAMBDA p : Operational(p, Entry(p)),
                    VisibleProviders \cap {"wazuh", "zabbix", "uptime_kuma"})

\* Penalties in thousandths.
VisibleWeight == [critical |-> 1400, high |-> 550, medium |-> 140, low |-> 40, informational |-> 10]
HiddenWeight == [critical |-> 450, high |-> 180, medium |-> 50, low |-> 15, informational |-> 3]
WazuhWeight == [critical |-> 180, high |-> 80, medium |-> 25, low |-> 10, info |-> 2]

Weighed(counts, weight, some) == MapThenSumSet(LAMBDA s : counts[s] * weight[s], some)

\* Python's round, a half to the even number.
Rounded(x) ==
  LET whole == x \div 1000 rest == x % 1000
  IN IF rest > 500 \/ (rest = 500 /\ whole % 2 = 1) THEN whole + 1 ELSE whole

\* Mutant: the hidden severities are taken off the penalty.
IndexWithBonus(counts, visible, wazuh, zabbix, down) ==
  LET seen == Min({42000, Weighed(counts, VisibleWeight, visible)})
      unseen == Min({10000, Weighed(counts, HiddenWeight, SeverityNames \ visible)})
      work == Min({18000, Weighed(wazuh, WazuhWeight, Severities) + zabbix * 30 + down * 600})
  IN Max({0, Min({100, Rounded(100000 - (seen - unseen + work))})})

\* calculate_health_index
HealthIndex(counts, visible, wazuh, zabbix, down) ==
  LET seen == Min({42000, Weighed(counts, VisibleWeight, visible)})
      unseen == Min({10000, Weighed(counts, HiddenWeight, SeverityNames \ visible)})
      work == Min({18000, Weighed(wazuh, WazuhWeight, Severities) + zabbix * 30 + down * 600})
  IN Max({0, Min({100, Rounded(100000 - (seen + unseen + work))})})

\* Hiding wazuh does not take its alerts out of the index.
Index(counts, wazuh) ==
  HealthIndex(counts, VisibleSeverities, wazuh,
              IF "zabbix" \in VisibleProviders THEN Operational("zabbix", Entry("zabbix")) ELSE 0,
              IF "uptime_kuma" \in VisibleProviders THEN Entry("uptime_kuma").down ELSE 0)

\* xoc_ops: integrations without an agent, and the status of the client.
Degraded == {p \in connected : p \notin keys}

ClientStatus ==
  LET score == Index(VulnerabilityCounts, Entry("wazuh").counts)
  IN IF connected = {} /\ keys = {} THEN "inactive"
     ELSE IF score < 30 THEN "critical"
     ELSE IF score <= 80 THEN "warning" ELSE "healthy"

-----------------------------------------------------------------------------
(* Charts and lists.                                                       *)

Completed(some) == {r \in some : r.status = "completed"}
CountsOf(some) == [s \in Severities |-> MapThenSumSet(LAMBDA r : r.counts[s], some)]

\* Mutant: midnight is counted on both sides.
DayCountsBoth(p, day) ==
  CountsOf(Completed({r \in Scans(p) : r.at >= 2 * day /\ r.at <= 2 * day + 2}))

DayCounts(p, day) ==
  CountsOf(Completed({r \in Scans(p) : r.at >= 2 * day /\ r.at < 2 * day + 2}))

\* _build_vuln_trend, _build_noc_trend, and the same in the analytics.
Trend(p, range) ==
  [i \in 0..Max({1, Day(range.end) - Day(range.start) + 1}) - 1 |->
     DayCounts(p, Day(range.start) + i)]

Findings(p, range) == UNION {r.findings : r \in {s \in Scans(p) : Within(s, range)}}
Values(some, field) == {f[field] : f \in some}
KeyOf(severity) == IF severity \in Severities THEN severity ELSE "info"

\* _build_top_cves: a row for each severity a CVE was found with.
TopCves(found) ==
  UNION {LET its == {f \in found : f.cve = c}
         IN {[cve |-> c, severity |-> s,
              hosts |-> Cardinality(Values({f \in its : f.severity = s}, "host")),
              cvss |-> Max(Values({f \in its : f.severity = s}, "cvss"))]
               : s \in Values(its, "severity")}
         : c \in Values(found, "cve")}

\* _build_top_cves_from_findings
CvesFromFindings(found) ==
  {[cve |-> c, hosts |-> Cardinality(Values({f \in found : f.cve = c}, "host")),
    cvss |-> Max(Values({f \in found : f.cve = c}, "cvss"))] : c \in Values(found, "cve")}

\* Mutant: the rows of a host overwrite each other.
AddedLast(groups, s) == Max({0} \cup {g.n : g \in {h \in groups : KeyOf(h.severity) = s}})

Added(groups, s) == MapThenSumSet(LAMBDA g : g.n, {h \in groups : KeyOf(h.severity) = s})

\* _build_host_exposure: rows by host and severity, then added up by host.
HostExposure(found) ==
  {LET groups == {[severity |-> s, n |-> Cardinality({f \in found : f.host = h /\ f.severity = s})]
                    : s \in Values({f \in found : f.host = h}, "severity")}
   IN [host |-> h, counts |-> [s \in Severities |-> Added(groups, s)],
       total |-> MapThenSumSet(LAMBDA g : g.n, groups),
       cvss |-> Max(Values({f \in found : f.host = h}, "cvss"))]
     : h \in Values(found, "host")}

\* _build_host_exposure_from_findings: one finding after the other.
ExposureFromFindings(found) ==
  {LET its == {f \in found : f.host = h}
   IN [host |-> h,
       counts |-> [s \in Severities |-> Cardinality({f \in its : KeyOf(f.severity) = s})],
       total |-> Cardinality(its), cvss |-> Max(Values(its, "cvss"))]
     : h \in Values(found, "host")}

\* _recent_findings: the last that were stored of a scan, whichever they are.
Recent(r) == {some \in SUBSET r.findings :
                Cardinality(some) = Min({RecentLimit, Cardinality(r.findings)})}

\* What a scanner's page makes its lists of: insightvm's of its newest scan,
\* whatever the range, and the others' of all findings of the range.
Listed(p, range) ==
  IF p = "insightvm" THEN Recent(LatestScan(p)) ELSE {Findings(p, range)}

CveList(p, found) ==
  IF p = "insightvm" THEN CvesFromFindings(found) ELSE TopCves(found)
HostList(p, found) ==
  IF p = "insightvm" THEN ExposureFromFindings(found) ELSE HostExposure(found)

\* GET /scans/latest: the newest scan of every target.
LatestPerTarget(p, range) ==
  LET some == {r \in Scans(p) : Within(r, range)}
  IN {r \in some : \A o \in some : o.target = r.target => o.at <= r.at}

\* GET /scans/summary over all scanners of the tenant.
SummaryTotals(days) == CountsOf(Completed({r \in rows : r.tenant = Me /\ r.at >= Now - 2 * days}))

WeekTrend == [i \in 0..6 |->
  LET start == Midnight(Now) - 2 * i
  IN CountsOf(Completed({r \in rows : r.tenant = Me /\ r.at >= start /\ r.at < start + 2}))]

-----------------------------------------------------------------------------
(* The issues of preventions: /preventions/issues and its overview.        *)

\* _infer_domain_from_integration: which table a provider's scans are in.
Domain(p) == IF p \in {"zabbix", "uptime_kuma"} THEN "noc" ELSE "soc"

\* _provider_bucket
Bucket(p) ==
  CASE p \in Vulnerability -> "vulnerabilities"
    [] p = "wazuh" -> "security_events"
    [] OTHER -> "monitoring"

\* _map_issue_item, with the link to its scan
Issue(p, r, f) ==
  [finding |-> f, provider |-> p, bucket |-> Bucket(p), severity |-> KeyOf(f.severity),
   host |-> f.host, scan |-> r, domain |-> Domain(p)]

IssueScans == {LatestScan(p) : p \in VisibleProviders} \ {Unset}

\* _collect_latest_issue_items: the severities a tenant hides are not hidden.
Issues == UNION {{Issue(r.provider, r, f) : f \in r.findings} : r \in IssueScans}

Tabs == {"all", "vulnerabilities", "security-events", "monitoring"}

\* Mutant: tabs are named as buckets are.
InTabNamed(i, tab) == tab = "all" \/ i.bucket = tab

InTab(i, tab) ==
  CASE tab = "security-events" -> i.bucket = "security_events"
    [] tab \in {"vulnerabilities", "monitoring"} -> i.bucket = tab
    [] OTHER -> TRUE

\* _apply_filters
Matches(i, filter) ==
  \A k \in DOMAIN filter : i[k] = IF k = "severity" THEN KeyOf(filter[k]) ELSE filter[k]

\* list_preventions_issues
IssueList(items, tab, filter) == {i \in items : InTab(i, tab) /\ Matches(i, filter)}

NumberBy(items, field, values) ==
  [v \in values |-> Cardinality({i \in items : i[field] = v})]

\* get_preventions_issues_overview
Overview(items) ==
  [all |-> Cardinality(items),
   bucket |-> NumberBy(items, "bucket", {"vulnerabilities", "security_events", "monitoring"}),
   severity |-> NumberBy(items, "severity", Severities),
   provider |-> NumberBy(items, "provider", Values(items, "provider"))]

-----------------------------------------------------------------------------
(* The lists of scans and of findings, for users and for the agent.        *)

\* Of the tenant, in one table, and of one provider if one is asked for.
Selected(p, domain, q) ==
  LET range == AnalyticsRange(q)
  IN IF range = Unset THEN {}
     ELSE {r \in rows : /\ r.tenant = Me /\ Domain(r.provider) = domain
                        /\ p # Unset => r.provider = p
                        /\ Within(r, range)}

\* _resolve_requested_domain: what is inferred from the provider comes first.
RequestedDomain(p, domain) ==
  IF p # Unset THEN Domain(p) ELSE IF domain # Unset THEN domain ELSE "soc"

\* GET /scans
ScanList(p, domain, q) == Selected(p, RequestedDomain(p, domain), q)

\* GET /scans/{id}/findings
ScanFindings(r, domain) ==
  IF r \in rows /\ r.tenant = Me /\ Domain(r.provider) = domain THEN r.findings ELSE {}

\* normalize_domain: for the agent it is soc unless it says so.
AgentDomain(domain) == IF domain # Unset THEN domain ELSE "soc"

\* GET /scans/agent/summaries
AgentScans(p, domain, q) == Selected(p, AgentDomain(domain), q)

\* GET /scans/agent/summaries/{id}/findings
AgentScanFindings(r, domain, severity) ==
  {f \in ScanFindings(r, AgentDomain(domain)) : severity # Unset => f.severity = severity}

\* GET /scans/agent/findings, each with its scan
AgentFindings(p, domain, q, severity) ==
  {x \in UNION {r.findings \X {r} : r \in Selected(p, AgentDomain(domain), q)} :
     severity # Unset => x[1].severity = severity}

-----------------------------------------------------------------------------
(* Properties.                                                             *)

\* Whatever a card of home says, the page it leads to opens and says too; the
\* alerts of wazuh differ by those of severity info.
CardsMatchPages ==
  \A p \in Cards :
    LET c == Card(p) g == Page(p) e == Entry(p)
    IN /\ PageOpens(p)
       /\ c.configured = g.configured /\ c.active = g.active /\ c.has_data = g.has_data
       /\ e.scans = g.scans /\ e.running = g.running /\ e.running <= e.scans
       /\ c.slot.total = CASE p = "uptime_kuma" -> g.down
                           [] p = "wazuh" -> g.alerts - g.counts["info"]
                           [] OTHER -> g.alerts

\* The preventions of home are those of the pages the tenant has chosen, and
\* the severities it has chosen.
PreventionsAddUp ==
  PreventionsTotal = MapThenSumSet(
    LAMBDA p : IF p \in Vulnerability
               THEN Total(Page(p).counts, {s \in Severities : Named(s) \in VisibleSeverities})
               ELSE Operational(p, Page(p)), VisibleProviders)

\* An integration the operators see as degraded is not shown as active, and
\* every card that waits for an agent is one of theirs.
OperatorsAgree == {p \in Cards : Configured(p) /\ ~Card(p).active} = Degraded \cap Cards

\* Dates both take are the same range for a page and for the analytics.
RangesAgree ==
  \A a, b \in Values(rows, "at") \cup {Now} :
    AnalyticsRange(Custom(a, b)) \in {Unset, ParseRange(Custom(a, b))}

DashboardsAgree == CardsMatchPages /\ PreventionsAddUp /\ OperatorsAgree /\ RangesAgree

Queries == {[preset |-> q] : q \in {"today", "yesterday", "7d", "30d"}}
             \cup {Custom(a, b) : a \in Values(rows, "at"), b \in Values(rows, "at") \cup {Now}}

Scanned == {p \in Supported : Scans(p) # {}}

\* A trend counts every completed scan of its days once, and so at least those
\* of its range; the week of the summary is part of its seven days.
TrendsAreComplete ==
  /\ \A q \in Queries, p \in Scanned :
       LET range == ParseRange(q) trend == Trend(p, range)
       IN /\ MapThenSumSet(LAMBDA i : Total(trend[i], Severities), DOMAIN trend) =
               Total(CountsOf(Completed({r \in Scans(p) :
                 Day(r.at) >= Day(range.start) /\ Day(r.at) <= Day(range.end)})), Severities)
          /\ \A r \in Completed(Scans(p)) :
               Within(r, range) => Day(r.at) - Day(range.start) \in DOMAIN trend
  /\ \A s \in Severities :
       MapThenSumSet(LAMBDA i : WeekTrend[i][s], 0..6) <= SummaryTotals(7)[s]

\* A list of hosts names each host of the findings once, with what its own are.
HostsTold(hosts, found) ==
  /\ Values(hosts, "host") = Values(found, "host")
  /\ \A h \in hosts :
       LET its == {f \in found : f.host = h.host}
       IN /\ h.total = Cardinality(its) /\ h.cvss = Max(Values(its, "cvss"))
          /\ \A s \in Severities :
               h.counts[s] = Cardinality({f \in its : KeyOf(f.severity) = s})

\* The lines of a CVE have its worst score, and count each of its hosts at least
\* once and in no line twice.
CvesTold(cves, found) ==
  \A v \in Values(found, "cve") :
    LET its == {f \in found : f.cve = v}
        lines == {c \in cves : c.cve = v}
        number == Cardinality(Values(its, "host"))
    IN /\ Max(Values(lines, "cvss")) = Max(Values(its, "cvss"))
       /\ Max(Values(lines, "hosts")) <= number
       /\ number <= MapThenSumSet(LAMBDA c : c.hosts, lines)

\* Of the findings a page is given, its list of hosts has each exactly once,
\* whether rows were grouped by the database or findings taken one by one, and
\* its list of CVEs leaves out no CVE, no host of one and no higher score.
\* What insightvm's page is given is not all: the newest findings only.
ListsAgree ==
  \A p \in Vulnerability \cap Scanned :
    \A found \in UNION {Listed(p, ParseRange(q)) : q \in Queries} :
      HostsTold(HostList(p, found), found) /\ CvesTold(CveList(p, found), found)

\* The scan a page sums up is among the newest of their targets.
LatestAgrees ==
  \A p \in Scanned :
    LET last == LatestScan(p)
    IN Within(last, Ago(30)) => last \in LatestPerTarget(p, Ago(30))

\* One finding more, visible or hidden, never raises the index, and one alert
\* more never does; the three caps keep it at 30 or above, so that an operator
\* never sees a client whose status is critical.
IndexIsMonotone ==
  LET counts == VulnerabilityCounts wazuh == Entry("wazuh").counts
  IN /\ \A s \in SeverityNames : Index([counts EXCEPT ![s] = @ + 1], wazuh) <= Index(counts, wazuh)
     /\ \A s \in Severities : Index(counts, [wazuh EXCEPT ![s] = @ + 1]) <= Index(counts, wazuh)
     /\ Index(counts, wazuh) >= 30 /\ ClientStatus # "critical"

\* The overview of the issues and their list, which count with code of their
\* own, agree under every tab and filter that is offered, and the link of an
\* issue leads to a scan that has it.
IssuesAgree ==
  LET items == Issues
      overview == Overview(items)
      number(tab, filter) == Cardinality(IssueList(items, tab, filter))
  IN /\ overview.all = number("all", <<>>)
     /\ overview.bucket = [vulnerabilities |-> number("vulnerabilities", <<>>),
                           security_events |-> number("security-events", <<>>),
                           monitoring |-> number("monitoring", <<>>)]
     /\ \A s \in Severities : overview.severity[s] = number("all", [severity |-> s])
     /\ \A p \in DOMAIN overview.provider : overview.provider[p] = number("all", [provider |-> p])
     /\ \A f \in {"bucket", "severity", "provider"} :
          overview.all = MapThenSumSet(LAMBDA v : overview[f][v], DOMAIN overview[f])
     /\ \A i \in items : i.finding \in ScanFindings(i.scan, i.domain)

\* The agent is told of the scans and findings the tenant sees: of all of
\* them if it names the table, and else of those in the first table only.
AgentSeesTheSame ==
  \A p \in Scanned, q \in Queries :
    LET some == AgentScans(p, Domain(p), q)
    IN /\ some = ScanList(p, Unset, q)
       /\ AgentScans(p, Unset, q) = IF Domain(p) = "soc" THEN some ELSE {}
       /\ \A s \in {Unset, "high"} :
            AgentFindings(p, Domain(p), q, s) =
              UNION {AgentScanFindings(r, Domain(p), s) \X {r} : r \in some}

CountsAreComplete ==
  /\ TrendsAreComplete /\ ListsAgree /\ LatestAgrees /\ IndexIsMonotone
  /\ IssuesAgree /\ AgentSeesTheSame
=============================================================================
