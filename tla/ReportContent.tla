---------------------------- MODULE ReportContent ----------------------------
(***************************************************************************)
(* What a document says.  The collect task reads the tenant's scans,       *)
(* findings and tickets and derives every figure of the report from them;  *)
(* the generate task has a language model write it, or writes it itself    *)
(* when the model fails or the evidence is too large, and puts the         *)
(* collected figures back in either case; the docx task renders it, and    *)
(* refuses a document in which words of the template seem to be left.      *)
(*                                                                         *)
(* ReportJobs has the tasks' failures and retries, this module has what    *)
(* they compute.  Scans and tickets go on arriving while collect reads,    *)
(* and each of its queries sees what was committed before it.              *)
(***************************************************************************)
EXTENDS Naturals, Sequences, FiniteSets, FiniteSetsExt, SequencesExt

CONSTANTS
  Names,         \* what the tenant's integrations and agent keys are called
  Scans,         \* bound: the scans that may arrive
  TicketTexts,   \* bound: the subjects of the tickets that may be opened
  ReadLimit,     \* findings read of a scan, 200
  SampleLimit,   \* findings shown of a domain, 12
  PreviousLimit, \* findings kept of the scan before, 8
  PendingLimit,  \* pending findings listed, 20
  CompactLimit,  \* findings of a domain the model is given, 4
  DomainBudget,  \* MINORITY_MAX_DOMAINS_FOR_FOUNDRY, 6
  SampleBudget,  \* MINORITY_MAX_SAMPLE_FINDINGS, 18
  Invented,      \* what the model wrote
  Tainted,       \* a text with words of the template in it, "change for"
  Nothing        \* no scan, no title, no text

Severities == {"critical", "high", "medium", "low", "informational"}

\* By substring in the count, by word in the order and in the tables.
Counted == [critical |-> "critical", critica |-> "critical", high |-> "high",
            alto |-> "high", alta |-> "informational", medium |-> "medium",
            low |-> "low", info |-> "informational"]
Rank    == [critical |-> 0, critica |-> 0, high |-> 1, alta |-> 1,
            medium |-> 2, low |-> 3, info |-> 4, alto |-> 99]
Display == [critical |-> "ALTO", critica |-> "ALTO", high |-> "ALTO",
            alto |-> "ALTO", alta |-> "ALTO", medium |-> "MEDIO",
            low |-> "BAJO", info |-> "BAJO"]

Aliases == [rapid7 |-> "insightvm", insight_vm |-> "insightvm",
            tenable |-> "nessus", uptime |-> "uptime_kuma"]

Normal(name) == IF name \in DOMAIN Aliases THEN Aliases[name] ELSE name

ProviderOrder ==
  <<"wazuh", "openvas", "nessus", "insightvm", "zabbix", "uptime_kuma">>

Noc == {"zabbix", "uptime_kuma"}

\* The findings of a scan, and as they are shown: none without a title.
Titles == UNION {{s.findings[i].title : i \in DOMAIN s.findings} : s \in Scans}
FindingRows == [id : Nat \ {0}, label : DOMAIN Counted, title : Titles]
ShownRows == [id : Nat \ {0}, label : DOMAIN Counted,
              title : (Titles \ {Nothing}) \cup {"Hallazgo"}]

\* What collect computes, by its type.
Providers == ToSet(ProviderOrder)
Layers == {"SOC", "NOC"}
Totals == [Severities -> Nat]
DomainRows ==
  [name : Providers, layer : Layers, total : Nat, previousTotal : Nat,
   severity : Totals, previousSeverity : Totals, at : Nat, previousAt : Nat,
   findings : Seq(ShownRows), previous : Seq(ShownRows)]
PendingRows == [id : Nat \ {0}, label : DOMAIN Counted,
                title : (Titles \ {Nothing}) \cup {"Hallazgo"}, domain : Providers]
RemarkTexts == {"no snapshots", "dormant", "no tickets", "wider", "samples"}
FigureValues ==
  [tools |-> Seq(Providers), period |-> Nat,
   data_base |-> [findings : Nat, before : Nat, tickets : Nat, active : Nat,
                  soc : Nat, noc : Nat],
   coverage_rows |->
     Seq([name : Providers, layer : Layers, total : Nat, at : Nat,
          status : {"evidence", "no findings", "no snapshot"}]),
   comparison |-> [previous : Totals, current : Totals],
   histogram |-> [previous : Nat, current : Nat, active : SUBSET Providers],
   priority_focuses |-> Seq(Providers),
   security_domains |-> Seq(DomainRows),
   pending_findings |-> Seq(PendingRows),
   results_obtained |-> [findings : Nat, scans : Nat, active : SUBSET Providers,
                         silent : SUBSET Providers]]

\* Scans are as the ingestion stores them, and what the model invents is none
\* of what is collected.
ASSUME ContentAssumption ==
  /\ {Normal(n) : n \in Names} \subseteq Providers
  /\ \A s \in Scans :
       /\ s.at \in Nat \ {0}
       /\ s.counts \in Totals
       /\ s.findings \in Seq(FindingRows)
  /\ \A s, t \in Scans : s.provider = t.provider /\ s.at = t.at => s = t
  /\ {ReadLimit, SampleLimit, PreviousLimit, PendingLimit, CompactLimit,
      DomainBudget, SampleBudget} \subseteq Nat
  /\ Nothing \notin Nat /\ Nothing \notin Scans
  /\ Nothing \notin {Invented, "Hallazgo", "demo", "news"}
  /\ \A f \in DOMAIN FigureValues : Invented \notin FigureValues[f]
  /\ \A remarks \in SUBSET RemarkTexts : Invented # remarks
  /\ Invented \notin TicketTexts \cup {"module", "news"}

\* The members of S one after the other; R is a strict order of them, as a set
\* of pairs.
InOrder(S, R) ==
  [k \in 1..Cardinality(S) |->
     CHOOSE i \in S : Cardinality({j \in S : <<j, i>> \in R}) = k - 1]

Places(seq) == (DOMAIN seq) \X (DOMAIN seq)

\* What a sequence has of a set, in its order.
Kept(seq, S) ==
  LET at == InOrder({i \in DOMAIN seq : seq[i] \in S},
                    {x \in Places(seq) : x[1] < x[2]})
  IN [k \in DOMAIN at |-> seq[at[k]]]

\* The providers of the tenant, in the order of the report.
Tools == Kept(ProviderOrder, {Normal(n) : n \in Names})

VARIABLES
  asked,     \* the request: role, type, variant and the admin's own texts
  arrived,   \* the scans in the database
  tickets,   \* the subjects of the tickets in it, newest first
  step,      \* the task the execution is at
  left,      \* the providers that collect has yet to read
  latest,    \* the newest scan of the provider it is reading
  seen,      \* the tickets it read
  domains,   \* the domains it has built
  evidence,  \* collected-data.json
  content,   \* generated-content.json
  document   \* the DOCX

contentVars == <<asked, arrived, tickets, step, left, latest, seen, domains,
                 evidence, content, document>>

-----------------------------------------------------------------------------
(* The request.                                                            *)

Allowed(role, type) ==
  \/ role = "ADMIN" /\ type = "minority_report"
  \/ role = "ADMIN_XOC" /\ type = "small_report"

Variant(role, wanted) ==
  IF role \notin {"ADMIN", "ADMIN_XOC", "SUPERADMIN"} \/ wanted = "client"
    THEN "client" ELSE "client_admin"

ReportRequests ==
  {q \in [role : {"USER", "ADMIN", "ADMIN_XOC", "SUPERADMIN"},
          type : {"minority_report", "small_report"},
          wanted : {"none", "client"},
          modules : {<<>>, <<"module">>}, news : {<<>>, <<"news">>}] :
     /\ Allowed(q.role, q.type)
     /\ q.type = "small_report" =>   \* which uses none of them
          q.wanted = "none" /\ q.modules = <<>> /\ q.news = <<>>}

ContentInit ==
  /\ asked = Nothing
  /\ arrived = {} /\ tickets = <<>>
  /\ step = "new" /\ left = <<>> /\ latest = Nothing /\ seen = <<>>
  /\ domains = <<>> /\ evidence = Nothing /\ content = Nothing
  /\ document = Nothing

Requested(q) ==
  /\ step = "new" /\ step' = "collect" /\ asked' = q
  /\ UNCHANGED <<arrived, tickets, left, latest, seen, domains, evidence,
                 content, document>>

\* Meanwhile: a snapshot is ingested, with its findings, or a ticket opened.
Ingested(s) ==
  /\ step \in {"collect", "latest", "previous"} /\ s \notin arrived
  /\ arrived' = arrived \cup {s}
  /\ UNCHANGED <<asked, tickets, step, left, latest, seen, domains, evidence,
                 content, document>>

Opened(t) ==
  /\ step = "collect" /\ Len(tickets) < Cardinality(TicketTexts)
  /\ tickets' = <<t>> \o tickets
  /\ UNCHANGED <<asked, arrived, step, left, latest, seen, domains, evidence,
                 content, document>>

-----------------------------------------------------------------------------
(* collect: the figures of a domain.                                       *)

First(rows, n) == SubSeq(rows, 1, IF n < Len(rows) THEN n ELSE Len(rows))

\* The findings of a snapshot that are read: the newest ones.
Items(scan) == IF scan = Nothing THEN <<>> ELSE First(scan.findings, ReadLimit)

Counts(items) ==
  [s \in Severities |->
     Cardinality({i \in DOMAIN items : Counted[items[i].label] = s})]

\* Mutant: the counts the agent reported, whatever was indexed.
ReportedSeverity(scan) ==
  IF scan = Nothing THEN [s \in Severities |-> 0] ELSE scan.counts

SeverityOf(scan) ==
  IF Items(scan) # <<>> THEN Counts(Items(scan))
  ELSE IF scan = Nothing THEN [s \in Severities |-> 0] ELSE scan.counts

Sum(counts) == MapThenSumSet(LAMBDA s : counts[s], Severities)

TotalOf(scan) ==
  IF Items(scan) # <<>> THEN Len(Items(scan))
  ELSE IF scan = Nothing THEN 0 ELSE Sum(scan.counts)

\* The rows in the order of rank, and of their keys where that is the same;
\* where both are, as they stand: sorted() is stable.
Sorted(rows, key) ==
  LET rank(i) == Rank[rows[i].label]
      precedes(i, j) ==
        \/ rank(i) < rank(j)
        \/ rank(i) = rank(j) /\ key[i] < key[j]
        \/ rank(i) = rank(j) /\ key[i] = key[j] /\ i < j
      order == InOrder(DOMAIN rows, {x \in Places(rows) : precedes(x[1], x[2])})
  IN [k \in DOMAIN order |-> rows[order[k]]]

\* Mutant: the title as it is.
BareRow(f) == f

Row(f) == [f EXCEPT !.title = IF @ = Nothing THEN "Hallazgo" ELSE @]

\* The most severe first, the newest of them first.
Sample(items, n) ==
  LET sorted == First(Sorted(items, [i \in DOMAIN items |-> i]), n)
  IN [k \in DOMAIN sorted |-> Row(sorted[k])]

Domain(p, scan, before) ==
  [name |-> p, layer |-> IF p \in Noc THEN "NOC" ELSE "SOC",
   total |-> TotalOf(scan), previousTotal |-> TotalOf(before),
   severity |-> SeverityOf(scan), previousSeverity |-> SeverityOf(before),
   at |-> IF scan = Nothing THEN 0 ELSE scan.at,
   previousAt |-> IF before = Nothing THEN 0 ELSE before.at,
   findings |-> Sample(Items(scan), SampleLimit),
   previous |-> Sample(Items(before), PreviousLimit)]

\* The newest of some scans.
Newest(scans) ==
  IF scans = {} THEN Nothing
  ELSE CHOOSE s \in scans : \A t \in scans : t.at <= s.at

-----------------------------------------------------------------------------
(* collect: its queries.                                                   *)

BeginCollect ==
  /\ step = "collect"
  /\ IF asked.type = "minority_report"
       THEN /\ seen' = tickets /\ left' = Tools /\ domains' = <<>>
            /\ step' = IF Tools = <<>> THEN "assemble" ELSE "latest"
       ELSE step' = "generate" /\ UNCHANGED <<seen, left, domains>>
  /\ UNCHANGED <<asked, arrived, tickets, latest, evidence, content, document>>

\* The newest scan of the provider.  Scans are stored under the scanner's
\* own name: one stored as "tenable" is nobody's.
ReadLatest ==
  /\ step = "latest"
  /\ latest' = Newest({s \in arrived : s.provider = Head(left)})
  /\ step' = "previous"
  /\ UNCHANGED <<asked, arrived, tickets, left, seen, domains, evidence,
                 content, document>>

\* Mutant: the scan that was the newest but one.
NotLatest(s) == s # latest

Earlier(s) == s.at < latest.at

ReadPrevious ==
  /\ step = "previous"
  /\ LET before == {s \in arrived : s.provider = Head(left)}
         previous == IF latest = Nothing THEN Nothing
                     ELSE Newest({s \in before : Earlier(s)})
     IN domains' = Append(domains, Domain(Head(left), latest, previous))
  /\ left' = Tail(left) /\ latest' = Nothing
  /\ step' = IF Tail(left) = <<>> THEN "assemble" ELSE "latest"
  /\ UNCHANGED <<asked, arrived, tickets, seen, evidence, content, document>>

\* The invocation fails and is retried: it reads everything anew.
CollectAgain ==
  /\ step \in {"latest", "previous", "assemble"}
  /\ step' = "collect" /\ left' = <<>> /\ latest' = Nothing
  /\ domains' = <<>> /\ seen' = <<>>
  /\ UNCHANGED <<asked, arrived, tickets, evidence, content, document>>

-----------------------------------------------------------------------------
(* collect: the figures of the report.                                     *)

Total(field) == [s \in Severities |->
                   MapThenSumSet(LAMBDA i : domains[i][field][s],
                                 DOMAIN domains)]

Samples(field) ==
  FlattenSeq([i \in DOMAIN domains |->
    [k \in DOMAIN domains[i][field] |->
       LET f == domains[i][field][k]
       IN [id |-> f.id, label |-> f.label, title |-> f.title,
           domain |-> domains[i].name]]])

WithFindings == {i \in DOMAIN domains : domains[i].total > 0}
Scanned == {i \in DOMAIN domains : domains[i].at > 0}
NameOf(i) == domains[i].name

CoverageStatus(d) ==
  IF d.total > 0 THEN "evidence"
  ELSE IF d.at > 0 THEN "no findings" ELSE "no snapshot"

Coverage ==
  [i \in DOMAIN domains |->
     [name |-> domains[i].name, layer |-> domains[i].layer,
      total |-> domains[i].total, at |-> domains[i].at,
      status |-> CoverageStatus(domains[i])]]

\* The three that concentrate most, those without findings left out.
Focuses ==
  LET sev(i, s) == domains[i].severity[s]
      before(i, j) ==
        \/ sev(i, "critical") > sev(j, "critical")
        \/ /\ sev(i, "critical") = sev(j, "critical")
           /\ \/ sev(i, "high") > sev(j, "high")
              \/ /\ sev(i, "high") = sev(j, "high")
                 /\ \/ domains[i].total > domains[j].total
                    \/ domains[i].total = domains[j].total /\ i < j
      ranked == First(InOrder(DOMAIN domains, {x \in Places(domains) : before(x[1], x[2])}), 3)
      shown == Kept(ranked, WithFindings)
  IN [k \in DOMAIN shown |-> NameOf(shown[k])]

\* The sentences of two lists, each on its condition.
Remarks ==
  {r \in {"no snapshots", "dormant", "no tickets"} :
     \/ r = "no snapshots" /\ Scanned = {}
     \/ r = "dormant" /\ WithFindings # DOMAIN domains
     \/ r = "no tickets" /\ seen = <<>>}

Collected ==
  [tools |-> [i \in DOMAIN domains |-> domains[i].name],
   period |-> Max({0} \cup {domains[i].at : i \in DOMAIN domains}),
   data_base |-> [findings |-> Len(Samples("findings")),
                  before |-> Len(Samples("previous")),
                  tickets |-> Len(seen), active |-> Cardinality(WithFindings),
                  soc |-> Cardinality({i \in Scanned : domains[i].layer = "SOC"}),
                  noc |-> Cardinality({i \in Scanned : domains[i].layer = "NOC"})],
   coverage_rows |-> Coverage,
   comparison |-> [previous |-> Total("previousSeverity"),
                   current |-> Total("severity")],
   histogram |-> [previous |-> Sum(Total("previousSeverity")),
                  current |-> Sum(Total("severity")),
                  active |-> {NameOf(i) : i \in WithFindings}],
   priority_focuses |-> Focuses,
   operational_considerations |->
     Remarks \cup IF WithFindings # DOMAIN domains THEN {"wider"} ELSE {},
   limitations |-> Remarks \cup {"samples"},
   results_obtained |->
     [findings |-> Len(Samples("findings")), scans |-> Cardinality(Scanned),
      active |-> {NameOf(i) : i \in WithFindings},
      silent |-> {NameOf(i) : i \in DOMAIN domains \ WithFindings}],
   security_domains |-> domains,
   pending_findings |->
     LET rows == Samples("findings")
     IN First(Sorted(rows, [i \in DOMAIN rows |-> rows[i].id]), PendingLimit),
   weekly_actions |-> IF asked.modules # <<>> THEN asked.modules
                      ELSE First(seen, 10),
   security_news |-> asked.news]

Assemble ==
  /\ step = "assemble"
  /\ evidence' = Collected
  /\ step' = "generate"
  /\ UNCHANGED <<asked, arrived, tickets, left, latest, seen, domains, content,
                 document>>

-----------------------------------------------------------------------------
(* generate.                                                               *)

\* What a payload has: the figures, and the texts.
Figures == {"tools", "period", "data_base", "coverage_rows", "comparison",
            "histogram", "priority_focuses", "operational_considerations",
            "security_domains", "pending_findings", "limitations"}
Texts == {"service_name", "executive_summary", "results_and_next_actions",
          "results_obtained", "next_actions", "requirements",
          "weekly_actions", "reinforced_security", "security_news"}

\* More than this is not given to the model.  What it is given may also be
\* too long, and its answer may be missing, or not the JSON that was asked
\* for; an answer that is has every field, and a list in it may be empty.
Compact(d) == First(d.findings, CompactLimit)

Fits ==
  /\ Len(domains) <= DomainBudget
  /\ MapThenSumSet(LAMBDA i : Len(Compact(domains[i])), DOMAIN domains)
       <= SampleBudget

FromModel(list, words) ==
  [f \in Figures \cup Texts |->
     IF f = "executive_summary" THEN words
     ELSE IF f \in {"weekly_actions", "security_news"} THEN list ELSE Invented]

Answers ==
  {FromModel(list, words) :
     list \in {<<>>, <<Invented>>}, words \in {Invented, Tainted}}

\* The text in which the model answers, or no text at all.  The JSON may stand
\* between other words or need a repair; anything else is an exception.
Replies == {"json", "repairable", "other", "none"}
Readable(reply) == reply \in {"json", "repairable"}

\* _build_backend_minority_payload.
FromBackend(e) ==
  [f \in Figures \cup Texts |->
     IF f \in DOMAIN e THEN e[f]
     ELSE IF f = "next_actions" THEN e.pending_findings
     ELSE IF f = "results_and_next_actions" THEN e.results_obtained
     ELSE "written by the backend"]

Drafts ==
  UNION {IF Fits /\ Readable(reply) THEN Answers ELSE {FromBackend(evidence)} :
           reply \in Replies}

Or(list, other) == IF list = <<>> THEN other ELSE list

Long == Variant(asked.role, asked.wanted) = "client_admin"

\* Mutant: the period stays as it was written.
KeepPeriod(draft, e) ==
  [f \in DOMAIN draft |->
     IF f \in Figures \ {"period"} THEN e[f]
     ELSE IF f \in {"weekly_actions", "security_news"} THEN Or(e[f], draft[f])
     ELSE draft[f]]

\* Mutant: the admin's lists come from the draft where it has any.
DraftFirst(draft, e) ==
  [f \in DOMAIN draft |->
     IF f \in Figures THEN e[f]
     ELSE IF f \in {"weekly_actions", "security_news"} THEN Or(draft[f], e[f])
     ELSE draft[f]]

\* The figures as they were collected, whatever the draft has.
Final(draft, e) ==
  [f \in DOMAIN draft |->
     CASE f \in Figures -> e[f]
       [] f = "results_obtained" /\ Long -> e[f]
       [] f = "weekly_actions" -> IF Long THEN Or(e[f], draft[f]) ELSE e[f]
       [] f = "security_news" /\ Long -> Or(e[f], draft[f])
       [] OTHER -> draft[f]]

Findings(ds) ==
  FlattenSeq([i \in DOMAIN ds |->
    [k \in DOMAIN ds[i].findings |->
       [id |-> ds[i].findings[k].id, title |-> ds[i].findings[k].title]]])

Generated(draft) ==
  LET payload == Final(draft, evidence)
  IN [payload |-> payload,
      sections |-> {"executive_summary", "severity_analysis", "findings_detail"},
      findings |-> Findings(payload.security_domains),
      severity |-> evidence.comparison.current]

\* A small report has no draft, and no evidence: its figures are written in
\* the code, the same for every tenant.
Demo ==
  [payload |-> Nothing,
   sections |-> {"executive_summary", "results", "findings_detail"},
   findings |-> [i \in 1..5 |-> [id |-> i, title |-> "demo"]],
   severity |-> [critical |-> 2, high |-> 7, medium |-> 33, low |-> 8,
                 informational |-> 147]]

Generate ==
  /\ step = "generate" /\ step' = "validate"
  /\ \/ asked.type = "small_report" /\ content' = Demo
     \/ /\ asked.type = "minority_report"
        /\ \E draft \in Drafts : content' = Generated(draft)
  /\ UNCHANGED <<asked, arrived, tickets, left, latest, seen, domains, evidence,
                 document>>

-----------------------------------------------------------------------------
(* validate.                                                               *)

Required ==
  IF asked.type = "small_report"
    THEN {"executive_summary", "results", "findings_detail"}
    ELSE {"executive_summary", "severity_analysis", "findings_detail"}

\* Mutant: a report of a tenant without findings is refused as well.
NeverEmpty == \E s \in Severities : content.severity[s] > 0

SomeSeverity ==
  asked.type = "minority_report" \/ \E s \in Severities : content.severity[s] > 0

Valid ==
  /\ Required \subseteq content.sections
  /\ SomeSeverity
  /\ \A i \in DOMAIN content.findings :
       content.findings[i].id # 0 /\ content.findings[i].title # Nothing

Validate ==
  /\ step = "validate" /\ step' = IF Valid THEN "docx" ELSE "failed"
  /\ UNCHANGED <<asked, arrived, tickets, left, latest, seen, domains, evidence,
                 content, document>>

-----------------------------------------------------------------------------
(* docx.                                                                   *)

\* A zero is not written: the cell is empty or says N/D.
Shown(n) == IF n = 0 THEN Nothing ELSE n

Table(findings) ==
  [k \in DOMAIN findings |->
     [id |-> findings[k].id, title |-> findings[k].title,
      severity |-> Display[findings[k].label]]]

\* The box of a domain, and its table.
Block(d) ==
  [name |-> d.name, layer |-> d.layer, at |-> d.at, total |-> Shown(d.total),
   worst |-> IF d.layer = "SOC" THEN d.severity.critical + d.severity.high
             ELSE d.severity.high + d.severity.medium,
   rows |-> Table(d.findings)]

CoverageTable(rows) == [i \in DOMAIN rows |-> Shown(rows[i].total)]

Cover(p) == p.period

\* A pie of no findings says so, and is drawn all the same.
Pie(counts) == [values |-> counts, empty |-> Sum(counts) = 0]

\* The bars of both, and the value at which the axis ends.
Histogram(previous, current) ==
  [previous |-> previous, current |-> current,
   top |-> Max({1} \cup {previous[s] : s \in Severities}
                   \cup {current[s] : s \in Severities})]

\* The figures are drawn from the evidence, not from the payload.
Charts ==
  LET e == evidence.comparison
  IN [before |-> Pie(e.previous), now |-> Pie(e.current),
      bars |-> Histogram(e.previous, e.current)]

\* A heading is named for what stands under it.
Headings(keys) == [i \in DOMAIN keys |-> [of |-> keys[i], item |-> Nothing]]
Under(key, items) == [i \in DOMAIN items |-> [of |-> key, item |-> items[i]]]

General == <<"general", "service_name", "period", "tools", "data_base",
             "coverage_rows">>
Summary == <<"executive_summary", "comparison", "histogram",
             "priority_focuses", "operational_considerations">>
Results == <<"results_and_next_actions", "results_obtained", "next_actions",
             "requirements">>
Actions == <<"weekly_actions", "results", "reinforced_security",
             "pending_findings", "security_news">>

\* Mutant: the table of contents of the client's variant, always.
ShortIndex(long, names) ==
  Headings(General \o Summary \o <<"security_domains">>)
    \o Under("security_domains", names)

\* The table of contents: it lists neither the news nor the callouts.
Index(long, names) ==
  Headings(General \o Summary \o (IF long THEN Results ELSE <<>>)
             \o <<"security_domains">>)
    \o Under("security_domains", names)
    \o (IF long THEN Headings(Actions) ELSE <<>>)

\* The headings that are written with a number, in their order.
Numbered(p, long) ==
  Headings(General \o Summary)
    \o (IF long THEN Headings(Results) ELSE <<>>)
    \o Headings(<<"security_domains">>)
    \o Under("security_domains",
             [i \in DOMAIN p.security_domains |-> p.security_domains[i].name])
    \o (IF long THEN Headings(Actions) \o Under("security_news", p.security_news)
        ELSE <<>>)

\* add_callout writes a heading too, in the same style but without a number:
\* under a domain, under a news (every one is taken to recommend something),
\* and at the end of the document for its limitations, if it has any.
Callouts(p, headings, i) ==
  LET h == headings[i]
      under == CASE h.item = Nothing -> {}
                 [] h.of = "security_domains" ->
                      {IF h.item \in Noc THEN "impact" ELSE "risk"}
                 [] OTHER -> {"recommendation"}
      atEnd == i = Len(headings) /\ p.limitations # {}
  IN under \cup IF atEnd THEN {"limitations"} ELSE {}

\* What is written: the numbered headings, and the callouts under each.
Body(p, long) ==
  LET headings == Numbered(p, long)
  IN [i \in DOMAIN headings |-> [heading |-> headings[i],
                                callouts |-> Callouts(p, headings, i)]]

\* What stands in the document that somebody or something wrote.
Words(p, long) ==
  {p.service_name, p.executive_summary}
    \cup {f.title : f \in UNION {ToSet(p.security_domains[i].findings) :
                                  i \in DOMAIN p.security_domains}}
    \cup IF long THEN ToSet(p.weekly_actions) \cup ToSet(p.security_news) ELSE {}

Written(p, long) ==
  LET names == [i \in DOMAIN p.security_domains |-> p.security_domains[i].name]
  IN [index |-> Index(long, names), body |-> Body(p, long), says |-> p,
      blocks |-> [i \in DOMAIN names |-> Block(p.security_domains[i])],
      coverage |-> CoverageTable(p.coverage_rows),
      cover |-> Cover(p), charts |-> Charts]

Legible(p, long) == Tainted \notin Words(p, long)

\* A document in which words of the template stand is not published, whoever
\* wrote them: assert_no_template_residue, validate_docx.
Render ==
  /\ step = "docx"
  /\ IF asked.type = "small_report"
       THEN step' = "done" /\ document' = Demo
       ELSE IF Legible(content.payload, Long)
         THEN step' = "done" /\ document' = Written(content.payload, Long)
         ELSE step' = "failed" /\ UNCHANGED document
  /\ UNCHANGED <<asked, arrived, tickets, left, latest, seen, domains, evidence,
                 content>>

Progress ==
  \/ BeginCollect \/ ReadLatest \/ ReadPrevious \/ CollectAgain
  \/ Assemble \/ Generate \/ Validate \/ Render

ContentNext ==
  \/ \E q \in ReportRequests : Requested(q)
  \/ \E s \in Scans : Ingested(s)
  \/ \E t \in TicketTexts : Opened(t)
  \/ Progress

ContentSpec == ContentInit /\ [][ContentNext]_contentVars

-----------------------------------------------------------------------------
(* Properties.                                                             *)

ContentTypeOK ==
  /\ asked \in ReportRequests \cup {Nothing}
  /\ arrived \subseteq Scans /\ tickets \in Seq(TicketTexts)
  /\ step \in {"new", "collect", "latest", "previous", "assemble", "generate",
               "validate", "docx", "done", "failed"}
  /\ left \in Seq(ToSet(ProviderOrder))
  /\ latest \in Scans \cup {Nothing} /\ seen \in Seq(TicketTexts)
  /\ Len(domains) <= Len(Tools)

Published == step = "done" /\ asked.type = "minority_report"

Plain(shown) == IF shown = Nothing THEN 0 ELSE shown

Added(seq, Value(_)) == MapThenSumSet(LAMBDA i : Value(i), DOMAIN seq)

\* The totals of the coverage table, of the domains' boxes, of the histogram's
\* sentence, of the comparison and of the charts are one total, although each
\* is derived on its own way from findings or from counts.
TotalsAgree ==
  LET says == document.says
      total == says.histogram.current
      figures == document.charts
  IN /\ total = Sum(says.comparison.current)
     /\ total = Added(document.coverage, LAMBDA i : Plain(document.coverage[i]))
     /\ total = Added(document.blocks, LAMBDA i : Plain(document.blocks[i].total))
     /\ total = Sum(figures.now.values) /\ figures.now.empty = (total = 0)
     /\ figures.bars.current = figures.now.values
     /\ figures.bars.previous = figures.before.values
     /\ \A s \in Severities : /\ figures.bars.previous[s] <= figures.bars.top
                              /\ figures.bars.current[s] <= figures.bars.top
     /\ says.histogram.previous = Sum(figures.before.values)
     /\ content.severity = says.comparison.current
     /\ says.data_base.findings <= total

\* What is listed stands in a table, and the scan that is called the earlier
\* one is earlier than the one that is called the current one, whatever
\* arrived between the two queries.
ListsAgree ==
  LET says == document.says
      blocks == {document.blocks[i] : i \in DOMAIN document.blocks}
  IN /\ says.tools = [i \in DOMAIN document.blocks |-> document.blocks[i].name]
     /\ document.cover = Max({0} \cup {b.at : b \in blocks})
     /\ \A b \in blocks : /\ Len(b.rows) <= Plain(b.total)
                         /\ b.worst <= Plain(b.total)
     /\ \A p \in ToSet(says.pending_findings) :
          \E b \in blocks : b.name = p.domain /\ p.id \in {r.id : r \in ToSet(b.rows)}
     /\ \A f \in ToSet(says.priority_focuses) :
          \E b \in blocks : b.name = f /\ b.total # Nothing
     /\ \A d \in ToSet(says.security_domains) : d.previousAt < d.at \/ d.at = 0

\* What the model wrote stands only in the sections of prose, and in the two
\* lists of the long variant when nobody else had anything to put there.
NothingInvented ==
  LET says == document.says
      free == {"service_name", "executive_summary"} \cup
              IF ~Long THEN {}
              ELSE {"results_and_next_actions", "next_actions", "requirements",
                    "reinforced_security"}
      shown == Figures \cup {"service_name", "executive_summary"} \cup
               IF Long THEN {"results_obtained"} ELSE {}
  IN /\ \A f \in shown \ free : says[f] # Invented
     /\ Long /\ says.weekly_actions = <<Invented>> =>
          asked.modules = <<>> /\ seen = <<>>
     /\ Long /\ says.security_news = <<Invented>> => asked.news = <<>>

\* The table of contents lists the numbered headings that follow in their
\* order, and of these nothing is left out but the news, which are the last;
\* the headings of the callouts have no number and are not in it.  Every
\* document ends with the limitations of what it says.
IndexMatchesBody ==
  LET body == document.body
      news == {i \in DOMAIN body : /\ body[i].heading.of = "security_news"
                                  /\ body[i].heading.item # Nothing}
  IN /\ DOMAIN document.index = DOMAIN body \ news
     /\ \A i \in DOMAIN document.index : document.index[i] = body[i].heading
     /\ "limitations" \in body[Len(body)].callouts

\* report_generate_content.py 84-85: the values of the tables and figures are
\* kept exactly as they were collected, whoever wrote the text, the model or
\* the backend, and whatever was ingested while they were collected; every
\* place of the document gives the same ones.  A report that was collected is
\* refused for nothing but words of the template: not for an empty tenant,
\* not for a finding without a name.
ReportTellsEvidence ==
  /\ Published => TotalsAgree /\ ListsAgree /\ NothingInvented /\ IndexMatchesBody
  /\ step = "failed" => ~Legible(content.payload, Long)
=============================================================================
