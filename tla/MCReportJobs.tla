----------------------------- MODULE MCReportJobs -----------------------------
(* Instances of ReportJobs, of ReportContent and of QueryWorker for TLC.   *)
(* They share no state, and a behaviour is one of one of them.             *)
EXTENDS ReportJobs, ReportContent, QueryWorker, TLC

\* A tenant with three integrations, one of them under a scanner's own name.
MCNames == {"wazuh", "tenable", "zabbix"}

Reported(c, h, m) == [critical |-> c, high |-> h, medium |-> m, low |-> 0,
                      informational |-> 0]
Found(n, label, title) == [id |-> n, label |-> label, title |-> title]

\* A scan with one finding, one with more than are read, whose own counts are
\* others, one without any; one that has counts only; and one with a finding
\* whose name looks like the template.
MCScans ==
  {[provider |-> "wazuh", at |-> 1, counts |-> Reported(0, 1, 0),
    findings |-> <<Found(1, "alto", "a finding")>>],
   [provider |-> "wazuh", at |-> 2, counts |-> Reported(0, 5, 0),
    findings |-> <<Found(4, "alta", Nothing), Found(3, "info", "a finding"),
                   Found(2, "critical", "a finding")>>],
   [provider |-> "wazuh", at |-> 3, counts |-> Reported(0, 0, 0),
    findings |-> <<>>],
   [provider |-> "nessus", at |-> 2, counts |-> Reported(1, 0, 2),
    findings |-> <<>>],
   [provider |-> "zabbix", at |-> 1, counts |-> Reported(0, 0, 1),
    findings |-> <<Found(5, "medium", Tainted)>>]}

VARIABLE part  \* which of the three goes on

sumVars == <<reportVars, contentVars, workerVars, part>>

JobsInit == /\ ReportInit /\ ContentInit /\ WorkerInit
            /\ part \in {"reports", "content", "worker"}

JobsNext ==
  /\ UNCHANGED part
  /\ \/ /\ part = "reports" /\ ReportNext
        /\ UNCHANGED <<contentVars, workerVars>>
     \/ /\ part = "content" /\ ContentNext
        /\ UNCHANGED <<reportVars, workerVars>>
     \/ /\ part = "worker" /\ WorkerNext
        /\ UNCHANGED <<reportVars, contentVars>>

\* The fairness of each, where it goes on.
JobsFairness ==
  /\ \A d \in Documents :
       /\ WF_reportVars(part = "reports" /\ request[d] # "new" /\ Post(d))
       /\ \A c \in Copies : WF_reportVars(part = "reports" /\ Orchestrate(d, c))
       /\ WF_reportVars(part = "reports" /\ Execute(d))
  /\ \A w \in Calls :
       /\ WF_workerVars(part = "worker" /\ Tick(w))
       /\ WF_workerVars(part = "worker" /\ (Caller(w) \/ CallerTimesOut(w)))

JobsSpec == JobsInit /\ [][JobsNext]_sumVars /\ JobsFairness
=============================================================================
