------------------------- MODULE IngestionAndBoards -------------------------
(* SnapshotIngestion and Dashboards side by side.  The two share no         *)
(* variable: an upload ends as a row of scans, which Dashboards takes as    *)
(* given.  A behaviour is one of the one or of the other.                   *)
EXTENDS SnapshotIngestion, Dashboards

VARIABLE part  \* which of the two goes on

bothVars == <<ingestVars, boardVars, part>>

BothInit == IngestInit /\ BoardsInit /\ part \in {"ingestion", "dashboards"}

BothNext ==
  /\ UNCHANGED part
  /\ \/ part = "ingestion" /\ IngestNext /\ UNCHANGED boardVars
     \/ part = "dashboards" /\ BoardsNext /\ UNCHANGED ingestVars

BothSpec == BothInit /\ [][BothNext]_bothVars

-----------------------------------------------------------------------------
(* Properties.                                                             *)

\* No view shows a PUT under way, and it may fail at any time: what holds while
\* there is none holds in the states that differ from those by one.
NoneSaving == \A s \in Savers : saving[s] = Unset

\* DashboardsAgree and CountsAreComplete, evaluated where they can change: what
\* one view of a tenant's data shows, every other view of it shows as well...
ViewsAgree == part = "dashboards" /\ NoneSaving => DashboardsAgree

\* ...and what a view is given of scans, findings and alerts it counts in full.
ViewsAreComplete == part = "dashboards" /\ NoneSaving => CountsAreComplete
=============================================================================
