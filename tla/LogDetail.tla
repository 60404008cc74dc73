------------------------------ MODULE LogDetail -----------------------------
(***************************************************************************)
(* The dialog of one request on the logs page (openDetail and its Modal in *)
(* frontend pages/LogsPage.tsx): a call per opening, and a version that    *)
(* tells the answers apart.                                                *)
(***************************************************************************)
EXTENDS Naturals

CONSTANTS
    LogRow,       \* requests that can be opened
    MaxVersions,  \* bound: openings and closings
    None

DetailAssumption == MaxVersions \in Nat

VARIABLES
    detail,       \* the dialog: the row it was opened for, the one it shows
    detailCalls   \* fetchRequestLog calls in flight

detailVars == <<detail, detailCalls>>

NoDetail == [open |-> FALSE, opened |-> None, selected |-> None, loading |-> FALSE,
             error |-> FALSE, version |-> 0]

DetailInit == detail = NoDetail /\ detailCalls = {}

OpenDetail(r) ==
    /\ ~detail.open /\ detail.version < MaxVersions
    /\ detail' = [open |-> TRUE, opened |-> r, selected |-> r, loading |-> TRUE,
                  error |-> FALSE, version |-> detail.version + 1]
    /\ detailCalls' = detailCalls \cup {[row |-> r, version |-> detail.version + 1]}

CloseDetail ==
    /\ detail.open
    /\ detail' = [NoDetail EXCEPT !.version = detail.version + 1]
    /\ UNCHANGED detailCalls

\* Bug: the answer to an opening long closed is shown.
DetailAnsweredLate(c) ==
    /\ c \in detailCalls
    /\ detailCalls' = detailCalls \ {c}
    /\ detail' = [detail EXCEPT !.selected = c.row, !.loading = FALSE]

\* Only the latest version counts.
DetailAnswered(c) ==
    /\ c \in detailCalls
    /\ detailCalls' = detailCalls \ {c}
    /\ \/ c.version # detail.version /\ UNCHANGED detail
       \/ /\ c.version = detail.version
          /\ \E failed \in BOOLEAN :
                detail' = [detail EXCEPT !.selected = IF failed THEN @ ELSE c.row,
                                         !.error = failed, !.loading = FALSE]

DetailNext ==
    \/ \E r \in LogRow : OpenDetail(r)
    \/ CloseDetail
    \/ \E c \in detailCalls : DetailAnswered(c)

DetailSpec == DetailInit /\ [][DetailNext]_detailVars

-----------------------------------------------------------------------------
\* The detail shown is that of the request opened last, and a closed dialog keeps
\* nothing, however late the answers come.
DetailIsOpened ==
    /\ detail.selected = detail.opened
    /\ ~detail.open => detail.selected = None /\ ~detail.loading
=============================================================================
