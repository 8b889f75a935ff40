---------------------------- MODULE MCConsumeScan ----------------------------
EXTENDS ConsumeScan

Base == [export |-> FALSE, strategy |-> "earliest", limit |-> 1, maxScan |-> 3, at |-> 0, commit |-> FALSE,
         group |-> FALSE, filter |-> TRUE, parts |-> {}, resume |-> FALSE]

\* One request of every kind; the resumed ones follow the documented use of
\* nextPartitionOffsets.
MCRequests ==
  { Base,
    [Base EXCEPT !.strategy = "offset", !.resume = TRUE],
    [Base EXCEPT !.strategy = "recent", !.limit = 0, !.maxScan = 1, !.filter = FALSE],
    [Base EXCEPT !.strategy = "default", !.group = TRUE, !.commit = TRUE, !.filter = FALSE],
    [Base EXCEPT !.strategy = "committed", !.group = TRUE, !.parts = {0}],
    [Base EXCEPT !.strategy = "timestamp", !.at = 1, !.export = TRUE, !.limit = 9, !.maxScan = 0],
    [Base EXCEPT !.strategy = "default", !.group = TRUE, !.commit = TRUE, !.filter = FALSE, !.parts = {0}] }

MCResumes == { Base, [Base EXCEPT !.strategy = "default", !.parts = {0}, !.resume = TRUE] }

MCHits == {<<0, 0>>, <<0, 1>>, <<1, 1>>}
=============================================================================
