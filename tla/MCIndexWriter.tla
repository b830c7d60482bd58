--------------------------- MODULE MCIndexWriter ----------------------------
\* Scenarios of IndexWriter for TLC
EXTENDS IndexWriter

\* Deletes racing two concurrent merges, all of them in processes of their own
DeletesScenario ==
    [merges |-> 2, threshold |-> 1, keys |-> {1}, segs |-> 6,
     writes |-> 3, deletes |-> 2, failures |-> 0, crashes |-> 0, closes |-> 1]

\* A merge that fails, a crash at any point, small merges in threads
FaultsScenario ==
    [merges |-> 3, threshold |-> 3, keys |-> {1, 2}, segs |-> 5,
     writes |-> 3, deletes |-> 1, failures |-> 1, crashes |-> 1, closes |-> 0]

\* A merge whose input has two deletes, the first of an overwritten key
IgnoredScenario ==
    [merges |-> 1, threshold |-> 1, keys |-> {1, 2}, segs |-> 3,
     writes |-> 3, deletes |-> 2, failures |-> 0, crashes |-> 0, closes |-> 0]

\* One slot; there are enough segment files for all the merges there can be
CalmScenario ==
    [merges |-> 1, threshold |-> 2, keys |-> {1}, segs |-> 8,
     writes |-> 3, deletes |-> 1, failures |-> 0, crashes |-> 0, closes |-> 0]

FailedScenario ==
    [merges |-> 2, threshold |-> 2, keys |-> {1}, segs |-> 5,
     writes |-> 2, deletes |-> 1, failures |-> 1, crashes |-> 0, closes |-> 0]

DeletesAndFaults == {DeletesScenario, FaultsScenario, IgnoredScenario}
Calm == {CalmScenario}
FailedMerge == {FailedScenario}
=============================================================================
