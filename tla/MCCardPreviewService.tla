----------------------- MODULE MCCardPreviewService -----------------------
\* Two workers, three keys and a memory tier of two entries, so that calls
\* for the same key overlap and calls for different keys evict each other.
\* The workers are interchangeable and no property is a liveness property.
EXTENDS CardPreviewService, TLC

WorkerSymmetry == Permutations(Workers)
=============================================================================
