---------------------- MODULE MCLocalPreviewByteCache ----------------------
\* Each key is its own hash, so keys are interchangeable; no property is about
\* liveness.
EXTENDS LocalPreviewByteCache, TLC

Injective == [k \in Keys |-> k]

KeySymmetry == Permutations(Keys)
=============================================================================
