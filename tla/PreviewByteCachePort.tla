------------------------ MODULE PreviewByteCachePort ------------------------
(***************************************************************************)
(* What CardPreviewService may rely on of its persistent tier, the port    *)
(* IPreviewByteCache: per key it remembers an image, a negative verdict or *)
(* nothing.  Stores are best effort.  A store under one key either takes   *)
(* effect, has no effect, loses the entry or leaves a torn image, and a    *)
(* store of an image may push other images out; it never changes what      *)
(* another key answers and never forgets another key's negative verdict.   *)
(* LocalPreviewByteCache is shown to implement this module.                *)
(***************************************************************************)
CONSTANTS
    Keys,      \* opaque cache keys
    Images,    \* payloads
    Torn,      \* what a failed or interrupted write leaves of a payload
    Negative,  \* the verdict "upstream cleanly said no image"
    Nothing    \* no entry

Verdicts == Images \cup {Negative}
Entries  == Images \cup {Torn, Negative, Nothing}

\* What a store of v under k may leave behind of the entries e.
AfterStore(e, k, v) ==
    {d \in [Keys -> Entries] :
        /\ d[k] \in {e[k], v, Nothing} \cup (IF v = Negative THEN {} ELSE {Torn})
        /\ \A j \in Keys \ {k} :
              \/ d[j] = e[j]
              \/ d[j] = Nothing /\ v # Negative /\ e[j] # Negative}

-----------------------------------------------------------------------------
VARIABLES entry, pending

vars == <<entry, pending>>

Idle == [key |-> Nothing, verdict |-> Nothing]

Init == entry = [k \in Keys |-> Nothing] /\ pending = Idle

Begin(k, v) == /\ pending = Idle
               /\ pending' = [key |-> k, verdict |-> v]
               /\ UNCHANGED entry

\* Everything the store does to the medium, in as many steps as it likes.
Effect == /\ pending # Idle
          /\ entry' \in AfterStore(entry, pending.key, pending.verdict)
          /\ pending' \in {pending, Idle}

\* The store returned, or the process died in the middle of it.
End == pending # Idle /\ pending' = Idle /\ UNCHANGED entry

Next == Effect \/ End \/ \E k \in Keys, v \in Verdicts : Begin(k, v)

Spec == Init /\ [][Next]_vars
=============================================================================
