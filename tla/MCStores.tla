------------------------------- MODULE MCStores --------------------------------
(***************************************************************************)
(* Instances of the two stores of a session for TLC: the conversation with *)
(* its window, and the two-tier caches.  They share no state in the code,  *)
(* so a behaviour is one of the one or of the other, and the part that is  *)
(* not looked at stays as it began.                                        *)
(***************************************************************************)
EXTENDS SessionMemory, LeadCache

CONSTANTS t1, t2, k1, k2, k3

\* Threads and keys differ only by name; a call is named after its thread.
StoreSymmetry == Permutations({t1, t2}) \cup Permutations({k1, k2, k3})

VARIABLE part       \* which of the two is looked at

StoresInit ==
    /\ part \in {"conversation", "cache"}
    /\ SessionInit
    /\ CacheInit
    /\ part = "conversation" => linked /\ store = "objects"

StoresNext ==
    \/ part = "conversation" /\ SessionNext /\ UNCHANGED <<cacheVars, part>>
    \/ part = "cache" /\ CacheNext /\ UNCHANGED <<sessionVars, part>>

StoresSpec == StoresInit /\ [][StoresNext]_<<sessionVars, cacheVars, part>>

================================================================================
