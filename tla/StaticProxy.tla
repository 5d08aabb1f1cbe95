------------------------------ MODULE StaticProxy ------------------------------
(***************************************************************************)
(* The static proxy pool of common/proxy/static.py: a fixed list of proxy  *)
(* URLs, one of which is `current'; a proxy that was reported as failing   *)
(* is quarantined for a while and skipped when the pool advances.          *)
(*                                                                         *)
(* A proxy is its position in the configured list, because the code picks  *)
(* `available[0]': the list order decides.  Every method of the provider   *)
(* runs under its lock, so each one is a single step here.                 *)
(***************************************************************************)
EXTENDS Integers

CONSTANTS N,            \* length of the configured proxy list
          Quarantine,   \* quarantine_seconds, in clock ticks
          MaxClock      \* bound on the modelled clock (a bound of the model)

\* The constructor refuses an empty list; a quarantine is a duration.
ASSUME StaticProxyAssumption ==
    /\ N \in Nat \ {0}
    /\ Quarantine \in Nat
    /\ MaxClock \in Nat

VARIABLES clock,        \* time.monotonic()
          until,        \* _quarantined, 0 where the dict has no entry
          current,      \* _current
          rotations,    \* _rotations
          failures      \* _failures

poolVars == <<clock, until, current, rotations, failures>>

Proxies == 1..N

\* The first of a set of list positions: `available[0]'.
First(S) == CHOOSE p \in S : \A q \in S : p <= q

\* Seeded fault: the quarantine table is not consulted.
AvailableIgnoringQuarantine(u, excluded) == Proxies \ excluded

\* The proxies out of quarantine under table u, without the excluded ones.
Available(u, excluded) == {p \in Proxies \ excluded : clock >= u[p]}

\* The proxies whose quarantine ends no later than any other's.
SoonestExpiry(u) == {p \in Proxies : \A q \in Proxies : u[p] <= u[q]}

\* Seeded fault: the fallback of _rotate_to_next takes the list's first proxy.
NextProxyUnsorted(u) ==
    LET free == Available(u, {current})
    IN  First(IF free # {} THEN free ELSE Proxies)

\* _rotate_to_next(skip_current=True) under quarantine table u.  The sort of
\* the fallback is stable, so ties go to the earlier list position.
NextProxy(u) ==
    LET free == Available(u, {current})
    IN  First(IF free # {} THEN free ELSE SoonestExpiry(u))

--------------------------------------------------------------------------------

PoolInit ==
    /\ clock = 0
    /\ until = [p \in Proxies |-> 0]
    /\ current = First(Proxies)
    /\ rotations = 0
    /\ failures = 0

Rotate ==
    /\ rotations' = rotations + 1
    /\ current' = NextProxy(until)
    /\ UNCHANGED <<clock, until, failures>>

\* Seeded fault: a report quarantines and leaves the pool where it is.
ReportWithoutRotation(p) ==
    /\ failures' = failures + 1
    /\ until' = [until EXCEPT ![p] = clock + Quarantine]
    /\ UNCHANGED <<clock, current, rotations>>

\* The report names the proxy the caller was using, which need not be the
\* current one any more; the pool advances whichever it is.
ReportFailure(p) ==
    /\ failures' = failures + 1
    /\ until' = [until EXCEPT ![p] = clock + Quarantine]
    /\ current' = NextProxy(until')
    /\ UNCHANGED <<clock, rotations>>

PoolTick ==
    /\ clock < MaxClock
    /\ clock' = clock + 1
    /\ UNCHANGED <<until, current, rotations, failures>>

PoolNext ==
    \/ Rotate
    \/ \E p \in Proxies : ReportFailure(p)
    \/ PoolTick

\* The pool under any callers at all: get_proxy() only reads `current'.
PoolSpec == PoolInit /\ [][PoolNext]_poolVars

--------------------------------------------------------------------------------

PoolTypeOK ==
    /\ clock \in Nat
    /\ until \in [Proxies -> Nat]
    /\ current \in Proxies
    /\ rotations \in Nat
    /\ failures \in Nat

\* "Implementations should blacklist or deprioritise the proxy so it is not
\* immediately returned by get_proxy() again" (common/proxy/base.py): while
\* the current proxy is in quarantine, no proxy of the list is a better choice:
\* each of them is in quarantine at least as long.
CurrentIsBest ==
    clock < until[current] => \A p \in Proxies : until[current] <= until[p]

================================================================================
