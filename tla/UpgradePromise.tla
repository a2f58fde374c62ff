---------------------------- MODULE UpgradePromise ----------------------------
(***************************************************************************)
(* What an upgrade promises about the application's storage: the target    *)
(* takes it over only while nothing is served and an archive of exactly    *)
(* that storage exists; from then on the source is never served again, and *)
(* the target only after it was accepted.                                  *)
(***************************************************************************)
VARIABLES
    served,      \* the image that serves the storage, or "down"
    owner,       \* the image the storage belongs to
    accepted,    \* whether the target was accepted
    preserved    \* "none", "fresh", or "stale" once the application served again

promise == <<served, owner, accepted, preserved>>

Init == served = "source" /\ owner = "source" /\ accepted = FALSE /\ preserved = "none"

Serve ==
    /\ served = "down" /\ (owner = "target" => accepted)
    /\ served' = owner
    /\ preserved' = IF preserved = "fresh" THEN "stale" ELSE preserved
    /\ UNCHANGED <<owner, accepted>>

Stop == served' = "down" /\ UNCHANGED <<owner, accepted, preserved>>

Preserve ==
    /\ served = "down" /\ owner = "source" /\ preserved = "none"
    /\ preserved' = "fresh"
    /\ UNCHANGED <<served, owner, accepted>>

\* A new attempt takes an archive of its own.
Discard ==
    /\ owner = "source"
    /\ preserved' = "none"
    /\ UNCHANGED <<served, owner, accepted>>

TakeOver ==
    /\ served = "down" /\ preserved = "fresh"
    /\ owner' = "target"
    /\ UNCHANGED <<served, accepted, preserved>>

Accept ==
    /\ served = "down" /\ owner = "target"
    /\ accepted' = TRUE
    /\ UNCHANGED <<served, owner, preserved>>

Spec == Init /\ [][Serve \/ Stop \/ Preserve \/ Discard \/ TakeOver \/ Accept]_promise
=============================================================================
