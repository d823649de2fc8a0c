------------------------------- MODULE Events -------------------------------
(***************************************************************************)
(* The schema's own checks on an event (crates/common/src/event.rs), which *)
(* the ingest gateway applies to everything it is posted.                  *)
(***************************************************************************)
EXTENDS Integers

CONSTANTS
    MAX_FUTURE_SKEW,  \* how far ahead of the gateway's clock a timestamp may be
    Blank             \* a user, wiki or family that is empty once trimmed

ASSUME SkewAssumption == MAX_FUTURE_SKEW \in Nat

\* TRUE where the code returns Ok(()).
validate(event, now) ==
    /\ event.user # Blank
    /\ event.wiki # Blank
    /\ event.family # Blank
    /\ event.namespace >= 0
    /\ event.ts <= now + MAX_FUTURE_SKEW

=============================================================================
