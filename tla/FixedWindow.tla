----------------------------- MODULE FixedWindow -----------------------------
(***************************************************************************)
(* What the limiter promises: "a fixed-window counter, keyed by an         *)
(* arbitrary string" (internal/server/ratelimit.go:36).  The first attempt *)
(* of a key opens its window; while the window is open at most Attempts    *)
(* are let through, and when it closes the key is as good as new.  There   *)
(* is no map to prune and nobody reads the clock before taking a lock.     *)
(***************************************************************************)
EXTENDS Integers

CONSTANTS Keys, Attempts, Window

VARIABLES
    used,      \* attempts let through in the window that is open
    left,      \* time left of the window, -1 when none is open
    verdict    \* the last decision about each key

vars == <<used, left, verdict>>

Open(k) == left[k] >= 0

Init ==
    /\ used = [k \in Keys |-> 0]
    /\ left = [k \in Keys |-> -1]
    /\ verdict = [k \in Keys |-> "none"]

Begin(k) ==
    /\ ~Open(k)
    /\ used' = [used EXCEPT ![k] = 1]
    /\ left' = [left EXCEPT ![k] = Window]
    /\ verdict' = [verdict EXCEPT ![k] = "granted"]

Grant(k) ==
    /\ Open(k) /\ used[k] < Attempts
    /\ used' = [used EXCEPT ![k] = @ + 1]
    /\ verdict' = [verdict EXCEPT ![k] = "granted"]
    /\ UNCHANGED left

Deny(k) ==
    /\ Open(k) /\ used[k] = Attempts
    /\ verdict' = [verdict EXCEPT ![k] = "denied"]
    /\ UNCHANGED <<used, left>>

Tick ==
    /\ left' = [k \in Keys |-> IF Open(k) THEN left[k] - 1 ELSE -1]
    /\ used' = [k \in Keys |-> IF left[k] > 0 THEN used[k] ELSE 0]
    /\ UNCHANGED verdict

Next ==
    \/ \E k \in Keys : Begin(k) \/ Grant(k) \/ Deny(k)
    \/ Tick

Spec == Init /\ [][Next]_vars
=============================================================================
