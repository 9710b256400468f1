------------------------------- MODULE Doubling -------------------------------
(* The factor by which a delay has grown after n doublings: the backoff of a *)
(* circuit (internal/route/runtime.go) and of the event stream of the console *)
(* (web/src/lib/route-events.ts).                                            *)
EXTENDS Naturals

Doubled[n \in Nat] == IF n = 0 THEN 1 ELSE 2 * Doubled[n - 1]

===============================================================================
