---------------------------- MODULE MCProvisioning ----------------------------
(* Two versions of the product and two values of its parameters: enough for a *)
(* change of either, and for a change that is undone while it is under way.    *)
EXTENDS Provisioning

CONSTANTS v1, v2, p1, p2

LaunchWants == {[version |-> v1, params |-> p1], [version |-> v2, params |-> p1],
                [version |-> v1, params |-> p2]}

\* The stack of the manifest has one template or, to see its output go stale, two.
StackWant == {[version |-> v2, params |-> p1]}
StackWants == StackWant \cup {[version |-> v1, params |-> p1]}
=============================================================================
