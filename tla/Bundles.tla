------------------------------ MODULE Bundles ------------------------------
(***************************************************************************)
(* Quantities of the three resources (class Bundle of domain/types.py).    *)
(* A bundle always holds all three; a quantity is never negative, which    *)
(* __post_init__ enforces by raising.  Sub is the strict subtraction: the  *)
(* code raises where it would go below zero, here it leaves Bundle, so the *)
(* type invariants of the users show that it never does.                   *)
(***************************************************************************)
EXTENDS Naturals, Integers

Resource == {"WATER", "FOOD", "COMPONENTS"}

Bundle == [Resource -> Nat]

Zero == [r \in Resource |-> 0]

Single(resource, quantity) ==
    [r \in Resource |-> IF r = resource THEN quantity ELSE 0]

Add(a, b) == [r \in Resource |-> a[r] + b[r]]

Sub(a, b) == [r \in Resource |-> a[r] - b[r]]

SaturatingSub(a, b) ==
    [r \in Resource |-> IF a[r] > b[r] THEN a[r] - b[r] ELSE 0]

Dominates(a, b) == \A r \in Resource : a[r] >= b[r]

IsZero(a) == \A r \in Resource : a[r] = 0

Total(a) == a["WATER"] + a["FOOD"] + a["COMPONENTS"]
=============================================================================
