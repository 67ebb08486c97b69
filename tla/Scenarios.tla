----------------------------- MODULE Scenarios -----------------------------
(***************************************************************************)
(* A model that checks several components side by side: every behaviour is *)
(* about one component, named by scenario, and the components share one    *)
(* pool of variables.  An instance of a component takes the first n of     *)
(* them for its own; the others stay 0.  The states of the model are the   *)
(* union of the states of its instances, not their product.                *)
(***************************************************************************)
EXTENDS Integers

VARIABLES scenario, v1, v2, v3, v4, v5, v6, v7, v8, v9, v10, v11, v12, v13, v14, v15

pool == <<scenario, v1, v2, v3, v4, v5, v6, v7, v8, v9, v10, v11, v12, v13, v14, v15>>

\* The behaviour is about this instance, which has n variables.
Begins(name, n) ==
    /\ scenario = name
    /\ n < 5  => v5 = 0
    /\ n < 6  => v6 = 0
    /\ n < 7  => v7 = 0
    /\ n < 8  => v8 = 0
    /\ n < 9  => v9 = 0
    /\ n < 10 => v10 = 0
    /\ n < 11 => v11 = 0
    /\ n < 12 => v12 = 0
    /\ n < 13 => v13 = 0
    /\ n < 14 => v14 = 0
    /\ n < 15 => v15 = 0

\* A step of this instance.
Steps(name, n) ==
    /\ scenario = name /\ UNCHANGED scenario
    /\ n < 5  => UNCHANGED v5
    /\ n < 6  => UNCHANGED v6
    /\ n < 7  => UNCHANGED v7
    /\ n < 8  => UNCHANGED v8
    /\ n < 9  => UNCHANGED v9
    /\ n < 10 => UNCHANGED v10
    /\ n < 11 => UNCHANGED v11
    /\ n < 12 => UNCHANGED v12
    /\ n < 13 => UNCHANGED v13
    /\ n < 14 => UNCHANGED v14
    /\ n < 15 => UNCHANGED v15
=============================================================================
