----------------------------- MODULE MCHandles -----------------------------
(***************************************************************************)
(* Handles on small instances: who passes what to whom, and symmetry.      *)
(***************************************************************************)
EXTENDS Handles, TLC

CONSTANTS g1, g2, h1, h2, h3, v1

(* Every object may be passed to every method, itself included. *)
AnyToAny == Handle \X Handle

(* The program has an order on its objects and passes later ones to methods  *)
(* of earlier ones only.                                                     *)
Ordered == {<<h1, h2>>, <<h1, h3>>, <<h2, h3>>} \cap (Handle \X Handle)

(* An object passed to its own method: globals.Set("_G", globals). *)
Itself == {<<h, h>> : h \in Handle}

Symmetry == Permutations(Goroutine)
=============================================================================
