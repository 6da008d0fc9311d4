------------------------------ MODULE MCValues ------------------------------
(***************************************************************************)
(* Values on small instances: a string and the empty one, a function, a    *)
(* table, an integer and the number equal to it, an error that is not      *)
(* UTF-8 and what becomes of it, light userdata: the null pointer, and p,  *)
(* which points at q.  Lua makes numbers integers and errors strings.      *)
(***************************************************************************)
EXTENDS Values, TLC

CONSTANTS nothing, s, empty, f, t, int, num, e, utf8, null, p, q, b1, b2, b3, b4, b5

KindOfDatum ==
  [d \in Datum |-> CASE d \in {s, empty} -> "String" [] d = f -> "Function"
                     [] d = t -> "Table" [] d = int -> "Integer" [] d = num -> "Number"
                     [] d \in {e, utf8} -> "Error" [] d \in {null, p, q} -> "LightUserData"]

Empties == {empty} \cap Datum
PointsAt == [d \in Datum |-> IF d = p THEN q ELSE NoDatum]
ToUtf8 == [d \in Datum |-> IF d = e THEN utf8 ELSE d]
ToLua == [d \in Datum |-> IF d = num /\ int \in Datum THEN int
                          ELSE IF d = utf8 /\ s \in Datum THEN s ELSE d]

Symmetry == Permutations(Box)
=============================================================================
