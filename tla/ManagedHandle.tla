--------------------------- MODULE ManagedHandle ---------------------------
(***************************************************************************)
(* What vm/object.go promises to the wrappers built on it: a Rust-owned    *)
(* allocation behind a Go object can be dereferenced by a call only while  *)
(* the object is open, is closed at most once, and never while some call   *)
(* still dereferences it.  No locks, no goroutines, no calls: Handles.tla  *)
(* has those, and implements this module.                                  *)
(***************************************************************************)
CONSTANTS Handle,   \* the Go objects (one Rust allocation each)
          User      \* whoever can dereference a handle's allocation

VARIABLES phase,    \* phase[h]: "unborn", "open" or "closed"
          users     \* users[h]: who holds h's raw pointer and may use it

vars == <<phase, users>>

TypeOK == /\ phase \in [Handle -> {"unborn", "open", "closed"}]
          /\ users \in [Handle -> SUBSET User]

Init == /\ phase = [h \in Handle |-> "unborn"]
        /\ users = [h \in Handle |-> {}]

(* newObject: an unborn handle becomes open. *)
Create(h) == /\ phase[h] = "unborn"
             /\ phase' = [phase EXCEPT ![h] = "open"]
             /\ UNCHANGED users

(* A user reads the pointer of an open handle. *)
BeginUse(u, h) == /\ phase[h] = "open"
                  /\ users' = [users EXCEPT ![h] = @ \cup {u}]
                  /\ UNCHANGED phase

(* A user gives up some pointers; a call may return a new handle as it does. *)
EndUse(u, H, new) ==
  /\ \A h \in new : phase[h] = "unborn"
  /\ users' = [h \in Handle |-> IF h \in H THEN users[h] \ {u} ELSE users[h]]
  /\ phase' = [h \in Handle |-> IF h \in new THEN "open" ELSE phase[h]]

(* u, who frees it, is the only one left with the pointer of an open handle. *)
Close(u, h) == /\ phase[h] = "open"
               /\ users[h] = {u}
               /\ phase' = [phase EXCEPT ![h] = "closed"]
               /\ users' = [users EXCEPT ![h] = {}]

Next == \/ \E h \in Handle : Create(h)
        \/ \E u \in User, h \in Handle : BeginUse(u, h) \/ Close(u, h)
        \/ \E u \in User, H \in SUBSET Handle, new \in SUBSET Handle : EndUse(u, H, new)

Spec == Init /\ [][Next]_vars
=============================================================================
