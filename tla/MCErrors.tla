------------------------------ MODULE MCErrors ------------------------------
(* Two modules M and N with an implementation each, i and j; e1 and e2 are *)
(* errors of the same type, one of i and one of j.  i clears its error by  *)
(* its handle and all of its errors, j all of its errors of that type.     *)
(* The subscriber subscribes to the errors of i and then to their clearing. *)
EXTENDS Errors

CONSTANTS M, N, i, j, t, e1, e2, r1, r2, r3

MCModuleOf == (i :> M) @@ (j :> N)
MCTypeOf == [e \in Uuids |-> t]
MCFrom == (e1 :> i) @@ (e2 :> j)
MCRequest ==
  (r1 :> [mode |-> "ClearUUID", impl |-> i, uuid |-> e1, type |-> None]) @@
  (r2 :> [mode |-> "ClearAllOfTypeOfModule", impl |-> j, uuid |-> None, type |-> t]) @@
  (r3 :> [mode |-> "ClearAllOfModule", impl |-> i, uuid |-> None, type |-> None])

MCEarlier ==
  LET all == AllRequests  mi == <<"manager", Topic(e1)>>  mj == <<"manager", Topic(e2)>>
      ei  == <<"errors", Topic(e1)>>  ci == <<"cleared", Topic(e1)>>
  IN  (all :> {}) @@ (mi :> {all}) @@ (mj :> {all, mi}) @@ (ei :> {}) @@ (ci :> {ei})
=============================================================================
