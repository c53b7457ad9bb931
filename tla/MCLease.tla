------------------------------ MODULE MCLease ------------------------------
(* An instance of Lease in which clients also write lease propositions: one,  *)
(* or two of one resource and holder, or one in the place of another, and     *)
(* retract them.                                                              *)
EXTENDS Lease

CONSTANTS r, a, b

MCAction(operation, holder, expires) ==
  [operation |-> operation,
   proposition |-> [resource |-> r, holder |-> holder, expires |-> expires]]

MCBatches ==
  {<<>>,
   <<MCAction("assert", a, 2)>>,
   <<MCAction("retract", a, 2)>>,
   <<MCAction("assert", a, 2), MCAction("assert", a, 3)>>,
   <<MCAction("assert", a, 2), MCAction("assert", a, 2)>>,
   <<MCAction("retract", a, 2), MCAction("assert", b, 3)>>}
=============================================================================
