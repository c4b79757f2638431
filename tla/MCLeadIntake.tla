---------------------------- MODULE MCLeadIntake ----------------------------
(***************************************************************************)
(* An instance of LeadIntake for TLC: the same two contacts through both   *)
(* doors and in opposite orders, one number changing hands between them,   *)
(* and a delivery above the limit.                                         *)
(***************************************************************************)
EXTENDS LeadIntake, TLC

CONSTANTS e1, e2, e3, e4, d1, d2, d3, r1, r2, p1, p2, m1

Says(record, phone, email) == [record |-> record, phone |-> phone, email |-> email]

MCContact == (e1 :> Says(r1, p1, None)) @@ (e2 :> Says(r2, p2, m1))
          @@ (e3 :> Says(r2, p1, None)) @@ (e4 :> Says(r1, None, m1))
MCBatch == (d1 :> <<e1, e2>>) @@ (d2 :> <<e3, e4>>) @@ (d3 :> <<e1, e2, e3>>)
MCNamed == (d1 :> None) @@ (d2 :> 1) @@ (d3 :> None)
MCMatching == (e1 :> {2}) @@ (e2 :> {}) @@ (e3 :> {}) @@ (e4 :> {})
=============================================================================
