-------------------------- MODULE MCForeignMaster --------------------------
EXTENDS ForeignMaster

(* Master 1 is better than 2, 2 than 3, and so on. *)
ByNumber == [m \in Masters |-> m]
=============================================================================
