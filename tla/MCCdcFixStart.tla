--------------------------- MODULE MCCdcFixStart ---------------------------
(***************************************************************************)
(* Groups with records that may come before or after the bound is          *)
(* reported, one of them at the highest timestamp in every group.          *)
(***************************************************************************)
EXTENDS CdcFixStart

MCRecord ==
    [g \in Group |-> {[ts |-> t, stream |-> "data", key |-> 1] : t \in {g, MaxTs}}]

=============================================================================
