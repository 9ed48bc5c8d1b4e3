-------------------------- MODULE MCS3ClientCache --------------------------
(***************************************************************************)
(* Small instances of S3ClientCache for TLC.  One tick stands for about    *)
(* three minutes: 15, 5 and 1 minutes become Lifetime = 5, Margin = 2 and  *)
(* ValidationLimit = 1, which keeps their order and 2 * Margin < Lifetime. *)
(* Liveness is checked too, so there is no symmetry.                       *)
(***************************************************************************)
EXTENDS S3ClientCache
=============================================================================
