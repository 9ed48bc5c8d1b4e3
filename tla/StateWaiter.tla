---------------------------- MODULE StateWaiter ----------------------------
(***************************************************************************)
(* The poll loop every resource uses to wait for the API: the              *)
(* retry.StateChangeConf of terraform-plugin-sdk.  The library calls       *)
(* Refresh until one answer decides the wait; this module is that          *)
(* decision.  The library is not part of the repository: it is modelled    *)
(* from how the resources configure it (Pending, Target, Refresh).         *)
(*                                                                         *)
(* One answer of Refresh is a status, or an error.  The wait is            *)
(*   "failed"      on an error: it ends with the error;                    *)
(*   "done"        on a Target status: it ends with the answer;            *)
(*   "again"       on a Pending status: Refresh is called once more;       *)
(*   "unexpected"  on any other status: it ends with an error.             *)
(***************************************************************************)

\* The answer of a Refresh that returned an error.
RefreshError == "refresh error"

Verdict(pending, target, answer) ==
    IF answer = RefreshError THEN "failed"
    ELSE IF answer \in target THEN "done"
    ELSE IF answer \in pending THEN "again"
    ELSE "unexpected"
=============================================================================
