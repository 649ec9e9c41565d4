-------------------------- MODULE RemediationStatus --------------------------
(***************************************************************************)
(* The status vocabulary of a remediation execution and the transition     *)
(* table its store validates every change against                          *)
(* (pkg/types/ruletypes/remediation.go).                                   *)
(***************************************************************************)

Statuses == {"proposed", "approved", "executing", "succeeded", "failed",
             "verified", "unresolved", "rejected", "expired"}

Terminal == {"verified", "unresolved", "failed", "rejected", "expired"}

(* Permitted targets of each status. The statuses that are left out         *)
(* (terminal ones, and the dormant "approved") permit none.                 *)
AllowedTransitions(from) ==
    CASE from = "proposed"  -> {"executing", "rejected", "expired"}
      [] from = "executing" -> {"succeeded", "failed"}
      [] from = "succeeded" -> {"verified", "unresolved"}
      [] OTHER              -> {}

(* Mutant: any change is accepted, so terminal rows can be reopened. *)
ValidTransitionIgnoringTable(from, to) ==
    from \in Statuses /\ to \in Statuses /\ from # to

ValidateTransition(from, to) ==
    /\ from \in Statuses
    /\ to \in Statuses
    /\ from # to
    /\ to \in AllowedTransitions(from)
=============================================================================
