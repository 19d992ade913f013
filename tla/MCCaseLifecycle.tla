-------------------------- MODULE MCCaseLifecycle ---------------------------
(* A small instance of CaseLifecycle for TLC. *)
EXTENDS CaseLifecycle, TLC
Interchangeable == Permutations(Requests)

\* One person of each role, of whom two may approve a refund.
Members == {"cleo", "wade", "fay", "ada"}
MemberRole == [u \in Members |->
    CASE u = "cleo" -> "customer_service" [] u = "wade" -> "warehouse"
      [] u = "fay" -> "finance" [] u = "ada" -> "admin"]
=============================================================================
