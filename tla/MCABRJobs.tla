----------------------------- MODULE MCABRJobs ------------------------------
(* Two callers, who may use one job id or two, and two workers that share  *)
(* one batch slot.  One job is priced, the other has no plan: as           *)
(* wired in run.go, the fate of every ABR job.                             *)
EXTENDS ABRJobs, TLC

MCSymmetry == Permutations(Workers) \cup Permutations(Callers)
=============================================================================
