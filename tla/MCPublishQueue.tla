--------------------------- MODULE MCPublishQueue ---------------------------
(* Small instances of PublishQueue. *)
EXTENDS PublishQueue

CONSTANTS j1, j2, j3, j4

FourJobs == {j1, j2, j3, j4}
FourCategories == j1 :> "check" @@ j2 :> "delta" @@ j3 :> "deletion" @@ j4 :> "other"
TwoJobs == {j1, j2}
TwoCategories == j1 :> "check" @@ j2 :> "delta"
OneDeletion == {j3}
DeletionCategory == j3 :> "deletion"
=============================================================================
