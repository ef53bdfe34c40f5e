---------------------------- MODULE UploadContract ----------------------------
(***************************************************************************)
(* What GcsClient.upload of scripts/migrate_package_blobs.py promises to   *)
(* migrate_one: a name of the bucket is created at most once and never     *)
(* replaced, PreconditionFailed is only raised about a name that is taken, *)
(* and an upload that returns has handed over every byte.  It does not     *)
(* promise that the object is there: migrate_one looks again.              *)
(***************************************************************************)

VARIABLES
    outcome,     \* "running", or how upload ended
    object,      \* who created the object of this name, if anybody has
    whole        \* the service has every byte

contractVars == <<outcome, object, whole>>

ContractInit ==
    /\ outcome = "running"
    /\ object \in {"none", "theirs"}
    /\ whole \in BOOLEAN

\* Only the upload that has handed over every byte, or somebody else, creates
\* the object, and also after the upload has given up.
Create ==
    /\ object = "none"
    /\ object' \in {"ours", "theirs"}
    /\ object' = "ours" => whole'

End ==
    /\ outcome = "running"
    /\ \/ outcome' = "returned" /\ whole'
       \/ outcome' = "exists" /\ object' = "theirs"
       \/ outcome' = "failed"

ContractNext ==
    /\ whole => whole'
    /\ Create \/ UNCHANGED object
    /\ End \/ UNCHANGED outcome

ContractSpec == ContractInit /\ [][ContractNext]_contractVars
=============================================================================
