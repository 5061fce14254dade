----------------------------- MODULE MCServices -----------------------------
(***************************************************************************)
(* Two services of the API that have no state in common, the review chat   *)
(* and the file uploads: a behaviour is one of the one or of the other.    *)
(***************************************************************************)
EXTENDS AgentChat_proofs, FileAssets_proofs

VARIABLE part

ServicesInit == part \in {"chat", "files"} /\ Init /\ UploadInit

ServicesNext ==
    \/ part = "chat" /\ Next /\ UNCHANGED <<part, uploadVars>>
    \/ part = "files" /\ UploadNext /\ UNCHANGED <<part, vars>>

ServicesSpec ==
    ServicesInit /\ [][ServicesNext]_<<part, vars, uploadVars>> /\ Fairness
=============================================================================
