----------------------------- MODULE ProofArchive -----------------------------
(***************************************************************************)
(* What the proof archive promises its caller (include/utreexo/            *)
(* proof_store.h): a chain of proofs on stable storage that grows block by *)
(* block along the chain, of which the caller has been told a part is      *)
(* durable.  No crash is visible here: the archive never loses a confirmed *)
(* proof unless the caller has given it up by asking for a truncation.     *)
(***************************************************************************)
EXTENDS ProofDisk

VARIABLES
    archive,    \* the tip on stable storage
    confirmed   \* the highest point reported durable and not given up since

ArchiveInit == archive = Base /\ confirmed = Base

\* One or more blocks on top of the tip reach stable storage.
Extend ==
    /\ archive' \in Chain \ {archive}
    /\ IsAncestor(archive, archive')
    /\ UNCHANGED confirmed

\* The caller learns that a prefix of the archive is durable.
Confirm ==
    /\ confirmed' \in Chain
    /\ IsAncestor(confirmed, confirmed') /\ IsAncestor(confirmed', archive)
    /\ UNCHANGED archive

\* The caller asks to cut the archive back and gives up what it was told.
GiveUp ==
    /\ confirmed' \in Chain
    /\ IsAncestor(confirmed', confirmed)
    /\ UNCHANGED archive

\* The archive is cut back, never below what is confirmed.
Cut ==
    /\ archive' \in Chain
    /\ IsAncestor(archive', archive) /\ IsAncestor(confirmed, archive')
    /\ UNCHANGED confirmed

ArchiveNext == Extend \/ Confirm \/ GiveUp \/ Cut

ArchiveSpec == ArchiveInit /\ [][ArchiveNext]_<<archive, confirmed>>
=============================================================================
