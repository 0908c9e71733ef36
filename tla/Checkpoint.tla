------------------------------- MODULE Checkpoint -------------------------------
(***************************************************************************)
(* SaveCheckpoint and LoadCheckpoint (src/checkpoint.cpp): the file is      *)
(* written under a temporary name, synchronized, renamed over the old one,  *)
(* and the directory is synchronized.  A file is the point whose forest and *)
(* chain-hash index it holds; TORN is a file whose checksum does not match. *)
(***************************************************************************)
CONSTANTS NOFILE, TORN

VARIABLES
    chk,            \* the checkpoint path: the file it names, and the one it
                    \* names after a power loss
    temp            \* the temporary: NOFILE or its point and whether it is synchronized

checkpointVars == <<chk, temp>>

CheckpointInit ==
    /\ chk = [now |-> NOFILE, stable |-> NOFILE]
    /\ temp = NOFILE

\* The payload, its checksum, both flushed.
SaveWrite(p) ==
    /\ temp' = [point |-> p, synced |-> FALSE]
    /\ UNCHANGED chk

SaveSync ==
    /\ temp' = [temp EXCEPT !.synced = TRUE]
    /\ UNCHANGED chk

SaveRename ==
    /\ chk' = [chk EXCEPT !.now = temp]
    /\ temp' = NOFILE

SaveSyncDirectory ==
    /\ chk' = [chk EXCEPT !.stable = chk.now]
    /\ UNCHANGED temp

\* What a power loss leaves under the checkpoint path: either entry of the
\* directory, and no certain content for a file that was not synchronized.
PowerLossCheckpoint ==
    \E f \in {chk.now, chk.stable} :
       LET left == IF f # NOFILE /\ ~f.synced THEN [f EXCEPT !.point = TORN] ELSE f
       IN  /\ chk' = [now |-> left, stable |-> left]
           /\ temp' = NOFILE

KillCheckpoint == temp' = NOFILE /\ UNCHANGED chk

\* LoadCheckpoint succeeds; the checksum is verified before anything else.
Loads == chk.now # NOFILE /\ chk.now.point # TORN

=============================================================================
