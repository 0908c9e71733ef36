-------------------------------- MODULE Sockets --------------------------------
(***************************************************************************)
(* File descriptors of sockets, shared by all threads of the process.  The *)
(* kernel hands out the lowest free number, so a closed one is reused at   *)
(* once.  shutdown() interrupts the thread that blocks on a descriptor.    *)
(***************************************************************************)
EXTENDS Integers, FiniteSetsExt

VARIABLES open, shut

kernel == <<open, shut>>

FreshFd(f, fds) == f = Min(fds \ open) /\ open' = open \cup {f} /\ shut' = shut \ {f}
CloseFd(f) == open' = open \ {f} /\ shut' = shut \ {f}
=============================================================================
