-------------------------- MODULE MCArchiveTransfer --------------------------
(* Instances of ArchiveTransfer for TLC.                                   *)
EXTENDS ArchiveTransfer

EitherEndFails == {"crash", "quit", "ssh", "corrupt"}
DeathInTheGap == {"crash", "gap"}
=============================================================================
