----------------------------- MODULE MCSelecter -----------------------------
EXTENDS Selecter, TLC

CONSTANTS c1, c2, c3

MCChannels == {c1, c2, c3}
MCReadiness == {{}, {kReadEvent}, Events, Conditions}

(* c3 is a later channel on the fd of c1; fds 0 to 2 are the standard ones  *)
ReusedFd == c1 :> 3 @@ c2 :> 4 @@ c3 :> 3
=============================================================================
