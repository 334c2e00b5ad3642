-------------------------- MODULE MCIOMultiplexers --------------------------
EXTENDS DefaultIOMultiplexer, TLC

CONSTANTS c1, c2, c3, c4

MCChannels == {c1, c2, c3, c4}

(* every error comes with readability, as it does on a socket               *)
MCReadiness == {{}, {kReadEvent, kErrorEvent}}

(* three fds open at a time, for removals from the middle of the list and   *)
(* for more ready fds than slots; c4 is a later channel on the fd of c1     *)
MCFdOf == c1 :> 0 @@ c2 :> 1 @@ c3 :> 2 @@ c4 :> 0
=============================================================================
