--------------------------- MODULE ConnectionLife ---------------------------
(***************************************************************************)
(* What TcpServer promises the user of its callbacks about a connection:   *)
(* the connection callback is called once when it comes up and at most     *)
(* once when it goes down, in that order, and the TcpConnection is freed   *)
(* afterwards and only once.  Several may be freed at the same moment.     *)
(* Once the server is being destroyed, a connection may be freed in        *)
(* whatever phase it is in (see TcpServer!DownUnlessDestroyed).            *)
(***************************************************************************)
CONSTANT Conns
VARIABLES phase,     \* phase[c] \in {"none", "up", "down", "gone"}
          stopping   \* the server's destructor has begun

Init == phase = [c \in Conns |-> "none"] /\ stopping = FALSE

Up(c) ==
  /\ phase[c] = "none" /\ phase' = [phase EXCEPT ![c] = "up"]
  /\ UNCHANGED stopping

Down(c) ==
  /\ phase[c] = "up" /\ phase' = [phase EXCEPT ![c] = "down"]
  /\ UNCHANGED stopping

Free(S) ==
  /\ \A c \in S : phase[c] = "down" \/ (stopping /\ phase[c] \in {"none", "up"})
  /\ phase' = [c \in Conns |-> IF c \in S THEN "gone" ELSE phase[c]]
  /\ UNCHANGED stopping

Stop == stopping' = TRUE /\ UNCHANGED phase

Next ==
  \/ \E c \in Conns : Up(c) \/ Down(c)
  \/ \E S \in SUBSET Conns : Free(S)
  \/ Stop

Spec == Init /\ [][Next]_<<phase, stopping>>
=============================================================================
