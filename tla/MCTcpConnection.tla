--------------------------- MODULE MCTcpConnection ---------------------------
(***************************************************************************)
(* Two messages of two bytes and one, a file of two bytes, and one thread  *)
(* besides the loop's: enough for a partial write of a message and of the  *)
(* file, for bytes queued behind a partial write, and for a call that      *)
(* straddles a close or a shutdown.                                        *)
(***************************************************************************)
EXTENDS TcpConnection

MCMsgs == {<<1, 2>>, <<3>>}
MCFile == <<8, 9>>
MCBytes == {1, 2, 3, 8, 9}
=============================================================================
