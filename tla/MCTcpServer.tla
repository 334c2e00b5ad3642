---------------------------- MODULE MCTcpServer ----------------------------
EXTENDS TcpServer

(* the main loop alone, and three I/O threads                                 *)
MCThreadNums == {0, 3}
=============================================================================
