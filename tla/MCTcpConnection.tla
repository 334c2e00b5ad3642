-------------------------- MODULE MCTcpConnection ---------------------------
EXTENDS TcpConnection, TLC

CONSTANTS t1, t2

MCThreads == {t1, t2}
OneThread == {t1}
=============================================================================
