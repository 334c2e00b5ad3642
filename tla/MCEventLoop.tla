---------------------------- MODULE MCEventLoop -----------------------------
EXTENDS EventLoop, TLC

CONSTANTS t1, t2, loop, sock

MCThreads == {t1, t2}
MCIoChannels == {sock}
=============================================================================
