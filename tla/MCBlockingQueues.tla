-------------------------- MODULE MCBlockingQueues --------------------------
EXTENDS BlockingQueues
=============================================================================
