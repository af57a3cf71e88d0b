-------------------------- MODULE MCIoUringStorage --------------------------
EXTENDS IoUringStorage
=============================================================================
