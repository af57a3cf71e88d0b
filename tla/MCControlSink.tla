--------------------------- MODULE MCControlSink ----------------------------
EXTENDS ControlSink
=============================================================================
