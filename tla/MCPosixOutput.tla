--------------------------- MODULE MCPosixOutput ----------------------------
EXTENDS PosixOutput
=============================================================================
