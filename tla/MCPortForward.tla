---------------------------- MODULE MCPortForward ----------------------------
EXTENDS PortForward
=============================================================================
