--------------------------- MODULE MCDeviceDaemon ---------------------------
EXTENDS DeviceDaemon
=============================================================================
