---------------------------- MODULE MCProxyCall ----------------------------
EXTENDS ProxyCall
=============================================================================
