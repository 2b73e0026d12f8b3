---------------------------- MODULE MCUdpForwarder ----------------------------
EXTENDS UdpForwarder
=============================================================================
