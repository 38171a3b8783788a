---------------------------- MODULE MCStreamThrow ----------------------------
EXTENDS StreamThrow
=============================================================================
