---------------------------- MODULE MCPodQueue ----------------------------
EXTENDS PodQueue
=============================================================================
