----------------------------- MODULE MCPodKick -----------------------------
EXTENDS PodKick
=============================================================================
