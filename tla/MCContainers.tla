---------------------------- MODULE MCContainers ----------------------------
EXTENDS Containers
=============================================================================
