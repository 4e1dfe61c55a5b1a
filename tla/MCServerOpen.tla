---------------------------- MODULE MCServerOpen ----------------------------
EXTENDS ServerOpen, TLC
=============================================================================
