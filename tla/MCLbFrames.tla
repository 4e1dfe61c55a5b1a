----------------------------- MODULE MCLbFrames -----------------------------
EXTENDS LbFrames
=============================================================================
