----------------------------- MODULE MCLaneView -----------------------------
EXTENDS LaneView
=============================================================================
