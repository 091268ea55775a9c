------------------------------ MODULE MCLanes ------------------------------
EXTENDS ConnectionLanes
=============================================================================
