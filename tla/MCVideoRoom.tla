---------------------------- MODULE MCVideoRoom ----------------------------
EXTENDS VideoRoom
CONSTANTS s1, s2, o1
=============================================================================
