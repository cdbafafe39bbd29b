---------------------------- MODULE MCDetection ----------------------------
EXTENDS Detection
=============================================================================
