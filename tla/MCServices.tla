---------------------------- MODULE MCServices ---------------------------
EXTENDS Services
==========================================================================
