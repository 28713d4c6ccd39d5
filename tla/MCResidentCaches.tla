-------------------------- MODULE MCResidentCaches --------------------------
EXTENDS ResidentCaches
=============================================================================
