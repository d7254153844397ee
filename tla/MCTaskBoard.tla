----------------------------- MODULE MCTaskBoard -----------------------------
EXTENDS TaskBoard
=============================================================================
