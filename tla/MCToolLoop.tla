------------------------------ MODULE MCToolLoop ------------------------------
EXTENDS ToolLoop
=============================================================================
