------------------------------ MODULE MCEngine ------------------------------
EXTENDS EngineInv
=============================================================================
