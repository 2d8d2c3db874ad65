-------------------------------- MODULE MCIbd -------------------------------
EXTENDS Ibd
=============================================================================
