------------------------------ MODULE MCScmiClient ------------------------------
EXTENDS ScmiClient
===============================================================================
