------------------------------ MODULE MCSpiServer ------------------------------
EXTENDS SpiServer
===============================================================================
