--------------------------- MODULE MCProtocolServers ---------------------------
EXTENDS ProtocolServers
===============================================================================
