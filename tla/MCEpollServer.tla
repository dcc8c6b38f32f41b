----------------------------- MODULE MCEpollServer -----------------------------
EXTENDS EpollServer
===============================================================================
