------------------------------ MODULE MCVirtioScmi ------------------------------
EXTENDS VirtioScmi
===============================================================================
