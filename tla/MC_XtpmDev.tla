------------------------------ MODULE MC_XtpmDev ------------------------------
EXTENDS XtpmDev, TLC
====
