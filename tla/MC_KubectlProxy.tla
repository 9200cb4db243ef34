---------------------------- MODULE MC_KubectlProxy ----------------------------
EXTENDS KubectlProxy
===============================================================================
