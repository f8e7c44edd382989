---------------------------- MODULE MCLoginThrottle ----------------------------
EXTENDS LoginThrottle
================================================================================
