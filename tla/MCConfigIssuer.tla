---------------------------- MODULE MCConfigIssuer -----------------------------
EXTENDS ConfigIssuer

================================================================================
