--------------------- MODULE MCCompatibilityVerification ---------------------
EXTENDS CompatibilityVerification
=============================================================================
