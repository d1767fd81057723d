----------------------------- MODULE MCHardware -----------------------------
EXTENDS HardwareInterface
=============================================================================
