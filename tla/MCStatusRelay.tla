---------------------------- MODULE MCStatusRelay ---------------------------
EXTENDS StatusRelay

CONSTANTS o1, received, shipped

\* An order's statuses, the second of which the stage map does not have.
MCStage == <<received, NoStage, shipped>>
=============================================================================
