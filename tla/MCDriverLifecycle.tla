---- MODULE MCDriverLifecycle ----
\* The four drivers for the model checker: they need no bounds.
EXTENDS DriverLifecycle

=============================================================================
