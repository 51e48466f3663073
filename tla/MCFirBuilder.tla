---- MODULE MCFirBuilder ----
\* Instances of the FirEngine builder for the model checker.
EXTENDS FirBuilder

=============================================================================
