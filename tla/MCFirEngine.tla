---- MODULE MCFirEngine ----
\* An instance of the generated circuit for the model checker: two FIRs on
\* one MAC, with 5 and 4 coefficients and a sample every 16 clocks.
EXTENDS FirEngine

MCFilters == <<[taps |-> 5, half |-> 32], [taps |-> 4, half |-> 32]>>
MCSamples == <<2, 5>>
MCResetSamples == <<1, 1>>
OneSample == <<0, 1>>

=============================================================================
