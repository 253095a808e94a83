-------------------------- MODULE MCBreakerExample --------------------------
EXTENDS BreakerExample

=============================================================================
