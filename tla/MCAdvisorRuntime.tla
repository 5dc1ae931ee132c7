-------------------------- MODULE MCAdvisorRuntime --------------------------
EXTENDS AdvisorRuntime

\* advisor.syncBacklog at its strictest, and one step laxer.
OneOrTwo == {1, 2}
=============================================================================
