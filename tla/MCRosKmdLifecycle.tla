-------------------------- MODULE MCRosKmdLifecycle --------------------------
\* The adapter with two submissions in flight.
EXTENDS RosKmdLifecycle
=============================================================================
