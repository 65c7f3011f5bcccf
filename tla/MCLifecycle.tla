---------------------------- MODULE MCLifecycle ----------------------------
EXTENDS Lifecycle

\* The sweeps of serve.
SweepsOfServe == <<"sessions", "invitations">>
=============================================================================
