----------------------------- MODULE MCApplication -----------------------------
\* Model checking of Application: three starts of the program may race, and a
\* process that is gone may be started again.
EXTENDS Application
=============================================================================
