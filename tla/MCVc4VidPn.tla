------------------------------ MODULE MCVc4VidPn ------------------------------
EXTENDS Vc4VidPn
=============================================================================
