----------------------------- MODULE MCVc4Scanout -----------------------------
EXTENDS Vc4Scanout
CONSTANTS b0, b1, b2
MCBuffers == {b0, b1, b2}
=============================================================================
