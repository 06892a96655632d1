--------------------------- MODULE MCRosUmdTexture ---------------------------
EXTENDS RosUmdTexture

\* Less than a tile, a width that is no multiple of a micro-tile, and two
\* tiles each way with a part of the second one.
MCSizes == {[w |-> 3, h |-> 2], [w |-> 8, h |-> 4], [w |-> 11, h |-> 7],
            [w |-> 17, h |-> 5]}
MCPadding == {0, 1, 6}
=============================================================================
