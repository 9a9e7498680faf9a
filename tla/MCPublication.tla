--------------------------- MODULE MCPublication ---------------------------
\* Instances of Publication for TLC.
EXTENDS Publication

\* One timer of each transport, and one that shares the fixed file with it.
OneEach == {<<"json", "json">>, <<"auto", "json">>, <<"ipc", "json">>}
=============================================================================
