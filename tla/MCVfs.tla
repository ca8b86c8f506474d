-------------------------------- MODULE MCVfs -------------------------------
EXTENDS Vfs

\* A mount point, one below it, names under both, a relative one and the
\* parent.
MCPaths == {<<"", "d">>, <<"", "d", "a">>, <<"", "d", "a", "a">>, <<"a">>, <<"..">>}
MCTargets == {<<"a">>}
MCMountPoints == {<<"", "d">>, <<"", "d", "a">>}
MCContents == {<<1>>, <<2, 2>>}
====
