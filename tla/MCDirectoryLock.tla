-------------------------- MODULE MCDirectoryLock --------------------------
(***************************************************************************)
(* Instances of DirectoryLock for TLC: a directory with a file, a          *)
(* subdirectory with a file and a symlink that leads back.                 *)
(***************************************************************************)
EXTENDS DirectoryLock, TLC

CONSTANTS top, sub, a, s, l, t1, k1, p1

TheBases == {a, s, l}
TheSubDirs == (<<top, s>> :> sub)
TheFiles == {<<top, a>>, <<sub, a>>}
TheLinks == {<<sub, l>>}
TheRoots == {<<>>}
TheCreds == {<<"key", k1>>, <<"pass", p1>>}
TheWalkCreds == {<<"key", k1>>}
=============================================================================
