--------------------------- MODULE MCPrefixNames ---------------------------
(***************************************************************************)
(* Names, arguments and keys for PrefixNames and ToolCommands.             *)
(***************************************************************************)
EXTENDS ToolCommands

TheTokens == STRING
TheModules == {"VERSION", "ENCRYPTION"}
TheDigits == {"1", "2"}

\* Names without '#': with '-', with a module word, with a digit.
PlainNames == { <<"f">>, <<"f", "-", "1">>, <<"VERSION", "f">> }

\* A marker, a version, a hook with a version number, a key path.
PlainArgs == { << <<"key">> >>, << <<"1">> >>, << <<"1", "2">> >>,
               << <<"restore">>, <<"2">> >>, << <<"lock">>, <<"|", "k">> >> }

Mount == << "/", "mnt" >>

\* Keys inside and outside the mount, one with a blank, and keys the tool
\* refuses or the daemon misreads.
TheKeys == { <<"/", "mnt", "/", "d", "/", "k">>, <<"/", "x">>, <<"/", "mnt", "/", "k", " ", "2">>,
             <<"/", "k", "-", "1">>, <<"/", "k", "|", "x">> }

Typed == << "secret" >>

TheNumbers == { <<"1">>, <<"1", "2">> }
=============================================================================
