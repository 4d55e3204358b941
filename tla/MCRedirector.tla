---------------------------- MODULE MCRedirector ----------------------------
(* Instances of Redirector for TLC: small trees, and the faults that each   *)
(* run considers.                                                           *)
EXTENDS Redirector, TLC

CONSTANTS s1, t1, t2, h1, h2

\* The same name in two directories, and a name DOS cannot see; two files, one
\* with a dot and one without.
MCTree == {<<>>, <<"D">>, <<"F">>, <<"D", "F">>, <<"D", "long.name">>}
MCFlat == {<<>>, <<"F">>, <<"G">>}
MCShort == {"D", "F", "G"}
MCBare == {"G"}
MCSearch == {s1}
MCAll == {MCShort}
MCSlot1 == {t1}
MCFd1 == {h1}
MCSlots == {t1, t2}
MCFd == {h1, h2}

None == [on |-> {}, done |-> TRUE]
Lost(c, d) == [on |-> {c}, done |-> d]
MCNoFault == {None}
MCSharedFaults == {None, Lost("READDIRX", TRUE), Lost("CLOSEDIR", TRUE)}
MCTreeFaults == {None, Lost("CLOSEDIR", TRUE), Lost("MKDIR", TRUE), Lost("RMDIR", TRUE),
                 Lost("UNLINK", TRUE), Lost("RENAME", TRUE)}
MCFileFaults == {None, Lost("OPENDIRX", TRUE), Lost("READ", TRUE), Lost("WRITE", TRUE)}
                \cup {Lost("OPEN", TRUE), Lost("CLOSE", FALSE)}
MCFileSymmetry == Permutations(MCSlots) \cup Permutations(MCFd)
=============================================================================
