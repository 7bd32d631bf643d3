-------------------------- MODULE MCShellSessions --------------------------
(* Small instances of ShellSessions for TLC.                                    *)
EXTENDS ShellSessions

CONSTANTS s1, o1, w1
MCOneShell == {s1}
MCOther == {o1}
MCOneId == {w1}
=============================================================================
