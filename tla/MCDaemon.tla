------------------------------ MODULE MCDaemon ------------------------------
(* Instances of Daemon for TLC.                                            *)
EXTENDS Daemon

CONSTANTS t1, t2, k1

File(timeout, checked, key) == [timeout |-> timeout, verify |-> checked, key |-> key]

DefaultSettings == File(t1, FALSE, NoKey)

\* A file that differs from the default settings in everything, and the two kinds
\* of bad ones.
TheFiles == {File(t2, TRUE, k1), BadSecret, BadFile}

\* Everything, an engine and no more, and the bare daemon.
TheDeployments == {Options, {"engine"}, {}}

\* What is loaded and shown beside the engine makes no difference to a reload: two of
\* them, which may overlap, with the engine alone.
TheReloads == [o \in TheDeployments |-> IF o = {"engine"} THEN 2 ELSE 1]
=============================================================================
