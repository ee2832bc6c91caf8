-------------------------- MODULE MCRepositorySingle --------------------------
\* One Repository that creates its BorgBase repository, on an empty account or
\* on one where a borg repository has taken its name.
EXTENDS RepositoryController, TLC

CONSTANTS r1, app, i1, i2

MCRemoteName == [r \in Repos |-> app]
MCNone == [r \in Repos |-> None]
MCRank == [r \in Repos |-> 0]
Unborn == [state |-> "unborn", name |-> None, restic |-> TRUE, keys |-> {}, used |-> FALSE]
Borg == [state |-> "live", name |-> app, restic |-> FALSE, keys |-> {}, used |-> TRUE]
MCEmpty == {[i \in RemoteIds |-> Unborn]}
MCNameTaken == MCEmpty \cup {[i \in RemoteIds |-> IF i = i1 THEN Borg ELSE Unborn]}
\* The passwords are interchangeable.
MCSymmetry == Permutations(Passwords)
===============================================================================
