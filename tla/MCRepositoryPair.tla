--------------------------- MODULE MCRepositoryPair ---------------------------
\* Two Repositories that both adopt the BorgBase repository i1.
EXTENDS RepositoryController, TLC

CONSTANTS r1, r2, app, i1, p1, p2

MCRemoteName == [r \in Repos |-> app]
MCAdopting == [r \in Repos |-> i1]
\* Both were given a password that does not open i1: no init Job succeeds, and
\* the passes go on.
MCSeeds == [r \in Repos |-> p1]
MCRank == [r \in Repos |-> IF r = r1 THEN 1 ELSE 2]
Unborn == [state |-> "unborn", name |-> None, restic |-> TRUE, keys |-> {}, used |-> FALSE]
MCAdoptable == {[i \in RemoteIds |->
  IF i = i1 THEN [state |-> "live", name |-> app, restic |-> TRUE, keys |-> {p2}, used |-> TRUE]
  ELSE Unborn]}
===============================================================================
