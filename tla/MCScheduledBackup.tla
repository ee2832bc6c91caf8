--------------------------- MODULE MCScheduledBackup --------------------------
\* One backup with its triggers and runs, or two that may report to one slug.
EXTENDS ScheduledBackupController, TLC

CONSTANTS b1, b2, s1, s2, c1, c2

MCRank == [b \in Backups |-> IF b = b1 THEN 1 ELSE 2]
MCStem == [b \in Backups |-> b]
MCForbid == [b \in Backups |-> "Forbid"]
MCAllow == [b \in Backups |-> "Allow"]
MCUnreported == [b \in Backups |-> {None}]
MCFirst == [b \in Backups |-> IF b = b1 THEN 1 ELSE 0]
MCBoth == [b \in Backups |-> IF b = b1 THEN 1 ELSE 2]
\* The elder may come to the slug of the younger later.
MCElderMoves == [b \in Backups |-> IF b = b1 THEN {None, s1} ELSE {s1}]
MCOneAfterAnother == [c \in Commands |-> IF c = c1 THEN {1} ELSE {2}]
MCAnyTime == [c \in Commands |-> 1..MaxClock]
MCSymmetry == Permutations(Commands)
===============================================================================
