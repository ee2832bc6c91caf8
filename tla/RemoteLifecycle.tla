---------------------------- MODULE RemoteLifecycle ---------------------------
(***************************************************************************)
(* What a user of the operator is promised about the data BorgBase keeps,  *)
(* without objects, caches and passes: a repository is created once,       *)
(* initialized once, with one password, and gains snapshots; it is         *)
(* destroyed, by the operator, only if that was asked for, or removed by   *)
(* hand.  Nothing else ever happens to it.                                 *)
(***************************************************************************)
CONSTANTS RemoteIds, Passwords

VARIABLES
  data,      \* [RemoteIds -> [state, keys, used]]
  requested  \* the IDs whose destruction was asked for

Data == [state : {"unborn", "live", "destroyed", "removed"}, keys : SUBSET Passwords,
         used : BOOLEAN]
Nothing(state) == [state |-> state, keys |-> {}, used |-> FALSE]

\* Repositories from before the operator may be there, with keys and snapshots.
Init ==
  /\ data \in [RemoteIds -> Data]
  /\ \A i \in RemoteIds : data[i].state \in {"unborn", "live"}
  /\ requested = {}

Create(i) ==
  /\ data[i].state = "unborn"
  /\ data' = [data EXCEPT ![i] = Nothing("live")]

Initialize(i, p) ==
  /\ data[i].state = "live" /\ data[i].keys = {}
  /\ data' = [data EXCEPT ![i].keys = {p}]

Store(i) ==
  /\ data[i].state = "live" /\ data[i].keys # {}
  /\ data' = [data EXCEPT ![i].used = TRUE]

Destroy(i) ==
  /\ data[i].state = "live" /\ i \in requested
  /\ data' = [data EXCEPT ![i] = Nothing("destroyed")]

Remove(i) ==
  /\ data[i].state = "live"
  /\ data' = [data EXCEPT ![i] = Nothing("removed")]

Request ==
  /\ requested' \in SUBSET RemoteIds
  /\ requested \subseteq requested'
  /\ UNCHANGED data

Next ==
  \/ \E i \in RemoteIds :
       /\ \/ Create(i) \/ Store(i) \/ Destroy(i) \/ Remove(i)
          \/ \E p \in Passwords : Initialize(i, p)
       /\ UNCHANGED requested
  \/ Request

Spec == Init /\ [][Next]_<<data, requested>>
===============================================================================
