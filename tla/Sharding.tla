------------------------------ MODULE Sharding ------------------------------
(***************************************************************************)
(* --shards: CtsTest.split makes one CtsTest per shard; each is handed to  *)
(* a device of its own, computes the whole sorted package list there and   *)
(* keeps every totalShards-th package of it (testtype/CtsTest.java).  The  *)
(* shards share nothing.  With --resume a shard whose device is lost goes  *)
(* on with another device and the list it has.                             *)
(***************************************************************************)
EXTENDS Integers, Sequences

CONSTANTS
  ShardDevices, \* those the shards may be given
  ListOn,       \* the sorted package list a shard computes on each device: the
                \* packages for the ABIs the device supports
  MaxShards     \* bound on --shards

None == "none"

ASSUME ShardAssumption ==
  /\ None \notin ShardDevices
  /\ ListOn \in [ShardDevices -> Seq(STRING)]
  \* package ids are distinct: the list is made from a set
  /\ \A d \in ShardDevices : \A m, n \in 1 .. Len(ListOn[d]) :
       ListOn[d][m] = ListOn[d][n] => m = n
  /\ MaxShards \in Nat \ {0}

VARIABLES
  total,    \* mTotalShards, 0 before split()
  state,    \* of every shard
  source,   \* the device on which a shard computed mTestPackageList
  next,     \* how many packages of that list the shard has gone through
  ranBy     \* history: which shard ran which package

shardVars == <<total, state, source, next, ranBy>>

AllShards == 0 .. MaxShards - 1
Shards    == 0 .. total - 1
Packages  == UNION {{ListOn[d][n] : n \in 1 .. Len(ListOn[d])} : d \in ShardDevices}

ShardInit ==
  /\ total = 0
  /\ state = [s \in AllShards |-> "queued"]
  /\ source = [s \in AllShards |-> None]
  /\ next = [s \in AllShards |-> 0]
  /\ ranBy = {}

\* One shard stands for a test that is not split.
Split ==
  /\ total = 0
  /\ total' \in 1 .. MaxShards
  /\ UNCHANGED <<state, source, next, ranBy>>

\* Faulty forms of the next definition: one too many, and the packages of a
\* shard taken for the stride.
StepBehind(n) == (IF total < n THEN total ELSE n) + 1
BlockStep(n)  == n \div total

\* Math.min(mTotalShards, numTestPackages), for a list of n packages.
Step(n) == IF total < n THEN total ELSE n

\* for (int i = mShardAssignment; i < numTestPackages; i += totalShards): the
\* zero-based place in the whole list of package j of shard s.
Place(s, j, n) == s + j * Step(n)

Size(d) == Len(ListOn[d])

\* setupTestPackageList on device d: a list that is not empty is kept.
SetUp(s, d) ==
  /\ s \in Shards /\ state[s] = "queued"
  /\ state' = [state EXCEPT ![s] = "running"]
  /\ source' = IF source[s] # None /\ s < Size(source[s]) THEN source
               ELSE [source EXCEPT ![s] = d]
  /\ UNCHANGED <<total, next, ranBy>>

HasNext(s, n) == Place(s, next[s], n) < n

RunPackage(s) ==
  /\ s \in Shards /\ state[s] = "running"
  /\ HasNext(s, Size(source[s]))
  /\ ranBy' = ranBy \cup {<<s, ListOn[source[s]][Place(s, next[s], Size(source[s])) + 1]>>}
  /\ next' = [next EXCEPT ![s] = @ + 1]
  /\ UNCHANGED <<total, state, source>>

ShardDone(s) ==
  /\ s \in Shards /\ state[s] = "running"
  /\ ~HasNext(s, Size(source[s]))
  /\ state' = [state EXCEPT ![s] = "done"]
  /\ UNCHANGED <<total, source, next, ranBy>>

\* The shard is resumed elsewhere, from the package whose index it kept.
DeviceLost(s) ==
  /\ s \in Shards /\ state[s] = "running"
  /\ state' = [state EXCEPT ![s] = "queued"]
  /\ next' = [next EXCEPT ![s] = IF @ = 0 THEN 0 ELSE @ - 1]
  /\ UNCHANGED <<total, source, ranBy>>

ShardNext ==
  \/ Split
  \/ \E s \in AllShards :
       \/ \E d \in ShardDevices : SetUp(s, d)
       \/ RunPackage(s) \/ ShardDone(s) \/ DeviceLost(s)

ShardSpec == ShardInit /\ [][ShardNext]_shardVars
-----------------------------------------------------------------------------
(* Properties.                                                             *)

ShardTypeOK ==
  /\ total \in 0 .. MaxShards
  /\ state \in [AllShards -> {"queued", "running", "done"}]
  /\ source \in [AllShards -> ShardDevices \cup {None}]
  /\ next \in [AllShards -> Nat]
  /\ ranBy \subseteq AllShards \X Packages

\* No package is run by two shards.
NoneTwice == \A x, y \in ranBy : x[2] = y[2] => x[1] = y[1]

\* When every shard is done, every package was run.
NoneMissed ==
  (total > 0 /\ \A s \in Shards : state[s] = "done") =>
    \A x \in Packages : \E s \in Shards : <<s, x>> \in ranBy
=============================================================================
