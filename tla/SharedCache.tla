------------------------------ MODULE SharedCache ------------------------------
(***************************************************************************)
(* SharedCache of src/build/distributed.py: artifacts that the builders of *)
(* several machines put under keys, in a directory they all mount ("nfs")  *)
(* or in a service ("redis", "s3").  Whoever has no client of the service, *)
(* or whose call of it fails, falls back on a spill directory of its own.  *)
(*                                                                         *)
(* An artifact is the number of the put that stored it; of a file that     *)
(* does not exist nothing is put.                                          *)
(***************************************************************************)
EXTENDS Naturals

CONSTANTS Builders,   \* machines that use the cache
          Artifacts,  \* keys: the ids of tasks
          Mount,      \* the directory all of them see
          MaxPuts     \* bound on the puts of one key

VARIABLES mode,     \* "nfs" or "service"
          client,   \* the builders whose _client was made
          service,  \* what the service holds of each key; 0 for nothing
          spill,    \* what each directory holds
          puts,     \* puts of a key that have returned True
          fetched   \* what the last get returned; 0 for False

shared == <<mode, client, service, spill, puts, fetched>>

\* _init_redis and _init_s3: a builder without the package, or whose first ping
\* fails, has no client for good.
CacheInit ==
  /\ mode \in {"nfs", "service"}
  /\ client \in (IF mode = "nfs" THEN {{}} ELSE SUBSET Builders)
  /\ service = [k \in Artifacts |-> 0]
  /\ spill = [d \in Builders \cup {Mount} |-> [k \in Artifacts |-> 0]]
  /\ puts = [k \in Artifacts |-> 0]
  /\ fetched = 0

\* _spill
Directory(b) == IF mode = "nfs" THEN Mount ELSE b

PutInService(b, k) ==
  /\ b \in client
  /\ service' = [service EXCEPT ![k] = puts[k] + 1]
  /\ UNCHANGED spill

\* There is no client, or its call fails.
PutInSpill(b, k) ==
  /\ spill' = [spill EXCEPT ![Directory(b)][k] = puts[k] + 1]
  /\ UNCHANGED service

Put(b, k) ==
  /\ puts[k] < MaxPuts
  /\ PutInService(b, k) \/ PutInSpill(b, k)
  /\ puts' = [puts EXCEPT ![k] = @ + 1]
  /\ UNCHANGED <<mode, client, fetched>>

\* The service answers, or it knows nothing or fails and the spill is tried.
Get(b, k) ==
  /\ \/ b \in client /\ service[k] # 0 /\ fetched' = service[k]
     \/ fetched' = spill[Directory(b)][k]
  /\ UNCHANGED <<mode, client, service, spill, puts>>

CacheNext == \E b \in Builders, k \in Artifacts : Put(b, k) \/ Get(b, k)

CacheSpec == CacheInit /\ [][CacheNext]_shared

-----------------------------------------------------------------------------
\* What _run_one says of its put: "cache the produced artefact for other
\* workers".  Once a put of a key has returned True, every builder with a client
\* of the service can get the artifact.
PutIsShared ==
  \A b \in client, k \in Artifacts :
    puts[k] > 0 => service[k] # 0 \/ spill[Directory(b)][k] # 0
=============================================================================
