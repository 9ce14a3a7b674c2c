------------------------------ MODULE KeyStore ------------------------------
(***************************************************************************)
(* The API key store of pkg/auth/store.go: in every process a MemoryStore, *)
(* two maps under one lock, which answers all reads; behind it, when the   *)
(* process reached Redis at its start, a RedisStore that writes each       *)
(* change through and reads Redis only at the next start.                  *)
(*                                                                         *)
(* Both maps of a MemoryStore point to the same key object.  The Redis     *)
(* index by hash is written and never read, and is left out, as are the    *)
(* descriptions and times of a key.                                        *)
(***************************************************************************)
EXTENDS Credential, Naturals, Sequences, FiniteSets

CONSTANTS
    Node,       \* the server processes
    Id,         \* ids of keys, those of the configured tokens and random ones
    Hash,       \* SHA-256 digests
    NoHash,     \* the empty string
    Nobody,     \* no key
    KindOf,     \* KindOf[i]: type and role of key i
    HashKey,    \* HashKey[i]: the digest of the plaintext of key i
    MaxFaults   \* bound on failing Redis commands

ASSUME KeyAssumption ==
    /\ Nobody \notin Id /\ NoHash \notin Hash
    /\ KindOf \in [Id -> Kind]
    /\ HashKey \in [Id -> Hash]
    /\ \A i, j \in Id : HashKey[i] = HashKey[j] => i = j
    /\ IsFiniteSet(Id)
ASSUME KeyFaultsAssumption == MaxFaults \in Nat

VARIABLES
    entry,    \* entry[n][i]: status of key i in keysByID of process n, or absent
    hash,     \* hash[n][i]: its KeyHash
    byHash,   \* byHash[n][h]: the key keysByHash has under h
    backed,   \* the processes whose store is a RedisStore
    meta,     \* meta[i]: the status in cee:keys:meta:<i>, or absent
    all,      \* cee:keys:all
    faults    \* the number of Redis commands that failed

memoryVars == <<entry, hash, byHash>>
redisVars  == <<meta, all, faults>>
storeVars  == <<memoryVars, backed, redisVars>>

NoEntry == [i \in Id |-> "absent"]
NoHashes == [i \in Id |-> NoHash]
NoIndex == [h \in Hash \cup {NoHash} |-> Nobody]

StoreInit ==
    /\ entry = [n \in Node |-> NoEntry] /\ hash = [n \in Node |-> NoHashes]
    /\ byHash = [n \in Node |-> NoIndex] /\ backed = {}
    /\ meta = [i \in Id |-> "absent"] /\ all = {} /\ faults = 0

StoreTypeOK ==
    /\ entry \in [Node -> [Id -> {"absent", "active", "revoked"}]]
    /\ hash \in [Node -> [Id -> Hash \cup {NoHash}]]
    /\ byHash \in [Node -> [Hash \cup {NoHash} -> Id \cup {Nobody}]]
    /\ backed \subseteq Node
    /\ meta \in [Id -> {"absent", "active", "revoked"}]
    /\ all \subseteq Id /\ faults \in 0 .. MaxFaults

Fault == faults < MaxFaults /\ faults' = faults + 1

-----------------------------------------------------------------------------
(* MemoryStore. *)

\* CreateKey and, for an id that is new, UpsertKey.
MemoryPut(n, i, h, s) ==
    /\ entry' = [entry EXCEPT ![n][i] = s]
    /\ hash' = [hash EXCEPT ![n][i] = h]
    /\ byHash' = [byHash EXCEPT ![n][h] = i]

MemoryCreate(n, i, h, s) ==
    /\ entry[n][i] = "absent" /\ byHash[n][h] = Nobody
    /\ MemoryPut(n, i, h, s)

\* UpsertKey with an active key: the old digest of the id leaves the index first.
MemoryUpsert(n, i) ==
    /\ entry' = [entry EXCEPT ![n][i] = "active"]
    /\ hash' = [hash EXCEPT ![n][i] = HashKey[i]]
    /\ byHash' = [byHash EXCEPT ![n] =
                    [h \in Hash \cup {NoHash} |->
                        IF h = HashKey[i] THEN i
                        ELSE IF entry[n][i] # "absent" /\ h = hash[n][i] THEN Nobody
                        ELSE @[h]]]

ActiveMasters(n) == {i \in Id : KindOf[i] = AuthMaster /\ entry[n][i] = "active"}

\* Variant: revoked masters count.
LastMasterEver(n, i) ==
    /\ entry[n][i] = "active" /\ KindOf[i] = AuthMaster
    /\ Cardinality({j \in Id : KindOf[j] = AuthMaster /\ entry[n][j] # "absent"}) <= 1

\* RevokeKey refuses: the last active master.
LastMaster(n, i) ==
    /\ entry[n][i] = "active" /\ KindOf[i] = AuthMaster
    /\ Cardinality(ActiveMasters(n)) <= 1

\* Variant: the status is set in a clone of the key.
MemoryRevokeClone(n, i) ==
    /\ entry[n][i] # "absent" /\ ~LastMaster(n, i)
    /\ UNCHANGED memoryVars

MemoryRevoke(n, i) ==
    /\ entry[n][i] # "absent" /\ ~LastMaster(n, i)
    /\ entry' = [entry EXCEPT ![n][i] = "revoked"]
    /\ UNCHANGED <<hash, byHash>>

\* GetKeyByHash with the digest of the plaintext of key i: the key that it finds.
Found(n, i) == byHash[n][HashKey[i]]

\* That key is there and active.
Authenticates(n, i) == Found(n, i) # Nobody /\ entry[n][Found(n, i)] = "active"

-----------------------------------------------------------------------------
(* RedisStore. *)

\* The pipeline SET meta, SET hash, SADD all, in CreateKey and UpsertKey.
Persist(i) ==
    /\ meta' = [meta EXCEPT ![i] = "active"] /\ all' = all \cup {i}
    /\ UNCHANGED faults

\* The pipeline fails, with any of its commands done or not.
PersistFails(i) ==
    /\ Fault
    /\ meta' \in {meta, [meta EXCEPT ![i] = "active"]}
    /\ all' \in {all, all \cup {i}}

\* The SET of RevokeKey, with the status the cache has by now.
PersistStatus(n, i) ==
    /\ meta' = [meta EXCEPT ![i] = entry[n][i]]
    /\ UNCHANGED <<all, faults>>

PersistStatusFails(n, i) ==
    /\ Fault /\ UNCHANGED all
    /\ meta' \in {meta, [meta EXCEPT ![i] = entry[n][i]]}

\* The digest that a key decoded from Redis has: KeyHash is json:"-".
DecodedHash(i) == NoHash

\* What hydrate may leave in the cache: CreateKey takes the decoded keys in the
\* order of SMEMBERS and refuses a digest it has already.
Hydratable(K) ==
    /\ K \subseteq {i \in all : meta[i] # "absent"}
    /\ \A i, j \in K : DecodedHash(i) = DecodedHash(j) => i = j

\* What it leaves when no command fails.
Hydrated(K) ==
    /\ Hydratable(K)
    /\ \A i \in all : meta[i] # "absent" => \E j \in K : DecodedHash(i) = DecodedHash(j)

\* NewStore with Redis: a new cache with the hydrated keys.  The error of SMEMBERS
\* or of a GET costs keys and not the start.
OpenRedisStore(n) ==
    /\ backed' = backed \cup {n}
    /\ \E K \in SUBSET Id :
          /\ (Hydrated(K) /\ UNCHANGED faults) \/ (Hydratable(K) /\ Fault)
          /\ entry' = [entry EXCEPT ![n] = [i \in Id |-> IF i \in K THEN meta[i] ELSE "absent"]]
          /\ hash' = [hash EXCEPT ![n] = [i \in Id |-> IF i \in K THEN DecodedHash(i) ELSE NoHash]]
          /\ byHash' = [byHash EXCEPT ![n] =
                          [h \in Hash \cup {NoHash} |->
                              IF \E i \in K : DecodedHash(i) = h
                              THEN CHOOSE i \in K : DecodedHash(i) = h ELSE Nobody]]
    /\ UNCHANGED <<meta, all>>

\* NewStore without Redis, or when Redis does not answer the ping.
OpenMemoryStore(n) ==
    /\ backed' = backed \ {n}
    /\ entry' = [entry EXCEPT ![n] = NoEntry] /\ hash' = [hash EXCEPT ![n] = NoHashes]
    /\ byHash' = [byHash EXCEPT ![n] = NoIndex]
    /\ UNCHANGED <<meta, all>>

\* One turn of Bootstrap for the configured token of id i.
Bootstrap(n, i) ==
    \/ /\ entry[n][i] # "absent" /\ hash[n][i] = HashKey[i]
       /\ UNCHANGED <<memoryVars, redisVars>>
    \/ /\ entry[n][i] = "absent" \/ hash[n][i] # HashKey[i]
       /\ \/ /\ MemoryUpsert(n, i)
             /\ IF n \in backed THEN Persist(i) ELSE UNCHANGED redisVars
          \/ n \in backed /\ PersistFails(i) /\ UNCHANGED memoryVars
=============================================================================
