--------------------------- MODULE KeyServerProofs ---------------------------
(***************************************************************************)
(* KInv is an invariant of KeyServer for any number of processes, requests *)
(* and keys, with and without Redis; the promises of the key store follow. *)
(***************************************************************************)
EXTENDS KeyServerInvariant, FiniteSetTheorems, TLAPS

USE DEF memoryVars, redisVars, storeVars, callVars, nodeVars, historyVars, Kind, Label, Code

\* The configured ids are ids.
LEMMA ConfiguredIds == Configured \subseteq Id /\ \A k \in 1 .. Len(BootList) : BootList[k] \in Configured
BY ServerAssumption DEF Configured

\* Among more than one active masters there is another one: what the count in
\* RevokeKey (store.go:141) is for.
LEMMA AnotherMaster ==
    ASSUME NEW n \in Node, NEW i \in Id, entry[n][i] = "active", KindOf[i] = AuthMaster,
           ~LastMaster(n, i)
    PROVE  \E j \in ActiveMasters(n) : j # i
<1>1. IsFiniteSet(ActiveMasters(n))
  BY KeyAssumption, FS_Subset DEF ActiveMasters
<1>2. ~(Cardinality(ActiveMasters(n)) <= 1)
  BY DEF LastMaster
<1>3. ActiveMasters(n) # {i}
  <2>1. Cardinality({i}) = 1
    BY FS_Singleton
  <2> QED BY <1>2, <2>1
<1>4. i \in ActiveMasters(n)
  BY DEF ActiveMasters
<1> QED BY <1>3, <1>4

\* A request that only reads (middleware.go:125, 193, 214, 231) preserves KInv: the
\* call was idle and stays so.
LEMMA ReadPreserves ==
    ASSUME KInv, NEW c \in Call, pc[c] = "Idle", UNCHANGED <<storeVars, nodeVars, pc, used, historyVars>>,
           NEW o \in Op, NEW k \in Id \cup {Nobody}, NEW t \in Id \cup {Nobody},
           NEW code \in {200, 400, 401, 403}, Answer(c, o, k, t, code)
    PROVE  KInv'
<1> USE DEF KInv, Answer
<1>0. /\ caller \in [Call -> Id \cup {Nobody}] /\ target \in [Call -> Id \cup {Nobody}]
      /\ op \in [Call -> Op \cup {"none"}]
      /\ reply \in [Call -> Code]
  BY DEF TypeOK
<1>3. \A d \in Call : pc[d] # "Idle" => target'[d] = target[d] /\ caller'[d] = caller[d]
  BY <1>0
<1>1. TypeOK'
  <2>1. /\ caller' \in [Call -> Id \cup {Nobody}] /\ target' \in [Call -> Id \cup {Nobody}]
        /\ op' \in [Call -> Op \cup {"none"}]
    BY <1>0
  <2>2. reply' \in [Call -> Code]
    BY <1>0
  <2>3. \A d \in Call : pc'[d] # "Idle" => caller'[d] \in Id /\ target'[d] \in Id
    BY <1>3 DEF TypeOK
  <2> QED BY <2>1, <2>2, <2>3 DEF TypeOK, StoreTypeOK
<1>2. Alive' /\ OwnDigest' /\ IndexAgrees'
  BY DEF Alive, OwnDigest, IndexAgrees
<1>4. Fresh'
  BY <1>3 DEF Fresh
<1>5. Progress'
  BY <1>3 DEF Progress
<1>6. Announced' /\ Masters'
  BY DEF Announced, IssuedIsDurable, Masters, ActiveMasters
<1> QED BY <1>1, <1>2, <1>4, <1>5, <1>6

\* A request without a token (middleware.go:130) preserves KInv.
LEMMA AnonymousPreserves ==
    ASSUME KInv, NEW c \in Call, NEW o \in Op, Anonymous(c, o)
    PROVE  KInv'
<1>1. PICK code \in {200, 401, 403} : Answer(c, o, Nobody, Nobody, code)
  BY DEF Anonymous
<1> QED BY <1>1, ReadPreserves DEF Anonymous

\* What GetKeyByHash (store.go:89) returns is a key or nothing.
LEMMA FoundType ==
    ASSUME TypeOK, NEW n \in Node, NEW i \in Id
    PROVE  Found(n, i) \in Id \cup {Nobody}
BY KeyAssumption DEF TypeOK, StoreTypeOK, Found

\* A request that is answered from the caller's key alone preserves KInv.
LEMMA ServePreserves ==
    ASSUME KInv, NEW c \in Call, NEW o \in Op, NEW i \in Id, NEW t \in Id \cup {Nobody},
           NEW want \in {"none", "master", "guest"}, Serve(c, o, i, t, want)
    PROVE  KInv'
<1>1. Home[c] \in Node
  BY ServerAssumption
<1>2. Found(Home[c], i) \in Id \cup {Nobody}
  BY <1>1, FoundType DEF KInv
<1>3. PICK k \in Id \cup {Nobody}, u \in Id \cup {Nobody}, code \in {200, 400, 401, 403} :
         Answer(c, o, k, u, code)
  <2>1. CASE ~Authenticates(Home[c], i) /\ Answer(c, o, Nobody, Nobody, 401)
    BY <2>1
  <2>2. CASE Answer(c, o, Found(Home[c], i), t,
                    IF o = "generate" /\ ~ValidateCombination(KindOf[t]) THEN 400 ELSE 403)
    BY <2>2, <1>2
  <2>3. CASE Answer(c, o, Found(Home[c], i), Nobody, 200)
    BY <2>3, <1>2
  <2> QED BY <2>1, <2>2, <2>3 DEF Serve
<1> QED BY <1>3, ReadPreserves DEF Serve

\* The types of the variables of the calls after an answer or a return.
LEMMA CallTypes ==
    ASSUME TypeOK
    PROVE  /\ pc \in [Call -> Label]
           /\ caller \in [Call -> Id \cup {Nobody}] /\ target \in [Call -> Id \cup {Nobody}]
           /\ op \in [Call -> Op \cup {"none"}]
           /\ reply \in [Call -> Code]
           /\ \A c \in Call : Home[c] \in Node /\ (pc[c] # "Idle" => target[c] \in Id)
BY ServerAssumption DEF TypeOK

\* The beginning of POST /api/keys (auth.go:41): the new id is nowhere yet.
LEMMA BeginGeneratePreserves ==
    ASSUME KInv, NEW c \in Call, NEW i \in Id, NEW t \in Id, BeginGenerate(c, i, t)
    PROVE  KInv'
<1> USE DEF KInv, BeginGenerate, Answer
<1>0. Found(Home[c], i) \in Id /\ Home[c] \in Node
  BY FoundType, CallTypes DEF Authenticates
<1>1. TypeOK'
  <2>1. /\ pc' \in [Call -> Label]
        /\ caller' \in [Call -> Id \cup {Nobody}] /\ target' \in [Call -> Id \cup {Nobody}]
    BY <1>0, CallTypes
  <2>2. op' \in [Call -> Op \cup {"none"}]
    BY CallTypes
  <2>3. reply' \in [Call -> Code]
    BY CallTypes
  <2>4. \A d \in Call : pc'[d] # "Idle" => caller'[d] \in Id /\ target'[d] \in Id
    BY <1>0, CallTypes DEF TypeOK
  <2>5. used' \subseteq Id
    BY DEF TypeOK
  <2>6. StoreTypeOK'
    BY DEF TypeOK, StoreTypeOK
  <2> QED BY <2>1, <2>2, <2>3, <2>4, <2>5, <2>6 DEF TypeOK
<1>2. Alive' /\ OwnDigest' /\ IndexAgrees'
  BY CallTypes DEF Alive, OwnDigest, IndexAgrees
<1>3. \A d \in Call : d # c => pc'[d] = pc[d] /\ target'[d] = target[d]
  BY CallTypes
<1>4. target'[c] = t /\ pc'[c] \in {"Create", "CreateCache"}
      /\ (pc'[c] = "Create" <=> Home[c] \in backed)
  BY CallTypes
<1>5. Fresh'
  BY <1>3, <1>4 DEF Fresh
<1>6. Progress'
  BY <1>3, <1>4 DEF Progress
<1>7. Announced' /\ Masters'
  BY DEF Announced, IssuedIsDurable, Masters, ActiveMasters
<1> QED BY <1>1, <1>2, <1>5, <1>6, <1>7

\* The beginning of DELETE /api/keys/{id} (auth.go:98).
LEMMA BeginRevokePreserves ==
    ASSUME KInv, NEW c \in Call, NEW i \in Id, NEW t \in Id, BeginRevoke(c, i, t)
    PROVE  KInv'
<1> USE DEF KInv, BeginRevoke, Answer
<1>0. Found(Home[c], i) \in Id /\ Home[c] \in Node
  BY FoundType, CallTypes DEF Authenticates
<1>1. TypeOK'
  <2>1. /\ pc' \in [Call -> Label]
        /\ caller' \in [Call -> Id \cup {Nobody}] /\ target' \in [Call -> Id \cup {Nobody}]
    BY <1>0, CallTypes
  <2>2. op' \in [Call -> Op \cup {"none"}]
    BY CallTypes
  <2>3. reply' \in [Call -> Code]
    BY CallTypes
  <2>4. \A d \in Call : pc'[d] # "Idle" => caller'[d] \in Id /\ target'[d] \in Id
    BY <1>0, CallTypes DEF TypeOK
  <2> QED BY <2>1, <2>2, <2>3, <2>4 DEF TypeOK, StoreTypeOK
<1>2. Alive' /\ OwnDigest' /\ IndexAgrees'
  BY CallTypes DEF Alive, OwnDigest, IndexAgrees
<1>3. \A d \in Call : d # c => pc'[d] = pc[d] /\ target'[d] = target[d]
  BY CallTypes
<1>4. target'[c] = t /\ pc'[c] = "Revoke"
  BY CallTypes
<1>5. Fresh'
  BY <1>3, <1>4 DEF Fresh
<1>6. Progress'
  BY <1>3, <1>4 DEF Progress
<1>7. Announced' /\ Masters'
  BY DEF Announced, IssuedIsDurable, Masters, ActiveMasters
<1> QED BY <1>1, <1>2, <1>5, <1>6, <1>7

\* A step of a call under way keeps TypeOK when it keeps the types of what it
\* may change.
LEMMA StepTypes ==
    ASSUME KInv, NEW c \in Call, pc[c] # "Idle",
           pc' \in [Call -> Label], \A d \in Call : d # c => pc'[d] = pc[d],
           reply' \in [Call -> Code], UNCHANGED <<caller, target, op, nodeVars, used>>,
           StoreTypeOK', kept' \subseteq Id, retired' \subseteq Id, revokedOn' \in [Node -> SUBSET Id]
    PROVE  TypeOK'
<1>1. \A d \in Call : pc'[d] # "Idle" => pc[d] # "Idle"
  OBVIOUS
<1> QED BY <1>1 DEF KInv, TypeOK

\* A call under way has a target and a process that runs.
LEMMA UnderWay ==
    ASSUME KInv, NEW c \in Call, pc[c] # "Idle"
    PROVE  Home[c] \in Node /\ target[c] \in Id /\ life[Home[c]] = "up"
BY CallTypes DEF KInv, Alive

\* The pipeline of CreateKey (store.go:236): the key is in Redis before it is in
\* the cache.
LEMMA CreatePersistPreserves ==
    ASSUME KInv, NEW c \in Call, CreatePersist(c)
    PROVE  KInv'
<1> USE DEF KInv, CreatePersist, Persist
<1>0. target[c] \in Id /\ meta \in [Id -> {"absent", "active", "revoked"}]
  BY CallTypes DEF TypeOK, StoreTypeOK
<1>1. StoreTypeOK'
  <2>1. meta' \in [Id -> {"absent", "active", "revoked"}] /\ all' \subseteq Id
    BY <1>0 DEF TypeOK, StoreTypeOK
  <2> QED BY <2>1 DEF TypeOK, StoreTypeOK
<1>2. /\ TypeOK' /\ pc'[c] = "CreateCache" /\ \A d \in Call : d # c => pc'[d] = pc[d]
      /\ Home[c] \in Node /\ life[Home[c]] = "up"
  <2>1. /\ kept' \subseteq Id /\ retired' \subseteq Id /\ revokedOn' \in [Node -> SUBSET Id]
    BY DEF TypeOK
  <2>2. /\ pc' \in [Call -> Label] /\ reply' \in [Call -> Code]
        /\ pc'[c] = "CreateCache" /\ \A d \in Call : d # c => pc'[d] = pc[d]
    BY CallTypes
  <2>3. TypeOK'
    BY <1>1, <2>1, <2>2, StepTypes
  <2> QED BY <2>2, <2>3, UnderWay
<1>3. Alive' /\ OwnDigest' /\ IndexAgrees'
  BY <1>2 DEF Alive, OwnDigest, IndexAgrees
<1>4. meta'[target[c]] = "active" /\ \A i \in Id : i # target[c] => meta'[i] = meta[i]
  BY <1>0
<1>5. target[c] \in used \ Configured /\ meta[target[c]] = "absent"
  BY <1>0 DEF Fresh
<1>6. Fresh'
  BY <1>0, <1>2, <1>4, <1>5 DEF Fresh
<1>7. Progress'
  BY <1>0, <1>2, <1>4, CallTypes DEF Progress
<1>8. Announced'
  BY <1>0, <1>4, <1>5, ConfiguredIds DEF Announced, IssuedIsDurable, TypeOK
<1>9. Masters'
  BY DEF Masters, ActiveMasters
<1> QED BY <1>2, <1>3, <1>6, <1>7, <1>8, <1>9

\* The pipeline fails (store.go:240): whatever reached Redis, no other key is touched.
LEMMA CreateFailsPreserves ==
    ASSUME KInv, NEW c \in Call, CreateFails(c)
    PROVE  KInv'
<1> USE DEF KInv, CreateFails, PersistFails, Fault, Return
<1>0. target[c] \in Id /\ meta \in [Id -> {"absent", "active", "revoked"}]
  BY CallTypes DEF TypeOK, StoreTypeOK
<1>1. StoreTypeOK'
  <2>1. /\ meta' = meta \/ meta' = [meta EXCEPT ![target[c]] = "active"]
        /\ all' = all \/ all' = all \cup {target[c]}
    OBVIOUS
  <2>2. meta' \in [Id -> {"absent", "active", "revoked"}]
    BY <2>1, <1>0
  <2>3. all' \subseteq Id
    BY <2>1, <1>0 DEF TypeOK, StoreTypeOK
  <2>4. faults' \in 0 .. MaxFaults
    BY KeyFaultsAssumption DEF TypeOK, StoreTypeOK
  <2> QED BY <2>2, <2>3, <2>4 DEF TypeOK, StoreTypeOK
<1>2. /\ TypeOK' /\ pc'[c] = "Idle" /\ \A d \in Call : d # c => pc'[d] = pc[d]
      /\ Home[c] \in Node /\ life[Home[c]] = "up"
  <2>1. /\ kept' \subseteq Id /\ retired' \subseteq Id /\ revokedOn' \in [Node -> SUBSET Id]
    BY DEF TypeOK
  <2>2. /\ pc' \in [Call -> Label] /\ reply' \in [Call -> Code]
        /\ pc'[c] = "Idle" /\ \A d \in Call : d # c => pc'[d] = pc[d]
    BY CallTypes
  <2>3. TypeOK'
    BY <1>1, <2>1, <2>2, StepTypes
  <2> QED BY <2>2, <2>3, UnderWay
<1>3. Alive' /\ OwnDigest' /\ IndexAgrees'
  BY <1>2 DEF Alive, OwnDigest, IndexAgrees
<1>4. /\ \A i \in Id : i # target[c] => meta'[i] = meta[i]
      /\ \A i \in Id : meta[i] # "absent" => meta'[i] = meta[i]
      /\ all \subseteq all'
  BY <1>0 DEF Fresh
<1>5. target[c] \in used
  BY DEF Fresh
<1>6. Fresh'
  BY <1>0, <1>2, <1>4, <1>5 DEF Fresh
<1>7. Progress'
  BY <1>0, <1>2, <1>4, CallTypes DEF Progress
<1>8. Announced'
  BY <1>0, <1>4, ConfiguredIds DEF Announced, IssuedIsDurable, TypeOK
<1>9. Masters'
  BY DEF Masters, ActiveMasters
<1> QED BY <1>2, <1>3, <1>6, <1>7, <1>8, <1>9

\* One entry of the maps of one process changes (store.go:56).
LEMMA PutFacts ==
    ASSUME StoreTypeOK, NEW n \in Node, NEW i \in Id, NEW h \in Hash \cup {NoHash},
           NEW s \in {"absent", "active", "revoked"}, MemoryPut(n, i, h, s)
    PROVE  /\ entry' \in [Node -> [Id -> {"absent", "active", "revoked"}]]
           /\ hash' \in [Node -> [Id -> Hash \cup {NoHash}]]
           /\ byHash' \in [Node -> [Hash \cup {NoHash} -> Id \cup {Nobody}]]
           /\ entry'[n][i] = s /\ hash'[n][i] = h /\ byHash'[n][h] = i
           /\ \A m \in Node, j \in Id : m # n \/ j # i =>
                    entry'[m][j] = entry[m][j] /\ hash'[m][j] = hash[m][j]
           /\ \A m \in Node, g \in Hash \cup {NoHash} : m # n \/ g # h => byHash'[m][g] = byHash[m][g]
BY DEF StoreTypeOK, MemoryPut

\* MemoryStore.CreateKey and the 201 (store.go:45, auth.go:57).
LEMMA CreateCachePreserves ==
    ASSUME KInv, NEW c \in Call, CreateCache(c)
    PROVE  KInv'
<1> DEFINE n == Home[c]
           t == target[c]
<1>n. n = Home[c] /\ t = target[c]
  OBVIOUS
<1>k. /\ TypeOK /\ StoreTypeOK /\ Alive /\ OwnDigest /\ IndexAgrees /\ Fresh /\ Progress
      /\ Announced /\ Masters
  BY DEF KInv, TypeOK
<1>u. /\ pc[c] = "CreateCache"
      /\ UNCHANGED <<backed, meta, all, faults, life, turn, caller, target, op, used, retired, revokedOn>>
      /\ kept' = IF n \in backed THEN kept \cup {t} ELSE kept
      /\ entry[n][t] = "absent" /\ byHash[n][HashKey[t]] = Nobody
      /\ MemoryPut(n, t, HashKey[t], "active")
  BY DEF CreateCache, MemoryCreate, Return
<1>p. /\ pc' \in [Call -> Label] /\ reply' \in [Call -> Code]
      /\ pc'[c] = "Idle" /\ \A d \in Call : d # c => pc'[d] = pc[d]
  BY <1>k, CallTypes DEF CreateCache, Return
<1>0. n \in Node /\ t \in Id /\ life[n] = "up" /\ HashKey[t] \in Hash \cup {NoHash}
      /\ HashKey[t] \in Hash
  BY <1>u, UnderWay, KeyAssumption
<1> HIDE DEF n, t
<1>e. /\ entry' \in [Node -> [Id -> {"absent", "active", "revoked"}]]
      /\ entry'[n][t] = "active"
      /\ \A m \in Node, j \in Id : m # n \/ j # t => entry'[m][j] = entry[m][j]
  BY <1>0, <1>k, <1>u, PutFacts
<1>h. /\ hash' \in [Node -> [Id -> Hash \cup {NoHash}]]
      /\ hash'[n][t] = HashKey[t]
      /\ \A m \in Node, j \in Id : m # n \/ j # t => hash'[m][j] = hash[m][j]
  BY <1>0, <1>k, <1>u, PutFacts
<1>b. /\ byHash' \in [Node -> [Hash \cup {NoHash} -> Id \cup {Nobody}]]
      /\ byHash'[n][HashKey[t]] = t
      /\ \A m \in Node, g \in Hash \cup {NoHash} : m # n \/ g # HashKey[t] =>
               byHash'[m][g] = byHash[m][g]
  <2>1. \A g \in Hash \cup {NoHash} : g = HashKey[t] =>
            /\ byHash' \in [Node -> [Hash \cup {NoHash} -> Id \cup {Nobody}]]
            /\ byHash'[n][g] = t
            /\ \A m \in Node, f \in Hash \cup {NoHash} : m # n \/ f # g => byHash'[m][f] = byHash[m][f]
    BY <1>0, <1>k, <1>u DEF StoreTypeOK, MemoryPut
  <2> QED BY <2>1, <1>0
<1>2. TypeOK'
  <2>1. StoreTypeOK'
    BY <1>k, <1>u, <1>e, <1>h, <1>b DEF StoreTypeOK
  <2>2. kept' \subseteq Id /\ retired' \subseteq Id /\ revokedOn' \in [Node -> SUBSET Id]
    BY <1>k, <1>u, <1>0 DEF TypeOK
  <2> QED BY <1>u, <1>p, <2>1, <2>2, StepTypes
<1>3. Alive'
  <2>1. \A d \in Call : pc'[d] # "Idle" => life'[Home[d]] = "up"
    BY <1>k, <1>u, <1>p DEF Alive
  <2>2. \A m \in Node : life'[m] = "down" => \A i \in Id : entry'[m][i] = "absent"
    BY <1>k, <1>u, <1>0, <1>e DEF Alive
  <2>3. \A m \in Node : life'[m] # "up" => revokedOn'[m] = {}
    BY <1>k, <1>u DEF Alive
  <2> QED BY <2>1, <2>2, <2>3 DEF Alive
<1>4. OwnDigest'
  BY <1>k, <1>u, <1>0, <1>e, <1>h DEF OwnDigest
<1>5. IndexAgrees'
  <2>1. ASSUME NEW m \in Node, NEW j \in Id, entry'[m][j] # "absent"
        PROVE  byHash'[m][hash'[m][j]] = j
    <3>1. CASE m = n /\ j = t
      BY <3>1, <1>b, <1>h
    <3>2. CASE m # n \/ j # t
      <4>1. byHash[m][hash[m][j]] = j /\ hash[m][j] \in Hash \cup {NoHash} /\ hash'[m][j] = hash[m][j]
        BY <3>2, <2>1, <1>k, <1>e, <1>h DEF IndexAgrees, StoreTypeOK
      <4>2. m # n \/ hash[m][j] # HashKey[t]
        BY <4>1, <1>u, KeyAssumption
      <4> QED BY <4>1, <4>2, <1>b
    <3> QED BY <3>1, <3>2
  <2>2. ASSUME NEW m \in Node, NEW g \in Hash \cup {NoHash}, byHash'[m][g] # Nobody
        PROVE  entry'[m][byHash'[m][g]] # "absent" /\ hash'[m][byHash'[m][g]] = g
    <3>1. CASE m = n /\ g = HashKey[t]
      BY <3>1, <1>b, <1>e, <1>h
    <3>2. CASE m # n \/ g # HashKey[t]
      <4>1. byHash'[m][g] = byHash[m][g] /\ byHash[m][g] \in Id
        BY <3>2, <2>2, <1>k, <1>b DEF StoreTypeOK
      <4>2. entry[m][byHash[m][g]] # "absent" /\ hash[m][byHash[m][g]] = g
        BY <4>1, <2>2, <1>k DEF IndexAgrees
      <4>3. m # n \/ byHash[m][g] # t
        BY <4>2, <1>u
      <4> QED BY <4>1, <4>2, <4>3, <1>e, <1>h
    <3> QED BY <3>1, <3>2
  <2> QED BY <2>1, <2>2 DEF IndexAgrees
<1>6. Fresh'
  <2>1. t \in used \ Configured /\ \A d \in Call : pc[d] = "Create" => target[d] # t
    BY <1>k, <1>n, <1>u DEF Fresh
  <2>2. \A d \in Call : pc'[d] \in {"Create", "CreateCache"} => d # c /\ pc[d] = pc'[d]
    BY <1>p
  <2>3. \A d \in Call : pc'[d] \in {"Create", "CreateCache"} => target'[d] \in used' \ Configured
    BY <2>2, <1>k, <1>u DEF Fresh
  <2>4. \A d, e \in Call : pc'[d] \in {"Create", "CreateCache"} /\ pc'[e] \in {"Create", "CreateCache"}
            /\ target'[d] = target'[e] => d = e
    BY <2>2, <1>k, <1>u DEF Fresh
  <2>5. ASSUME NEW i \in Id, i \notin used' \/ \E d \in Call : pc'[d] = "Create" /\ target'[d] = i
        PROVE  meta'[i] = "absent" /\ \A m \in Node : entry'[m][i] = "absent"
    <3>1. i # t
      BY <2>1, <2>2, <2>5, <1>u
    <3>2. i \notin used \/ \E d \in Call : pc[d] = "Create" /\ target[d] = i
      BY <2>2, <2>5, <1>u
    <3> QED BY <3>1, <3>2, <1>k, <1>u, <1>e DEF Fresh
  <2>6. Configured \subseteq used'
    BY <1>k, <1>u DEF Fresh
  <2> QED BY <2>3, <2>4, <2>5, <2>6 DEF Fresh
<1>7. Progress'
  BY <1>k, <1>u, <1>p, <1>0, <1>e, CallTypes DEF Progress
<1>8. Announced'
  <2>1. IssuedIsDurable'
    BY <1>k, <1>n, <1>u DEF Announced, IssuedIsDurable, Progress
  <2>2. \A m \in Node : \A i \in revokedOn'[m] : entry'[m][i] = "revoked"
    <3>1. \A m \in Node : revokedOn[m] \subseteq Id
      BY <1>k DEF TypeOK
    <3> QED BY <3>1, <1>k, <1>u, <1>e DEF Announced
  <2> QED BY <1>k, <1>u, <2>1, <2>2 DEF Announced
<1>9. Masters'
  <2>1. \A m \in Node : ActiveMasters(m) \subseteq ActiveMasters(m)'
    BY <1>u, <1>0, <1>e DEF ActiveMasters
  <2>2. \A m \in Node \ backed : life[m] = "boot" =>
            /\ \A i \in Id : entry'[m][i] # "revoked"
            /\ \A k \in 1 .. Len(BootList) : k < turn[m] => entry'[m][BootList[k]] = "active"
    BY <1>k, <1>0, <1>e, ConfiguredIds DEF Masters
  <2> QED BY <1>k, <1>u, <2>1, <2>2 DEF Masters
<1> QED BY <1>2, <1>3, <1>4, <1>5, <1>6, <1>7, <1>8, <1>9 DEF KInv

\* 404 and 409 (auth.go:111, 115).
LEMMA RevokeRefusedPreserves ==
    ASSUME KInv, NEW c \in Call, RevokeRefused(c)
    PROVE  KInv'
<1> USE DEF KInv, RevokeRefused, Return
<1>1. /\ pc' \in [Call -> Label] /\ reply' \in [Call -> Code]
      /\ pc'[c] = "Idle" /\ \A d \in Call : d # c => pc'[d] = pc[d]
      /\ UNCHANGED <<caller, target, op>>
  BY CallTypes
<1>2. TypeOK'
  <2>1. StoreTypeOK' /\ kept' \subseteq Id /\ retired' \subseteq Id /\ revokedOn' \in [Node -> SUBSET Id]
    BY DEF TypeOK, StoreTypeOK
  <2> QED BY <1>1, <2>1, StepTypes
<1>3. Alive' /\ OwnDigest' /\ IndexAgrees'
  BY <1>1 DEF Alive, OwnDigest, IndexAgrees
<1>4. Fresh' /\ Progress'
  BY <1>1 DEF Fresh, Progress
<1>5. Announced' /\ Masters'
  BY DEF Announced, IssuedIsDurable, Masters, ActiveMasters
<1> QED BY <1>2, <1>3, <1>4, <1>5

\* RevokeKey of the MemoryStore (store.go:135): the key is revoked and nothing else
\* changes, and there was another master when it is one.
LEMMA RevokeCachePreserves ==
    ASSUME KInv, NEW c \in Call, RevokeCache(c)
    PROVE  KInv'
<1> DEFINE n == Home[c]
           t == target[c]
<1>n. n = Home[c] /\ t = target[c]
  OBVIOUS
<1>k. /\ TypeOK /\ StoreTypeOK /\ Alive /\ OwnDigest /\ IndexAgrees /\ Fresh /\ Progress
      /\ Announced /\ Masters
  BY DEF KInv, TypeOK
<1>u. /\ pc[c] = "Revoke"
      /\ UNCHANGED <<hash, byHash, backed, meta, all, faults, life, turn, caller, target, op, used, kept>>
      /\ entry[n][t] # "absent" /\ ~LastMaster(n, t)
      /\ entry' = [entry EXCEPT ![n][t] = "revoked"]
  BY DEF RevokeCache, MemoryRevoke, Return, Revoked
<1>0. n \in Node /\ t \in Id /\ life[n] = "up"
  BY <1>u, UnderWay
<1>v. /\ n \in backed => UNCHANGED <<retired, revokedOn>>
      /\ n \notin backed => retired' = retired /\ revokedOn' = [revokedOn EXCEPT ![n] = @ \cup {t}]
  BY DEF RevokeCache, Revoked
<1>p. /\ pc' \in [Call -> Label] /\ reply' \in [Call -> Code]
      /\ pc'[c] = IF n \in backed THEN "RevokePersist" ELSE "Idle"
      /\ \A d \in Call : d # c => pc'[d] = pc[d]
  BY <1>k, CallTypes DEF RevokeCache, Return, Revoked
<1> HIDE DEF n, t
<1>e. /\ entry' \in [Node -> [Id -> {"absent", "active", "revoked"}]]
      /\ entry'[n][t] = "revoked"
      /\ \A m \in Node, j \in Id : m # n \/ j # t => entry'[m][j] = entry[m][j]
  BY <1>0, <1>k, <1>u DEF StoreTypeOK
<1>a. \A m \in Node, j \in Id : entry'[m][j] = "absent" <=> entry[m][j] = "absent"
  BY <1>0, <1>u, <1>e
<1>2. TypeOK'
  <2>1. StoreTypeOK'
    BY <1>k, <1>u, <1>e DEF StoreTypeOK
  <2>2. kept' \subseteq Id /\ retired' \subseteq Id
    BY <1>k, <1>u, <1>v DEF TypeOK
  <2>3. revokedOn' \in [Node -> SUBSET Id]
    <3>1. revokedOn \in [Node -> SUBSET Id]
      BY <1>k DEF TypeOK
    <3>2. revokedOn[n] \cup {t} \in SUBSET Id
      BY <3>1, <1>0
    <3> QED BY <3>1, <3>2, <1>v
  <2> QED BY <1>u, <1>p, <2>1, <2>2, <2>3, StepTypes
<1>r. /\ \A m \in Node : m # n => revokedOn'[m] = revokedOn[m]
      /\ revokedOn'[n] \subseteq revokedOn[n] \cup {t}
  BY <1>k, <1>v, <1>0 DEF TypeOK
<1>3. Alive'
  <2>1. \A d \in Call : pc'[d] # "Idle" => life'[Home[d]] = "up"
    BY <1>k, <1>n, <1>u, <1>p, <1>0 DEF Alive
  <2>2. \A m \in Node : life'[m] = "down" => \A i \in Id : entry'[m][i] = "absent"
    BY <1>k, <1>u, <1>a DEF Alive
  <2>3. \A m \in Node : life'[m] # "up" => revokedOn'[m] = {}
    BY <1>k, <1>u, <1>0, <1>r DEF Alive
  <2> QED BY <2>1, <2>2, <2>3 DEF Alive
<1>4. OwnDigest' /\ IndexAgrees'
  <2>1. \A m \in Node, g \in Hash \cup {NoHash} : byHash[m][g] \in Id \cup {Nobody}
    BY <1>k DEF StoreTypeOK
  <2> QED BY <2>1, <1>k, <1>u, <1>a DEF OwnDigest, IndexAgrees
<1>5. Fresh'
  <2>1. \A d \in Call : pc'[d] \in {"Create", "CreateCache"} => d # c /\ pc[d] = pc'[d]
    BY <1>p
  <2> QED BY <2>1, <1>k, <1>u, <1>a DEF Fresh
<1>6. Progress'
  <2>1. ASSUME NEW d \in Call, pc'[d] = "RevokePersist"
        PROVE  Home[d] \in backed /\ entry'[Home[d]][target[d]] = "revoked"
    <3>1. CASE d = c
      BY <3>1, <2>1, <1>n, <1>p, <1>e
    <3>2. CASE d # c
      <4>1. /\ Home[d] \in Node /\ target[d] \in Id
            /\ Home[d] \in backed /\ entry[Home[d]][target[d]] = "revoked"
        BY <3>2, <2>1, <1>k, <1>p, CallTypes DEF Progress
      <4> QED BY <4>1, <1>e
    <3> QED BY <3>1, <3>2
  <2>2. ASSUME NEW d \in Call, pc'[d] \in {"Create", "CreateCache"}
        PROVE  pc[d] = pc'[d]
    BY <2>2, <1>p
  <2> QED BY <2>1, <2>2, <1>k, <1>u DEF Progress
<1>7. Announced'
  <2>1. \A m \in Node : \A i \in revokedOn'[m] : entry'[m][i] = "revoked"
    <3>1. \A m \in Node : revokedOn[m] \subseteq Id
      BY <1>k DEF TypeOK
    <3> QED BY <3>1, <1>k, <1>e, <1>r DEF Announced
  <2>2. retired' = retired
    BY <1>v
  <2> QED BY <1>k, <1>u, <2>1, <2>2 DEF Announced, IssuedIsDurable
<1>8. Masters'
  <2>1. \A m \in Node \ backed : life[m] = "boot" =>
            /\ \A i \in Id : entry'[m][i] # "revoked"
            /\ \A k \in 1 .. Len(BootList) : k < turn[m] => entry'[m][BootList[k]] = "active"
    BY <1>k, <1>0, <1>e, ConfiguredIds DEF Masters
  <2>2. ASSUME NEW m \in Node, ActiveMasters(m) # {} PROVE ActiveMasters(m)' # {}
    <3>1. PICK j \in Id : KindOf[j] = AuthMaster /\ entry[m][j] = "active"
      BY <2>2 DEF ActiveMasters
    <3>2. CASE m = n /\ j = t
      <4>1. PICK k \in ActiveMasters(n) : k # t
        BY <3>1, <3>2, <1>0, <1>u, AnotherMaster
      <4> QED BY <4>1, <3>2, <1>e DEF ActiveMasters
    <3>3. CASE m # n \/ j # t
      BY <3>1, <3>3, <1>e DEF ActiveMasters
    <3> QED BY <3>2, <3>3
  <2> QED BY <1>k, <1>u, <2>1, <2>2 DEF Masters
<1> QED BY <1>2, <1>3, <1>4, <1>5, <1>6, <1>7, <1>8 DEF KInv

\* The write to Redis after the cache, done or failed (store.go:296): Redis has the
\* status of before, or the revocation that is in the cache.
LEMMA StatusPreserves ==
    ASSUME KInv, NEW c \in Call, pc[c] = "RevokePersist",
           pc' = [pc EXCEPT ![c] = "Idle"], NEW code \in Code, reply' = [reply EXCEPT ![c] = code],
           meta' = meta \/ meta' = [meta EXCEPT ![target[c]] = "revoked"],
           faults' \in 0 .. MaxFaults,
           UNCHANGED <<memoryVars, backed, all, nodeVars, caller, target, op, used, kept>>,
           \/ UNCHANGED <<retired, revokedOn>>
           \/ /\ meta' = [meta EXCEPT ![target[c]] = "revoked"]
              /\ retired' = retired \cup {target[c]}
              /\ revokedOn' = [revokedOn EXCEPT ![Home[c]] = @ \cup {target[c]}]
    PROVE  KInv'
<1> DEFINE n == Home[c]
           t == target[c]
<1>n. n = Home[c] /\ t = target[c]
  OBVIOUS
<1>k. /\ TypeOK /\ StoreTypeOK /\ Alive /\ OwnDigest /\ IndexAgrees /\ Fresh /\ Progress
      /\ Announced /\ Masters
  BY DEF KInv, TypeOK
<1>0. n \in Node /\ t \in Id /\ life[n] = "up"
  BY UnderWay
<1>1. entry[n][t] = "revoked" /\ n \in backed
  BY <1>k DEF Progress
<1>p. /\ pc' \in [Call -> Label] /\ reply' \in [Call -> Code]
      /\ pc'[c] = "Idle" /\ \A d \in Call : d # c => pc'[d] = pc[d]
  BY <1>k, CallTypes
<1>m. /\ meta' \in [Id -> {"absent", "active", "revoked"}]
      /\ meta'[t] \in {meta[t], "revoked"} /\ \A i \in Id : i # t => meta'[i] = meta[i]
  BY <1>k, <1>0 DEF StoreTypeOK
<1>r. /\ retired' \subseteq Id /\ revokedOn' \in [Node -> SUBSET Id]
      /\ \A m \in Node : m # n => revokedOn'[m] = revokedOn[m]
      /\ revokedOn'[n] \subseteq revokedOn[n] \cup {t}
      /\ retired' = retired \/ (retired' = retired \cup {t} /\ meta'[t] = "revoked")
  <2>1. CASE UNCHANGED <<retired, revokedOn>>
    BY <2>1, <1>k, <1>0 DEF TypeOK
  <2>2. CASE /\ meta' = [meta EXCEPT ![t] = "revoked"]
             /\ retired' = retired \cup {t}
             /\ revokedOn' = [revokedOn EXCEPT ![n] = @ \cup {t}]
    <3>1. meta'[t] = "revoked"
      BY <2>2, <1>k, <1>0 DEF StoreTypeOK
    <3> QED BY <2>2, <3>1, <1>k, <1>0 DEF TypeOK
  <2> QED BY <2>1, <2>2
<1> HIDE DEF n, t
<1>2. TypeOK'
  <2>1. StoreTypeOK'
    BY <1>k, <1>m DEF StoreTypeOK
  <2>2. kept' \subseteq Id
    BY <1>k DEF TypeOK
  <2> QED BY <1>p, <1>r, <2>1, <2>2, StepTypes
<1>3. Alive'
  BY <1>k, <1>p, <1>r, <1>0 DEF Alive
<1>4. OwnDigest' /\ IndexAgrees'
  BY <1>k DEF OwnDigest, IndexAgrees
<1>5. Fresh'
  <2>1. \A d \in Call : pc'[d] \in {"Create", "CreateCache"} => d # c /\ pc[d] = pc'[d]
    BY <1>p
  <2>2. \A i \in Id : (\A m \in Node : entry[m][i] = "absent") => i # t
    BY <1>0, <1>1
  <2> QED BY <2>1, <2>2, <1>k, <1>m DEF Fresh
<1>6. Progress'
  <2>1. \A d \in Call : pc'[d] # "Idle" => pc[d] = pc'[d] /\ target[d] \in Id
    BY <1>p, <1>k, CallTypes
  <2> QED BY <2>1, <1>k, <1>m DEF Progress
<1>7. Announced'
  <2>1. \A i \in Id : meta[i] # "absent" => meta'[i] # "absent"
    BY <1>m
  <2>2. \A i \in Id : meta[i] = "revoked" => meta'[i] = "revoked"
    BY <1>m
  <2>3. retired \subseteq Id /\ kept \subseteq Id /\ \A m \in Node : revokedOn[m] \subseteq Id
    BY <1>k DEF TypeOK
  <2>4. IssuedIsDurable'
    BY <2>1, <2>3, <1>k DEF Announced, IssuedIsDurable
  <2>5. \A i \in retired' : meta'[i] # "absent" /\ (i \in Configured \/ meta'[i] = "revoked")
    BY <2>1, <2>2, <2>3, <1>k, <1>r DEF Announced
  <2>6. \A m \in Node : \A i \in revokedOn'[m] : entry'[m][i] = "revoked"
    BY <2>3, <1>k, <1>r, <1>1 DEF Announced
  <2> QED BY <2>4, <2>5, <2>6 DEF Announced
<1>8. Masters'
  BY <1>k DEF Masters, ActiveMasters
<1> QED BY <1>2, <1>3, <1>4, <1>5, <1>6, <1>7, <1>8 DEF KInv

\* The write succeeds and the DELETE is answered with 200.
LEMMA RevokePersistPreserves ==
    ASSUME KInv, NEW c \in Call, RevokePersist(c)
    PROVE  KInv'
<1>1. entry[Home[c]][target[c]] = "revoked" /\ Home[c] \in backed
  BY DEF RevokePersist, KInv, Progress
<1>2. meta' = [meta EXCEPT ![target[c]] = "revoked"] /\ UNCHANGED all /\ faults' \in 0 .. MaxFaults
  BY <1>1 DEF RevokePersist, PersistStatus, KInv, TypeOK, StoreTypeOK
<1>3. 200 \in Code
  OBVIOUS
<1>4. /\ retired' = retired \cup {target[c]}
      /\ revokedOn' = [revokedOn EXCEPT ![Home[c]] = @ \cup {target[c]}]
      /\ pc' = [pc EXCEPT ![c] = "Idle"] /\ reply' = [reply EXCEPT ![c] = 200]
      /\ pc[c] = "RevokePersist"
      /\ UNCHANGED <<memoryVars, backed, nodeVars, caller, target, op, used, kept>>
  BY <1>1 DEF RevokePersist, Revoked, Return
<1> QED BY <1>2, <1>3, <1>4, StatusPreserves

\* The write fails and the DELETE is answered with 500; the cache keeps the revocation.
LEMMA RevokePersistFailsPreserves ==
    ASSUME KInv, NEW c \in Call, RevokePersistFails(c)
    PROVE  KInv'
<1>1. entry[Home[c]][target[c]] = "revoked"
  BY DEF RevokePersistFails, KInv, Progress
<1>2. /\ meta' = meta \/ meta' = [meta EXCEPT ![target[c]] = "revoked"]
      /\ UNCHANGED all
  BY <1>1 DEF RevokePersistFails, PersistStatusFails
<1>3. faults' \in 0 .. MaxFaults
  BY KeyFaultsAssumption DEF RevokePersistFails, PersistStatusFails, Fault, KInv, TypeOK, StoreTypeOK
<1>4. 500 \in Code
  OBVIOUS
<1>5. /\ pc' = [pc EXCEPT ![c] = "Idle"] /\ reply' = [reply EXCEPT ![c] = 500]
      /\ pc[c] = "RevokePersist"
      /\ UNCHANGED <<memoryVars, backed, nodeVars, caller, target, op, used, kept, retired, revokedOn>>
  BY DEF RevokePersistFails, Return
<1> QED BY <1>2, <1>3, <1>4, <1>5, StatusPreserves

\* A process loses its cache, or opens a store: its new cache holds only keys that
\* Redis has, without digests, and no call of the process is under way.
LEMMA NewCachePreserves ==
    ASSUME KInv, NEW n \in Node, StoreTypeOK',
           \A m \in Node : m # n => entry'[m] = entry[m] /\ hash'[m] = hash[m] /\ byHash'[m] = byHash[m]
                                   /\ life'[m] = life[m] /\ turn'[m] = turn[m] /\ revokedOn'[m] = revokedOn[m]
                                   /\ (m \in backed' <=> m \in backed),
           \A i \in Id : entry'[n][i] # "absent" =>
                /\ meta[i] # "absent" /\ hash'[n][i] = NoHash /\ byHash'[n][NoHash] = i
                /\ n \in backed' /\ life'[n] = "boot",
           \A h \in Hash \cup {NoHash} : byHash'[n][h] # Nobody =>
                entry'[n][byHash'[n][h]] # "absent" /\ hash'[n][byHash'[n][h]] = h,
           life' \in [Node -> {"down", "boot", "up"}], life'[n] \in {"down", "boot"},
           turn' \in [Node -> 1 .. Len(BootList)+1], life'[n] = "boot" => turn'[n] = 1,
           revokedOn' \in [Node -> SUBSET Id], revokedOn'[n] = {},
           pc' \in [Call -> Label], \A c \in Call : pc'[c] # "Idle" => pc'[c] = pc[c] /\ Home[c] # n,
           UNCHANGED <<meta, all, caller, target, op, reply, used, kept, retired>>
    PROVE  KInv'
<1>k. /\ TypeOK /\ StoreTypeOK /\ Alive /\ OwnDigest /\ IndexAgrees /\ Fresh /\ Progress
      /\ Announced /\ Masters
  BY DEF KInv, TypeOK
<1>c. \A c \in Call : Home[c] \in Node /\ (pc[c] # "Idle" => target[c] \in Id)
  BY <1>k, CallTypes
<1>1. TypeOK'
  <2>1. \A c \in Call : pc'[c] # "Idle" => caller'[c] \in Id /\ target'[c] \in Id
    BY <1>k DEF TypeOK
  <2> QED BY <1>k, <2>1 DEF TypeOK
<1>2. Alive'
  <2>1. \A c \in Call : pc'[c] # "Idle" => life'[Home[c]] = "up"
    BY <1>k, <1>c DEF Alive
  <2>2. \A m \in Node : life'[m] = "down" => \A i \in Id : entry'[m][i] = "absent"
    BY <1>k DEF Alive
  <2>3. \A m \in Node : life'[m] # "up" => revokedOn'[m] = {}
    BY <1>k DEF Alive
  <2> QED BY <2>1, <2>2, <2>3 DEF Alive
<1>3. OwnDigest'
  BY <1>k DEF OwnDigest
<1>4. IndexAgrees'
  <2>1. ASSUME NEW m \in Node, NEW i \in Id, entry'[m][i] # "absent"
        PROVE  byHash'[m][hash'[m][i]] = i
    BY <2>1, <1>k DEF IndexAgrees
  <2>2. ASSUME NEW m \in Node, NEW h \in Hash \cup {NoHash}, byHash'[m][h] # Nobody
        PROVE  entry'[m][byHash'[m][h]] # "absent" /\ hash'[m][byHash'[m][h]] = h
    BY <2>2, <1>k DEF IndexAgrees
  <2> QED BY <2>1, <2>2 DEF IndexAgrees
<1>5. Fresh'
  <2>1. \A c \in Call : pc'[c] \in {"Create", "CreateCache"} => pc[c] = pc'[c]
    OBVIOUS
  <2>2. ASSUME NEW i \in Id, i \notin used' \/ \E c \in Call : pc'[c] = "Create" /\ target'[c] = i
        PROVE  meta'[i] = "absent" /\ \A m \in Node : entry'[m][i] = "absent"
    <3>1. i \notin used \/ \E c \in Call : pc[c] = "Create" /\ target[c] = i
      BY <2>1, <2>2
    <3>2. meta[i] = "absent" /\ \A m \in Node : entry[m][i] = "absent"
      BY <3>1, <1>k DEF Fresh
    <3> QED BY <3>2
  <2> QED BY <2>1, <2>2, <1>k DEF Fresh
<1>6. Progress'
  <2>1. ASSUME NEW c \in Call, pc'[c] # "Idle"
        PROVE  /\ pc'[c] = pc[c] /\ Home[c] \in Node
               /\ entry'[Home[c]] = entry[Home[c]] /\ (Home[c] \in backed' <=> Home[c] \in backed)
    BY <2>1, <1>c
  <2> QED BY <2>1, <1>k DEF Progress
<1>7. Announced'
  <2>1. \A m \in Node : \A i \in revokedOn'[m] : entry'[m][i] = "revoked"
    BY <1>k DEF Announced
  <2> QED BY <2>1, <1>k DEF Announced, IssuedIsDurable
<1>8. Masters'
  <2>1. \A m \in Node : m # n => ActiveMasters(m)' = ActiveMasters(m)
    BY DEF ActiveMasters
  <2>2. ASSUME NEW m \in Node \ backed', life'[m] = "boot"
        PROVE  /\ \A i \in Id : entry'[m][i] # "revoked"
               /\ \A k \in 1 .. Len(BootList) : k < turn'[m] => entry'[m][BootList[k]] = "active"
    <3>1. CASE m = n
      BY <3>1, <2>2
    <3>2. CASE m # n
      BY <3>2, <2>2, <1>k DEF Masters
    <3> QED BY <3>1, <3>2
  <2> QED BY <2>1, <2>2, <1>k DEF Masters
<1> QED BY <1>1, <1>2, <1>3, <1>4, <1>5, <1>6, <1>7, <1>8 DEF KInv

\* The process ends (server.go:64).
LEMMA ProcessEndsPreserves ==
    ASSUME KInv, NEW n \in Node, ProcessEnds(n)
    PROVE  KInv'
<1>k. TypeOK /\ StoreTypeOK
  BY DEF KInv, TypeOK
<1>1. StoreTypeOK'
  <2>1. NoEntry \in [Id -> {"absent", "active", "revoked"}] /\ NoHashes \in [Id -> Hash \cup {NoHash}]
        /\ NoIndex \in [Hash \cup {NoHash} -> Id \cup {Nobody}]
    BY DEF NoEntry, NoHashes, NoIndex
  <2> QED BY <1>k, <2>1 DEF StoreTypeOK, ProcessEnds
<1>2. \A m \in Node : m # n => entry'[m] = entry[m] /\ hash'[m] = hash[m] /\ byHash'[m] = byHash[m]
                               /\ life'[m] = life[m] /\ turn'[m] = turn[m] /\ revokedOn'[m] = revokedOn[m]
                               /\ (m \in backed' <=> m \in backed)
  BY <1>k DEF TypeOK, StoreTypeOK, ProcessEnds
<1>3. /\ \A i \in Id : entry'[n][i] = "absent"
      /\ \A h \in Hash \cup {NoHash} : byHash'[n][h] = Nobody
  BY <1>k DEF StoreTypeOK, ProcessEnds, NoEntry, NoIndex
<1>4. /\ life' \in [Node -> {"down", "boot", "up"}] /\ life'[n] = "down"
      /\ turn' \in [Node -> 1 .. Len(BootList)+1]
      /\ revokedOn' \in [Node -> SUBSET Id] /\ revokedOn'[n] = {}
  BY <1>k DEF TypeOK, ProcessEnds
<1>5. pc' \in [Call -> Label] /\ \A c \in Call : pc'[c] # "Idle" => pc'[c] = pc[c] /\ Home[c] # n
  BY <1>k DEF TypeOK, ProcessEnds
<1>6. UNCHANGED <<meta, all, caller, target, op, reply, used, kept, retired>>
  BY DEF ProcessEnds
<1> QED BY <1>1, <1>2, <1>3, <1>4, <1>5, <1>6, NewCachePreserves

\* hydrate (store.go:211) leaves at most one key in the cache, without a digest,
\* since every decoded key has the empty one.
LEMMA OpenRedisFacts ==
    ASSUME StoreTypeOK, NEW n \in Node, OpenRedisStore(n)
    PROVE  /\ StoreTypeOK' /\ backed' = backed \cup {n} /\ UNCHANGED <<meta, all>>
           /\ \A m \in Node : m # n => entry'[m] = entry[m] /\ hash'[m] = hash[m] /\ byHash'[m] = byHash[m]
           /\ \A i \in Id : entry'[n][i] # "absent" =>
                meta[i] # "absent" /\ hash'[n][i] = NoHash /\ byHash'[n][NoHash] = i
           /\ \A h \in Hash \cup {NoHash} : byHash'[n][h] # Nobody =>
                entry'[n][byHash'[n][h]] # "absent" /\ hash'[n][byHash'[n][h]] = h
<1>1. PICK K \in SUBSET Id :
          /\ (Hydrated(K) /\ UNCHANGED faults) \/ (Hydratable(K) /\ Fault)
          /\ entry' = [entry EXCEPT ![n] = [i \in Id |-> IF i \in K THEN meta[i] ELSE "absent"]]
          /\ hash' = [hash EXCEPT ![n] = [i \in Id |-> IF i \in K THEN DecodedHash(i) ELSE NoHash]]
          /\ byHash' = [byHash EXCEPT ![n] =
                          [h \in Hash \cup {NoHash} |->
                              IF \E i \in K : DecodedHash(i) = h
                              THEN CHOOSE i \in K : DecodedHash(i) = h ELSE Nobody]]
  BY DEF OpenRedisStore
<1>2. /\ \A i \in K : meta[i] # "absent"
      /\ \A i, j \in K : i = j
  BY <1>1 DEF Hydrated, Hydratable, DecodedHash
<1>3. faults' \in 0 .. MaxFaults
  BY <1>1, KeyFaultsAssumption DEF Fault, StoreTypeOK
<1>4. backed' = backed \cup {n} /\ UNCHANGED <<meta, all>>
  BY DEF OpenRedisStore
<1> DEFINE B == [h \in Hash \cup {NoHash} |-> IF \E i \in K : DecodedHash(i) = h
                                              THEN CHOOSE i \in K : DecodedHash(i) = h ELSE Nobody]
<1>5. /\ \A h \in Hash : B[h] = Nobody
      /\ K = {} => B[NoHash] = Nobody
      /\ \A i \in K : B[NoHash] = i
  <2>1. \A h \in Hash : ~\E i \in K : DecodedHash(i) = h
    BY KeyAssumption DEF DecodedHash
  <2>2. ASSUME NEW i \in K PROVE (CHOOSE j \in K : DecodedHash(j) = NoHash) = i
    <3>1. \E j \in K : DecodedHash(j) = NoHash
      BY DEF DecodedHash
    <3>2. (CHOOSE j \in K : DecodedHash(j) = NoHash) \in K
      BY <3>1
    <3> QED BY <3>2, <1>2
  <2>3. \A i \in K : DecodedHash(i) = NoHash
    BY DEF DecodedHash
  <2>4. ASSUME NEW i \in K PROVE B[NoHash] = i
    BY <2>2, <2>3
  <2> QED BY <2>1, <2>4
<1>6. B \in [Hash \cup {NoHash} -> Id \cup {Nobody}]
  <2>1. \A h \in Hash \cup {NoHash} : B[h] \in Id \cup {Nobody}
    BY <1>5
  <2> QED BY <2>1
<1>7. byHash' = [byHash EXCEPT ![n] = B]
  BY <1>1
<1> HIDE DEF B
<1>8. /\ byHash' \in [Node -> [Hash \cup {NoHash} -> Id \cup {Nobody}]] /\ byHash'[n] = B
      /\ \A m \in Node : m # n => byHash'[m] = byHash[m]
  BY <1>6, <1>7 DEF StoreTypeOK
<1>9. /\ entry' \in [Node -> [Id -> {"absent", "active", "revoked"}]]
      /\ \A i \in Id : entry'[n][i] = IF i \in K THEN meta[i] ELSE "absent"
      /\ \A m \in Node : m # n => entry'[m] = entry[m]
  BY <1>1 DEF StoreTypeOK
<1>10. /\ hash' \in [Node -> [Id -> Hash \cup {NoHash}]]
       /\ \A i \in Id : hash'[n][i] = NoHash
       /\ \A m \in Node : m # n => hash'[m] = hash[m]
  BY <1>1 DEF StoreTypeOK, DecodedHash
<1>11. StoreTypeOK'
  BY <1>3, <1>4, <1>8, <1>9, <1>10 DEF StoreTypeOK
<1>12. \A i \in Id : entry'[n][i] # "absent" =>
            meta[i] # "absent" /\ hash'[n][i] = NoHash /\ byHash'[n][NoHash] = i
  BY <1>5, <1>8, <1>9, <1>10
<1>13. ASSUME NEW h \in Hash \cup {NoHash}, byHash'[n][h] # Nobody
       PROVE  entry'[n][byHash'[n][h]] # "absent" /\ hash'[n][byHash'[n][h]] = h
  <2>1. h = NoHash /\ K # {}
    BY <1>13, <1>5, <1>8
  <2>2. PICK i \in K : TRUE
    BY <2>1
  <2>3. byHash'[n][h] = i
    BY <2>1, <2>2, <1>5, <1>8
  <2> QED BY <2>1, <2>3, <1>2, <1>9, <1>10
<1> QED BY <1>4, <1>8, <1>9, <1>10, <1>11, <1>12, <1>13

\* NewStore (store.go:376).
LEMMA OpenStorePreserves ==
    ASSUME KInv, NEW n \in Node, OpenStore(n)
    PROVE  KInv'
<1>k. TypeOK /\ StoreTypeOK /\ Alive
  BY DEF KInv, TypeOK
<1>1. /\ life[n] = "down"
      /\ life' = [life EXCEPT ![n] = "boot"] /\ turn' = [turn EXCEPT ![n] = 1]
      /\ UNCHANGED <<callVars, used, historyVars>>
  BY DEF OpenStore
<1>2. /\ life' \in [Node -> {"down", "boot", "up"}] /\ life'[n] = "boot" /\ turn'[n] = 1
      /\ \A m \in Node : m # n => life'[m] = life[m] /\ turn'[m] = turn[m]
  BY <1>1, <1>k DEF TypeOK
<1>3. turn' \in [Node -> 1 .. Len(BootList)+1]
  <2>1. 1 \in 1 .. Len(BootList)+1
    BY ServerAssumption
  <2> QED BY <2>1, <1>1, <1>k DEF TypeOK
<1>4. /\ revokedOn' \in [Node -> SUBSET Id] /\ revokedOn'[n] = {}
      /\ \A m \in Node : m # n => revokedOn'[m] = revokedOn[m]
  BY <1>1, <1>k DEF TypeOK, Alive
<1>5. pc' \in [Call -> Label] /\ \A c \in Call : pc'[c] # "Idle" => pc'[c] = pc[c] /\ Home[c] # n
  BY <1>1, <1>k DEF TypeOK, Alive
<1>6. UNCHANGED <<caller, target, op, reply, used, kept, retired>>
  BY <1>1
<1>7. CASE OpenRedisStore(n)
  <2>1. /\ StoreTypeOK' /\ backed' = backed \cup {n} /\ UNCHANGED <<meta, all>>
        /\ \A m \in Node : m # n => entry'[m] = entry[m] /\ hash'[m] = hash[m] /\ byHash'[m] = byHash[m]
        /\ \A i \in Id : entry'[n][i] # "absent" =>
             meta[i] # "absent" /\ hash'[n][i] = NoHash /\ byHash'[n][NoHash] = i
        /\ \A h \in Hash \cup {NoHash} : byHash'[n][h] # Nobody =>
             entry'[n][byHash'[n][h]] # "absent" /\ hash'[n][byHash'[n][h]] = h
    BY <1>7, <1>k, OpenRedisFacts
  <2> QED BY <2>1, <1>2, <1>3, <1>4, <1>5, <1>6, NewCachePreserves
<1>8. CASE OpenMemoryStore(n) /\ (Fault \/ UNCHANGED faults)
  <2>1. StoreTypeOK'
    <3>1. NoEntry \in [Id -> {"absent", "active", "revoked"}] /\ NoHashes \in [Id -> Hash \cup {NoHash}]
          /\ NoIndex \in [Hash \cup {NoHash} -> Id \cup {Nobody}]
      BY DEF NoEntry, NoHashes, NoIndex
    <3>2. faults' \in 0 .. MaxFaults
      BY <1>8, <1>k, KeyFaultsAssumption DEF Fault, StoreTypeOK
    <3> QED BY <1>8, <1>k, <3>1, <3>2 DEF StoreTypeOK, OpenMemoryStore
  <2>2. /\ backed' = backed \ {n} /\ UNCHANGED <<meta, all>>
        /\ \A m \in Node : m # n => entry'[m] = entry[m] /\ hash'[m] = hash[m] /\ byHash'[m] = byHash[m]
    BY <1>8, <1>k DEF StoreTypeOK, OpenMemoryStore
  <2>3. /\ \A i \in Id : entry'[n][i] = "absent"
        /\ \A h \in Hash \cup {NoHash} : byHash'[n][h] = Nobody
    BY <1>8, <1>k DEF StoreTypeOK, OpenMemoryStore, NoEntry, NoIndex
  <2> QED BY <2>1, <2>2, <2>3, <1>2, <1>3, <1>4, <1>5, <1>6, NewCachePreserves
<1> QED BY <1>7, <1>8 DEF OpenStore

\* UpsertKey (store.go:62) replaces the digest of the id in both maps.
LEMMA UpsertFacts ==
    ASSUME StoreTypeOK, NEW n \in Node, NEW i \in Id, MemoryUpsert(n, i)
    PROVE  /\ entry' \in [Node -> [Id -> {"absent", "active", "revoked"}]]
           /\ hash' \in [Node -> [Id -> Hash \cup {NoHash}]]
           /\ byHash' \in [Node -> [Hash \cup {NoHash} -> Id \cup {Nobody}]]
           /\ entry'[n][i] = "active" /\ hash'[n][i] = HashKey[i] /\ byHash'[n][HashKey[i]] = i
           /\ \A m \in Node, j \in Id : m # n \/ j # i =>
                    entry'[m][j] = entry[m][j] /\ hash'[m][j] = hash[m][j]
           /\ \A m \in Node : m # n => byHash'[m] = byHash[m]
           /\ \A g \in Hash \cup {NoHash} : g # HashKey[i] =>
                    byHash'[n][g] = IF entry[n][i] # "absent" /\ g = hash[n][i] THEN Nobody ELSE byHash[n][g]
<1>1. HashKey[i] \in Hash
  BY KeyAssumption
<1>2. /\ entry' \in [Node -> [Id -> {"absent", "active", "revoked"}]]
      /\ entry'[n][i] = "active"
      /\ \A m \in Node, j \in Id : m # n \/ j # i => entry'[m][j] = entry[m][j]
  BY DEF StoreTypeOK, MemoryUpsert
<1>3. /\ hash' \in [Node -> [Id -> Hash \cup {NoHash}]]
      /\ hash'[n][i] = HashKey[i]
      /\ \A m \in Node, j \in Id : m # n \/ j # i => hash'[m][j] = hash[m][j]
  BY <1>1 DEF StoreTypeOK, MemoryUpsert
<1> DEFINE B == [h \in Hash \cup {NoHash} |->
                     IF h = HashKey[i] THEN i
                     ELSE IF entry[n][i] # "absent" /\ h = hash[n][i] THEN Nobody
                     ELSE byHash[n][h]]
<1>4. B \in [Hash \cup {NoHash} -> Id \cup {Nobody}]
  BY DEF StoreTypeOK
<1>5. /\ B[HashKey[i]] = i
      /\ \A g \in Hash \cup {NoHash} : g # HashKey[i] =>
            B[g] = IF entry[n][i] # "absent" /\ g = hash[n][i] THEN Nobody ELSE byHash[n][g]
  BY <1>1
<1>6. byHash' = [byHash EXCEPT ![n] = B]
  BY DEF StoreTypeOK, MemoryUpsert
<1> HIDE DEF B
<1>7. /\ byHash' \in [Node -> [Hash \cup {NoHash} -> Id \cup {Nobody}]] /\ byHash'[n] = B
      /\ \A m \in Node : m # n => byHash'[m] = byHash[m]
  BY <1>4, <1>6 DEF StoreTypeOK
<1> QED BY <1>2, <1>3, <1>5, <1>7

\* The Redis part of a turn of Bootstrap: a configured key may appear or become
\* active again, and nothing else changes.
LEMMA BootPersistFacts ==
    ASSUME KInv, NEW i \in Id, Persist(i) \/ PersistFails(i) \/ UNCHANGED redisVars
    PROVE  /\ meta' \in [Id -> {"absent", "active", "revoked"}] /\ all' \subseteq Id
           /\ faults' \in 0 .. MaxFaults /\ all \subseteq all'
           /\ \A j \in Id : j # i => meta'[j] = meta[j]
           /\ meta[i] # "absent" => meta'[i] # "absent"
<1>k. StoreTypeOK
  BY DEF KInv, TypeOK
<1>1. faults' \in 0 .. MaxFaults
  BY <1>k, KeyFaultsAssumption DEF Persist, PersistFails, Fault, StoreTypeOK
<1>2. meta' = meta \/ meta' = [meta EXCEPT ![i] = "active"]
  BY DEF Persist, PersistFails
<1>3. all' = all \/ all' = all \cup {i}
  BY DEF Persist, PersistFails
<1> QED BY <1>k, <1>1, <1>2, <1>3 DEF StoreTypeOK

\* A turn of Bootstrap (store.go:315).
LEMMA BootstrapTurnPreserves ==
    ASSUME KInv, NEW n \in Node, BootstrapTurn(n)
    PROVE  KInv'
<1>k. /\ TypeOK /\ StoreTypeOK /\ Alive /\ OwnDigest /\ IndexAgrees /\ Fresh /\ Progress
      /\ Announced /\ Masters
  BY DEF KInv, TypeOK
<1> DEFINE i == BootList[turn[n]]
<1>0. turn[n] \in 1 .. Len(BootList) /\ Len(BootList) \in Nat
  BY <1>k, ServerAssumption DEF TypeOK, BootstrapTurn
<1>n. i = BootList[turn[n]] /\ i \in Configured /\ i \in Id
  BY <1>0, ConfiguredIds
<1>u. /\ life[n] = "boot" /\ UNCHANGED <<backed, life, callVars, used, historyVars>>
      /\ turn' = [turn EXCEPT ![n] = @ + 1] /\ Bootstrap(n, i)
  BY DEF BootstrapTurn
<1> HIDE DEF i
<1>b. /\ Persist(i) \/ PersistFails(i) \/ UNCHANGED redisVars
      /\ UNCHANGED memoryVars \/ MemoryUpsert(n, i)
      /\ n \notin backed => MemoryUpsert(n, i) \/ (entry[n][i] # "absent" /\ UNCHANGED memoryVars)
  BY <1>u DEF Bootstrap
<1>r. /\ meta' \in [Id -> {"absent", "active", "revoked"}] /\ all' \subseteq Id
      /\ faults' \in 0 .. MaxFaults /\ all \subseteq all'
      /\ \A j \in Id : j # i => meta'[j] = meta[j]
      /\ meta[i] # "absent" => meta'[i] # "absent"
  BY <1>b, <1>n, BootPersistFacts
<1>t. turn' \in [Node -> 1 .. Len(BootList)+1] /\ turn'[n] = turn[n] + 1
      /\ \A m \in Node : m # n => turn'[m] = turn[m]
  <2>1. turn[n] + 1 \in 1 .. Len(BootList)+1
    BY <1>0
  <2> QED BY <2>1, <1>u, <1>k DEF TypeOK
<1>e. /\ entry' \in [Node -> [Id -> {"absent", "active", "revoked"}]]
      /\ \A m \in Node, j \in Id : m # n \/ j # i => entry'[m][j] = entry[m][j]
      /\ n \notin backed => entry'[n][i] = "active"
  <2>1. CASE MemoryUpsert(n, i)
    BY <2>1, <1>k, <1>n, UpsertFacts
  <2>2. CASE UNCHANGED memoryVars
    <3>1. CASE n \in backed
      BY <3>1, <2>2, <1>k DEF StoreTypeOK
    <3>2. CASE n \notin backed /\ entry[n][i] # "absent"
      <4>1. entry[n][i] # "revoked" /\ entry[n][i] \in {"absent", "active", "revoked"}
        BY <3>2, <1>k, <1>u, <1>n DEF Masters, StoreTypeOK
      <4> QED BY <3>2, <2>2, <4>1, <1>k DEF StoreTypeOK
    <3> QED BY <3>1, <3>2, <2>1, <1>b
  <2> QED BY <2>1, <2>2, <1>b
<1>h. hash' \in [Node -> [Id -> Hash \cup {NoHash}]]
      /\ byHash' \in [Node -> [Hash \cup {NoHash} -> Id \cup {Nobody}]]
  <2>1. CASE MemoryUpsert(n, i)
    BY <2>1, <1>k, <1>n, UpsertFacts
  <2>2. CASE UNCHANGED memoryVars
    BY <2>2, <1>k DEF StoreTypeOK
  <2> QED BY <2>1, <2>2, <1>b
<1>1. TypeOK'
  <2>1. StoreTypeOK'
    BY <1>k, <1>u, <1>r, <1>e, <1>h DEF StoreTypeOK
  <2> QED BY <2>1, <1>k, <1>u, <1>t DEF TypeOK
<1>2. Alive'
  BY <1>k, <1>u, <1>e DEF Alive
<1>3. OwnDigest' /\ IndexAgrees'
  <2>1. CASE UNCHANGED memoryVars
    BY <2>1, <1>k, <1>u DEF OwnDigest, IndexAgrees
  <2>2. CASE MemoryUpsert(n, i)
    <3>1. /\ entry'[n][i] = "active" /\ hash'[n][i] = HashKey[i] /\ byHash'[n][HashKey[i]] = i
          /\ \A m \in Node, j \in Id : m # n \/ j # i =>
                   entry'[m][j] = entry[m][j] /\ hash'[m][j] = hash[m][j]
          /\ \A m \in Node : m # n => byHash'[m] = byHash[m]
          /\ \A g \in Hash \cup {NoHash} : g # HashKey[i] =>
                   byHash'[n][g] = IF entry[n][i] # "absent" /\ g = hash[n][i] THEN Nobody ELSE byHash[n][g]
      BY <2>2, <1>k, <1>n, UpsertFacts
    <3>2. OwnDigest'
      BY <3>1, <1>k, <1>u DEF OwnDigest
    <3>3. ASSUME NEW m \in Node, NEW j \in Id, entry'[m][j] # "absent"
          PROVE  byHash'[m][hash'[m][j]] = j
      <4>1. CASE m = n /\ j = i
        BY <4>1, <3>1
      <4>2. CASE m # n
        BY <4>2, <3>1, <3>3, <1>k DEF IndexAgrees
      <4>3. CASE m = n /\ j # i
        <5>1. /\ entry[n][j] # "absent" /\ hash'[n][j] = hash[n][j] /\ byHash[n][hash[n][j]] = j
              /\ hash[n][j] \in Hash \cup {NoHash}
          BY <4>3, <3>1, <3>3, <1>k DEF IndexAgrees, StoreTypeOK
        <5>2. hash[n][j] # HashKey[i]
          BY <5>1, <4>3, <1>k, <1>n, KeyAssumption DEF OwnDigest
        <5>3. entry[n][i] # "absent" => hash[n][j] # hash[n][i]
          BY <5>1, <4>3, <1>k, <1>n DEF IndexAgrees
        <5> QED BY <4>3, <5>1, <5>2, <5>3, <3>1
      <4> QED BY <4>1, <4>2, <4>3
    <3>4. ASSUME NEW m \in Node, NEW g \in Hash \cup {NoHash}, byHash'[m][g] # Nobody
          PROVE  entry'[m][byHash'[m][g]] # "absent" /\ hash'[m][byHash'[m][g]] = g
      <4>0. byHash[m][g] \in Id \cup {Nobody}
        BY <1>k DEF StoreTypeOK
      <4>1. CASE m # n
        <5>1. byHash'[m][g] = byHash[m][g] /\ byHash[m][g] \in Id
          BY <4>0, <4>1, <3>1, <3>4
        <5>2. entry[m][byHash[m][g]] # "absent" /\ hash[m][byHash[m][g]] = g
          BY <5>1, <3>4, <1>k DEF IndexAgrees
        <5> QED BY <4>1, <5>1, <5>2, <3>1
      <4>2. CASE m = n /\ g = HashKey[i]
        BY <4>2, <3>1
      <4>3. CASE m = n /\ g # HashKey[i]
        <5>1. /\ byHash'[n][g] = byHash[n][g] /\ byHash[n][g] \in Id
              /\ ~(entry[n][i] # "absent" /\ g = hash[n][i])
          BY <4>0, <4>3, <3>1, <3>4
        <5>2. entry[n][byHash[n][g]] # "absent" /\ hash[n][byHash[n][g]] = g
          BY <5>1, <3>4, <4>3, <1>k DEF IndexAgrees
        <5>3. byHash[n][g] # i
          BY <5>1, <5>2
        <5> QED BY <4>3, <5>1, <5>2, <5>3, <3>1
      <4> QED BY <4>1, <4>2, <4>3
    <3> QED BY <3>2, <3>3, <3>4 DEF IndexAgrees
  <2> QED BY <2>1, <2>2, <1>b
<1>4. Fresh'
  <2>1. ASSUME NEW j \in Id, j \notin used' \/ \E d \in Call : pc'[d] = "Create" /\ target'[d] = j
        PROVE  meta'[j] = "absent" /\ \A m \in Node : entry'[m][j] = "absent"
    <3>1. j \notin used \/ \E d \in Call : pc[d] = "Create" /\ target[d] = j
      BY <2>1, <1>u
    <3>2. j # i
      BY <3>1, <1>k, <1>n DEF Fresh
    <3> QED BY <3>1, <3>2, <1>k, <1>r, <1>e DEF Fresh
  <2> QED BY <2>1, <1>k, <1>u DEF Fresh
<1>5. Progress'
  <2>1. ASSUME NEW c \in Call, pc[c] # "Idle"
        PROVE  Home[c] \in Node /\ Home[c] # n /\ target[c] \in Id
    BY <2>1, <1>u, UnderWay
  <2>2. \A j \in Id : meta[j] # "absent" => meta'[j] # "absent"
    BY <1>r
  <2> QED BY <2>1, <2>2, <1>k, <1>u, <1>r, <1>e DEF Progress
<1>6. Announced'
  <2>1. \A j \in Id : meta[j] # "absent" => meta'[j] # "absent"
    BY <1>r
  <2>2. retired \subseteq Id /\ kept \subseteq Id /\ \A m \in Node : revokedOn[m] \subseteq Id
    BY <1>k DEF TypeOK
  <2>3. IssuedIsDurable'
    BY <2>1, <2>2, <1>k, <1>u, <1>r DEF Announced, IssuedIsDurable
  <2>4. \A j \in retired' : meta'[j] # "absent" /\ (j \in Configured \/ meta'[j] = "revoked")
    BY <2>1, <2>2, <1>k, <1>u, <1>r, <1>n DEF Announced
  <2>5. \A m \in Node : \A j \in revokedOn'[m] : entry'[m][j] = "revoked"
    <3>1. revokedOn[n] = {}
      BY <1>k, <1>u DEF Alive
    <3> QED BY <3>1, <2>2, <1>k, <1>u, <1>e DEF Announced
  <2> QED BY <2>3, <2>4, <2>5 DEF Announced
<1>7. Masters'
  <2>1. ASSUME NEW m \in Node \ backed', life'[m] = "boot"
        PROVE  /\ \A j \in Id : entry'[m][j] # "revoked"
               /\ \A k \in 1 .. Len(BootList) : k < turn'[m] => entry'[m][BootList[k]] = "active"
    <3>0. m \in Node \ backed /\ life[m] = "boot"
      BY <2>1, <1>u
    <3>1. CASE m # n
      <4>1. \A k \in 1 .. Len(BootList) : BootList[k] \in Id
        BY ConfiguredIds
      <4> QED BY <3>0, <3>1, <4>1, <1>k, <1>t, <1>e DEF Masters
    <3>2. CASE m = n
      <4>1. \A j \in Id : entry'[m][j] # "revoked"
        BY <3>0, <3>2, <1>k, <1>e, <1>n DEF Masters
      <4>2. ASSUME NEW k \in 1 .. Len(BootList), k < turn'[m]
            PROVE  entry'[m][BootList[k]] = "active"
        <5>1. BootList[k] \in Id
          BY ConfiguredIds
        <5>2. k < turn[n] \/ k = turn[n]
          BY <3>2, <4>2, <1>0, <1>t
        <5>3. CASE BootList[k] = i
          BY <5>3, <3>0, <3>2, <1>e
        <5>4. CASE BootList[k] # i
          BY <5>1, <5>2, <5>4, <3>0, <3>2, <1>k, <1>n, <1>e DEF Masters
        <5> QED BY <5>3, <5>4
      <4> QED BY <4>1, <4>2
    <3> QED BY <3>1, <3>2
  <2>2. \A m \in Node : life[m] = "up" => ActiveMasters(m)' = ActiveMasters(m)
    BY <1>u, <1>e DEF ActiveMasters
  <2> QED BY <2>1, <2>2, <1>k, <1>u DEF Masters
<1> QED BY <1>1, <1>2, <1>3, <1>4, <1>5, <1>6, <1>7 DEF KInv

\* The server listens (server.go:76): without Redis every configured key is active.
LEMMA ListenPreserves ==
    ASSUME KInv, NEW n \in Node, Listen(n)
    PROVE  KInv'
<1>k. /\ TypeOK /\ StoreTypeOK /\ Alive /\ OwnDigest /\ IndexAgrees /\ Fresh /\ Progress
      /\ Announced /\ Masters
  BY DEF KInv, TypeOK
<1>u. /\ life[n] = "boot" /\ turn[n] > Len(BootList) /\ life' = [life EXCEPT ![n] = "up"]
      /\ UNCHANGED <<storeVars, turn, callVars, used, historyVars>>
  BY DEF Listen
<1>l. /\ life' \in [Node -> {"down", "boot", "up"}] /\ life'[n] = "up"
      /\ \A m \in Node : m # n => life'[m] = life[m]
  BY <1>k, <1>u DEF TypeOK
<1>1. TypeOK'
  BY <1>k, <1>u, <1>l DEF TypeOK, StoreTypeOK
<1>2. Alive'
  <2>1. \A c \in Call : Home[c] \in Node
    BY ServerAssumption
  <2> QED BY <2>1, <1>k, <1>u, <1>l DEF Alive
<1>3. OwnDigest' /\ IndexAgrees'
  BY <1>k, <1>u DEF OwnDigest, IndexAgrees
<1>4. Fresh' /\ Progress'
  BY <1>k, <1>u DEF Fresh, Progress
<1>5. Announced'
  BY <1>k, <1>u DEF Announced, IssuedIsDurable
<1>6. Masters'
  <2>1. ASSUME \E i \in Configured : KindOf[i] = AuthMaster, n \notin backed
        PROVE  ActiveMasters(n) # {}
    <3>1. PICK i \in Configured : KindOf[i] = AuthMaster
      BY <2>1
    <3>2. PICK k \in 1 .. Len(BootList) : i = BootList[k]
      BY <3>1 DEF Configured
    <3>3. k < turn[n]
      BY <3>2, <1>u, <1>k, ServerAssumption DEF TypeOK
    <3>4. entry[n][i] = "active" /\ i \in Id
      BY <3>1, <3>2, <3>3, <2>1, <1>k, <1>u, ConfiguredIds DEF Masters
    <3> QED BY <3>1, <3>4 DEF ActiveMasters
  <2>2. \A m \in Node : ActiveMasters(m)' = ActiveMasters(m)
    BY <1>u DEF ActiveMasters
  <2> QED BY <2>1, <2>2, <1>k, <1>u, <1>l DEF Masters
<1> QED BY <1>1, <1>2, <1>3, <1>4, <1>5, <1>6 DEF KInv

\* Before the first start there is no cache, no call and nothing in Redis.
LEMMA InitKInv == Init => KInv
<1> SUFFICES ASSUME Init PROVE KInv
  OBVIOUS
<1> USE DEF Init, StoreInit, NoEntry, NoHashes, NoIndex
<1>1. TypeOK
  <2>1. StoreTypeOK
    BY KeyFaultsAssumption DEF StoreTypeOK
  <2>2. turn \in [Node -> 1 .. Len(BootList)+1]
    <3>1. 1 \in 1 .. Len(BootList)+1
      BY ServerAssumption
    <3> QED BY <3>1
  <2>3. used \subseteq Id
    BY ConfiguredIds
  <2> QED BY <2>1, <2>2, <2>3 DEF TypeOK
<1>2. Alive /\ OwnDigest /\ IndexAgrees
  BY DEF Alive, OwnDigest, IndexAgrees
<1>3. Fresh /\ Progress
  BY DEF Fresh, Progress
<1>4. Announced /\ Masters
  BY DEF Announced, IssuedIsDurable, Masters
<1> QED BY <1>1, <1>2, <1>3, <1>4 DEF KInv

\* Every step of a call or of a process preserves KInv.
LEMMA NextKInv == KInv /\ [Next]_vars => KInv'
<1> SUFFICES ASSUME KInv, [Next]_vars PROVE KInv'
  OBVIOUS
<1>1. CASE UNCHANGED vars
  <2> USE <1>1 DEF vars, KInv
  <2>1. TypeOK'
    BY DEF TypeOK, StoreTypeOK
  <2>2. Alive' /\ OwnDigest' /\ IndexAgrees'
    BY DEF Alive, OwnDigest, IndexAgrees
  <2>3. Fresh' /\ Progress'
    BY DEF Fresh, Progress
  <2>4. Announced' /\ Masters'
    BY DEF Announced, IssuedIsDurable, Masters, ActiveMasters
  <2> QED BY <2>1, <2>2, <2>3, <2>4
<1>2. ASSUME NEW c \in Call, NEW o \in Op, Anonymous(c, o) PROVE KInv'
  BY <1>2, AnonymousPreserves
<1>3. ASSUME NEW c \in Call, NEW o \in Op, NEW t \in Id \cup {Nobody}, NEW i \in Id,
             NEW want \in {"none", "master", "guest"}, Serve(c, o, i, t, want)
      PROVE  KInv'
  BY <1>3, ServePreserves
<1>4. ASSUME NEW c \in Call, NEW i \in Id, NEW t \in Id, BeginGenerate(c, i, t) \/ BeginRevoke(c, i, t)
      PROVE  KInv'
  BY <1>4, BeginGeneratePreserves, BeginRevokePreserves
<1>5. ASSUME NEW c \in Call, CreatePersist(c) \/ CreateFails(c) \/ CreateCache(c)
      PROVE  KInv'
  BY <1>5, CreatePersistPreserves, CreateFailsPreserves, CreateCachePreserves
<1>6. ASSUME NEW c \in Call,
             RevokeRefused(c) \/ RevokeCache(c) \/ RevokePersist(c) \/ RevokePersistFails(c)
      PROVE  KInv'
  BY <1>6, RevokeRefusedPreserves, RevokeCachePreserves, RevokePersistPreserves,
     RevokePersistFailsPreserves
<1>7. ASSUME NEW n \in Node, OpenStore(n) \/ BootstrapTurn(n) \/ Listen(n) \/ ProcessEnds(n)
      PROVE  KInv'
  BY <1>7, OpenStorePreserves, BootstrapTurnPreserves, ListenPreserves, ProcessEndsPreserves
<1> QED BY <1>1, <1>2, <1>3, <1>4, <1>5, <1>6, <1>7 DEF Next

\* KInv is an invariant of the key management: the caches, Redis and the requests
\* under way fit together in every reachable state.
THEOREM KeyServerInductive == Spec => []KInv
BY InitKInv, NextKInv, PTL DEF Spec

\* The variables keep their types.
THEOREM KeyServerType == Spec => []TypeOK
<1>1. KInv => TypeOK
  BY DEF KInv
<1> QED BY <1>1, KeyServerInductive, PTL

\* The two maps of every store agree (store.go:56, 67).
THEOREM KeyServerIndexAgrees == Spec => []IndexAgrees
<1>1. KInv => IndexAgrees
  BY DEF KInv
<1> QED BY <1>1, KeyServerInductive, PTL

\* Nobody gets in with a key whose DELETE the process answered with 200: the digest
\* leads to the key it belongs to, and that key stays revoked.
THEOREM KeyServerRevokedIsRefused == Spec => []RevokedIsRefused
<1>1. KInv => RevokedIsRefused
  <2> SUFFICES ASSUME KInv, NEW n \in Node, NEW i \in revokedOn[n], Authenticates(n, i)
               PROVE  FALSE
    BY DEF RevokedIsRefused
  <2>1. i \in Id /\ entry[n][i] = "revoked"
    BY DEF KInv, TypeOK, Announced
  <2>2. Found(n, i) \in Id /\ Found(n, i) # Nobody
    BY <2>1, FoundType DEF KInv, Authenticates
  <2>3. HashKey[i] \in Hash /\ NoHash \notin Hash
    BY <2>1, KeyAssumption
  <2>4. entry[n][Found(n, i)] # "absent" /\ hash[n][Found(n, i)] = HashKey[i]
    BY <2>2, <2>3 DEF KInv, IndexAgrees, Found
  <2>5. HashKey[Found(n, i)] = HashKey[i]
    BY <2>2, <2>3, <2>4 DEF KInv, OwnDigest
  <2>6. Found(n, i) = i
    BY <2>1, <2>2, <2>5, KeyAssumption
  <2> QED BY <2>1, <2>6 DEF Authenticates
<1> QED BY <1>1, KeyServerInductive, PTL

\* A key announced with 201 by a process with Redis stays in Redis (store.go:240).
THEOREM KeyServerIssuedIsDurable == Spec => []IssuedIsDurable
<1>1. KInv => IssuedIsDurable
  BY DEF KInv, Announced
<1> QED BY <1>1, KeyServerInductive, PTL

\* A revocation announced by a process with Redis stays in Redis (store.go:287).
THEOREM KeyServerRevocationIsDurable == Spec => []RevocationIsDurable
<1>1. KInv => RevocationIsDurable
  BY DEF KInv, Announced, RevocationIsDurable
<1> QED BY <1>1, KeyServerInductive, PTL

\* Without Redis the guard of RevokeKey always leaves a master that can log in
\* (store.go:139), however many DELETEs run at the same time.
THEOREM KeyServerMasterRemains == Spec => []MasterRemains
<1>1. KInv => MasterRemains
  <2> SUFFICES ASSUME KInv, \E i \in Configured : KindOf[i] = AuthMaster,
                      NEW n \in Node \ backed, life[n] = "up"
               PROVE  MasterCanLogIn(n)
    BY DEF MasterRemains
  <2>1. PICK i \in Id : KindOf[i] = AuthMaster /\ entry[n][i] = "active"
    BY DEF KInv, Masters, ActiveMasters
  <2>2. hash[n][i] = HashKey[i]
    BY <2>1 DEF KInv, OwnDigest
  <2>3. byHash[n][HashKey[i]] = i
    BY <2>1, <2>2 DEF KInv, IndexAgrees
  <2> QED BY <2>1, <2>3 DEF MasterCanLogIn, Found
<1> QED BY <1>1, KeyServerInductive, PTL

-----------------------------------------------------------------------------
(* The capabilities. *)

\* A call under way has not answered yet, and what was answered is exact.
Exact == CapabilitiesAreExact /\ \A c \in Call : pc[c] # "Idle" => reply[c] = 0

\* The four checks (middleware.go:200, 214, 258, key.go:151) and the list of
\* permissions (key.go:109) agree for every kind of key.
LEMMA AdmitsExact ==
    ASSUME NEW k \in Kind, NEW o \in Op \ {"capabilities"}, NEW t \in Id \cup {Nobody},
           o \in {"generate", "revoke"} => t \in Id,
           o = "generate" => ValidateCombination(KindOf[t])
    PROVE  Admits(o, k, t, "none") <=> HasPermission(k, PermissionFor(o, t))
<1> USE DEF Kind, AuthMaster, AuthGuest, MetricsMaster, Permission, HasPermission, ListPermissions,
            Admits, RequireNormalAPI, RequireMasterAuth, RequireMetrics, CanGenerate, ValidateCombination,
            PermissionFor
<1>k. k \in {[type |-> "auth", role |-> "master"], [type |-> "auth", role |-> "guest"],
             [type |-> "metrics", role |-> "master"], [type |-> "metrics", role |-> "guest"]}
  OBVIOUS
<1>o. o \in {"api", "metrics", "list", "revoke", "generate"}
  BY ServerAssumption
<1>1. CASE o = "api" \/ o = "metrics"
  BY <1>k, <1>1
<1>2. CASE o = "list" \/ o = "revoke"
  <2>1. Admits(o, k, t, "none") <=> k = AuthMaster
    BY <1>2
  <2>2. HasPermission(k, PermissionFor(o, t)) <=> k = AuthMaster
    BY <1>k, <1>2
  <2> QED BY <2>1, <2>2
<1>3. CASE o = "generate"
  <2>1. KindOf[t] \in {[type |-> "auth", role |-> "master"], [type |-> "auth", role |-> "guest"],
                       [type |-> "metrics", role |-> "master"]}
    <3>1. KindOf[t] \in Kind /\ KindOf[t] # [type |-> "metrics", role |-> "guest"]
      BY <1>3, KeyAssumption
    <3> QED BY <3>1
  <2> QED BY <1>k, <1>3, <2>1
<1> QED BY <1>o, <1>1, <1>2, <1>3

\* A request is answered at once, or begins: 403 exactly for what is not permitted.
LEMMA AnswerExact ==
    ASSUME KInv, Exact, NEW c \in Call, NEW o, NEW k, NEW t, NEW code, Answer(c, o, k, t, code),
           \A d \in Call : d # c => pc'[d] = pc[d],
           pc'[c] # "Idle" => code = 0,
           k # Nobody /\ o # "capabilities" /\ code # 400 =>
               (code = 403 <=> ~HasPermission(KindOf[k], PermissionFor(o, t)))
    PROVE  Exact'
<1>1. /\ caller'[c] = k /\ target'[c] = t /\ op'[c] = o /\ reply'[c] = code
      /\ \A d \in Call : d # c => /\ caller'[d] = caller[d] /\ target'[d] = target[d]
                                  /\ op'[d] = op[d] /\ reply'[d] = reply[d]
  BY DEF KInv, TypeOK, Answer
<1>2. CapabilitiesAreExact'
  <2> SUFFICES ASSUME NEW d \in Call, caller'[d] # Nobody, op'[d] # "capabilities", reply'[d] # 400
               PROVE  reply'[d] = 403 <=> ~HasPermission(KindOf[caller'[d]], PermissionFor(op'[d], target'[d]))
    BY DEF CapabilitiesAreExact
  <2>1. CASE d = c
    BY <1>1, <2>1
  <2>2. CASE d # c
    BY <1>1, <2>2 DEF Exact, CapabilitiesAreExact
  <2> QED BY <2>1, <2>2
<1>3. \A d \in Call : pc'[d] # "Idle" => reply'[d] = 0
  BY <1>1 DEF Exact
<1> QED BY <1>2, <1>3 DEF Exact

\* A request that was let through ends with another code than 400 and 403.
LEMMA ReturnExact ==
    ASSUME KInv, Exact, NEW c \in Call, NEW code, Return(c, code), pc[c] # "Idle", code \notin {400, 403}
    PROVE  Exact'
<1>1. /\ reply'[c] = code /\ pc'[c] = "Idle" /\ UNCHANGED <<caller, target, op>>
      /\ \A d \in Call : d # c => reply'[d] = reply[d] /\ pc'[d] = pc[d]
  BY DEF KInv, TypeOK, Return
<1>2. reply[c] = 0
  BY DEF Exact
<1>3. CapabilitiesAreExact'
  <2> SUFFICES ASSUME NEW d \in Call, caller'[d] # Nobody, op'[d] # "capabilities", reply'[d] # 400
               PROVE  reply'[d] = 403 <=> ~HasPermission(KindOf[caller'[d]], PermissionFor(op'[d], target'[d]))
    BY DEF CapabilitiesAreExact
  <2>1. CASE d = c
    BY <1>1, <1>2, <2>1 DEF Exact, CapabilitiesAreExact
  <2>2. CASE d # c
    BY <1>1, <2>2 DEF Exact, CapabilitiesAreExact
  <2> QED BY <2>1, <2>2
<1>4. \A d \in Call : pc'[d] # "Idle" => reply'[d] = 0
  BY <1>1 DEF Exact
<1> QED BY <1>3, <1>4 DEF Exact

\* A step between begin and end, or of a process, answers nobody.
LEMMA SilentExact ==
    ASSUME Exact, UNCHANGED <<caller, target, op, reply>>,
           \A c \in Call : pc'[c] # "Idle" => pc[c] # "Idle"
    PROVE  Exact'
BY DEF Exact, CapabilitiesAreExact

LEMMA ServeExact ==
    ASSUME KInv, Exact, NEW c \in Call, NEW o \in Op, NEW i \in Id, NEW t \in Id \cup {Nobody},
           NEW want \in {"none", "master", "guest"}, Serve(c, o, i, t, want)
    PROVE  Exact'
<1> DEFINE k == Found(Home[c], i)
<1>1. pc[c] = "Idle" /\ UNCHANGED pc /\ (t = Nobody <=> o \notin {"generate", "revoke"})
      /\ (o # "capabilities" => want = "none")
  BY DEF Serve
<1>2. CASE Answer(c, o, Nobody, Nobody, 401)
  BY <1>1, <1>2, AnswerExact
<1>3. Authenticates(Home[c], i) => k \in Id /\ KindOf[k] \in Kind
  BY FoundType, ServerAssumption, KeyAssumption DEF KInv, Authenticates
<1> HIDE DEF k
<1>4. ASSUME Authenticates(Home[c], i), ~Admits(o, KindOf[k], t, want),
             Answer(c, o, k, t, IF o = "generate" /\ ~ValidateCombination(KindOf[t]) THEN 400 ELSE 403)
      PROVE  Exact'
  <2> DEFINE code == IF o = "generate" /\ ~ValidateCombination(KindOf[t]) THEN 400 ELSE 403
  <2>1. ASSUME o # "capabilities", code # 400
        PROVE  code = 403 /\ ~HasPermission(KindOf[k], PermissionFor(o, t))
    <3>1. code = 403 /\ (o = "generate" => ValidateCombination(KindOf[t]))
      BY <2>1
    <3>2. o \in {"generate", "revoke"} => t \in Id
      BY <1>1
    <3> QED BY <1>1, <1>3, <1>4, <2>1, <3>1, <3>2, AdmitsExact
  <2>2. Answer(c, o, k, t, code)
    BY <1>4
  <2> HIDE DEF code
  <2> QED BY <1>1, <2>1, <2>2, AnswerExact
<1>5. ASSUME Authenticates(Home[c], i), Admits(o, KindOf[k], t, want), o \notin {"generate", "revoke"},
             Answer(c, o, k, Nobody, 200)
      PROVE  Exact'
  <2>1. t = Nobody
    BY <1>1, <1>5
  <2>2. o # "capabilities" => HasPermission(KindOf[k], PermissionFor(o, Nobody))
    BY <1>1, <1>3, <1>5, <2>1, AdmitsExact
  <2> QED BY <1>1, <1>5, <2>2, AnswerExact
<1> QED BY <1>2, <1>4, <1>5 DEF Serve, k

LEMMA BeginExact ==
    ASSUME KInv, Exact, NEW c \in Call, NEW i \in Id, NEW t \in Id,
           BeginGenerate(c, i, t) \/ BeginRevoke(c, i, t)
    PROVE  Exact'
<1> DEFINE k == Found(Home[c], i)
<1>1. Authenticates(Home[c], i) /\ \A d \in Call : d # c => pc'[d] = pc[d]
  BY DEF BeginGenerate, BeginRevoke, KInv, TypeOK
<1>2. k \in Id /\ KindOf[k] \in Kind
  BY <1>1, FoundType, ServerAssumption, KeyAssumption DEF KInv, Authenticates
<1>3. PICK o \in {"generate", "revoke"} : o \in Op /\ Admits(o, KindOf[k], t, "none") /\ Answer(c, o, k, t, 0)
  BY DEF BeginGenerate, BeginRevoke
<1> HIDE DEF k
<1>4. o = "generate" => ValidateCombination(KindOf[t])
  BY <1>3 DEF Admits, CanGenerate
<1>5. HasPermission(KindOf[k], PermissionFor(o, t))
  BY <1>2, <1>3, <1>4, AdmitsExact
<1> QED BY <1>1, <1>3, <1>5, AnswerExact

LEMMA NextExact == KInv /\ Exact /\ [Next]_vars => Exact'
<1> SUFFICES ASSUME KInv, Exact, [Next]_vars
             PROVE  Exact'
  OBVIOUS
<1>1. CASE UNCHANGED vars
  BY <1>1, SilentExact DEF vars, callVars
<1>2. ASSUME NEW c \in Call, NEW o \in Op, Anonymous(c, o)
      PROVE  Exact'
  <2>1. PICK code : Answer(c, o, Nobody, Nobody, code) /\ pc[c] = "Idle" /\ UNCHANGED pc
    BY <1>2 DEF Anonymous
  <2> QED BY <2>1, AnswerExact
<1>3. ASSUME NEW c \in Call, CreatePersist(c) \/ CreateFails(c) \/ CreateCache(c)
      PROVE  Exact'
  <2>1. CASE CreatePersist(c)
    BY <2>1, SilentExact DEF CreatePersist, KInv, TypeOK
  <2>2. CASE CreateFails(c) \/ CreateCache(c)
    BY <2>2, ReturnExact DEF CreateFails, CreateCache
  <2> QED BY <1>3, <2>1, <2>2
<1>4. ASSUME NEW c \in Call,
             RevokeRefused(c) \/ RevokeCache(c) \/ RevokePersist(c) \/ RevokePersistFails(c)
      PROVE  Exact'
  <2>1. CASE RevokeRefused(c)
    BY <2>1, ReturnExact DEF RevokeRefused
  <2>2. CASE RevokePersist(c) \/ RevokePersistFails(c)
    BY <2>2, ReturnExact DEF RevokePersist, RevokePersistFails, Revoked
  <2>3. CASE RevokeCache(c)
    <3>1. CASE Home[c] \in backed
      <4>1. pc[c] = "Revoke" /\ pc' = [pc EXCEPT ![c] = "RevokePersist"] /\ UNCHANGED <<caller, target, op, reply>>
        BY <2>3, <3>1 DEF RevokeCache
      <4> QED BY <4>1, SilentExact DEF KInv, TypeOK
    <3>2. CASE Home[c] \notin backed
      BY <2>3, <3>2, ReturnExact DEF RevokeCache, Revoked
    <3> QED BY <3>1, <3>2
  <2> QED BY <1>4, <2>1, <2>2, <2>3
<1>5. ASSUME NEW n \in Node, OpenStore(n) \/ BootstrapTurn(n) \/ Listen(n) \/ ProcessEnds(n)
      PROVE  Exact'
  <2>1. UNCHANGED <<caller, target, op, reply>> /\ \A c \in Call : pc'[c] # "Idle" => pc[c] # "Idle"
    BY <1>5 DEF OpenStore, BootstrapTurn, Listen, ProcessEnds, callVars
  <2> QED BY <2>1, SilentExact
<1> QED BY <1>1, <1>2, <1>3, <1>4, <1>5, ServeExact, BeginExact DEF Next

\* The listed permissions and the separate checks of the endpoints agree, for every
\* key, endpoint and order of requests (key.go:109).
THEOREM KeyServerCapabilitiesAreExact == Spec => []CapabilitiesAreExact
<1>1. Init => Exact
  BY DEF Init, Exact, CapabilitiesAreExact
<1>2. KInv /\ Exact /\ [Next]_vars => Exact'
  BY NextExact
<1>3. Exact => CapabilitiesAreExact
  BY DEF Exact
<1> QED BY <1>1, <1>2, <1>3, KeyServerInductive, PTL DEF Spec
=============================================================================
