----------------------------- MODULE KeyServer -----------------------------
(***************************************************************************)
(* Servers that check and manage API keys: the middlewares of              *)
(* pkg/api/middleware.go and the handlers of pkg/api/auth.go, mounted by   *)
(* pkg/api/router.go, over the stores of KeyStore.                         *)
(*                                                                         *)
(* A call is a goroutine that serves one request after the other.  It      *)
(* reads the caller's key once, by the digest of the token, and works with *)
(* that copy; the store is used again only to create or revoke a key.      *)
(***************************************************************************)
EXTENDS KeyStore

CONSTANTS
    Call,        \* the goroutines that serve requests
    Home,        \* Home[c]: the process of c
    BootList,    \* the ids of the configured tokens, in the order of Bootstrap
    Op,          \* the endpoints that are called
    UsesRedis    \* whether REDIS_URL is set

Configured == {BootList[k] : k \in 1 .. Len(BootList)}

ASSUME ServerAssumption ==
    /\ Home \in [Call -> Node]
    /\ BootList \in Seq(Id)
    /\ \A i \in Configured : KindOf[i].role = "master"
    /\ UsesRedis \in BOOLEAN
    /\ Op \subseteq {"api", "metrics", "list", "capabilities", "generate", "revoke"}

VARIABLES
    life,      \* life[n]: down, boot or up
    turn,      \* turn[n]: the turn of Bootstrap that comes next
    pc,        \* pc[c]: where c is
    caller,    \* caller[c]: the key in the context of the request of c, or Nobody
    target,    \* target[c]: the key it is about
    op,        \* op[c]: the endpoint
    reply,     \* reply[c]: the status code of the last answer
    used,      \* the random ids that were drawn
    kept,      \* history: the keys a RedisStore took and a 201 announced
    retired,   \* history: the keys a RedisStore revoked and a 200 announced
    revokedOn  \* history: revokedOn[n]: keys whose DELETE process n answered with 200

callVars == <<pc, caller, target, op, reply>>
nodeVars == <<life, turn>>
historyVars == <<kept, retired, revokedOn>>
vars     == <<storeVars, nodeVars, callVars, used, historyVars>>

Init ==
    /\ StoreInit
    /\ life = [n \in Node |-> "down"] /\ turn = [n \in Node |-> 1]
    /\ pc = [c \in Call |-> "Idle"]
    /\ caller = [c \in Call |-> Nobody] /\ target = [c \in Call |-> Nobody]
    /\ op = [c \in Call |-> "none"] /\ reply = [c \in Call |-> 0]
    /\ used = Configured /\ kept = {} /\ retired = {} /\ revokedOn = [n \in Node |-> {}]

Label == {"Idle", "Create", "CreateCache", "Revoke", "RevokePersist"}
Code  == {0, 200, 201, 400, 401, 403, 404, 409, 500}

TypeOK ==
    /\ StoreTypeOK
    /\ life \in [Node -> {"down", "boot", "up"}] /\ turn \in [Node -> 1 .. Len(BootList)+1]
    /\ pc \in [Call -> Label]
    /\ caller \in [Call -> Id \cup {Nobody}] /\ target \in [Call -> Id \cup {Nobody}]
    /\ \A c \in Call : pc[c] # "Idle" => caller[c] \in Id /\ target[c] \in Id
    /\ op \in [Call -> Op \cup {"none"}] /\ reply \in [Call -> Code]
    /\ used \subseteq Id /\ kept \subseteq Id /\ retired \subseteq Id /\ revokedOn \in [Node -> SUBSET Id]

-----------------------------------------------------------------------------
(* Requests. *)

\* Whether the handler or middleware of endpoint o lets a key of kind k through;
\* want is the role the client of /api/capabilities expects.
Admits(o, k, t, want) ==
    CASE o = "api"          -> RequireNormalAPI(k)
      [] o = "metrics"      -> RequireMetrics(k)
      [] o = "list"         -> RequireMasterAuth(k)
      [] o = "revoke"       -> RequireMasterAuth(k)
      [] o = "generate"     -> CanGenerate(k, KindOf[t])
      [] o = "capabilities" -> want = "none" \/ (k.type = "auth" /\ k.role = want)

Answer(c, o, k, t, code) ==
    /\ caller' = [caller EXCEPT ![c] = k] /\ target' = [target EXCEPT ![c] = t]
    /\ op' = [op EXCEPT ![c] = o] /\ reply' = [reply EXCEPT ![c] = code]

\* A request without a token.  It passes the authentication when no token is
\* configured, and then the handlers that need a caller turn it away.
Anonymous(c, o) ==
    /\ pc[c] = "Idle" /\ life[Home[c]] = "up"
    /\ LET open == \A i \in Configured : KindOf[i] # AuthMaster
       IN  Answer(c, o, Nobody, Nobody,
                  CASE o = "metrics" \/ ~open -> 401
                    [] o = "api" -> 200
                    [] o \in {"list", "revoke"} -> 403
                    [] OTHER -> 401)
    /\ UNCHANGED <<storeVars, nodeVars, pc, used, historyVars>>

\* A request with the plaintext of key i that ends without a change of the store.
\* Only the key handlers name a target t, only /api/capabilities a role.
Serve(c, o, i, t, want) ==
    /\ pc[c] = "Idle" /\ life[Home[c]] = "up"
    /\ t = Nobody <=> o \notin {"generate", "revoke"}
    /\ o # "capabilities" => want = "none"
    /\ LET k == Found(Home[c], i)
       IN  \/ ~Authenticates(Home[c], i) /\ Answer(c, o, Nobody, Nobody, 401)
          \/ /\ Authenticates(Home[c], i) /\ ~Admits(o, KindOf[k], t, want)
             /\ Answer(c, o, k, t, IF o = "generate" /\ ~ValidateCombination(KindOf[t])
                                   THEN 400 ELSE 403)
          \/ /\ Authenticates(Home[c], i) /\ Admits(o, KindOf[k], t, want)
             /\ o \notin {"generate", "revoke"}
             /\ Answer(c, o, k, Nobody, 200)
    /\ UNCHANGED <<storeVars, nodeVars, pc, used, historyVars>>

\* Variant: ids are drawn from a generator that repeats itself.
BeginGenerateAgain(c, i, t) ==
    /\ pc[c] = "Idle" /\ life[Home[c]] = "up"
    /\ Authenticates(Home[c], i)
    /\ Admits("generate", KindOf[Found(Home[c], i)], t, "none")
    /\ "generate" \in Op /\ t \notin used /\ UNCHANGED used
    /\ pc' = [pc EXCEPT ![c] = IF Home[c] \in backed THEN "Create" ELSE "CreateCache"]
    /\ Answer(c, "generate", Found(Home[c], i), t, 0)
    /\ UNCHANGED <<storeVars, nodeVars, historyVars>>

\* POST /api/keys up to the new random key t.
BeginGenerate(c, i, t) ==
    /\ pc[c] = "Idle" /\ life[Home[c]] = "up"
    /\ Authenticates(Home[c], i)
    /\ Admits("generate", KindOf[Found(Home[c], i)], t, "none")
    /\ "generate" \in Op /\ t \notin used /\ used' = used \cup {t}
    /\ pc' = [pc EXCEPT ![c] = IF Home[c] \in backed THEN "Create" ELSE "CreateCache"]
    /\ Answer(c, "generate", Found(Home[c], i), t, 0)
    /\ UNCHANGED <<storeVars, nodeVars, historyVars>>

\* DELETE /api/keys/{t} up to the store.
BeginRevoke(c, i, t) ==
    /\ pc[c] = "Idle" /\ life[Home[c]] = "up"
    /\ Authenticates(Home[c], i)
    /\ "revoke" \in Op /\ Admits("revoke", KindOf[Found(Home[c], i)], t, "none")
    /\ pc' = [pc EXCEPT ![c] = "Revoke"]
    /\ Answer(c, "revoke", Found(Home[c], i), t, 0)
    /\ UNCHANGED <<storeVars, nodeVars, used, historyVars>>

Return(c, code) ==
    /\ pc' = [pc EXCEPT ![c] = "Idle"] /\ reply' = [reply EXCEPT ![c] = code]
    /\ UNCHANGED <<caller, target, op>>

\* RedisStore.CreateKey: the pipeline, then the cache.
CreatePersist(c) ==
    /\ pc[c] = "Create"
    /\ Persist(target[c])
    /\ pc' = [pc EXCEPT ![c] = "CreateCache"]
    /\ UNCHANGED <<memoryVars, backed, nodeVars, caller, target, op, reply, used, historyVars>>

\* Variant: the error of the pipeline is dropped.
CreateCarriesOn(c) ==
    /\ pc[c] = "Create"
    /\ PersistFails(target[c])
    /\ pc' = [pc EXCEPT ![c] = "CreateCache"]
    /\ UNCHANGED <<memoryVars, backed, nodeVars, caller, target, op, reply, used, historyVars>>

CreateFails(c) ==
    /\ pc[c] = "Create"
    /\ PersistFails(target[c])
    /\ Return(c, 500)
    /\ UNCHANGED <<memoryVars, backed, nodeVars, used, historyVars>>

\* MemoryStore.CreateKey, and the answer with the plaintext.
CreateCache(c) ==
    /\ pc[c] = "CreateCache"
    /\ MemoryCreate(Home[c], target[c], HashKey[target[c]], "active")
    /\ Return(c, 201)
    /\ kept' = IF Home[c] \in backed THEN kept \cup {target[c]} ELSE kept
    /\ UNCHANGED <<backed, redisVars, nodeVars, used, retired, revokedOn>>

RevokeRefused(c) ==
    /\ pc[c] = "Revoke"
    /\ \/ entry[Home[c]][target[c]] = "absent" /\ Return(c, 404)
       \/ LastMaster(Home[c], target[c]) /\ Return(c, 409)
    /\ UNCHANGED <<storeVars, nodeVars, used, historyVars>>

Revoked(c) ==
    /\ Return(c, 200)
    /\ retired' = IF Home[c] \in backed THEN retired \cup {target[c]} ELSE retired
    /\ revokedOn' = [revokedOn EXCEPT ![Home[c]] = @ \cup {target[c]}]
    /\ UNCHANGED kept

\* Variant: a key that is revoked already needs no work.
RevokeCacheOnce(c) ==
    /\ pc[c] = "Revoke"
    /\ MemoryRevoke(Home[c], target[c])
    /\ IF Home[c] \in backed /\ entry[Home[c]][target[c]] = "active"
       THEN /\ pc' = [pc EXCEPT ![c] = "RevokePersist"]
            /\ UNCHANGED <<caller, target, op, reply, historyVars>>
       ELSE Revoked(c)
    /\ UNCHANGED <<backed, redisVars, nodeVars, used>>

\* The cache first, also when the key is revoked there already.
RevokeCache(c) ==
    /\ pc[c] = "Revoke"
    /\ MemoryRevoke(Home[c], target[c])
    /\ IF Home[c] \in backed
       THEN /\ pc' = [pc EXCEPT ![c] = "RevokePersist"]
            /\ UNCHANGED <<caller, target, op, reply, historyVars>>
       ELSE Revoked(c)
    /\ UNCHANGED <<backed, redisVars, nodeVars, used>>

RevokePersist(c) ==
    /\ pc[c] = "RevokePersist"
    /\ PersistStatus(Home[c], target[c])
    /\ Revoked(c)
    /\ UNCHANGED <<memoryVars, backed, nodeVars, used>>

RevokePersistFails(c) ==
    /\ pc[c] = "RevokePersist"
    /\ PersistStatusFails(Home[c], target[c])
    /\ Return(c, 500)
    /\ UNCHANGED <<memoryVars, backed, nodeVars, used, historyVars>>

-----------------------------------------------------------------------------
(* Processes. *)

\* NewStore: open the store; Redis is left aside when it does not answer.
OpenStore(n) ==
    /\ life[n] = "down"
    /\ \/ UsesRedis /\ OpenRedisStore(n)
       \/ UsesRedis /\ OpenMemoryStore(n) /\ Fault
       \/ ~UsesRedis /\ OpenMemoryStore(n) /\ UNCHANGED faults
    /\ life' = [life EXCEPT ![n] = "boot"] /\ turn' = [turn EXCEPT ![n] = 1]
    /\ UNCHANGED <<callVars, used, historyVars>>

BootstrapTurn(n) ==
    /\ life[n] = "boot" /\ turn[n] <= Len(BootList)
    /\ Bootstrap(n, BootList[turn[n]])
    /\ turn' = [turn EXCEPT ![n] = @ + 1]
    /\ UNCHANGED <<backed, life, callVars, used, historyVars>>

Listen(n) ==
    /\ life[n] = "boot" /\ turn[n] > Len(BootList)
    /\ life' = [life EXCEPT ![n] = "up"]
    /\ UNCHANGED <<storeVars, turn, callVars, used, historyVars>>

\* The process ends or dies; its cache and its requests are gone.
ProcessEnds(n) ==
    /\ life[n] # "down" /\ life' = [life EXCEPT ![n] = "down"]
    /\ entry' = [entry EXCEPT ![n] = NoEntry] /\ hash' = [hash EXCEPT ![n] = NoHashes]
    /\ byHash' = [byHash EXCEPT ![n] = NoIndex]
    /\ pc' = [c \in Call |-> IF Home[c] = n THEN "Idle" ELSE pc[c]]
    /\ revokedOn' = [revokedOn EXCEPT ![n] = {}]
    /\ UNCHANGED <<backed, redisVars, turn, caller, target, op, reply, used, kept, retired>>

Next ==
    \/ \E c \in Call :
          \/ \E o \in Op :
                \/ Anonymous(c, o)
                \/ \E i \in Id, t \in Id \cup {Nobody}, want \in {"none", "master", "guest"} :
                        Serve(c, o, i, t, want)
          \/ \E i, t \in Id : BeginGenerate(c, i, t) \/ BeginRevoke(c, i, t)
          \/ CreatePersist(c) \/ CreateFails(c) \/ CreateCache(c)
          \/ RevokeRefused(c) \/ RevokeCache(c) \/ RevokePersist(c) \/ RevokePersistFails(c)
    \/ \E n \in Node : OpenStore(n) \/ BootstrapTurn(n) \/ Listen(n) \/ ProcessEnds(n)

Spec == Init /\ [][Next]_vars
=============================================================================
