------------------------- MODULE KeyServerProperties -------------------------
(***************************************************************************)
(* What the key management promises, and one promise that it does not keep *)
(* over a restart with Redis.                                              *)
(***************************************************************************)
EXTENDS KeyServer

\* In a running or starting process the two maps of the store agree: a key is
\* found under its digest, and under no other, whatever was hydrated, replaced
\* at bootstrap or created since (store.go:56, 67).
IndexAgrees ==
    \A n \in Node :
        /\ \A i \in Id : entry[n][i] # "absent" => byHash[n][hash[n][i]] = i
        /\ \A h \in Hash \cup {NoHash} : byHash[n][h] # Nobody =>
                entry[n][byHash[n][h]] # "absent" /\ hash[n][byHash[n][h]] = h

\* A process that has answered a DELETE with 200 lets nobody in with that key,
\* although other requests create and revoke keys at the same time and the
\* write to Redis comes after the cache (tests/auth_test.go:371).
RevokedIsRefused == \A n \in Node : \A i \in revokedOn[n] : ~Authenticates(n, i)

\* A key announced with 201 by a process with Redis is in Redis for the next
\* start, whatever fails or ends (store.go:240).
IssuedIsDurable == \A i \in kept : i \in all /\ meta[i] # "absent"

\* A revocation announced with 200 by a process with Redis is in Redis and
\* stays there, also when the first attempt failed after the cache and was
\* repeated (store.go:135, 287), and whichever process does what to the key.
\* The configured keys are the exception: each start writes them again.
RevocationIsDurable == \A i \in retired \ Configured : meta[i] = "revoked"

\* The permission that GET /api/capabilities would list for a request.
PermissionFor(o, t) ==
    CASE o = "api" -> "api.access" [] o = "metrics" -> "metrics.access"
      [] o = "list" -> "token.list" [] o = "revoke" -> "token.revoke"
      [] o = "generate" /\ KindOf[t] = AuthGuest -> "token.generate.guest"
      [] o = "generate" /\ KindOf[t] = AuthMaster -> "token.generate.master"
      [] OTHER -> "token.generate.metrics"

\* A caller is answered 403 exactly when the capabilities the server lists for
\* its key (key.go:109) lack the permission: the list and the four separate
\* checks (CanGenerate, RequireMasterAuth, RequireNormalAPI, RequireMetrics) agree.
CapabilitiesAreExact ==
    \A c \in Call : caller[c] # Nobody /\ op[c] # "capabilities" /\ reply[c] # 400 =>
        (reply[c] = 403 <=> ~HasPermission(KindOf[caller[c]], PermissionFor(op[c], target[c])))

\* There is a master key that is active and opens the door of process n.
MasterCanLogIn(n) == \E i \in Id : KindOf[i] = AuthMaster /\ Found(n, i) = i /\ entry[n][i] = "active"

\* A server without Redis that started with a master token is never locked:
\* concurrent DELETEs leave a master key that works (store.go:139).
MasterRemains ==
    (\E i \in Configured : KindOf[i] = AuthMaster) =>
        \A n \in Node \ backed : life[n] = "up" => MasterCanLogIn(n)

\* store.go:172 "Redis-backed persistence": a key that was announced and is
\* active in Redis is accepted by a server that runs on that Redis.
IssuedKeysSurvive ==
    faults = 0 => \A n \in backed : life[n] = "up" =>
        \A i \in kept : meta[i] = "active" => Authenticates(n, i)
=============================================================================
