----------------------------- MODULE Credential -----------------------------
(***************************************************************************)
(* Kinds of API keys and what they permit: pkg/auth/key.go.                *)
(***************************************************************************)

Kind == [type : {"auth", "metrics"}, role : {"master", "guest"}]

AuthMaster    == [type |-> "auth", role |-> "master"]
AuthGuest     == [type |-> "auth", role |-> "guest"]
MetricsMaster == [type |-> "metrics", role |-> "master"]

Permission == {"api.access", "token.generate.guest", "token.generate.master",
               "token.generate.metrics", "token.revoke", "token.list", "metrics.access"}

\* The combinations a key may have; a metrics key is master-only.
ValidateCombination(k) == k \in Kind \ {[type |-> "metrics", role |-> "guest"]}

\* What an active key of kind k may do, as GET /api/capabilities lists it.
ListPermissions(k) ==
    CASE k = AuthMaster    -> Permission
      [] k = AuthGuest     -> {"api.access", "token.generate.guest"}
      [] k = MetricsMaster -> {"metrics.access"}
      [] OTHER             -> {}

HasPermission(k, perm) == perm \in ListPermissions(k)

\* Variant: the role of the new key is not looked at.
CanGenerateLax(k, target) ==
    /\ ValidateCombination(target)
    /\ \/ k = AuthMaster
       \/ k = AuthGuest /\ target.type = "auth"

\* What POST /api/keys asks, without the list above.
CanGenerate(k, target) ==
    /\ ValidateCombination(target)
    /\ \/ k = AuthMaster
       \/ k = AuthGuest /\ target = AuthGuest

\* The middlewares RequireNormalAPI, RequireMasterAuth and the check in
\* RequireMetrics.
RequireNormalAPI(k)  == HasPermission(k, "api.access")
RequireMasterAuth(k) == k = AuthMaster
RequireMetrics(k)    == HasPermission(k, "metrics.access")
=============================================================================
