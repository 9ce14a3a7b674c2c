------------------------- MODULE KeyServerInvariant -------------------------
(***************************************************************************)
(* The inductive invariant of KeyServer.                                   *)
(***************************************************************************)
EXTENDS KeyServerProperties

\* A call that is under way belongs to a process that runs; a process that does
\* not run has no call, a process that is down no cache, and neither has revoked.
Alive ==
    /\ \A c \in Call : pc[c] # "Idle" => life[Home[c]] = "up"
    /\ \A n \in Node : life[n] = "down" => \A i \in Id : entry[n][i] = "absent"
    /\ \A n \in Node : life[n] # "up" => revokedOn[n] = {}

\* The digest of a cached key is its own, or missing after hydrate.
OwnDigest ==
    \A n \in Node, i \in Id : entry[n][i] # "absent" =>
        hash[n][i] = HashKey[i] \/ (hash[n][i] = NoHash /\ n \in backed)

\* An id that was not drawn, and one whose pipeline has not been sent, is
\* nowhere; two calls never create the same key.
Fresh ==
    /\ Configured \subseteq used
    /\ \A c \in Call : pc[c] \in {"Create", "CreateCache"} => target[c] \in used \ Configured
    /\ \A c, d \in Call : pc[c] \in {"Create", "CreateCache"} /\ pc[d] \in {"Create", "CreateCache"}
            /\ target[c] = target[d] => c = d
    /\ \A i \in Id : i \notin used \/ (\E c \in Call : pc[c] = "Create" /\ target[c] = i) =>
            meta[i] = "absent" /\ \A n \in Node : entry[n][i] = "absent"

\* What a call may rely on between its steps.
Progress ==
    \A c \in Call :
        /\ pc[c] = "Create" => Home[c] \in backed
        /\ pc[c] = "CreateCache" /\ Home[c] \in backed =>
                target[c] \in all /\ meta[target[c]] # "absent"
        /\ pc[c] = "RevokePersist" => Home[c] \in backed /\ entry[Home[c]][target[c]] = "revoked"

\* What was announced.
Announced ==
    /\ IssuedIsDurable
    /\ \A i \in retired : meta[i] # "absent" /\ (i \in Configured \/ meta[i] = "revoked")
    /\ \A n \in Node : \A i \in revokedOn[n] : entry[n][i] = "revoked"

\* Without Redis, Bootstrap finds no revoked key and leaves each key it has
\* registered active until the server listens; from then on there is an active master.
Masters ==
    /\ \A n \in Node \ backed : life[n] = "boot" =>
            /\ \A i \in Id : entry[n][i] # "revoked"
            /\ \A k \in 1 .. Len(BootList) : k < turn[n] => entry[n][BootList[k]] = "active"
    /\ (\E i \in Configured : KindOf[i] = AuthMaster) =>
            \A n \in Node \ backed : life[n] = "up" => ActiveMasters(n) # {}

KInv == TypeOK /\ Alive /\ OwnDigest /\ IndexAgrees /\ Fresh /\ Progress /\ Announced /\ Masters
=============================================================================
