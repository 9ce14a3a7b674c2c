-------------------------- MODULE ClientInvariant --------------------------
(***************************************************************************)
(* An inductive invariant of Client: what the copy of a running command is *)
(* good for, at each place where it may be saved later.                    *)
(***************************************************************************)
EXTENDS ClientProperties

\* Where a command has a copy of the file that it may save, and where the copy is ready.
Copying == {"verify", "metrics", "truncate", "write"}
Ready   == {"metrics", "truncate", "write"}

\* Commands are in their own code.
Places ==
    \A s \in Shell :
        /\ pc[s] = "verify" => cmd[s].op \in {"master", "guest"}
        /\ pc[s] = "metrics" => cmd[s].op \in {"master", "metrics"} /\ cmd[s].other # none
        /\ pc[s] = "probe" => cmd[s].op = "connect" /\ cmd[s].key \in entered \cup {none}
        /\ pc[s] \in Copying => cmd[s].op \in Saving

\* Who has read nothing has no copy; a copy has an address, unless set-url was given
\* none, fits together once it is ready, and keeps what its command does not set.
Copies ==
    \A s \in Shell :
        /\ pc[s] \in {"idle", "probe"} => cfg[s] = Blank
        /\ pc[s] \in Copying /\ cmd[s].op # "set-url" => cfg[s].url # none
        /\ pc[s] \in Ready => Coherent(cfg[s])
        /\ pc[s] = "metrics" => cfg[s].role # "guest"
        /\ pc[s] \in Ready /\ cmd[s].op = "logout" => cfg[s].token = none /\ cfg[s].metrics = none
        /\ pc[s] \in Copying => \A f \in Field \ Sets(cmd[s]) : Kept(s, f, cfg[s][f])

\* No command that runs, and no environment, has what was logged out.
Cleared ==
    /\ FromEnv \cap gone = {}
    /\ \A s \in Shell : Brings(s) \cap gone = {}

CInv == TypeOK /\ FileIsCoherent /\ LogoutSticks /\ Places /\ Copies /\ Cleared
=============================================================================
