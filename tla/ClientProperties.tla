-------------------------- MODULE ClientProperties --------------------------
(***************************************************************************)
(* What the client promises its user.                                      *)
(***************************************************************************)
EXTENDS Client

Place == {"idle", "verify", "metrics", "probe", "send", "local", "truncate", "write"}

\* Types of the variables; a file that is not whole says nothing.
TypeOK ==
    /\ text \in {"empty", "whole", "corrupt"} /\ file \in ClientConfig
    /\ text # "whole" => file = Blank
    /\ pc \in [Shell -> Place]
    /\ cmd \in [Shell -> Commands \cup {Idle}] /\ cfg \in [Shell -> ClientConfig]
    /\ \A s \in Shell : pc[s] = "idle" <=> cmd[s] = Idle
    /\ active \subseteq issued /\ issued \subseteq Key /\ commands \in 0 .. MaxCommands
    /\ base \in [Shell -> ClientConfig]
    /\ entered \subseteq Key /\ gone \subseteq Key

\* A guest has no metrics key, but one that some environment put there, and the role is
\* the one the server gave the token next to it, unless the token came from the user's
\* hand or an environment.
Coherent(d) ==
    /\ d.role = "guest" => d.metrics \in {none} \cup {Env[s].metrics : s \in Shell}
    /\ d.role # none /\ d.token # none =>
           \/ d.token \in entered \cup {Env[s].token : s \in Shell}
           \/ KindOf[d.token] = [type |-> "auth", role |-> d.role]

\* What the file says fits together, although every command writes all of it from a
\* copy that others may have replaced: a login as guest clears the metrics key
\* (auth.go:288), a login keeps only a role the server confirmed (auth.go:259), and
\* set-token and connect, which keep the old role next to a new token (config.go:207,
\* config.go:122), are the only others.
FileIsCoherent == Coherent(file)

\* What a logout cleared (auth.go:185) does not come back by itself: a command that
\* starts later does not find it anywhere, unless it is typed again, is in an
\* environment, or a command that had it before the logout saves after it.
LogoutSticks == {file.token, file.metrics} \cap gone = {}

Field == {"url", "token", "metrics", "role"}

\* The fields that the command c sets: what its arguments and flags name, what set-url
\* and its like set to their argument, also an empty one, and the role.
Sets(c) ==
    {f \in Field : \/ f = "url" /\ (c.url # none \/ c.op = "set-url")
                   \/ f = "token" /\ (c.key # none \/ c.op \in {"set-token", "logout"})
                   \/ f = "metrics" /\ (c.other # none \/ c.op \in {"guest", "set-metrics", "logout"})
                   \/ f = "role" /\ c.op \in {"master", "guest", "logout"}}

\* x, for the field f of a configuration of s, is what s read in the file, or was put
\* before it by the environment, or is the default.
Kept(s, f, x) ==
    \/ x = base[s][f]
    \/ f # "role" /\ Env[s][f] # none /\ x = Env[s][f]
    \/ f = "url" /\ base[s].url = none /\ x = DefaultUrl

\* A save writes all fields (config.go:70), and a command keeps those it does not set.
\* (What other commands saved since it read the file is lost.)
KeepsTheRest ==
    [][\A s \in Shell :
          pc[s] = "write" /\ pc'[s] = "idle" /\ text' = "whole" /\ fileVars' # fileVars =>
              \A f \in Field \ Sets(cmd[s]) : Kept(s, f, file'[f])]_clientVars

\* A command that waits for a server ends, however long the server is silent, and a
\* login that goes from one request to the next and to the save does too.  Not said of
\* `cee health` (info.go:45) and of a `cee run` whose --timeout takes the timeout of
\* the request away (exec.go:413), nor of a program that runs here (exec.go:154).
CommandsEnd ==
    \A s \in Shell :
        (pc[s] \notin {"idle", "local"} /\ HasTimeout(cmd[s])) ~> (pc[s] = "idle")
=============================================================================
