------------------------------- MODULE Client -------------------------------
(***************************************************************************)
(* The command line client, cmd/cee: shells of one user that run `cee`     *)
(* commands at the same time, each a process of its own, over one          *)
(* configuration file, ~/.cee/config.json, which no lock protects.         *)
(*                                                                         *)
(* A command reads the whole file, works with its copy, asks a server, and *)
(* may write the whole copy back; os.WriteFile first truncates the file.   *)
(* It can be interrupted between any two steps.                            *)
(***************************************************************************)
EXTENDS Integers, Credential

CONSTANTS
    Shell,        \* the terminals
    Url,          \* the addresses of servers, without trailing slashes
    DefaultUrl,   \* http://localhost:3000
    Home,         \* the server that knows the keys; others refuse them
    Key,          \* plaintext keys
    KindOf,       \* KindOf[k]: type and role of k
    Issued,       \* the keys that exist at the start
    Env,          \* Env[s]: url, token and metrics of the environment of s, or none
    Commands,     \* the commands that are typed, see Command
    MaxCommands,  \* bound on the commands
    none          \* the empty string

KeyOrNone == Key \cup {none}
UrlOrNone == Url \cup {none}

Saving   == {"master", "guest", "metrics", "connect", "set-url", "set-token", "set-metrics", "logout"}
NeedsKey == {"whoami", "list", "generate", "revoke"}
Asking   == NeedsKey \cup {"show", "status", "submit", "fetch", "health", "run"}

\* A command with its arguments and flags: the auth key, the metrics key or the
\* key that is generated or revoked, the address, and whether the --timeout of
\* `cee run` leaves its request a timeout.
Command == [op : Saving \cup Asking, key : KeyOrNone, other : KeyOrNone, url : UrlOrNone,
            limited : BOOLEAN]
Idle    == [op |-> none, key |-> none, other |-> none, url |-> none, limited |-> TRUE]

ASSUME ClientAssumption ==
    /\ DefaultUrl \in Url /\ Home \in Url
    /\ none \notin Key \cup Url \cup Saving \cup Asking
    /\ KindOf \in [Key -> {AuthMaster, AuthGuest, MetricsMaster}]
    /\ Issued \subseteq Key /\ MaxCommands \in Nat
    /\ Env \in [Shell -> [url : UrlOrNone, token : KeyOrNone, metrics : KeyOrNone]]
    /\ Commands \subseteq Command
    /\ \A c \in Commands :
          /\ c.op \in {"show", "status", "run"} => c.key = none /\ c.url = none
          /\ c.op \in {"master", "guest"} => c.key # none
          /\ c.op \in {"metrics", "generate", "revoke"} => c.other # none
          /\ c.op = "connect" => c.url # none
          /\ c.op \in {"guest", "connect", "set-token"} => c.other = none

ClientConfig == [url : UrlOrNone, token : KeyOrNone, metrics : KeyOrNone,
                 role : {"master", "guest", none}]

Blank == [url |-> none, token |-> none, metrics |-> none, role |-> none]

VARIABLES
    text,      \* whether the file is empty or absent, whole, or corrupt
    file,      \* what it says when it is whole
    pc,        \* pc[s]: where the command of s is
    cmd,       \* cmd[s]: the command
    cfg,       \* cfg[s]: its copy of the configuration
    active,    \* the keys Home accepts
    issued,    \* the keys that were ever generated
    commands,  \* the number of commands so far
    base,      \* history: base[s], the configuration in the file as s read it
    entered,   \* history: the keys typed as tokens that no server verified
    gone       \* history: keys logged out, which nothing that runs or was typed since brings

fileVars    == <<text, file>>
serverVars  == <<active, issued>>
historyVars == <<base, entered, gone>>
clientVars  == <<fileVars, pc, cmd, cfg, serverVars, commands, historyVars>>

Init ==
    /\ text = "empty" /\ file = Blank
    /\ pc = [s \in Shell |-> "idle"]
    /\ cmd = [s \in Shell |-> Idle] /\ cfg = [s \in Shell |-> Blank]
    /\ active = Issued /\ issued = Issued /\ commands = 0
    /\ base = [s \in Shell |-> Blank] /\ entered = {} /\ gone = {}

-----------------------------------------------------------------------------
(* The configuration. *)

Or(x, y) == IF x = none THEN y ELSE x

\* Variant: no default address.
loadWithoutDefault(s) ==
    [url     |-> Or(Env[s].url, file.url),
     token   |-> Or(Env[s].token, file.token),
     metrics |-> Or(Env[s].metrics, file.metrics),
     role    |-> file.role]

\* The environment goes before the file, except for the role, which only the
\* file has; a file that is absent or does not parse says nothing.
loadClientConfig(s) ==
    [url     |-> Or(Env[s].url, Or(file.url, DefaultUrl)),
     token   |-> Or(Env[s].token, file.token),
     metrics |-> Or(Env[s].metrics, file.metrics),
     role    |-> file.role]

\* The flags --url and --token of c go before the configuration d.
resolveClientParams(c, d) == [d EXCEPT !.url = Or(c.url, @), !.token = Or(c.key, @)]

\* The first half of saveClientConfig.
Truncate(s) ==
    /\ pc[s] = "truncate"
    /\ text' = "empty" /\ file' = Blank
    /\ pc' = [pc EXCEPT ![s] = "write"]
    /\ UNCHANGED <<cmd, cfg, serverVars, commands, base, entered, gone>>

\* The command of s is over.
Ends(s) ==
    /\ pc' = [pc EXCEPT ![s] = "idle"]
    /\ cmd' = [cmd EXCEPT ![s] = Idle] /\ cfg' = [cfg EXCEPT ![s] = Blank]
    /\ base' = [base EXCEPT ![s] = Blank]

FromEnv == UNION {{Env[s].token, Env[s].metrics} : s \in Shell}

\* The credentials that a save of s would bring to the file.
Brings(s) ==
    IF cmd[s].op \in Saving THEN {cmd[s].key, cmd[s].other, cfg[s].token, cfg[s].metrics} ELSE {}

\* The second half.  Where two saves overlap, the longer text can leave its end
\* behind the shorter one.
Write(s) ==
    /\ pc[s] = "write"
    /\ \/ text' = "whole" /\ file' = cfg[s]
       \/ text # "empty" /\ file # cfg[s] /\ text' = "corrupt" /\ file' = Blank
    /\ gone' = IF cmd[s].op = "logout" /\ text' = "whole"
               THEN Key \ (FromEnv \cup UNION {Brings(t) : t \in Shell \ {s}})
               ELSE gone
    /\ Ends(s)
    /\ UNCHANGED <<serverVars, commands, entered>>

-----------------------------------------------------------------------------
(* The commands up to their first request. *)

\* A command c is typed in s.
Types(s, c) ==
    /\ pc[s] = "idle" /\ commands < MaxCommands
    /\ commands' = commands + 1
    /\ entered' = IF c.op \in {"set-token", "connect"} THEN entered \cup ({c.key} \ {none}) ELSE entered
    /\ gone' = IF c.op \in Saving THEN gone \ {c.key, c.other} ELSE gone
    /\ UNCHANGED <<fileVars, serverVars>>

\* It reads the file and goes on at p with the configuration d.
GoesOn(s, c, p, d) ==
    /\ Types(s, c)
    /\ pc' = [pc EXCEPT ![s] = p] /\ cmd' = [cmd EXCEPT ![s] = c] /\ cfg' = [cfg EXCEPT ![s] = d]
    /\ base' = [base EXCEPT ![s] = file]

\* It returns at once.
Returns(s, c) ==
    /\ Types(s, c)
    /\ UNCHANGED <<pc, cmd, cfg, base>>

\* executeLogin up to GET /api/capabilities.
Login(s, c) ==
    /\ c.op \in {"master", "guest"}
    /\ GoesOn(s, c, "verify", loadClientConfig(s))

\* `auth metrics` up to GET /metrics, and `config set-metrics`.
SetMetrics(s, c) ==
    LET d == loadClientConfig(s)
    IN /\ c.op \in {"metrics", "set-metrics"}
       /\ \/ d.role = "guest" /\ Returns(s, c)
          \/ /\ d.role # "guest"
             /\ \/ c.op = "metrics" /\ GoesOn(s, c, "metrics", d)
                \/ c.op = "set-metrics" /\ GoesOn(s, c, "truncate", [d EXCEPT !.metrics = c.other])

\* connect, up to GET /health: the file is not read yet.
Connect(s, c) ==
    /\ c.op = "connect"
    /\ Types(s, c)
    /\ pc' = [pc EXCEPT ![s] = "probe"] /\ cmd' = [cmd EXCEPT ![s] = c]
    /\ UNCHANGED <<cfg, base>>

SetUrl(s, c) ==
    /\ c.op = "set-url"
    /\ GoesOn(s, c, "truncate", [loadClientConfig(s) EXCEPT !.url = c.url])

SetToken(s, c) ==
    /\ c.op = "set-token"
    /\ GoesOn(s, c, "truncate", [loadClientConfig(s) EXCEPT !.token = c.key])

\* Variant: the metrics key stays.
LogoutOfAuth(s, c) ==
    /\ c.op = "logout"
    /\ GoesOn(s, c, "truncate", [loadClientConfig(s) EXCEPT !.token = none, !.role = none])

\* executeLogout asks no server.
Logout(s, c) ==
    /\ c.op = "logout"
    /\ GoesOn(s, c, "truncate",
              [loadClientConfig(s) EXCEPT !.token = none, !.metrics = none, !.role = none])

\* `config show`, and `auth status` without a token.
Show(s, c) ==
    /\ c.op = "show" \/ (c.op = "status" /\ loadClientConfig(s).token = none)
    /\ Returns(s, c)

\* The commands that need a token and have none.
Unauthenticated(s, c) ==
    /\ c.op \in NeedsKey /\ resolveClientParams(c, loadClientConfig(s)).token = none
    /\ Returns(s, c)

\* The commands that ask a server and save nothing, up to the request: those about
\* keys, ...
AskAboutKeys(s, c) ==
    LET d == resolveClientParams(c, loadClientConfig(s))
    IN c.op \in NeedsKey /\ d.token # none /\ GoesOn(s, c, "send", d)

\* ... `auth status`, with no flags, ...
AskStatus(s, c) ==
    LET d == loadClientConfig(s)
    IN c.op = "status" /\ d.token # none /\ GoesOn(s, c, "send", d)

\* ... and those whose flags have the configuration as defaults.  A token is sent if
\* there is one.
Submit(s, c) == c.op = "submit" /\ GoesOn(s, c, "send", resolveClientParams(c, loadClientConfig(s)))
Fetch(s, c)  == c.op = "fetch"  /\ GoesOn(s, c, "send", resolveClientParams(c, loadClientConfig(s)))
Health(s, c) == c.op = "health" /\ GoesOn(s, c, "send", resolveClientParams(c, loadClientConfig(s)))

\* `cee run` without a source or a language, without an executor, or with no place
\* to run.
RunRefused(s, c) == c.op = "run" /\ Returns(s, c)

\* With a runtime on the host, or with Docker, it runs here: see Executor.
RunHere(s, c) == c.op = "run" /\ GoesOn(s, c, "local", loadClientConfig(s))

\* Otherwise it goes to a server, unless that is the default one.
RunRemotely(s, c) ==
    /\ c.op = "run" /\ loadClientConfig(s).url # DefaultUrl
    /\ GoesOn(s, c, "send", loadClientConfig(s))

-----------------------------------------------------------------------------
(* The answers. *)

Authenticates(u, k) == u = Home /\ k \in active

\* The command ends without a save.
Fails(s) ==
    /\ Ends(s)
    /\ UNCHANGED <<fileVars, serverVars, commands, entered, gone>>

\* The configuration of s becomes d, and it goes on at p.
Continues(s, p, d) ==
    /\ pc' = [pc EXCEPT ![s] = p] /\ cfg' = [cfg EXCEPT ![s] = d]
    /\ UNCHANGED <<fileVars, cmd, serverVars, commands, base, entered, gone>>

Target(s) == Or(cmd[s].url, cfg[s].url)

\* Variant: a guest keeps the metrics key of the master before.
loggedInKeeps(s) ==
    [url |-> Target(s), token |-> cmd[s].key, role |-> cmd[s].op, metrics |-> cfg[s].metrics]

\* The configuration of a login the server confirmed.
loggedIn(s) ==
    [url |-> Target(s), token |-> cmd[s].key, role |-> cmd[s].op,
     metrics |-> IF cmd[s].op = "guest" THEN none ELSE cfg[s].metrics]

\* GET /api/capabilities with the expected role, and the checks of the client.
verifies(k, role) == KindOf[k].type = "auth" /\ KindOf[k].role = role

CheckLogin(s) ==
    /\ pc[s] = "verify"
    /\ \/ /\ Authenticates(Target(s), cmd[s].key) /\ verifies(cmd[s].key, cmd[s].op)
          /\ Continues(s, IF cmd[s].other = none THEN "truncate" ELSE "metrics", loggedIn(s))
       \/ /\ ~(Authenticates(Target(s), cmd[s].key) /\ verifies(cmd[s].key, cmd[s].op))
          /\ Fails(s)

\* The metrics key, and the address if a flag gave one, go into the configuration.
KeepsMetrics(s) == Continues(s, "truncate", [cfg[s] EXCEPT !.metrics = cmd[s].other, !.url = Target(s)])

CheckMetrics(s) ==
    /\ pc[s] = "metrics"
    /\ LET k == cmd[s].other
       IN IF Authenticates(Target(s), k) /\ RequireMetrics(KindOf[k]) THEN KeepsMetrics(s) ELSE Fails(s)

\* Variant: the configuration is built from what the command knows.
connectedAnew(s, d) == [url |-> cmd[s].url, token |-> Or(cmd[s].key, d.token), metrics |-> none, role |-> d.role]

\* The configuration of s connected, from what it now reads.
connected(s, d) ==
    [url |-> cmd[s].url, token |-> Or(cmd[s].key, d.token), metrics |-> d.metrics, role |-> d.role]

\* Any server answers /health with 200.
Probed(s) ==
    /\ pc[s] = "probe"
    /\ pc' = [pc EXCEPT ![s] = "truncate"]
    /\ cfg' = [cfg EXCEPT ![s] = connected(s, loadClientConfig(s))]
    /\ base' = [base EXCEPT ![s] = file]
    /\ UNCHANGED <<fileVars, cmd, serverVars, commands, entered, gone>>

\* What POST /api/keys and DELETE /api/keys/{id} do to the keys of Home: see KeyServer.
Generates(s) ==
    LET k == cfg[s].token
        t == cmd[s].other
    IN IF Authenticates(cfg[s].url, k) /\ CanGenerate(KindOf[k], KindOf[t]) /\ t \notin issued
       THEN issued' = issued \cup {t} /\ active' = active \cup {t}
       ELSE UNCHANGED serverVars

Revokes(s) ==
    LET k == cfg[s].token
        t == cmd[s].other
    IN IF /\ Authenticates(cfg[s].url, k) /\ RequireMasterAuth(KindOf[k])
          /\ \E i \in active \ {t} : KindOf[i] = AuthMaster
       THEN active' = active \ {t} /\ UNCHANGED issued
       ELSE UNCHANGED serverVars

\* The command op displays the answer, or the error, and ends.
Displays(s, op) ==
    /\ pc[s] = "send" /\ cmd[s].op = op
    /\ Ends(s)
    /\ UNCHANGED <<fileVars, commands, entered, gone>>

GenerateAnswered(s) == Displays(s, "generate") /\ Generates(s)
RevokeAnswered(s)   == Displays(s, "revoke") /\ Revokes(s)
ListAnswered(s)     == Displays(s, "list") /\ UNCHANGED serverVars
WhoamiAnswered(s)   == Displays(s, "whoami") /\ UNCHANGED serverVars
StatusAnswered(s)   == Displays(s, "status") /\ UNCHANGED serverVars
SubmitAnswered(s)   == Displays(s, "submit") /\ UNCHANGED serverVars
FetchAnswered(s)    == Displays(s, "fetch") /\ UNCHANGED serverVars
HealthAnswered(s)   == Displays(s, "health") /\ UNCHANGED serverVars
RemoteAnswered(s)   == Displays(s, "run") /\ UNCHANGED serverVars

\* The executor returns, if it does.
Executed(s) == pc[s] = "local" /\ Fails(s)

\* The server has done what it was asked, or not, and nobody reads the answer.
MayBeServed(s) ==
    \/ UNCHANGED serverVars
    \/ pc[s] = "send" /\ cmd[s].op = "generate" /\ Generates(s)
    \/ pc[s] = "send" /\ cmd[s].op = "revoke" /\ Revokes(s)

\* `cee health` uses a client without a timeout.  `cee run` adds 15 s to its --timeout
\* and cuts the sum to whole seconds; below 1, for a flag below -14 or one so large
\* that the sum overflows, that is none.
HasTimeout(c) == c.op # "health" /\ (c.op = "run" => c.limited)

\* Variant: the probe of connect has no timeout.
GiveUpWithoutProbe(s) ==
    \/ pc[s] = "verify" /\ Fails(s)
    \/ pc[s] = "metrics" /\ KeepsMetrics(s)
    \/ HasTimeout(cmd[s]) /\ Displays(s, cmd[s].op) /\ MayBeServed(s)

\* No answer in time, no connection, or a status that is none of those above.  The
\* metrics key is kept all the same.
GiveUp(s) ==
    \/ pc[s] \in {"verify", "probe"} /\ Fails(s)
    \/ pc[s] = "metrics" /\ KeepsMetrics(s)
    \/ HasTimeout(cmd[s]) /\ Displays(s, cmd[s].op) /\ MayBeServed(s)

\* Ctrl-C or a crash, wherever the command is.
Interrupt(s) ==
    /\ pc[s] # "idle"
    /\ Ends(s)
    /\ MayBeServed(s)
    /\ UNCHANGED <<fileVars, commands, entered, gone>>

-----------------------------------------------------------------------------

Starts(s, c) ==
    \/ Login(s, c) \/ SetMetrics(s, c) \/ Connect(s, c) \/ SetUrl(s, c) \/ SetToken(s, c) \/ Logout(s, c)
    \/ Show(s, c) \/ Unauthenticated(s, c) \/ AskAboutKeys(s, c) \/ AskStatus(s, c)
    \/ Submit(s, c) \/ Fetch(s, c) \/ Health(s, c)
    \/ RunRefused(s, c) \/ RunHere(s, c) \/ RunRemotely(s, c)

Answers(s) ==
    \/ CheckLogin(s) \/ CheckMetrics(s) \/ Probed(s)
    \/ GenerateAnswered(s) \/ RevokeAnswered(s) \/ ListAnswered(s) \/ WhoamiAnswered(s) \/ StatusAnswered(s)
    \/ SubmitAnswered(s) \/ FetchAnswered(s) \/ HealthAnswered(s) \/ RemoteAnswered(s)

Next ==
    \E s \in Shell :
        \/ \E c \in Commands : Starts(s, c)
        \/ Answers(s) \/ Executed(s) \/ GiveUp(s) \/ Truncate(s) \/ Write(s) \/ Interrupt(s)

Spec == Init /\ [][Next]_clientVars

\* The timeouts of the HTTP clients, and the steps a process takes on its own.  No
\* server and no executor owes an answer.
Fairness ==
    \A s \in Shell : WF_clientVars(GiveUp(s)) /\ WF_clientVars(Truncate(s)) /\ WF_clientVars(Write(s))

FairSpec == Spec /\ Fairness
=============================================================================
