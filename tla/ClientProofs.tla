---------------------------- MODULE ClientProofs ----------------------------
(***************************************************************************)
(* CInv is an invariant of Client, for any terminals, keys, servers,       *)
(* environments and commands; what the client promises about its file      *)
(* follows.  The actions differ in what they put where: there is one lemma *)
(* for each way a command can begin, go on and end.                        *)
(***************************************************************************)
EXTENDS ClientInvariant, TLAPS

USE DEF fileVars, serverVars, historyVars, KeyOrNone, UrlOrNone, NeedsKey, Copying, Ready, Field, Place

\* What a command may have in the field f after it read the file: from there, from its
\* environment, or the default (config.go:34, config.go:64).
Loaded(s, f, x) ==
    \/ x = file[f]
    \/ f # "role" /\ Env[s][f] # none /\ x = Env[s][f]
    \/ f = "url" /\ file.url = none /\ x = DefaultUrl

\* loadClientConfig (config.go:31) makes a configuration with an address, which fits
\* together as the file does, and has nothing that was logged out.
LEMMA LoadFacts ==
    ASSUME CInv, NEW s \in Shell, NEW d, d = loadClientConfig(s)
    PROVE  /\ d \in ClientConfig /\ d.url # none /\ Coherent(d)
           /\ {d.token, d.metrics} \cap gone = {}
           /\ \A f \in Field : Loaded(s, f, d[f])
<1>1. /\ file \in ClientConfig /\ gone \subseteq Key
      /\ Env[s] \in [url : UrlOrNone, token : KeyOrNone, metrics : KeyOrNone]
      /\ DefaultUrl \in Url /\ DefaultUrl # none
  BY ClientAssumption DEF CInv, TypeOK
<1>2. d \in ClientConfig /\ d.url # none
  BY <1>1 DEF loadClientConfig, Or, ClientConfig
<1>3. Coherent(d)
  BY <1>1 DEF loadClientConfig, Or, ClientConfig, CInv, FileIsCoherent, Coherent
<1>4. {d.token, d.metrics} \cap gone = {}
  <2>1. Env[s].token \notin gone /\ Env[s].metrics \notin gone
    BY DEF CInv, Cleared, FromEnv
  <2> QED BY <2>1 DEF loadClientConfig, Or, CInv, LogoutSticks
<1>5. \A f \in Field : Loaded(s, f, d[f])
  BY <1>1 DEF loadClientConfig, Or, ClientConfig, Loaded
<1> QED BY <1>2, <1>3, <1>4, <1>5

\* Tokens typed later excuse no less (keys are only ever added to entered).
LEMMA CoherentStays ==
    ASSUME entered \subseteq entered'
    PROVE  \A d : Coherent(d) => Coherent(d)'
BY DEF Coherent

\* The initial state: no file, no command (config.go:24).
LEMMA InitCInv == Init => CInv
<1> SUFFICES ASSUME Init PROVE CInv
  OBVIOUS
<1>1. TypeOK
  BY ClientAssumption DEF Init, TypeOK, ClientConfig, Blank, Idle
<1>2. FileIsCoherent /\ LogoutSticks
  BY DEF Init, FileIsCoherent, Coherent, LogoutSticks, Blank
<1>3. Places /\ Copies /\ Cleared
  BY DEF Init, Places, Copies, Cleared
<1> QED BY <1>1, <1>2, <1>3 DEF CInv

\* A command that ends without a save (auth.go:236, keys.go:181): Fails, Displays and
\* Interrupt.
LEMMA EndsPreserves ==
    ASSUME CInv, NEW s \in Shell, Ends(s), UNCHANGED <<fileVars, commands, entered, gone>>,
           active' \subseteq issued', issued' \subseteq Key
    PROVE  CInv'
<1>1. TypeOK'
  BY DEF CInv, TypeOK, Ends, ClientConfig, Blank
<1>2. FileIsCoherent' /\ LogoutSticks'
  BY DEF CInv, FileIsCoherent, Coherent, LogoutSticks
<1>3. \A t \in Shell : t # s => pc'[t] = pc[t] /\ cmd'[t] = cmd[t] /\ cfg'[t] = cfg[t] /\ base'[t] = base[t]
  BY DEF CInv, TypeOK, Ends
<1>4. pc'[s] = "idle" /\ cmd'[s] = Idle /\ cfg'[s] = Blank
  BY DEF CInv, TypeOK, Ends
<1>5. Places'
  BY <1>3, <1>4 DEF CInv, Places
<1>6. Copies'
  BY <1>3, <1>4 DEF CInv, Copies, Coherent, Kept
<1>7. Cleared'
  BY <1>3, <1>4, ClientAssumption DEF CInv, Cleared, Brings, FromEnv, Idle, Asking
<1> QED BY <1>1, <1>2, <1>5, <1>6, <1>7 DEF CInv

\* A step of the command of s that leaves the others alone.
Others(s) ==
    \A t \in Shell : t # s => pc'[t] = pc[t] /\ cmd'[t] = cmd[t] /\ cfg'[t] = cfg[t] /\ base'[t] = base[t]

\* The copies that other commands have stay good for them.
LEMMA OthersKeep ==
    ASSUME CInv, NEW s \in Shell, Others(s), entered \subseteq entered'
    PROVE  \A t \in Shell : t # s =>
              /\ pc'[t] \in {"idle", "probe"} => cfg'[t] = Blank
              /\ pc'[t] \in Copying /\ cmd'[t].op # "set-url" => cfg'[t].url # none
              /\ pc'[t] \in Ready => Coherent(cfg[t])'
              /\ pc'[t] = "metrics" => cfg'[t].role # "guest"
              /\ pc'[t] \in Ready /\ cmd'[t].op = "logout" =>
                    cfg'[t].token = none /\ cfg'[t].metrics = none
              /\ pc'[t] \in Copying => \A f \in Field \ Sets(cmd'[t]) : Kept(t, f, cfg[t][f])'
BY CoherentStays DEF CInv, Copies, Others, Coherent, Kept

\* A command goes on with the configuration d (auth.go:263, auth.go:135).
LEMMA ContinuesPreserves ==
    ASSUME CInv, NEW s \in Shell, pc[s] \in {"verify", "metrics"},
           NEW p \in {"metrics", "truncate"}, NEW d \in ClientConfig, Continues(s, p, d),
           d.url # none, Coherent(d), {d.token, d.metrics} \cap gone = {},
           \A f \in Field \ Sets(cmd[s]) : Kept(s, f, d[f]),
           p = "metrics" => cmd[s].op = "master" /\ cmd[s].other # none /\ d.role # "guest"
    PROVE  CInv'
<1>1. /\ pc' = [pc EXCEPT ![s] = p] /\ cfg' = [cfg EXCEPT ![s] = d]
      /\ UNCHANGED <<fileVars, cmd, serverVars, commands, base, entered, gone>>
  BY DEF Continues
<1>2. pc'[s] = p /\ cfg'[s] = d /\ cmd[s] # Idle
  BY <1>1 DEF CInv, TypeOK
<1>3. Others(s)
  BY <1>1 DEF CInv, TypeOK, Others
<1>4. TypeOK'
  <2>1. /\ pc' \in [Shell -> Place]
        /\ cfg' \in [Shell -> ClientConfig]
    BY <1>1 DEF CInv, TypeOK
  <2>2. \A t \in Shell : pc'[t] = "idle" <=> cmd'[t] = Idle
    BY <1>1, <1>2 DEF CInv, TypeOK
  <2> QED BY <1>1, <2>1, <2>2 DEF CInv, TypeOK
<1>5. FileIsCoherent' /\ LogoutSticks'
  BY <1>1 DEF CInv, FileIsCoherent, Coherent, LogoutSticks
<1>6. Places'
  <2>1. cmd[s].op \in Saving
    BY DEF CInv, Places
  <2> QED BY <1>1, <1>2, <1>3, <2>1 DEF CInv, Places, Others
<1>7. Copies'
  <2>1. /\ cfg'[s].url # none /\ Coherent(cfg[s])'
        /\ pc'[s] = "metrics" => cfg'[s].role # "guest"
        /\ \A f \in Field \ Sets(cmd'[s]) : Kept(s, f, cfg[s][f])'
        /\ pc'[s] \in Ready /\ cmd'[s].op # "logout"
    BY <1>1, <1>2 DEF Coherent, Kept, CInv, Places
  <2>2. entered \subseteq entered'
    BY <1>1
  <2> QED BY <1>3, <2>1, <2>2, OthersKeep DEF Copies
<1>8. Cleared'
  BY <1>1, <1>2, <1>3 DEF CInv, Cleared, Brings, FromEnv, Others
<1> QED BY <1>4, <1>5, <1>6, <1>7, <1>8 DEF CInv

\* What typing a command does to the history.
LEMMA TypesFacts ==
    ASSUME CInv, NEW s \in Shell, NEW c \in Commands, Types(s, c)
    PROVE  /\ pc[s] = "idle" /\ UNCHANGED <<fileVars, serverVars>>
           /\ commands' \in 0 .. MaxCommands
           /\ entered \subseteq entered' /\ entered' \subseteq Key
           /\ gone' \subseteq gone
           /\ c.op \in Saving => gone' \cap {c.key, c.other} = {}
           /\ c.op \in {"set-token", "connect"} /\ c.key # none => c.key \in entered'
<1>1. c \in Command /\ MaxCommands \in Nat
  BY ClientAssumption
<1> QED BY <1>1 DEF Types, CInv, TypeOK, Command

\* A command that returns at once (auth.go:91, keys.go:214).
LEMMA ReturnsPreserves ==
    ASSUME CInv, NEW s \in Shell, NEW c \in Commands, Returns(s, c)
    PROVE  CInv'
<1>1. UNCHANGED <<pc, cmd, cfg, base>>
  BY DEF Returns
<1>2. Types(s, c)
  BY DEF Returns
<1>3. Others(s)
  BY <1>1, <1>2, TypesFacts DEF Others
<1>4. TypeOK'
  BY <1>1, <1>2, TypesFacts DEF CInv, TypeOK
<1>5. FileIsCoherent' /\ LogoutSticks'
  BY <1>2, TypesFacts, CoherentStays DEF CInv, FileIsCoherent, LogoutSticks
<1>6. Places'
  BY <1>1, <1>2, TypesFacts DEF CInv, Places
<1>7. Copies'
  BY <1>1, <1>2, TypesFacts, CoherentStays DEF CInv, Copies, Kept
<1>8. Cleared'
  BY <1>1, <1>2, TypesFacts DEF CInv, Cleared, Brings, FromEnv
<1> QED BY <1>4, <1>5, <1>6, <1>7, <1>8 DEF CInv

\* A command c goes on at p with the configuration d (auth.go:229, config.go:193): one that
\* asks, or one that saves and made d from what it read.
LEMMA GoesOnPreserves ==
    ASSUME CInv, NEW s \in Shell, NEW c \in Commands,
           NEW p \in {"verify", "metrics", "send", "local", "truncate"}, NEW d \in ClientConfig,
           GoesOn(s, c, p, d),
           p \in Copying => c.op \in Saving /\ (c.op # "set-url" => d.url # none),
           p \in Copying => \A f \in Field \ Sets(c) : Loaded(s, f, d[f]),
           p \in Ready => Coherent(d)',
           c.op \in Saving => {d.token, d.metrics} \cap gone' = {},
           p = "verify" => c.op \in {"master", "guest"},
           p = "metrics" => c.op = "metrics" /\ d.role # "guest",
           c.op = "logout" => d.token = none /\ d.metrics = none
    PROVE  CInv'
<1>1. /\ pc' = [pc EXCEPT ![s] = p] /\ cmd' = [cmd EXCEPT ![s] = c]
      /\ cfg' = [cfg EXCEPT ![s] = d] /\ base' = [base EXCEPT ![s] = file]
  BY DEF GoesOn
<1>2. Types(s, c)
  BY DEF GoesOn
<1>3. c # Idle /\ c \in Command
  BY ClientAssumption DEF Idle, Command
<1>4. pc'[s] = p /\ cmd'[s] = c /\ cfg'[s] = d /\ base'[s] = file
  BY <1>1 DEF CInv, TypeOK
<1>5. Others(s)
  BY <1>1, <1>2, TypesFacts DEF Others, CInv, TypeOK
<1>6. TypeOK'
  <2>1. /\ pc' \in [Shell -> Place]
        /\ cmd' \in [Shell -> Commands \cup {Idle}] /\ cfg' \in [Shell -> ClientConfig]
        /\ base' \in [Shell -> ClientConfig]
    BY <1>1 DEF CInv, TypeOK
  <2>2. \A t \in Shell : pc'[t] = "idle" <=> cmd'[t] = Idle
    BY <1>3, <1>4, <1>5 DEF CInv, TypeOK, Others
  <2> QED BY <1>2, <2>1, <2>2, TypesFacts DEF CInv, TypeOK
<1>7. FileIsCoherent' /\ LogoutSticks'
  BY <1>2, TypesFacts, CoherentStays DEF CInv, FileIsCoherent, LogoutSticks
<1>8. Places'
  <2>1. (p = "metrics" => c.other # none) /\ entered \subseteq entered'
    BY <1>2, ClientAssumption, TypesFacts
  <2> QED BY <1>4, <1>5, <2>1 DEF CInv, Places, Others
<1>9. Copies'
  <2>1. /\ pc'[s] \in Copying /\ cmd'[s].op # "set-url" => cfg'[s].url # none
        /\ pc'[s] \in Ready => Coherent(cfg[s])'
        /\ pc'[s] = "metrics" => cfg'[s].role # "guest"
        /\ pc'[s] \notin {"idle", "probe"}
        /\ cmd'[s].op = "logout" => cfg'[s].token = none /\ cfg'[s].metrics = none
    BY <1>4 DEF Coherent
  <2>2. pc'[s] \in Copying => \A f \in Field \ Sets(cmd'[s]) : Kept(s, f, cfg[s][f])'
    BY <1>4 DEF Kept, Loaded
  <2>3. entered \subseteq entered'
    BY <1>2, TypesFacts
  <2> QED BY <1>5, <2>1, <2>2, <2>3, OthersKeep DEF Copies
<1>10. Cleared'
  <2>1. gone' \subseteq gone /\ (c.op \in Saving => gone' \cap {c.key, c.other} = {})
    BY <1>2, TypesFacts
  <2> QED BY <1>4, <1>5, <2>1 DEF CInv, Cleared, Brings, FromEnv, Others
<1> QED BY <1>6, <1>7, <1>8, <1>9, <1>10 DEF CInv

\* connect before its probe (config.go:103) has read nothing.
LEMMA ConnectPreserves ==
    ASSUME CInv, NEW s \in Shell, NEW c \in Commands, Connect(s, c)
    PROVE  CInv'
<1>1. /\ pc' = [pc EXCEPT ![s] = "probe"] /\ cmd' = [cmd EXCEPT ![s] = c]
      /\ UNCHANGED <<cfg, base>> /\ c.op = "connect" /\ Types(s, c)
  BY DEF Connect
<1>2. c # Idle /\ c.op \in Saving
  BY <1>1, ClientAssumption DEF Idle, Saving
<1>3. pc'[s] = "probe" /\ cmd'[s] = c
  BY <1>1 DEF CInv, TypeOK
<1>4. Others(s)
  BY <1>1, TypesFacts DEF Others, CInv, TypeOK
<1>5. TypeOK'
  <2>1. /\ pc' \in [Shell -> Place]
        /\ cmd' \in [Shell -> Commands \cup {Idle}]
    BY <1>1 DEF CInv, TypeOK
  <2>2. \A t \in Shell : pc'[t] = "idle" <=> cmd'[t] = Idle
    BY <1>2, <1>3, <1>4 DEF CInv, TypeOK, Others
  <2> QED BY <1>1, <2>1, <2>2, TypesFacts DEF CInv, TypeOK
<1>6. FileIsCoherent' /\ LogoutSticks'
  BY <1>1, TypesFacts, CoherentStays DEF CInv, FileIsCoherent, LogoutSticks
<1>7. Places'
  <2>1. entered \subseteq entered' /\ c.key \in entered' \cup {none}
    BY <1>1, ClientAssumption, TypesFacts DEF Command
  <2> QED BY <1>1, <1>2, <1>3, <1>4, <2>1 DEF CInv, Places, Others
<1>8. Copies'
  <2>1. cfg'[s] = Blank /\ entered \subseteq entered'
    BY <1>1, TypesFacts DEF CInv, Copies
  <2> QED BY <1>3, <1>4, <2>1, OthersKeep DEF Copies
<1>9. Cleared'
  <2>1. cfg[s].token \notin gone /\ cfg[s].metrics \notin gone
    BY <1>1, ClientAssumption, TypesFacts DEF CInv, Copies, Blank, TypeOK
  <2> QED BY <1>1, <1>2, <1>3, <1>4, <2>1, TypesFacts DEF CInv, Cleared, Brings, FromEnv, Others
<1> QED BY <1>5, <1>6, <1>7, <1>8, <1>9 DEF CInv

\* The probe of connect was answered (config.go:120): the file is read and the new
\* configuration made.
LEMMA ProbedPreserves ==
    ASSUME CInv, NEW s \in Shell, Probed(s)
    PROVE  CInv'
<1> DEFINE l == loadClientConfig(s)
           d == connected(s, l)
<1>1. /\ pc' = [pc EXCEPT ![s] = "truncate"] /\ cfg' = [cfg EXCEPT ![s] = d]
      /\ base' = [base EXCEPT ![s] = file]
      /\ UNCHANGED <<fileVars, cmd, serverVars, commands, entered, gone>>
      /\ pc[s] = "probe"
  BY DEF Probed
<1>2. /\ cmd[s].op = "connect" /\ cmd[s].op \in Saving
      /\ cmd[s] # Idle /\ cmd[s] \in Commands /\ cmd[s] \in Command
      /\ cmd[s].url # none /\ cmd[s].other = none /\ cmd[s].key \in entered \cup {none}
  BY <1>1, ClientAssumption DEF CInv, Places, TypeOK, Saving
<1>3. /\ l \in ClientConfig /\ Coherent(l) /\ {l.token, l.metrics} \cap gone = {}
      /\ \A f \in Field : Loaded(s, f, l[f])
  BY LoadFacts
<1>4. d \in ClientConfig /\ d.url # none
  BY <1>2, <1>3 DEF connected, Or, ClientConfig, Command
<1>5. {d.token, d.metrics} \cap gone = {}
  <2>1. cmd[s].key \notin gone
    BY <1>2 DEF CInv, Cleared, Brings
  <2> QED BY <1>3, <2>1 DEF connected, Or
<1>6. Coherent(d)
  BY <1>2, <1>3 DEF connected, Or, Coherent, CInv, Copies
<1>7. \A f \in Field \ Sets(cmd[s]) : Loaded(s, f, d[f])
  BY <1>2, <1>3 DEF connected, Or, Sets
<1> HIDE DEF d, l
<1>8. pc'[s] = "truncate" /\ cfg'[s] = d /\ base'[s] = file
  BY <1>1 DEF CInv, TypeOK
<1>9. Others(s)
  BY <1>1 DEF CInv, TypeOK, Others
<1>10. TypeOK'
  <2>1. /\ pc' \in [Shell -> Place]
        /\ cfg' \in [Shell -> ClientConfig] /\ base' \in [Shell -> ClientConfig]
    BY <1>1, <1>4 DEF CInv, TypeOK
  <2>2. \A t \in Shell : pc'[t] = "idle" <=> cmd'[t] = Idle
    BY <1>1, <1>2, <1>8 DEF CInv, TypeOK
  <2> QED BY <1>1, <2>1, <2>2 DEF CInv, TypeOK
<1>11. FileIsCoherent' /\ LogoutSticks'
  BY <1>1 DEF CInv, FileIsCoherent, Coherent, LogoutSticks
<1>12. Places'
  BY <1>1, <1>2, <1>8, <1>9 DEF CInv, Places, Others
<1>13. Copies'
  <2>1. /\ cfg'[s].url # none /\ Coherent(cfg[s])'
        /\ \A f \in Field \ Sets(cmd'[s]) : Kept(s, f, cfg[s][f])'
        /\ cmd'[s].op # "logout"
    BY <1>1, <1>2, <1>4, <1>6, <1>7, <1>8 DEF Coherent, Kept, Loaded
  <2>2. entered \subseteq entered'
    BY <1>1
  <2> QED BY <1>8, <1>9, <2>1, <2>2, OthersKeep DEF Copies
<1>14. Cleared'
  BY <1>1, <1>5, <1>8, <1>9 DEF CInv, Cleared, Brings, FromEnv, Others
<1> QED BY <1>10, <1>11, <1>12, <1>13, <1>14 DEF CInv

\* The file is emptied before it is written (config.go:78).
LEMMA TruncatePreserves ==
    ASSUME CInv, NEW s \in Shell, Truncate(s)
    PROVE  CInv'
<1>1. /\ text' = "empty" /\ file' = Blank /\ pc[s] = "truncate"
      /\ pc' = [pc EXCEPT ![s] = "write"]
      /\ UNCHANGED <<cmd, cfg, serverVars, commands, base, entered, gone>>
  BY DEF Truncate
<1>2. pc'[s] = "write" /\ Others(s) /\ cmd[s] # Idle
  BY <1>1 DEF CInv, TypeOK, Others
<1>3. TypeOK'
  <2>1. pc' \in [Shell -> Place]
    BY <1>1 DEF CInv, TypeOK
  <2>2. \A t \in Shell : pc'[t] = "idle" <=> cmd'[t] = Idle
    BY <1>1, <1>2 DEF CInv, TypeOK
  <2>3. Blank \in ClientConfig
    BY DEF Blank, ClientConfig
  <2> QED BY <1>1, <2>1, <2>2, <2>3 DEF CInv, TypeOK
<1>4. FileIsCoherent' /\ LogoutSticks'
  BY <1>1, ClientAssumption DEF CInv, TypeOK, FileIsCoherent, Coherent, LogoutSticks, Blank
<1>5. Places'
  BY <1>1, <1>2 DEF CInv, Places, Others
<1>6. Copies'
  BY <1>1, <1>2 DEF CInv, Copies, Others, Coherent, Kept
<1>7. Cleared'
  BY <1>1 DEF CInv, Cleared, Brings, FromEnv
<1> QED BY <1>3, <1>4, <1>5, <1>6, <1>7 DEF CInv

\* The write (config.go:78), after which the command ends.  A logout that ends whole
\* makes gone the keys that no command that still runs, and no environment, has.
LEMMA WritePreserves ==
    ASSUME CInv, NEW s \in Shell, Write(s)
    PROVE  CInv'
<1>1. /\ pc[s] = "write" /\ Ends(s) /\ UNCHANGED <<serverVars, commands, entered>>
      /\ \/ text' = "whole" /\ file' = cfg[s]
         \/ text' = "corrupt" /\ file' = Blank
      /\ gone' = IF cmd[s].op = "logout" /\ text' = "whole"
                 THEN Key \ (FromEnv \cup UNION {Brings(t) : t \in Shell \ {s}})
                 ELSE gone
  BY DEF Write
<1>2. cfg[s] \in ClientConfig /\ Coherent(cfg[s]) /\ cmd[s].op \in Saving
  BY <1>1 DEF CInv, TypeOK, Copies, Places
<1>3. pc'[s] = "idle" /\ cmd'[s] = Idle /\ cfg'[s] = Blank /\ Others(s)
  BY <1>1 DEF CInv, TypeOK, Ends, Others
<1>4. gone' \subseteq Key
  BY <1>1 DEF CInv, TypeOK
<1>5. TypeOK'
  <2>1. /\ pc' \in [Shell -> Place]
        /\ cmd' \in [Shell -> Commands \cup {Idle}] /\ cfg' \in [Shell -> ClientConfig]
        /\ base' \in [Shell -> ClientConfig] /\ Blank \in ClientConfig
    BY <1>1 DEF CInv, TypeOK, Ends, ClientConfig, Blank
  <2>2. \A t \in Shell : pc'[t] = "idle" <=> cmd'[t] = Idle
    BY <1>3 DEF CInv, TypeOK, Others
  <2>3. CASE text' = "whole" /\ file' = cfg[s]
    BY <1>1, <1>2, <1>4, <2>1, <2>2, <2>3 DEF CInv, TypeOK
  <2>4. CASE text' = "corrupt" /\ file' = Blank
    BY <1>1, <1>4, <2>1, <2>2, <2>4 DEF CInv, TypeOK
  <2> QED BY <1>1, <2>3, <2>4
<1>6. FileIsCoherent'
  BY <1>1, <1>2 DEF FileIsCoherent, Coherent, Blank
<1>7. LogoutSticks'
  <2>1. CASE file' = Blank
    BY <1>4, <2>1, ClientAssumption DEF LogoutSticks, Blank
  <2>2. CASE cmd[s].op = "logout" /\ file' = cfg[s]
    <3>1. cfg[s].token = none /\ cfg[s].metrics = none
      BY <1>1, <2>2 DEF CInv, Copies
    <3> QED BY <1>4, <2>2, <3>1, ClientAssumption DEF LogoutSticks
  <2>3. CASE cmd[s].op # "logout" /\ file' = cfg[s]
    BY <1>1, <1>2, <2>3 DEF CInv, Cleared, Brings, LogoutSticks
  <2> QED BY <1>1, <2>1, <2>2, <2>3
<1>8. Places'
  BY <1>1, <1>3 DEF CInv, Places, Others
<1>9. Copies'
  BY <1>1, <1>3, OthersKeep DEF Copies
<1>10. Cleared'
  <2>1. /\ FromEnv \cap gone' = {}
        /\ \A t \in Shell \ {s} : Brings(t) \cap gone' = {}
    BY <1>1 DEF CInv, Cleared
  <2>2. FromEnv' = FromEnv /\ Brings(s)' = {}
    BY <1>3, ClientAssumption DEF Brings, FromEnv, Idle
  <2>3. \A t \in Shell \ {s} : Brings(t)' = Brings(t)
    BY <1>3 DEF Brings, Others
  <2> QED BY <2>1, <2>2, <2>3 DEF Cleared
<1> QED BY <1>5, <1>6, <1>7, <1>8, <1>9, <1>10 DEF CInv
-----------------------------------------------------------------------------
(* The actions. *)

\* The commands that ask, or run a program here, and save nothing (keys.go:151,
\* exec.go:211, exec.go:154).
LEMMA SendPreserves ==
    ASSUME CInv, NEW s \in Shell, NEW c \in Commands, c.op \in Asking, NEW d,
           d = loadClientConfig(s) \/ d = resolveClientParams(c, loadClientConfig(s)),
           NEW p \in {"send", "local"}, GoesOn(s, c, p, d)
    PROVE  CInv'
<1>1. loadClientConfig(s) \in ClientConfig /\ c \in Command
  BY LoadFacts, ClientAssumption
<1>2. d \in ClientConfig
  BY <1>1 DEF resolveClientParams, Or, ClientConfig, Command
<1>3. c.op \notin Saving
  BY DEF Asking, Saving
<1>4. c.op # "logout"
  BY <1>3 DEF Saving
<1> QED BY <1>2, <1>3, <1>4, GoesOnPreserves

\* The commands that save without asking, or ask first for the keys they save
\* (auth.go:210, auth.go:89, config.go:186).
LEMMA SavingPreserves ==
    ASSUME CInv, NEW s \in Shell, NEW c \in Commands,
           Login(s, c) \/ SetMetrics(s, c) \/ SetUrl(s, c) \/ SetToken(s, c) \/ Logout(s, c)
    PROVE  CInv'
<1>0. PICK l : l = loadClientConfig(s)
  OBVIOUS
<1>1. /\ l \in ClientConfig /\ l.url # none /\ Coherent(l) /\ {l.token, l.metrics} \cap gone = {}
      /\ \A f \in Field : Loaded(s, f, l[f])
  BY <1>0, LoadFacts
<1>2. c \in Command /\ none \notin Key \cup Url
  BY ClientAssumption
<1>3. ASSUME NEW p, NEW d, GoesOn(s, c, p, d)
      PROVE  /\ entered \subseteq entered' /\ entered' \subseteq Key /\ gone' \subseteq gone /\ gone' \subseteq Key
             /\ c.op \in Saving => gone' \cap {c.key, c.other} = {}
             /\ c.op = "set-token" /\ c.key # none => c.key \in entered'
             /\ Coherent(l)'
  BY <1>1, <1>3, TypesFacts, CoherentStays DEF GoesOn, CInv, TypeOK
<1>4. CASE Login(s, c)
  <2>1. GoesOn(s, c, "verify", l) /\ c.op \in {"master", "guest"} /\ c.op \in Saving /\ c.op # "logout"
    BY <1>0, <1>4 DEF Login, Saving
  <2>2. {l.token, l.metrics} \cap gone' = {}
    BY <2>1, <1>1, <1>3
  <2> QED BY <1>1, <2>1, <2>2, GoesOnPreserves
<1>5. CASE SetMetrics(s, c)
  <2>1. CASE Returns(s, c)
    BY <2>1, ReturnsPreserves
  <2>2. CASE c.op = "metrics" /\ l.role # "guest" /\ GoesOn(s, c, "metrics", l)
    <3>1. {l.token, l.metrics} \cap gone' = {} /\ Coherent(l)' /\ c.op \in Saving /\ c.op # "logout"
      BY <2>2, <1>1, <1>3 DEF Saving
    <3> QED BY <1>1, <2>2, <3>1, GoesOnPreserves
  <2>3. CASE c.op = "set-metrics" /\ l.role # "guest"
             /\ GoesOn(s, c, "truncate", [l EXCEPT !.metrics = c.other])
    <3>1. PICK d : d = [l EXCEPT !.metrics = c.other]
      OBVIOUS
    <3>2. /\ d \in ClientConfig /\ d.url # none /\ c.op \in Saving /\ c.op # "logout"
          /\ d.role = l.role /\ d.token = l.token /\ d.metrics = c.other
      BY <2>3, <3>1, <1>1, <1>2 DEF ClientConfig, Command, Saving
    <3>3. GoesOn(s, c, "truncate", d)
      BY <2>3, <3>1
    <3>4. Coherent(d)'
      BY <1>3, <2>3, <3>2, <3>3 DEF Coherent
    <3>5. {d.token, d.metrics} \cap gone' = {}
      BY <1>1, <1>3, <3>2, <3>3
    <3>6. \A f \in Field \ Sets(c) : Loaded(s, f, d[f])
      BY <1>1, <2>3, <3>1 DEF Sets, ClientConfig
    <3> QED BY <3>2, <3>3, <3>4, <3>5, <3>6, GoesOnPreserves
  <2> QED BY <1>0, <1>5, <2>1, <2>2, <2>3 DEF SetMetrics
<1>6. CASE SetUrl(s, c)
  <2>1. PICK d : d = [l EXCEPT !.url = c.url]
    OBVIOUS
  <2>2. GoesOn(s, c, "truncate", d) /\ c.op = "set-url"
    BY <1>0, <1>6, <2>1 DEF SetUrl
  <2>3. /\ d \in ClientConfig /\ c.op \in Saving /\ c.op # "logout"
        /\ d.role = l.role /\ d.token = l.token /\ d.metrics = l.metrics
    BY <2>1, <2>2, <1>1, <1>2 DEF ClientConfig, Command, Saving
  <2>4. Coherent(d)' /\ {d.token, d.metrics} \cap gone' = {}
    BY <1>1, <1>3, <2>2, <2>3 DEF Coherent
  <2>5. \A f \in Field \ Sets(c) : Loaded(s, f, d[f])
    BY <1>1, <2>1, <2>2 DEF Sets, ClientConfig
  <2> QED BY <2>2, <2>3, <2>4, <2>5, GoesOnPreserves
<1>7. CASE SetToken(s, c)
  <2>1. PICK d : d = [l EXCEPT !.token = c.key]
    OBVIOUS
  <2>2. GoesOn(s, c, "truncate", d) /\ c.op = "set-token"
    BY <1>0, <1>7, <2>1 DEF SetToken
  <2>3. /\ d \in ClientConfig /\ d.url # none /\ c.op \in Saving /\ c.op # "logout"
        /\ d.role = l.role /\ d.token = c.key /\ d.metrics = l.metrics
    BY <2>1, <2>2, <1>1, <1>2 DEF ClientConfig, Command, Saving
  <2>4. Coherent(d)'
    BY <1>3, <2>2, <2>3 DEF Coherent
  <2>5. {d.token, d.metrics} \cap gone' = {}
    BY <1>1, <1>2, <1>3, <2>2, <2>3
  <2>6. \A f \in Field \ Sets(c) : Loaded(s, f, d[f])
    BY <1>1, <2>1, <2>2 DEF Sets, ClientConfig
  <2> QED BY <2>2, <2>3, <2>4, <2>5, <2>6, GoesOnPreserves
<1>8. CASE Logout(s, c)
  <2>1. PICK d : d = [l EXCEPT !.token = none, !.metrics = none, !.role = none]
    OBVIOUS
  <2>2. GoesOn(s, c, "truncate", d) /\ c.op = "logout"
    BY <1>0, <1>8, <2>1 DEF Logout
  <2>3. /\ d \in ClientConfig /\ d.url # none /\ c.op \in Saving
        /\ d.role = none /\ d.token = none /\ d.metrics = none
    BY <2>1, <2>2, <1>1 DEF ClientConfig, Saving
  <2>4. Coherent(d)'
    BY <2>3 DEF Coherent
  <2>5. {d.token, d.metrics} \cap gone' = {}
    BY <1>2, <1>3, <2>2, <2>3
  <2>6. \A f \in Field \ Sets(c) : Loaded(s, f, d[f])
    BY <1>1, <2>1, <2>2 DEF Sets, ClientConfig
  <2> QED BY <2>2, <2>3, <2>4, <2>5, <2>6, GoesOnPreserves
<1> QED BY <1>4, <1>5, <1>6, <1>7, <1>8

\* Every command that is typed.
LEMMA StartsPreserves ==
    ASSUME CInv, NEW s \in Shell, NEW c \in Commands, Starts(s, c)
    PROVE  CInv'
<1>1. CASE Show(s, c) \/ Unauthenticated(s, c)
  BY <1>1, ReturnsPreserves DEF Show, Unauthenticated
<1>2. CASE AskAboutKeys(s, c) \/ AskStatus(s, c) \/ Submit(s, c) \/ Fetch(s, c) \/ Health(s, c)
  <2>1. PICK d : /\ d = loadClientConfig(s) \/ d = resolveClientParams(c, loadClientConfig(s))
                 /\ GoesOn(s, c, "send", d) /\ c.op \in Asking
    BY <1>2 DEF AskAboutKeys, AskStatus, Submit, Fetch, Health, Asking
  <2> QED BY <2>1, SendPreserves
<1>3. CASE RunRefused(s, c) \/ RunHere(s, c) \/ RunRemotely(s, c)
  <2>1. CASE Returns(s, c)
    BY <2>1, ReturnsPreserves
  <2>2. ASSUME NEW p \in {"send", "local"}, GoesOn(s, c, p, loadClientConfig(s)), c.op \in Asking
        PROVE  CInv'
    BY <2>2, SendPreserves
  <2> QED BY <1>3, <2>1, <2>2 DEF RunRefused, RunHere, RunRemotely, Asking
<1> QED BY <1>1, <1>2, <1>3, SavingPreserves, ConnectPreserves DEF Starts

\* The metrics key goes into the configuration (auth.go:135, auth.go:286), which is not
\* a guest's.
LEMMA KeepsMetricsPreserves ==
    ASSUME CInv, NEW s \in Shell, pc[s] = "metrics", KeepsMetrics(s)
    PROVE  CInv'
<1>1. PICK d : d = [cfg[s] EXCEPT !.metrics = cmd[s].other, !.url = Target(s)]
  OBVIOUS
<1>2. /\ cmd[s].op \in {"master", "metrics"} /\ cmd[s].other # none /\ cmd[s].op \in Saving
      /\ cfg[s] \in ClientConfig /\ cfg[s].url # none /\ cfg[s].role # "guest" /\ Coherent(cfg[s])
      /\ \A f \in Field \ Sets(cmd[s]) : Kept(s, f, cfg[s][f])
      /\ cmd[s] \in Command
  BY ClientAssumption DEF CInv, TypeOK, Places, Copies
<1>3. /\ d \in ClientConfig /\ d.url # none
      /\ d.role = cfg[s].role /\ d.token = cfg[s].token /\ d.metrics = cmd[s].other
      /\ d.url = IF cmd[s].url = none THEN cfg[s].url ELSE cmd[s].url
  BY <1>1, <1>2 DEF Target, Or, ClientConfig, Command
<1>4. Coherent(d)
  BY <1>2, <1>3 DEF Coherent
<1>5. {d.token, d.metrics} \cap gone = {}
  BY <1>2, <1>3 DEF CInv, Cleared, Brings
<1>6. \A f \in Field \ Sets(cmd[s]) : Kept(s, f, d[f])
  BY <1>2, <1>3 DEF Sets
<1>7. Continues(s, "truncate", d)
  BY <1>1 DEF KeepsMetrics
<1> QED BY <1>3, <1>4, <1>5, <1>6, <1>7, ContinuesPreserves

\* The answer to a login (auth.go:229): the token goes into the configuration with the role
\* that the server confirmed.
LEMMA CheckLoginPreserves ==
    ASSUME CInv, NEW s \in Shell, CheckLogin(s)
    PROVE  CInv'
<1>1. CASE Fails(s)
  BY <1>1, EndsPreserves DEF Fails, CInv, TypeOK
<1>2. CASE /\ verifies(cmd[s].key, cmd[s].op)
           /\ Continues(s, IF cmd[s].other = none THEN "truncate" ELSE "metrics", loggedIn(s))
  <2>1. PICK d : d = loggedIn(s)
    OBVIOUS
  <2>2. PICK p : p = IF cmd[s].other = none THEN "truncate" ELSE "metrics"
    OBVIOUS
  <2>3. /\ pc[s] = "verify" /\ cmd[s].op \in {"master", "guest"} /\ cmd[s].op \in Saving
        /\ cmd[s] \in Commands /\ cmd[s] \in Command
        /\ cmd[s].key # none /\ (cmd[s].op = "guest" => cmd[s].other = none)
        /\ cfg[s] \in ClientConfig /\ cfg[s].url # none
        /\ \A f \in Field \ Sets(cmd[s]) : Kept(s, f, cfg[s][f])
    <3>1. pc[s] = "verify"
      BY DEF CheckLogin
    <3>2. cmd[s] \in Commands
      BY <3>1 DEF CInv, TypeOK
    <3> QED BY <3>1, <3>2, ClientAssumption DEF CInv, TypeOK, Places, Copies
  <2>4. /\ d \in ClientConfig /\ d.url # none
        /\ d.role = cmd[s].op /\ d.token = cmd[s].key
        /\ d.metrics = IF cmd[s].op = "guest" THEN none ELSE cfg[s].metrics
        /\ d.url = IF cmd[s].url = none THEN cfg[s].url ELSE cmd[s].url
    BY <2>1, <2>3 DEF loggedIn, Target, Or, ClientConfig, Command
  <2>5. Coherent(d)
    <3>1. KindOf[d.token] = [type |-> "auth", role |-> d.role]
      BY <1>2, <2>3, <2>4, ClientAssumption
      DEF verifies, Command, AuthMaster, AuthGuest, MetricsMaster
    <3> QED BY <2>4, <3>1 DEF Coherent
  <2>6. {d.token, d.metrics} \cap gone = {}
    BY <2>3, <2>4, ClientAssumption DEF CInv, TypeOK, Cleared, Brings
  <2>7. \A f \in Field \ Sets(cmd[s]) : Kept(s, f, d[f])
    BY <2>3, <2>4 DEF Sets
  <2>8. p \in {"metrics", "truncate"} /\ Continues(s, p, d)
    BY <1>2, <2>1, <2>2
  <2>9. p = "metrics" => cmd[s].op = "master" /\ cmd[s].other # none /\ d.role # "guest"
    BY <2>2, <2>3, <2>4
  <2> QED BY <2>3, <2>4, <2>5, <2>6, <2>7, <2>8, <2>9, ContinuesPreserves
<1> QED BY <1>1, <1>2 DEF CheckLogin

\* What the server does keeps the types of its keys (api/auth.go).
LEMMA ServerTypes ==
    ASSUME CInv, NEW s \in Shell, pc[s] # "idle",
           UNCHANGED serverVars \/ (cmd[s].op = "generate" /\ Generates(s)) \/ Revokes(s)
    PROVE  active' \subseteq issued' /\ issued' \subseteq Key
<1>1. cmd[s] \in Commands
  BY DEF CInv, TypeOK
<1>2. cmd[s].op = "generate" => cmd[s].other \in Key
  BY <1>1, ClientAssumption DEF Command
<1> QED BY <1>2 DEF Generates, Revokes, CInv, TypeOK

\* The answers of the server, ...
LEMMA AnswersPreserve ==
    ASSUME CInv, NEW s \in Shell, Answers(s)
    PROVE  CInv'
<1>1. CASE CheckMetrics(s)
  BY <1>1, KeepsMetricsPreserves, EndsPreserves DEF CheckMetrics, Fails, CInv, TypeOK
<1>2. ASSUME NEW op, Displays(s, op),
             UNCHANGED serverVars \/ (op = "generate" /\ Generates(s)) \/ Revokes(s)
      PROVE  CInv'
  BY <1>2, ServerTypes, EndsPreserves DEF Displays
<1> QED BY <1>1, <1>2, CheckLoginPreserves, ProbedPreserves
        DEF Answers, GenerateAnswered, RevokeAnswered, ListAnswered, WhoamiAnswered,
            StatusAnswered, SubmitAnswered, FetchAnswered, HealthAnswered, RemoteAnswered

\* ... and their absence.
LEMMA NoAnswerPreserves ==
    ASSUME CInv, NEW s \in Shell, Executed(s) \/ GiveUp(s) \/ Interrupt(s)
    PROVE  CInv'
<1>1. ASSUME MayBeServed(s), pc[s] # "idle"
      PROVE  active' \subseteq issued' /\ issued' \subseteq Key
  BY <1>1, ServerTypes DEF MayBeServed
<1>2. CASE GiveUp(s)
  BY <1>1, <1>2, EndsPreserves, KeepsMetricsPreserves DEF GiveUp, Fails, Displays, CInv, TypeOK
<1>3. CASE Interrupt(s)
  BY <1>1, <1>3, EndsPreserves DEF Interrupt
<1>4. CASE Executed(s)
  BY <1>4, EndsPreserves DEF Executed, Fails, CInv, TypeOK
<1> QED BY <1>2, <1>3, <1>4

LEMMA NextCInv == CInv /\ [Next]_clientVars => CInv'
<1>1. ASSUME CInv, UNCHANGED clientVars
      PROVE  CInv'
  BY <1>1 DEF CInv, clientVars, TypeOK, FileIsCoherent, LogoutSticks, Places, Copies, Cleared,
     Coherent, Kept, Brings, FromEnv
<1> QED BY <1>1, StartsPreserves, AnswersPreserve, NoAnswerPreserves, TruncatePreserves,
           WritePreserves DEF Next

-----------------------------------------------------------------------------
(* What follows. *)

\* CInv holds in every reachable state of the client.
THEOREM ClientInductive == Spec => []CInv
BY InitCInv, NextCInv, PTL DEF Spec

\* Role, token and metrics key in the file fit together (config.go:207, auth.go:259, 288).
THEOREM ClientFileIsCoherent == Spec => []FileIsCoherent
<1>1. CInv => FileIsCoherent
  BY DEF CInv
<1> QED BY <1>1, ClientInductive, PTL

\* What a logout cleared stays out of the file (auth.go:185).
THEOREM ClientLogoutSticks == Spec => []LogoutSticks
<1>1. CInv => LogoutSticks
  BY DEF CInv
<1> QED BY <1>1, ClientInductive, PTL

\* A save keeps the fields its command does not set (config.go:70).
THEOREM ClientKeepsTheRest == Spec => KeepsTheRest
<1>1. ASSUME CInv, [Next]_clientVars, NEW s \in Shell, pc[s] = "write", pc'[s] = "idle",
             text' = "whole", fileVars' # fileVars, NEW f \in Field \ Sets(cmd[s])
      PROVE  Kept(s, f, file'[f])
  <2>1. Kept(s, f, cfg[s][f])
    BY <1>1 DEF CInv, Copies
  <2>2. file' = cfg[s]
    <3>1. ASSUME NEW t \in Shell, t # s, Truncate(t) \/ Write(t)
          PROVE  FALSE
      BY <1>1, <3>1 DEF Truncate, Write, Ends, CInv, TypeOK
    <3>2. PICK t \in Shell : Truncate(t) \/ Write(t)
      <4>1. ASSUME NEW t \in Shell, NEW c \in Commands, Starts(t, c)
            PROVE  UNCHANGED fileVars
        BY <4>1 DEF Starts, Login, SetMetrics, Connect, SetUrl, SetToken, Logout, Show,
           Unauthenticated, AskAboutKeys, AskStatus, Submit, Fetch, Health, RunRefused,
           RunHere, RunRemotely, GoesOn, Returns, Types
      <4>2. ASSUME NEW t \in Shell, Answers(t) \/ Executed(t) \/ GiveUp(t) \/ Interrupt(t)
            PROVE  UNCHANGED fileVars
        BY <4>2 DEF Answers, Executed, CheckLogin, CheckMetrics, Probed, Continues, KeepsMetrics, Fails,
           GenerateAnswered, RevokeAnswered, ListAnswered, WhoamiAnswered, StatusAnswered,
           SubmitAnswered, FetchAnswered, HealthAnswered, RemoteAnswered, Displays, GiveUp, Interrupt
      <4> QED BY <1>1, <4>1, <4>2 DEF Next, clientVars
    <3>3. t = s /\ Write(s)
      BY <1>1, <3>1, <3>2 DEF Truncate
    <3> QED BY <1>1, <3>3 DEF Write
  <2> QED BY <2>1, <2>2
<1>2. CInv /\ [Next]_clientVars =>
        [\A s \in Shell :
            pc[s] = "write" /\ pc'[s] = "idle" /\ text' = "whole" /\ fileVars' # fileVars =>
                \A f \in Field \ Sets(cmd[s]) : Kept(s, f, file'[f])]_clientVars
  BY <1>1
<1> QED BY <1>2, ClientInductive, PTL DEF Spec, KeepsTheRest
=============================================================================
