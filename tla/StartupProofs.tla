--------------------------- MODULE StartupProofs ----------------------------
(***************************************************************************)
(* What main does before it serves: the types and the safety properties of *)
(* Startup, for any list of instances, any flags and any answers of the    *)
(* environment, and the file descriptor limit that SetupFDLimits ensures   *)
(* (FDLimits), for any limits.                                             *)
(***************************************************************************)
EXTENDS Startup, FDLimits, TLAPS

\* The indices of a list that has got one more element.
LEMMA OneMoreIndex ==
  ASSUME NEW S, NEW q \in Seq(S)
  PROVE  \A n \in 1..Len(q) + 1 : n \in 1..Len(q) \/ n = Len(q) + 1
<1>1. Len(q) \in Nat
  OBVIOUS
<1> QED BY <1>1

\* The path of a Unix socket.
LEMMA UnixAddress ==
  ASSUME NEW e \in Entries, NEW answer \in Answers, OptsParse(e, tcp), Network(e) = "unix"
  PROVE  LET addr == Address(e, tcp, answer) IN
         /\ addr \in Seq(Tokens) /\ addr # <<>> /\ Dir(addr) \in Seq(Tokens)
         /\ Head(addr) \notin {"127.0.0.1", "::1"}
         /\ addr[Len(addr)] = ".s.PGSQL.5432" => answer = "postgres"
<1> DEFINE addr == Address(e, tcp, answer)
           path == IF e.opts = <<>> THEN <<"dir">> \o e.name
                   ELSE IF e.opts[2] \in Absolute THEN <<e.opts[2]>> ELSE <<"dir", e.opts[2]>>
<1>1. e.name \in Seq(Words) /\ e.opts \in Seq(Words)
  BY DEF Entries
<1>2. addr = IF answer = "postgres" THEN Append(path, ".s.PGSQL.5432") ELSE path
  BY DEF Address
<1>3. path \in Seq(Words \cup {"dir"}) /\ path # <<>> /\ path[1] \notin {"127.0.0.1", "::1"}
  <2>1. CASE e.opts = <<>>
    BY <1>1, <2>1
  <2>2. CASE e.opts # <<>>
    <3>1. e.opts[2] \in Words
      BY <1>1, <2>2 DEF OptsParse
    <3>2. CASE e.opts[2] \in Absolute
      BY <2>2, <3>1, <3>2, StartupAssumption
    <3>3. CASE e.opts[2] \notin Absolute
      BY <2>2, <3>1, <3>3
    <3> QED BY <3>2, <3>3
  <2> QED BY <2>1, <2>2
<1> HIDE DEF path
<1>4. path[Len(path)] # ".s.PGSQL.5432"
  <2>1. Len(path) \in DOMAIN path
    BY <1>3
  <2> QED BY <1>3, <2>1, StartupAssumption
<1>5. addr \in Seq(Tokens) /\ addr # <<>> /\ Head(addr) = path[1]
  BY <1>2, <1>3 DEF Tokens
<1>6. addr[Len(addr)] = ".s.PGSQL.5432" => answer = "postgres"
  BY <1>2, <1>4
<1> HIDE DEF addr
<1>7. Dir(addr) \in Seq(Tokens)
  BY <1>5 DEF Dir
<1> QED BY <1>3, <1>5, <1>6, <1>7 DEF addr

\* What parseInstanceConfig returns is an instanceConfig for a network of the
\* machine, and a Postgres socket is one it has made the directory for.
LEMMA ConfigOK ==
  ASSUME TypeOK, NEW e \in Entries, NEW answer \in Answers, Parses(e, tcp, answer)
  PROVE  LET c == ConfigOf(e, tcp, answer) IN
         /\ c \in Configs /\ c.instance = e.name
         /\ c.network \in ValidNets(tcp)
         /\ Head(c.address) = "127.0.0.1" => "tcp4" \in tcp
         /\ Head(c.address) = "::1" => "tcp6" \in tcp
         /\ c.address[Len(c.address)] = ".s.PGSQL.5432" => MakesDir(e, tcp, answer)
<1> DEFINE addr == Address(e, tcp, answer)
<1>1. e.name \in Seq(Words) /\ e.opts \in Seq(Words) /\ tcp \subseteq {"tcp4", "tcp6"}
  BY DEF Entries, TypeOK, Families
<1>2. Network(e) \in ValidNets(tcp) /\ OptsParse(e, tcp) /\ Asked(e, tcp)
  BY DEF Parses, Asked
<1>3. Network(e) \in Networks
  BY <1>1, <1>2, Zenon DEF ValidNets, Networks
<1>4. CASE Network(e) # "unix"
  <2>1. /\ e.opts # <<>> /\ Len(e.opts) = 2 /\ e.opts[1] = Network(e)
        /\ e.opts[2] \in Words /\ ParseTCPOpts(Network(e), e.opts[2], tcp) # <<>>
    BY <1>1, <1>2, <1>4 DEF OptsParse, Network
  <2>2. addr = ParseTCPOpts(Network(e), e.opts[2], tcp)
    BY <1>4, <2>1 DEF Address
  <2>3. CASE e.opts[2] \in HostPort
    <3>1. addr = <<e.opts[2]>>
      BY <2>2, <2>3 DEF ParseTCPOpts
    <3>2. addr \in Seq(Tokens) /\ Head(addr) = e.opts[2] /\ addr[Len(addr)] = e.opts[2]
      BY <2>1, <3>1 DEF Tokens
    <3>3. e.opts[2] \notin {"127.0.0.1", "::1", ".s.PGSQL.5432"}
      BY <2>1, <2>3, StartupAssumption
    <3> HIDE DEF addr
    <3> QED BY <1>1, <1>2, <1>3, <3>2, <3>3 DEF ConfigOf, Configs, addr
  <2>4. CASE e.opts[2] \notin HostPort
    <3>1. Network(e) \in DOMAIN LoopbackForNet(tcp) /\ addr = <<LoopbackForNet(tcp)[Network(e)], e.opts[2]>>
      BY <2>1, <2>2, <2>4 DEF ParseTCPOpts
    <3>2. LoopbackForNet(tcp)[Network(e)] =
            IF Network(e) = "tcp6" \/ (Network(e) = "tcp" /\ "tcp4" \notin tcp) THEN "::1" ELSE "127.0.0.1"
      BY <3>1 DEF LoopbackForNet
    <3>3. /\ LoopbackForNet(tcp)[Network(e)] = "127.0.0.1" => "tcp4" \in tcp
          /\ LoopbackForNet(tcp)[Network(e)] = "::1" => "tcp6" \in tcp
          /\ LoopbackForNet(tcp)[Network(e)] \in {"127.0.0.1", "::1"}
      BY <1>1, <1>2, <1>3, <1>4, <3>2 DEF ValidNets, Networks
    <3>4. /\ addr \in Seq(Tokens) /\ Head(addr) = LoopbackForNet(tcp)[Network(e)]
          /\ addr[Len(addr)] = e.opts[2]
      BY <2>1, <3>1, <3>3 DEF Tokens
    <3>5. e.opts[2] # ".s.PGSQL.5432"
      BY <2>1, StartupAssumption
    <3> HIDE DEF addr
    <3> QED BY <1>1, <1>2, <1>3, <3>3, <3>4, <3>5 DEF ConfigOf, Configs, addr
  <2> QED BY <2>3, <2>4
<1>5. CASE Network(e) = "unix"
  <2>1. /\ addr \in Seq(Tokens) /\ Head(addr) \notin {"127.0.0.1", "::1"}
        /\ addr[Len(addr)] = ".s.PGSQL.5432" => answer = "postgres"
    BY <1>2, <1>5, UnixAddress, Zenon
  <2> HIDE DEF addr
  <2> QED BY <1>1, <1>2, <1>3, <1>5, <2>1 DEF ConfigOf, Configs, MakesDir, addr
<1> QED BY <1>4, <1>5

\* The state before main has looked at its flags.
LEMMA StartInit == Init => StartInv
<1> SUFFICES ASSUME Init PROVE StartInv
  OBVIOUS
<1>1. TypeOK
  <2>1. PICK s \in Setups : instList = s.insts /\ tcp = s.tcp /\ given = s.given
    BY DEF Init
  <2>2. instList \in Seq(Entries) /\ tcp \subseteq Families /\ given \subseteq Given
    BY <2>1, StartupAssumption DEF Setup
  <2>3. probe \in Probes
    BY StartupAssumption DEF Init, NoProbe, Probes
  <2>4. flags \in Flags /\ pc \in Pcs
    BY DEF Init, Pcs, Flags
  <2>5. /\ gcloud \in Seq(Gclouds) /\ Len(gcloud) <= 3 /\ rest \in Seq(Entries) /\ cfgs \in Seq(Configs)
        /\ throttle \in Nat
    BY DEF Init
  <2> QED BY <2>2, <2>3, <2>4, <2>5, Zenon DEF Init, TypeOK
<1>2. AuthInv
  BY DEF Init, AuthInv, DefaultIsChecked, Listing, Serving
<1>3. ModeInv
  BY DEF Init, ModeInv, Listing, Serving
<1>4. ParseInv
  BY DEF Init, ParseInv, Serving
<1>5. ConfigsUsable
  BY DEF Init, ConfigsUsable
<1>6. ProbeInv
  BY DEF Init, ProbeInv, ReadyMeansServing, NoProbe
<1> QED BY <1>1, <1>2, <1>3, <1>4, <1>5, <1>6 DEF StartInv

\* The steps up to the loop over the entries.
Early == CheckHost \/ GcloudProject \/ CheckFlags \/ CheckScopes \/ AuthGiven \/ AuthFound
         \/ ListProjects \/ CreateInstanceConfigs

\* The steps after it, and those of the health check server.
Late == NewClient \/ NewServer \/ OpenSource \/ NotifyStarted
Health == ConnectionsChange \/ Probe \/ HandleProbe \/ AvailableConn

\* What each group of steps leaves alone.
LEMMA EarlyFrame ==
  ASSUME Early
  PROVE  /\ tcp' = tcp /\ given' = given /\ cfgs' = cfgs /\ errs' = errs /\ dirs' = dirs
         /\ throttle' = throttle /\ hc' = hc /\ source' = source /\ full' = full /\ probe' = probe
         /\ pc \in {"host", "project", "flags", "auth", "list", "configs"}
         /\ pc' \in {"project", "flags", "auth", "list", "configs", "parse", "exit"}
<1> USE DEF Goto, Exit, authVars, parseVars, serveVars
<1>1. CASE CheckHost
  BY <1>1 DEF CheckHost
<1>2. CASE GcloudProject
  BY <1>2 DEF GcloudProject
<1>3. CASE CheckFlags
  BY <1>3 DEF CheckFlags
<1>4. CASE CheckScopes
  BY <1>4 DEF CheckScopes
<1>5. CASE AuthGiven
  BY <1>5 DEF AuthGiven, AuthenticatedClientFromPath
<1>6. CASE AuthFound
  BY <1>6 DEF AuthFound
<1>7. CASE ListProjects
  BY <1>7 DEF ListProjects
<1>8. CASE CreateInstanceConfigs
  BY <1>8 DEF CreateInstanceConfigs
<1> QED BY <1>1, <1>2, <1>3, <1>4, <1>5, <1>6, <1>7, <1>8, Zenon DEF Early

\* The same for the steps after the loop.
LEMMA LateFrame ==
  ASSUME Late
  PROVE  /\ flags' = flags /\ tcp' = tcp /\ instList' = instList /\ gce' = gce /\ given' = given
         /\ gcloud' = gcloud /\ scopes' = scopes /\ creds' = creds /\ rest' = rest /\ cfgs' = cfgs
         /\ errs' = errs /\ dirs' = dirs /\ full' = full /\ probe' = probe
         /\ pc \in {"client", "health", "source", "notify"}
         /\ pc' \in {"health", "source", "notify", "run", "exit"}
BY DEF Late, NewClient, NewServer, OpenSource, NotifyStarted, Goto, Exit, authVars, parseVars

\* The same for the health check server and the clients.
LEMMA HealthFrame ==
  ASSUME Health
  PROVE  /\ flags' = flags /\ tcp' = tcp /\ pc' = pc /\ instList' = instList /\ gce' = gce
         /\ given' = given /\ gcloud' = gcloud /\ scopes' = scopes /\ creds' = creds /\ rest' = rest
         /\ cfgs' = cfgs /\ errs' = errs /\ dirs' = dirs /\ throttle' = throttle /\ hc' = hc
         /\ source' = source
BY Zenon DEF Health, ConnectionsChange, Probe, HandleProbe, AvailableConn, authVars, parseVars

\* Every step keeps the types.
LEMMA TypeStep ==
  ASSUME StartInv, Next PROVE TypeOK'
<1> USE DEF StartInv
<1>1. CASE Early
  <2>1. flags' \in Flags
    <3>1. flags' = flags \/ flags' = [flags EXCEPT !.projects = TRUE]
      BY <1>1, Zenon DEF Early, CheckHost, GcloudProject, CheckFlags, CheckScopes, AuthGiven, AuthFound, ListProjects,
         CreateInstanceConfigs
    <3> QED BY <3>1, Zenon DEF TypeOK, Flags
  <2>2. pc' \in Pcs
    BY <1>1, EarlyFrame DEF Pcs
  <2>3. gcloud' \in Seq(Gclouds) /\ Len(gcloud') <= 3
    <3>1. gcloud' = gcloud \/ \E g \in Gclouds : pc \in {"project", "flags", "auth"} /\ gcloud' = Append(gcloud, g)
      BY <1>1 DEF Early, CheckHost, GcloudProject, CheckFlags, CheckScopes, AuthGiven, AuthFound, ListProjects,
         CreateInstanceConfigs, Goto, Exit, Gclouds, authVars
    <3>2. gcloud \in Seq(Gclouds) /\ Len(gcloud) <= 3 /\ (pc \in {"project", "flags", "auth"} => Len(gcloud) <= 2)
      <4>1. gcloud \in Seq(Gclouds) /\ Len(gcloud) <= 3
        BY Zenon DEF TypeOK
      <4>2. /\ pc = "project" => Len(gcloud) <= 0
            /\ pc = "flags" => Len(gcloud) <= 1
            /\ pc = "auth" => Len(gcloud) <= 2
        BY Zenon DEF AuthInv
      <4> QED BY <4>1, <4>2
    <3> QED BY <3>1, <3>2
  <2>4. scopes' \in {"unknown", "ok", "lacking"} /\ gce' \in BOOLEAN
    BY <1>1 DEF Early, CheckHost, GcloudProject, CheckFlags, CheckScopes, AuthGiven, AuthFound, ListProjects,
         CreateInstanceConfigs, authVars, TypeOK
  <2>5. creds' \in {"none", "file", "token", "env", "gcloud", "default"}
    <3>1. CASE AuthGiven
      BY <3>1 DEF AuthGiven, TypeOK, Given
    <3>2. CASE AuthFound
      BY <3>2 DEF AuthFound
    <3> QED BY <1>1, <3>1, <3>2 DEF Early, CheckHost, GcloudProject, CheckFlags, CheckScopes, ListProjects,
         CreateInstanceConfigs, authVars, TypeOK
  <2>6. instList' \in Seq(Entries) /\ rest' \in Seq(Entries)
    <3>1. CASE ListProjects
      <4>1. rest' = rest /\ (instList' = instList \/ \E ins \in Listed : instList' = instList \o ins)
        BY <3>1 DEF ListProjects, parseVars
      <4>2. \A ins \in Listed : ins \in Seq(Entries)
        BY StartupAssumption DEF NonEmptyLists
      <4>3. instList \in Seq(Entries) /\ rest \in Seq(Entries)
        BY Zenon DEF TypeOK
      <4>4. \A ins \in Listed : instList \o ins \in Seq(Entries)
        BY <4>2, <4>3
      <4> QED BY <4>1, <4>3, <4>4, Zenon
    <3>2. CASE CreateInstanceConfigs
      BY <3>2 DEF CreateInstanceConfigs, TypeOK
    <3> QED BY <1>1, <3>1, <3>2 DEF Early, CheckHost, GcloudProject, CheckFlags, CheckScopes, AuthGiven, AuthFound,
         parseVars, TypeOK
  <2>7. throttle' \in Nat /\ (throttle' >= MinThrottle \/ (throttle' = 0 /\ ~source'))
    BY <1>1, EarlyFrame DEF TypeOK
  <2> QED BY <1>1, EarlyFrame, <2>1, <2>2, <2>3, <2>4, <2>5, <2>6, <2>7, Zenon DEF TypeOK
<1>2. CASE ParseEntry
  <2>1. rest \in Seq(Entries) /\ rest # <<>> /\ Head(rest) \in Entries /\ Tail(rest) \in Seq(Entries)
    BY <1>2 DEF ParseEntry, TypeOK
  <2>2. PICK e \in Entries : e = Head(rest)
    BY <2>1
  <2>3. rest' = Tail(rest) /\ UNCHANGED <<flags, tcp, pc, instList, authVars, serveVars>>
    BY <1>2 DEF ParseEntry, NextEntry
  <2>4. cfgs' \in Seq(Configs) /\ errs' \in BOOLEAN /\ dirs' \subseteq Seq(Tokens)
    <3>1. CASE Empty(e)
      BY <1>2, <2>2, <3>1, Zenon DEF ParseEntry, TypeOK
    <3>2. CASE ~Empty(e)
      <4>1. PICK answer \in Answers :
              /\ cfgs' = IF Parses(e, tcp, answer) THEN Append(cfgs, ConfigOf(e, tcp, answer)) ELSE cfgs
              /\ errs' = (errs \/ (~Parses(e, tcp, answer) /\ Counts))
              /\ dirs' = IF MakesDir(e, tcp, answer) THEN dirs \cup {Dir(Address(e, tcp, answer))} ELSE dirs
        BY <1>2, <2>2, <3>2, Zenon DEF ParseEntry, Answers
      <4>2. cfgs' \in Seq(Configs)
        BY <4>1, ConfigOK DEF TypeOK
      <4>3. errs' \in BOOLEAN
        BY <4>1, Zenon DEF TypeOK
      <4>4. MakesDir(e, tcp, answer) => Dir(Address(e, tcp, answer)) \in Seq(Tokens)
        BY UnixAddress, Zenon DEF MakesDir, Asked
      <4> QED BY <4>1, <4>2, <4>3, <4>4 DEF TypeOK
    <3> QED BY <3>1, <3>2
  <2> QED BY <2>1, <2>3, <2>4 DEF TypeOK, authVars, serveVars
<1>3. CASE CombineConfigs
  <2>1. /\ UNCHANGED <<flags, tcp, instList, authVars, rest, errs, dirs, serveVars>>
        /\ pc' \in {"exit", "client"} /\ (cfgs' = <<>> \/ cfgs' = cfgs)
    BY <1>3 DEF CombineConfigs, Goto
  <2>2. cfgs' \in Seq(Configs) /\ pc' \in Pcs
    <3>1. cfgs \in Seq(Configs)
      BY Zenon DEF TypeOK
    <3>2. <<>> \in Seq(Configs)
      OBVIOUS
    <3> QED BY <2>1, <3>1, <3>2, Zenon DEF Pcs
  <2>3. /\ UNCHANGED <<flags, tcp, instList, rest, errs, dirs>>
        /\ UNCHANGED <<gce, given, gcloud, scopes, creds, throttle, hc, source, full, probe>>
    BY <2>1 DEF authVars, serveVars
  <2> QED BY <2>2, <2>3, Zenon DEF TypeOK
<1>4. CASE Late
  <2>1. throttle' \in Nat /\ (throttle' >= MinThrottle \/ (throttle' = 0 /\ ~source'))
    <3>1. CASE NewClient
      BY <3>1, StartupAssumption DEF NewClient, RefreshCfgThrottle
    <3>2. CASE OpenSource
      <4>1. throttle' = throttle /\ pc = "source" /\ throttle \in Nat
        BY <3>2, Zenon DEF OpenSource, Goto, Exit, TypeOK
      <4>2. throttle >= MinThrottle
        BY <4>1 DEF ModeInv, Serving
      <4> QED BY <4>1, <4>2
    <3>3. CASE NewServer \/ NotifyStarted
      BY <3>3 DEF NewServer, NotifyStarted, TypeOK
    <3> QED BY <1>4, <3>1, <3>2, <3>3 DEF Late
  <2>2. hc' \in {"none", "open", "closed"} /\ source' \in BOOLEAN
    BY <1>4, Zenon DEF Late, NewClient, NewServer, OpenSource, NotifyStarted, TypeOK
  <2>3. pc' \in Pcs
    BY <1>4, LateFrame DEF Pcs
  <2> QED BY <1>4, <2>1, <2>2, <2>3, LateFrame, Zenon DEF TypeOK
<1>5. CASE Health
  <2>1. full' \in BOOLEAN
    BY <1>5, Zenon DEF Health, ConnectionsChange, Probe, HandleProbe, AvailableConn, TypeOK
  <2>2. probe' \in Probes
    <3>1. probe \in Probes
      BY DEF TypeOK
    <3>2. CASE ConnectionsChange
      BY <3>1, <3>2 DEF ConnectionsChange
    <3>3. CASE Probe
      <4>1. PICK path \in {"startup", "readiness", "liveness"} :
              probe' = [at |-> "handler", path |-> path, ok |-> FALSE, n |-> probe.n + 1]
        BY <3>3, Zenon DEF Probe
      <4>2. probe.n + 1 \in 0..MaxProbes
        BY <3>1, <3>3, StartupAssumption DEF Probe, Probes
      <4> QED BY <4>1, <4>2 DEF Probes
    <3>4. CASE HandleProbe \/ AvailableConn
      <4>1. \/ \E b \in BOOLEAN : probe' = [probe EXCEPT !.at = "answered", !.ok = b]
            \/ probe' = [probe EXCEPT !.at = "available"]
        BY <3>4, Zenon DEF HandleProbe, AvailableConn, IsReady, Answered, ProxyStarted, TypeOK
      <4> QED BY <3>1, <4>1, Zenon DEF Probes
    <3> QED BY <1>5, <3>2, <3>3, <3>4, Zenon DEF Health
  <2>3. throttle' \in Nat /\ (throttle' >= MinThrottle \/ (throttle' = 0 /\ ~source'))
    BY <1>5, HealthFrame DEF TypeOK
  <2>4. gcloud' \in Seq(Gclouds) /\ Len(gcloud') <= 3
    BY <1>5, HealthFrame DEF TypeOK
  <2> QED BY <1>5, <2>1, <2>2, <2>3, <2>4, HealthFrame, Zenon DEF TypeOK
<1> QED BY <1>1, <1>2, <1>3, <1>4, <1>5, Zenon DEF Next, Main, Early, Late, Health

\* The loop over the entries and the checks after it.
LEMMA ParseFrame ==
  ASSUME ParseEntry \/ CombineConfigs
  PROVE  /\ flags' = flags /\ tcp' = tcp /\ instList' = instList /\ gce' = gce /\ given' = given
         /\ gcloud' = gcloud /\ scopes' = scopes /\ creds' = creds
         /\ throttle' = throttle /\ hc' = hc /\ source' = source /\ full' = full /\ probe' = probe
         /\ pc = "parse" /\ pc' \in {"parse", "client", "exit"}
BY Zenon DEF ParseEntry, CombineConfigs, Goto, authVars, serveVars

\* One more call of GcloudConfig.
LEMMA OneMore ==
  ASSUME NEW s \in Seq(Gclouds), NEW g \in Gclouds
  PROVE  /\ Append(s, g) # <<>> /\ Append(s, g)[Len(Append(s, g))] = g
         /\ Len(Append(s, g)) <= Len(s) + 1
         /\ s # <<>> => Len(Append(s, g)) > 1 /\ Append(s, g)[Len(Append(s, g)) - 1] = s[Len(s)]
<1> DEFINE t == Append(s, g)
<1>1. /\ Len(t) = Len(s) + 1 /\ t[Len(s) + 1] = g /\ Len(s) \in Nat
      /\ \A n \in 1..Len(s) : t[n] = s[n]
  OBVIOUS
<1>2. s # <<>> => Len(s) >= 1
  OBVIOUS
<1> HIDE DEF t
<1>3. t # <<>>
  BY <1>1
<1>4. t[Len(t)] = g /\ Len(t) <= Len(s) + 1
  BY <1>1
<1>5. s # <<>> => Len(t) > 1 /\ t[Len(t) - 1] = s[Len(s)]
  BY <1>1, <1>2
<1> QED BY <1>3, <1>4, <1>5, Zenon DEF t

\* Default credentials are used only after checkFlags has found that they
\* suffice, or has seen gcloud work.
LEMMA AuthStep ==
  ASSUME StartInv, Next PROVE AuthInv'
<1> USE DEF StartInv
<1>1. gcloud \in Seq(Gclouds)
  BY Zenon DEF TypeOK
<1>2. CASE ParseEntry \/ CombineConfigs \/ Late \/ Health
  <2>1. /\ flags' = flags /\ gce' = gce /\ given' = given /\ gcloud' = gcloud /\ scopes' = scopes /\ creds' = creds
        /\ pc' = pc \/ (pc \in Listing \cup Serving /\ pc' \in Listing \cup Serving \cup {"exit"})
    BY <1>2, ParseFrame, LateFrame, HealthFrame DEF Listing, Serving
  <2>2. CASE pc' = pc
    BY <2>1, <2>2 DEF AuthInv, DefaultIsChecked
  <2>3. CASE pc \in Listing \cup Serving /\ pc' \in Listing \cup Serving \cup {"exit"}
    BY <2>1, <2>3 DEF AuthInv, DefaultIsChecked, Listing, Serving
  <2> QED BY <2>1, <2>2, <2>3
<1>3. CASE CheckHost
  BY <1>3 DEF CheckHost, Goto, Exit, authVars, AuthInv, DefaultIsChecked, Listing, Serving
<1>4. CASE GcloudProject
  <2>1. /\ pc = "project" /\ pc' \in {"flags", "exit"} /\ creds' = "none" /\ Len(gcloud) <= 0
        /\ gcloud' = gcloud \/ \E g \in Gclouds : gcloud' = Append(gcloud, g)
    BY <1>4 DEF GcloudProject, Goto, Exit, AuthInv
  <2>2. Len(gcloud') <= Len(gcloud) + 1
    <3>1. Len(gcloud) <= Len(gcloud) + 1
      BY <1>1
    <3> QED BY <1>1, <2>1, <3>1, OneMore, Zenon
  <2>3. Len(gcloud') <= 1
    BY <1>1, <2>1, <2>2
  <2> QED BY <2>1, <2>3 DEF AuthInv, DefaultIsChecked, Listing, Serving
<1>5. CASE CheckFlags
  <2>1. /\ pc = "flags" /\ pc' \in {"auth", "exit"} /\ creds' = "none" /\ Len(gcloud) <= 1
        /\ given' = given /\ flags' = flags
    BY <1>5 DEF CheckFlags, Goto, Exit, AuthInv
  <2>2. \/ gcloud' = gcloud /\ ~(gce' /\ given = {})
        \/ \E g \in {"ok", "no project"} : gcloud' = Append(gcloud, g)
    BY <1>5 DEF CheckFlags
  <2>3. Len(gcloud') <= 2 /\ (gce' /\ given = {} => gcloud' # <<>> /\ gcloud'[Len(gcloud')] \in {"ok", "no project"})
    <3>1. CASE gcloud' = gcloud /\ ~(gce' /\ given = {})
      <4>1. Len(gcloud) <= 2
        BY <1>1, <2>1
      <4> QED BY <3>1, <4>1, Zenon
    <3>2. CASE \E g \in {"ok", "no project"} : gcloud' = Append(gcloud, g)
      <4>1. PICK g \in Gclouds : g \in {"ok", "no project"} /\ gcloud' = Append(gcloud, g)
        BY <3>2, Zenon DEF Gclouds
      <4>2. gcloud' # <<>> /\ gcloud'[Len(gcloud')] = g /\ Len(gcloud') <= Len(gcloud) + 1
        BY <1>1, <4>1, OneMore, Zenon
      <4>3. Len(gcloud') <= 2
        BY <1>1, <2>1, <4>2
      <4> QED BY <4>1, <4>2, <4>3, Zenon
    <3> QED BY <2>2, <3>1, <3>2, Zenon
  <2>4. pc' = "auth" /\ flags.metadata => gce'
    BY <1>5 DEF CheckFlags, Goto, Exit
  <2> QED BY <2>1, <2>3, <2>4 DEF AuthInv, DefaultIsChecked, Listing, Serving
<1>6. CASE CheckScopes
  <2>1. /\ pc = "flags" /\ pc' \in {"auth", "exit"} /\ creds' = "none" /\ Len(gcloud) <= 1
        /\ gce' = TRUE /\ \E g \in Gclouds : gcloud' = Append(gcloud, g)
    BY <1>6 DEF CheckScopes, Goto, Exit, AuthInv, Gclouds
  <2>2. Len(gcloud') <= 2
    <3>1. Len(gcloud') <= Len(gcloud) + 1
      BY <1>1, <2>1, OneMore, Zenon
    <3> QED BY <1>1, <2>1, <3>1
  <2>3. pc' = "auth" => scopes' = "ok"
    BY <1>6 DEF CheckScopes, Goto, Exit
  <2> QED BY <2>1, <2>2, <2>3 DEF AuthInv, DefaultIsChecked, Listing, Serving
<1>7. CASE AuthGiven
  <2>1. /\ pc = "auth" /\ pc' \in {"list", "exit"} /\ creds' # "default"
        /\ flags' = flags /\ gce' = gce
    BY <1>7 DEF AuthGiven, AuthenticatedClientFromPath, Goto, Exit, TypeOK, Given
  <2> QED BY <2>1 DEF AuthInv, DefaultIsChecked, Listing, Serving
<1>8. CASE AuthFound
  <2>1. /\ pc = "auth" /\ pc' \in {"list", "exit"} /\ given = {}
        /\ flags' = flags /\ gce' = gce /\ scopes' = scopes
        /\ \E g \in Gclouds : gcloud' = Append(gcloud, g)
    BY <1>8 DEF AuthFound, Goto, Exit
  <2>2. gce => scopes = "ok" \/ (gcloud # <<>> /\ gcloud[Len(gcloud)] \in {"ok", "no project"})
    BY <2>1, Zenon DEF AuthInv
  <2>3. gcloud # <<>> => Len(gcloud') > 1 /\ gcloud'[Len(gcloud') - 1] = gcloud[Len(gcloud)]
    BY <1>1, <2>1, OneMore, Zenon
  <2>4. DefaultIsChecked'
    BY <2>1, <2>2, <2>3, Zenon DEF DefaultIsChecked
  <2>5. flags.metadata => gce
    BY <2>1 DEF AuthInv
  <2> QED BY <2>1, <2>4, <2>5 DEF AuthInv, Listing, Serving
<1>9. CASE ListProjects \/ CreateInstanceConfigs
  <2>1. /\ flags' = flags /\ gce' = gce /\ gcloud' = gcloud /\ scopes' = scopes /\ creds' = creds
        /\ pc \in {"list", "configs"} /\ pc' \in {"configs", "parse", "exit"}
    BY <1>9 DEF ListProjects, CreateInstanceConfigs, Goto, Exit, authVars
  <2> QED BY <2>1 DEF AuthInv, DefaultIsChecked, Listing, Serving
<1> QED BY <1>2, <1>3, <1>4, <1>5, <1>6, <1>7, <1>8, <1>9, Zenon DEF Next, Main, Late, Health

\* The checks of CreateInstanceConfigs are all made before anything is served.
LEMMA ModeStep ==
  ASSUME StartInv, Next PROVE ModeInv'
<1> USE DEF StartInv
<1>1. CASE Early
  <2>1. source' = source /\ pc \notin Serving /\ pc' \notin Serving
    BY <1>1, EarlyFrame DEF Serving
  <2>2. ~source'
    BY <2>1 DEF ModeInv, Serving
  <2>3. pc' \in Listing /\ flags'.projects => instList' # <<>>
    <3>1. CASE ListProjects
      <4>1. /\ flags' = flags
            /\ \/ instList' = instList /\ (flags.projects => pc' = "exit")
               \/ \E ins \in Listed : instList' = instList \o ins
        BY <3>1 DEF ListProjects, Goto, Exit
      <4>2. instList \in Seq(Entries) /\ \A ins \in Listed : ins \in Seq(Entries) /\ ins # <<>>
        BY StartupAssumption DEF TypeOK, NonEmptyLists
      <4>3. \A ins \in Listed : instList \o ins # <<>>
        BY <4>2
      <4> QED BY <4>1, <4>3 DEF Listing
    <3>2. CASE CreateInstanceConfigs
      BY <3>2 DEF CreateInstanceConfigs, Goto, Exit, ModeInv, Listing
    <3>3. CASE CheckHost \/ GcloudProject \/ CheckFlags \/ CheckScopes \/ AuthGiven \/ AuthFound
      <4>1. pc' \in {"project", "flags", "auth", "list", "exit"}
        BY <3>3 DEF CheckHost, GcloudProject, CheckFlags, CheckScopes, AuthGiven, AuthFound,
           AuthenticatedClientFromPath, Goto, Exit
      <4> QED BY <4>1 DEF Listing
    <3> QED BY <1>1, <3>1, <3>2, <3>3 DEF Early
  <2> QED BY <2>1, <2>2, <2>3 DEF ModeInv, Serving
<1>2. CASE ParseEntry
  <2>1. flags' = flags /\ instList' = instList /\ source' = source /\ pc' = pc /\ pc = "parse"
    BY <1>2, ParseFrame, Zenon DEF ParseEntry
  <2> QED BY <2>1 DEF ModeInv, Listing, Serving
<1>3. CASE CombineConfigs
  <2>1. /\ flags' = flags /\ instList' = instList /\ source' = source
        /\ pc = "parse" /\ pc' \in {"client", "exit"}
    BY <1>3, ParseFrame DEF CombineConfigs, Goto
  <2>2. pc' = "client" => ~ConfigsRefused /\ (cfgs' = <<>> \/ cfgs' = cfgs)
    BY <1>3 DEF CombineConfigs, Goto
  <2>3. ~source /\ (flags.projects => instList # <<>>)
    BY <2>1 DEF ModeInv, Listing
  <2>4. UnixConfig' => UnixConfig \/ pc' # "client"
    BY <2>2 DEF UnixConfig
  <2>5. pc' = "client" =>
          /\ flags'.fuse => flags'.dir /\ ~flags'.metadata /\ instList' = <<>>
          /\ flags'.metadata => flags'.dir
          /\ UnixConfig' => flags'.dir
          /\ ~flags'.fuse => flags'.metadata \/ instList' # <<>>
    BY <2>1, <2>2, <2>4, Zenon DEF ConfigsRefused, NeedsDir
  <2> QED BY <2>1, <2>3, <2>5 DEF ModeInv, Listing, Serving
<1>4. CASE Late
  <2>1. /\ flags' = flags /\ instList' = instList /\ cfgs' = cfgs
        /\ pc \in {"client", "health", "source", "notify"} /\ pc' \in {"health", "source", "notify", "run", "exit"}
    BY <1>4, LateFrame
  <2>2. UnixConfig' <=> UnixConfig
    BY <2>1 DEF UnixConfig
  <2>3. source' <=> pc' \in {"notify", "run"}
    BY <1>4 DEF Late, NewClient, NewServer, OpenSource, NotifyStarted, Goto, Exit, ModeInv
  <2>4. pc' \in Serving \ {"client"} => throttle' >= MinThrottle
    <3>1. CASE NewClient
      BY <3>1, StartupAssumption DEF NewClient, RefreshCfgThrottle
    <3>2. CASE ~NewClient
      <4>1. throttle' = throttle /\ pc \in {"health", "source", "notify"}
        BY <1>4, <3>2 DEF Late, NewServer, OpenSource, NotifyStarted, Goto, Exit
      <4> QED BY <4>1 DEF ModeInv, Serving
    <3> QED BY <3>1, <3>2
  <2> QED BY <2>1, <2>2, <2>3, <2>4 DEF ModeInv, Listing, Serving
<1>5. CASE Health
  <2>1. /\ flags' = flags /\ instList' = instList /\ source' = source /\ pc' = pc
        /\ cfgs' = cfgs /\ throttle' = throttle
    BY <1>5, HealthFrame
  <2>2. UnixConfig' <=> UnixConfig
    BY <2>1 DEF UnixConfig
  <2> QED BY <2>1, <2>2 DEF ModeInv
<1> QED BY <1>1, <1>2, <1>3, <1>4, <1>5, Zenon DEF Next, Main, Early, Late, Health

\* A 200 is only sent after NotifyStarted, and NotifyStarted comes after the
\* source of connections is open.
LEMMA ProbeStep ==
  ASSUME StartInv, Next PROVE ProbeInv'
<1> USE DEF StartInv
<1>1. CASE Early \/ ParseEntry \/ CombineConfigs
  <2>1. hc' = hc /\ source' = source /\ probe' = probe
    BY <1>1, EarlyFrame, ParseFrame
  <2> QED BY <2>1 DEF ProbeInv, ReadyMeansServing
<1>2. CASE Late
  <2>1. probe' = probe /\ (source => source')
    BY <1>2, LateFrame DEF Late, NewClient, NewServer, OpenSource, NotifyStarted
  <2>2. hc' = "closed" => source'
    BY <1>2 DEF Late, NewClient, NewServer, OpenSource, NotifyStarted, Goto, Exit, ProbeInv, ModeInv
  <2> QED BY <2>1, <2>2 DEF ProbeInv, ReadyMeansServing
<1>3. CASE ConnectionsChange
  <2>1. hc' = hc /\ source' = source /\ probe' = probe
    BY <1>3 DEF ConnectionsChange
  <2> QED BY <2>1 DEF ProbeInv, ReadyMeansServing
<1>4. CASE Probe
  <2>1. hc' = hc /\ source' = source /\ probe'.at = "handler"
    BY <1>4 DEF Probe
  <2> QED BY <2>1 DEF ProbeInv, ReadyMeansServing
<1>5. CASE HandleProbe \/ AvailableConn
  <2>1. probe \in Probes /\ hc' = hc /\ source' = source
    BY <1>5, Zenon DEF TypeOK, HandleProbe, AvailableConn
  <2>2. CASE HandleProbe
    <3>1. CASE probe.path = "liveness"
      <4>1. probe' = [probe EXCEPT !.at = "answered", !.ok = TRUE]
        BY <2>2, <3>1 DEF HandleProbe, Answered
      <4>2. probe'.at = "answered" /\ probe'.path = "liveness"
        BY <2>1, <3>1, <4>1 DEF Probes
      <4> QED BY <2>1, <4>2 DEF ProbeInv, ReadyMeansServing
    <3>2. CASE \E b : ~b /\ probe' = [probe EXCEPT !.at = "answered", !.ok = b]
      <4>1. probe'.at = "answered" /\ ~probe'.ok
        BY <2>1, <3>2 DEF Probes
      <4> QED BY <2>1, <4>1 DEF ProbeInv, ReadyMeansServing
    <3>3. CASE ProxyStarted
      BY <2>1, <3>3 DEF ProxyStarted, ProbeInv, ReadyMeansServing
    <3>4. probe.path # "liveness" /\ ~ProxyStarted =>
            \E b : ~b /\ probe' = [probe EXCEPT !.at = "answered", !.ok = b]
      BY <2>2, Zenon DEF HandleProbe, Answered, IsReady
    <3> QED BY <3>1, <3>2, <3>3, <3>4, Zenon
  <2>3. CASE AvailableConn
    <3>1. source'
      BY <2>1, <2>3 DEF AvailableConn, ProbeInv
    <3> QED BY <3>1 DEF ProbeInv, ReadyMeansServing
  <2> QED BY <1>5, <2>2, <2>3
<1> QED BY <1>1, <1>2, <1>3, <1>4, <1>5, Zenon DEF Next, Main, Early, Late

\* Before the loop nothing is served, and nothing has been asked.
LEMMA ServesNone ==
  ASSUME NEW list, NEW all PROVE Serves(list, <<>>, 0, all)
<1> DEFINE asked == {m \in 1..0 : ~Empty(list[m])}
           from == [i \in {} |-> 0]
<1>1. DOMAIN <<>> = {} /\ asked = {} /\ from \in [{} -> asked]
  OBVIOUS
<1>2. Range(from) = asked
  BY <1>1 DEF Range
<1> HIDE DEF asked, from
<1> QED BY <1>1, <1>2, Zenon DEF Serves, asked

\* An entry that is empty, or that is left out, changes nothing.
LEMMA ServesSame ==
  ASSUME NEW list, NEW cs, NEW n \in Nat, NEW all, NEW every, Serves(list, cs, n, all),
         every => all /\ Empty(list[n + 1])
  PROVE  Serves(list, cs, n + 1, every)
<1> DEFINE asked(k) == {m \in 1..k : ~Empty(list[m])}
<1>1. PICK from \in [DOMAIN cs -> asked(n)] :
        /\ \A i \in DOMAIN cs : cs[i].instance = list[from[i]].name
        /\ \A i, j \in DOMAIN cs : i < j => from[i] < from[j]
        /\ all => Range(from) = asked(n)
  BY Zenon DEF Serves
<1>2. asked(n) \subseteq asked(n + 1) /\ (Empty(list[n + 1]) => asked(n + 1) = asked(n))
  OBVIOUS
<1> HIDE DEF asked
<1>3. from \in [DOMAIN cs -> asked(n + 1)]
  BY <1>1, <1>2
<1>4. every => Range(from) = asked(n + 1)
  BY <1>1, <1>2, Zenon
<1> QED BY <1>1, <1>3, <1>4, Zenon DEF Serves, asked

\* An entry that parses adds its configuration at the end.
LEMMA ServesMore ==
  ASSUME NEW list, NEW cs \in Seq(Configs), NEW c \in Configs, NEW n \in Nat, NEW all,
         Serves(list, cs, n, all), ~Empty(list[n + 1]), c.instance = list[n + 1].name
  PROVE  Serves(list, Append(cs, c), n + 1, all)
<1> DEFINE asked(k) == {m \in 1..k : ~Empty(list[m])}
           ds == Append(cs, c)
<1>1. PICK from \in [DOMAIN cs -> asked(n)] :
        /\ \A i \in DOMAIN cs : cs[i].instance = list[from[i]].name
        /\ \A i, j \in DOMAIN cs : i < j => from[i] < from[j]
        /\ all => Range(from) = asked(n)
  BY Zenon DEF Serves
<1> DEFINE more == [i \in DOMAIN ds |-> IF i = Len(cs) + 1 THEN n + 1 ELSE from[i]]
<1>2. /\ Len(cs) \in Nat /\ DOMAIN cs = 1..Len(cs) /\ DOMAIN ds = 1..Len(cs) + 1
      /\ ds[Len(cs) + 1] = c /\ \A i \in 1..Len(cs) : ds[i] = cs[i]
  OBVIOUS
<1>3. asked(n + 1) = asked(n) \cup {n + 1} /\ \A m \in asked(n) : m \in 1..n
  OBVIOUS
<1> HIDE DEF ds
<1>4. more[Len(cs) + 1] = n + 1 /\ \A i \in DOMAIN cs : more[i] = from[i] /\ i \in DOMAIN ds
  BY <1>2
<1>5. DOMAIN more = DOMAIN ds
  OBVIOUS
<1>6. \A i \in DOMAIN ds : i \in DOMAIN cs \/ i = Len(cs) + 1
  BY <1>2
<1> HIDE DEF asked
<1>7. more \in [DOMAIN ds -> asked(n + 1)]
  BY <1>1, <1>3, <1>6
<1> HIDE DEF more
<1>8. \A i \in DOMAIN ds : ds[i].instance = list[more[i]].name
  <2>1. \A i \in DOMAIN cs : ds[i] = cs[i]
    BY <1>2
  <2> QED BY <1>1, <1>2, <1>4, <1>6, <2>1, Zenon
<1>9. ASSUME NEW i \in DOMAIN ds, NEW j \in DOMAIN ds, i < j PROVE more[i] < more[j]
  <2>1. i \in DOMAIN cs /\ more[i] = from[i] /\ from[i] \in 1..n
    <3>1. i \in DOMAIN cs
      BY <1>2, <1>6, <1>9
    <3> QED BY <1>1, <1>3, <1>4, <3>1
  <2>2. CASE j = Len(cs) + 1
    BY <1>4, <2>1, <2>2
  <2>3. CASE j \in DOMAIN cs
    BY <1>1, <1>4, <1>9, <2>1, <2>3, Zenon
  <2> QED BY <1>6, <2>2, <2>3
<1>10. ASSUME all PROVE Range(more) = asked(n + 1)
  <2>1. Range(from) = asked(n)
    BY <1>1, <1>10
  <2>2. Range(more) \subseteq asked(n + 1)
    BY <1>5, <1>7 DEF Range
  <2>3. Len(cs) + 1 \in DOMAIN ds
    BY <1>2
  <2>4. ASSUME NEW m \in asked(n + 1) PROVE m \in Range(more)
    <3>1. CASE m = n + 1
      BY <1>4, <1>5, <2>3, <3>1 DEF Range
    <3>2. CASE m \in asked(n)
      <4>1. PICK i \in DOMAIN cs : from[i] = m
        BY <1>1, <2>1, <3>2 DEF Range
      <4> QED BY <1>4, <1>5, <4>1 DEF Range
    <3> QED BY <1>3, <3>1, <3>2
  <2> QED BY <2>2, <2>4, Zenon
<1> QED BY <1>7, <1>8, <1>9, <1>10, Zenon DEF Serves, asked, ds

\* One iteration of the loop of parseInstanceConfigs, for the entry e and what
\* the Admin API answers.
LEMMA EntryParsed ==
  ASSUME StartInv, ParseEntry
  PROVE  \E e \in Entries :
           /\ e = Head(rest) /\ rest # <<>> /\ rest' = Tail(rest)
           /\ \/ Empty(e) /\ cfgs' = cfgs /\ errs' = errs /\ dirs' = dirs
              \/ /\ ~Empty(e)
                 /\ \E answer \in Answers :
                      /\ cfgs' = IF Parses(e, tcp, answer) THEN Append(cfgs, ConfigOf(e, tcp, answer)) ELSE cfgs
                      /\ errs' = (errs \/ (~Parses(e, tcp, answer) /\ Counts))
                      /\ dirs' = IF MakesDir(e, tcp, answer)
                                 THEN dirs \cup {Dir(Address(e, tcp, answer))} ELSE dirs
<1>1. rest \in Seq(Entries) /\ rest # <<>>
  BY Zenon DEF StartInv, TypeOK, ParseEntry
<1>2. PICK e \in Entries : e = Head(rest)
  BY <1>1
<1> QED BY <1>1, <1>2, Zenon DEF ParseEntry, NextEntry, Answers

\* A configuration is kept only if the machine has its network, and a directory
\* is made before the Postgres socket in it is kept.
LEMMA UsableStep ==
  ASSUME StartInv, Next PROVE ConfigsUsable'
<1> USE DEF StartInv
<1> DEFINE Usable(c, d) == /\ c.network \in ValidNets(tcp)
                           /\ Head(c.address) = "127.0.0.1" => "tcp4" \in tcp
                           /\ Head(c.address) = "::1" => "tcp6" \in tcp
                           /\ c.address[Len(c.address)] = ".s.PGSQL.5432" => Dir(c.address) \in d
<1>1. \A n \in DOMAIN cfgs : Usable(cfgs[n], dirs)
  BY Zenon DEF ConfigsUsable
<1>2. CASE Early \/ Late \/ Health
  <2>1. cfgs' = cfgs /\ tcp' = tcp /\ dirs' = dirs
    BY <1>2, EarlyFrame, LateFrame, HealthFrame
  <2> QED BY <2>1, Zenon DEF ConfigsUsable
<1>3. CASE CombineConfigs
  <2>1. tcp' = tcp /\ dirs' = dirs /\ (cfgs' = <<>> \/ cfgs' = cfgs)
    BY <1>3 DEF CombineConfigs
  <2>2. cfgs' = <<>> => DOMAIN cfgs' = {}
    OBVIOUS
  <2> QED BY <2>1, <2>2, Zenon DEF ConfigsUsable
<1>4. CASE ParseEntry
  <2>1. tcp' = tcp /\ dirs \subseteq dirs'
    BY <1>4, EntryParsed, Zenon DEF ParseEntry
  <2>2. \A n \in DOMAIN cfgs : Usable(cfgs[n], dirs')
    BY <1>1, <2>1
  <2>3. CASE cfgs' = cfgs
    BY <2>1, <2>2, <2>3, Zenon DEF ConfigsUsable
  <2>4. CASE cfgs' # cfgs
    <3>1. PICK e \in Entries, answer \in Answers :
            /\ Parses(e, tcp, answer) /\ cfgs' = Append(cfgs, ConfigOf(e, tcp, answer))
            /\ dirs' = IF MakesDir(e, tcp, answer) THEN dirs \cup {Dir(Address(e, tcp, answer))} ELSE dirs
      BY <1>4, <2>4, EntryParsed, Zenon
    <3> DEFINE c == ConfigOf(e, tcp, answer)
    <3>2. /\ c \in Configs /\ c.network \in ValidNets(tcp)
          /\ Head(c.address) = "127.0.0.1" => "tcp4" \in tcp
          /\ Head(c.address) = "::1" => "tcp6" \in tcp
          /\ c.address[Len(c.address)] = ".s.PGSQL.5432" => MakesDir(e, tcp, answer)
      BY <3>1, ConfigOK, Zenon
    <3>3. c.address = Address(e, tcp, answer)
      BY DEF ConfigOf
    <3> HIDE DEF c
    <3>4. Usable(c, dirs')
      BY <3>1, <3>2, <3>3
    <3>5. cfgs \in Seq(Configs) /\ c \in Configs
      BY <3>2, Zenon DEF TypeOK
    <3>6. /\ DOMAIN cfgs = 1..Len(cfgs)
          /\ DOMAIN Append(cfgs, c) = 1..Len(cfgs) + 1 /\ Append(cfgs, c)[Len(cfgs) + 1] = c
          /\ \A n \in 1..Len(cfgs) : Append(cfgs, c)[n] = cfgs[n]
      BY <3>5
    <3>7. \A n \in 1..Len(cfgs) + 1 : n \in 1..Len(cfgs) \/ n = Len(cfgs) + 1
      BY <3>5, OneMoreIndex, Zenon
    <3> HIDE DEF Usable
    <3>8. \A n \in DOMAIN Append(cfgs, c) : Usable(Append(cfgs, c)[n], dirs')
      BY <2>2, <3>4, <3>6, <3>7, Zenon
    <3>9. cfgs' = Append(cfgs, c)
      BY <3>1 DEF c
    <3> QED BY <2>1, <3>8, <3>9, Zenon DEF ConfigsUsable, Usable
  <2> QED BY <2>3, <2>4
<1> QED BY <1>2, <1>3, <1>4, Zenon DEF Next, Main, Early, Late, Health

\* The loop goes through the list from its first entry to its last.
LEMMA ParseStep ==
  ASSUME StartInv, Next PROVE ParseInv'
<1> USE DEF StartInv
<1>1. instList \in Seq(Entries) /\ rest \in Seq(Entries) /\ cfgs \in Seq(Configs)
  BY Zenon DEF TypeOK
<1>2. CASE Early
  <2>1. /\ cfgs' = cfgs /\ errs' = errs /\ cfgs = <<>> /\ ~errs
        /\ pc' \notin Serving
    BY <1>2, EarlyFrame DEF ParseInv, Serving
  <2>2. CASE pc' # "parse"
    BY <2>1, <2>2 DEF ParseInv
  <2>3. CASE pc' = "parse"
    <3>1. rest' = instList /\ instList' = instList
      BY <1>2, <2>3 DEF Early, CheckHost, GcloudProject, CheckFlags, CheckScopes, AuthGiven, AuthFound, ListProjects,
         AuthenticatedClientFromPath, CreateInstanceConfigs, Goto, Exit
    <3>2. Len(instList) \in Nat /\ Len(instList) - Len(instList) = 0
      BY <1>1
    <3>3. \A k \in DOMAIN instList : Len(instList) - Len(instList) + k = k
      BY <1>1
    <3>4. Serves(instList, cfgs, Len(instList) - Len(instList), (~flags.skip /\ ~errs)')
      BY <2>1, <3>2, ServesNone, Zenon
    <3>5. Len(instList) <= Len(instList)
      BY <3>2
    <3> QED BY <2>1, <2>3, <3>1, <3>3, <3>4, <3>5, Zenon DEF ParseInv
  <2> QED BY <2>2, <2>3
<1>3. CASE ParseEntry
  <2>1. PICK e \in Entries :
          /\ e = Head(rest) /\ rest # <<>> /\ rest' = Tail(rest)
          /\ \/ Empty(e) /\ cfgs' = cfgs /\ errs' = errs
             \/ /\ ~Empty(e)
                /\ \E answer \in Answers :
                     /\ cfgs' = IF Parses(e, tcp, answer) THEN Append(cfgs, ConfigOf(e, tcp, answer)) ELSE cfgs
                     /\ errs' = (errs \/ (~Parses(e, tcp, answer) /\ Counts))
    BY <1>3, EntryParsed, Zenon
  <2>2. pc = "parse" /\ pc' = "parse" /\ flags' = flags /\ instList' = instList
    BY <1>3 DEF ParseEntry
  <2>3. /\ Len(rest) <= Len(instList)
        /\ \A k \in DOMAIN rest : rest[k] = instList[Len(instList) - Len(rest) + k]
        /\ Serves(instList, cfgs, Len(instList) - Len(rest), ~flags.skip /\ ~errs)
    BY <2>2, Zenon DEF ParseInv
  <2> DEFINE d == Len(instList) - Len(rest)
  <2>4. /\ Len(rest) \in Nat /\ Len(instList) \in Nat /\ Len(rest) >= 1 /\ rest[1] = e
        /\ Tail(rest) \in Seq(Entries) /\ Len(Tail(rest)) = Len(rest) - 1
        /\ DOMAIN rest = 1..Len(rest) /\ DOMAIN Tail(rest) = 1..Len(rest) - 1
        /\ \A k \in 1..Len(rest) - 1 : Tail(rest)[k] = rest[k + 1]
    BY <1>1, <2>1
  <2>5. /\ d \in Nat /\ instList[d + 1] = e /\ Len(Tail(rest)) <= Len(instList)
        /\ Len(instList) - Len(Tail(rest)) = d + 1
    BY <2>3, <2>4
  <2>6. ASSUME NEW k \in DOMAIN Tail(rest)
        PROVE  Tail(rest)[k] = instList[Len(instList) - Len(Tail(rest)) + k]
    <3>1. k + 1 \in DOMAIN rest /\ Tail(rest)[k] = rest[k + 1]
      BY <2>4
    <3>2. Len(instList) - Len(Tail(rest)) + k = Len(instList) - Len(rest) + (k + 1)
      BY <2>4
    <3> QED BY <2>3, <3>1, <3>2, Zenon
  <2> HIDE DEF d
  <2>7. Serves(instList, cfgs, d, ~flags.skip /\ ~errs)
    BY <2>3 DEF d
  <2>8. Serves(instList, cfgs', d + 1, ~flags.skip /\ ~errs')
    <3>1. CASE Empty(e)
      <4>1. cfgs' = cfgs /\ errs' = errs
        BY <2>1, <3>1
      <4>2. Empty(instList[d + 1])
        BY <2>5, <3>1
      <4>3. Serves(instList, cfgs, d + 1, ~flags.skip /\ ~errs')
        BY <2>5, <2>7, <4>1, <4>2, ServesSame, Zenon
      <4> QED BY <4>1, <4>3, Zenon
    <3>2. CASE ~Empty(e)
      <4>1. PICK answer \in Answers :
              /\ cfgs' = IF Parses(e, tcp, answer) THEN Append(cfgs, ConfigOf(e, tcp, answer)) ELSE cfgs
              /\ errs' = (errs \/ (~Parses(e, tcp, answer) /\ Counts))
        BY <2>1, <3>2, Zenon
      <4>2. CASE Parses(e, tcp, answer)
        <5>1. ConfigOf(e, tcp, answer) \in Configs /\ ConfigOf(e, tcp, answer).instance = e.name
          BY <4>2, ConfigOK, Zenon
        <5>2. (~flags.skip /\ ~errs') <=> (~flags.skip /\ ~errs)
          BY <4>1, <4>2, Zenon
        <5>3. Serves(instList, Append(cfgs, ConfigOf(e, tcp, answer)), d + 1, ~flags.skip /\ ~errs)
          BY <1>1, <2>5, <2>7, <3>2, <5>1, ServesMore, Zenon
        <5> QED BY <4>1, <4>2, <5>2, <5>3, Zenon DEF Serves
      <4>3. CASE ~Parses(e, tcp, answer)
        <5>1. ~(~flags.skip /\ ~errs')
          BY <4>1, <4>3, Zenon DEF Counts
        <5> QED BY <2>5, <2>7, <4>1, <4>3, <5>1, ServesSame, Zenon
      <4> QED BY <4>2, <4>3
    <3> QED BY <3>1, <3>2
  <2>9. pc' # "exit" /\ pc' \notin Serving
    BY <2>2 DEF Serving
  <2> QED BY <2>1, <2>2, <2>5, <2>6, <2>8, <2>9, Zenon DEF ParseInv
<1>4. CASE CombineConfigs
  <2>1. /\ pc = "parse" /\ pc' \in {"client", "exit"} /\ flags' = flags /\ instList' = instList
        /\ rest = <<>>
    BY <1>4 DEF CombineConfigs, Goto
  <2>2. pc' = "client" /\ ~flags.fuse => cfgs' = cfgs /\ ~errs
    BY <1>4 DEF CombineConfigs, Goto, ConfigsRefused
  <2>3. Serves(instList, cfgs, Len(instList) - Len(rest), ~flags.skip /\ ~errs)
    BY <2>1, Zenon DEF ParseInv
  <2>4. Len(instList) - Len(rest) = Len(instList)
    BY <1>1, <2>1
  <2>5. Serves(instList, cfgs, Len(instList), ~flags.skip /\ ~errs)
    BY <2>3, <2>4, Zenon
  <2>6. ~errs => Serves(instList, cfgs, Len(instList), ~flags.skip)
    BY <2>5, Zenon DEF Serves
  <2>7. pc' = "client" \/ pc' = "exit"
    BY <2>1
  <2> QED BY <2>1, <2>2, <2>6, <2>7 DEF ParseInv, Serving
<1>5. CASE Late
  <2>1. /\ cfgs' = cfgs /\ flags' = flags /\ instList' = instList
        /\ pc \in Serving /\ pc' \in Serving \cup {"exit"} /\ pc' # "parse"
    BY <1>5, LateFrame DEF Serving
  <2>2. ~flags.fuse => Serves(instList, cfgs, Len(instList), ~flags.skip)
    BY <2>1, Zenon DEF ParseInv
  <2> QED BY <2>1, <2>2, Zenon DEF ParseInv
<1>6. CASE Health
  <2>1. cfgs' = cfgs /\ errs' = errs /\ rest' = rest /\ flags' = flags /\ instList' = instList /\ pc' = pc
    BY <1>6, HealthFrame
  <2> QED BY <2>1, Zenon DEF ParseInv
<1> QED BY <1>2, <1>3, <1>4, <1>5, <1>6, Zenon DEF Next, Main, Early, Late, Health

\* Every step of main, of its clients and of the health check server preserves
\* the inductive invariant.
LEMMA StartNext == StartInv /\ [Next]_vars => StartInv'
<1> SUFFICES ASSUME StartInv, [Next]_vars PROVE StartInv'
  OBVIOUS
<1>1. CASE Next
  BY <1>1, TypeStep, AuthStep, ModeStep, ParseStep, UsableStep, ProbeStep, Zenon DEF StartInv
<1>2. CASE UNCHANGED vars
  <2>1. /\ flags' = flags /\ tcp' = tcp /\ pc' = pc /\ instList' = instList /\ gce' = gce /\ given' = given
        /\ gcloud' = gcloud /\ scopes' = scopes /\ creds' = creds /\ rest' = rest /\ cfgs' = cfgs
        /\ errs' = errs /\ dirs' = dirs /\ throttle' = throttle /\ hc' = hc /\ source' = source
        /\ full' = full /\ probe' = probe
    BY <1>2 DEF vars, authVars, parseVars, serveVars
  <2>2. TypeOK' <=> TypeOK
    BY <2>1 DEF TypeOK
  <2>3. AuthInv' <=> AuthInv
    BY <2>1 DEF AuthInv, DefaultIsChecked
  <2>4. ModeInv' <=> ModeInv
    BY <2>1 DEF ModeInv, UnixConfig
  <2>5. ParseInv' <=> ParseInv
    BY <2>1 DEF ParseInv
  <2>6. ConfigsUsable' <=> ConfigsUsable
    BY <2>1 DEF ConfigsUsable
  <2>7. ProbeInv' <=> ProbeInv
    BY <2>1 DEF ProbeInv, ReadyMeansServing
  <2> QED BY <2>2, <2>3, <2>4, <2>5, <2>6, <2>7, Zenon DEF StartInv
<1> QED BY <1>1, <1>2

\* The inductive invariant holds at every point of main, for any list of
\* instances, any flags and any answers of gcloud, of the API and of the machine.
THEOREM StartInvariance == Spec => []StartInv
BY StartInit, StartNext, PTL DEF Spec

\* Every variable has its type, and the throttle of a proxy that serves is at
\* least the minimum (RefreshCfgThrottle in main).
THEOREM StartIsTyped == Spec => []TypeOK
<1>1. StartInv => TypeOK
  BY DEF StartInv
<1> QED BY <1>1, StartInvariance, PTL

\* main serves only in a mode that CreateInstanceConfigs and checkFlags allow.
THEOREM ModeIsAlwaysSound == Spec => []ModeIsSound
<1>1. StartInv => ModeIsSound
  <2> SUFFICES ASSUME StartInv, source PROVE ModeIsSound
    BY DEF ModeIsSound
  <2>1. pc \in Serving /\ pc \in {"auth", "list"} \cup Listing \cup Serving /\ pc \in Listing \cup Serving
    BY DEF StartInv, ModeInv, Serving
  <2> QED BY <2>1, Zenon DEF StartInv, ModeInv, AuthInv, ModeIsSound
<1> QED BY <1>1, StartInvariance, PTL

\* checkFlags looks at the scopes of the machine's credentials before
\* authenticatedClient uses them, unless gcloud worked.
THEOREM DefaultIsAlwaysChecked == Spec => []DefaultIsChecked
<1>1. StartInv => DefaultIsChecked
  BY DEF StartInv, AuthInv
<1> QED BY <1>1, StartInvariance, PTL

\* parseInstanceConfigs keeps only configurations the machine can listen on.
THEOREM ConfigsAreUsable == Spec => []ConfigsUsable
<1>1. StartInv => ConfigsUsable
  BY DEF StartInv
<1> QED BY <1>1, StartInvariance, PTL

\* Without -skip_failed_instance_config every entry of the list is served, in its
\* order; with it, some are.
THEOREM AllAsksAreServed == Spec => []AsksAreServed
<1>1. StartInv => AsksAreServed
  <2> SUFFICES ASSUME StartInv, source, ~flags.fuse
               PROVE  Serves(instList, cfgs, Len(instList), ~flags.skip)
    BY DEF AsksAreServed
  <2>1. pc \in Serving
    BY DEF StartInv, ModeInv, Serving
  <2> QED BY <2>1, Zenon DEF StartInv, ParseInv
<1> QED BY <1>1, StartInvariance, PTL

\* The health check server says that the proxy is ready only when it serves.
THEOREM ReadyOnlyWhenServing == Spec => []ReadyMeansServing
<1>1. StartInv => ReadyMeansServing
  BY DEF StartInv, ProbeInv
<1> QED BY <1>1, StartInvariance, PTL

-----------------------------------------------------------------------------
(* FDLimits.                                                               *)

\* The inductive invariant: while SetupFDLimits works with the limits it read,
\* they are the kernel's.
LimitsInv ==
  /\ LimitsTypeOK
  /\ fdPc \in {"both", "soft"} => rlim.max = hard
  /\ EnsuresLimit

\* Whatever limits the process starts with.
LEMMA LimitsInitInv == LimitsInit => LimitsInv
<1> SUFFICES ASSUME LimitsInit PROVE LimitsInv
  OBVIOUS
<1> USE LimitsAssumption DEF LimitsInit, Limits
<1>1. LimitsTypeOK
  <2>1. rlim \in [cur : Limits, max : Limits]
    OBVIOUS
  <2>2. root \in BOOLEAN /\ fdErr \in BOOLEAN
    BY Zenon
  <2>3. want \in Limits /\ soft \in Limits /\ hard \in Limits /\ soft <= hard /\ hard0 \in Limits
    OBVIOUS
  <2> QED BY <2>1, <2>2, <2>3 DEF LimitsTypeOK
<1>2. fdPc \notin {"both", "soft"} /\ EnsuresLimit
  BY DEF EnsuresLimit, Enforced, HardIsKept
<1> QED BY <1>1, <1>2 DEF LimitsInv

\* The calls of Getrlimit and Setrlimit.
LEMMA LimitsNextInv ==
  ASSUME LimitsInv, [LimitsNext]_limitsVars
  PROVE  LimitsInv'
<1> USE LimitsAssumption DEF LimitsInv, LimitsTypeOK, Limits, FDGoto
<1>1. CASE Getrlimit
  <2> USE <1>1 DEF Getrlimit, Enough
  <2>1. rlim' \in [cur : Limits, max : Limits] /\ (fdPc' \in {"both", "soft"} => rlim'.max = hard')
    OBVIOUS
  <2>2. root' \in BOOLEAN /\ fdErr' \in BOOLEAN
    BY Zenon
  <2>3. /\ fdPc' \in {"get", "both", "soft", "returned"}
        /\ fdPc' = "both" => rlim'.max < want'
    OBVIOUS
  <2>4. EnsuresLimit'
    BY DEF EnsuresLimit, Enforced, HardIsKept
  <2> QED BY <2>1, <2>2, <2>3, <2>4
<1>2. CASE SetBoth
  BY <1>2 DEF SetBoth, Allowed, EnsuresLimit, Enforced, HardIsKept
<1>3. CASE SetSoft
  <2> USE <1>3 DEF SetSoft, Allowed, NewRlim
  <2>1. root' \in BOOLEAN /\ fdErr' \in BOOLEAN /\ fdPc' = "returned"
    BY Zenon
  <2>2. UNCHANGED <<want, hard0, hard, rlim>> /\ soft' \in Limits /\ soft' <= hard'
    OBVIOUS
  <2>3. EnsuresLimit'
    BY DEF EnsuresLimit, Enforced, HardIsKept
  <2> QED BY <2>1, <2>2, <2>3
<1>4. CASE UNCHANGED limitsVars
  BY <1>4 DEF limitsVars, EnsuresLimit, Enforced, HardIsKept
<1> QED BY <1>1, <1>2, <1>3, <1>4 DEF LimitsNext

\* SetupFDLimits returns no error only if the process may open wantFDs file
\* descriptors, and never lowers the hard limit.
THEOREM LimitIsEnsured == LimitsSpec => []EnsuresLimit
<1>1. LimitsInv /\ [LimitsNext]_limitsVars => LimitsInv'
  BY LimitsNextInv
<1>2. LimitsInv => EnsuresLimit
  BY DEF LimitsInv
<1> QED BY <1>1, <1>2, LimitsInitInv, PTL DEF LimitsSpec
=============================================================================
