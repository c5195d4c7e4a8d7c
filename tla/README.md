# Verification of the Cloud SQL proxy

TLA+ models of the Cloud SQL proxy (`src/`), checked with TLC on small
instances and, for the main safety properties, proved with TLAPS for all
values of the constants.

## 1. The system

The proxy accepts local connections (TCP or Unix sockets, or sockets made on
demand in a FUSE directory) and connects each to a Cloud SQL instance over TLS
with a short-lived client certificate from the Cloud SQL Admin API.

| Part | Source | Modules |
|---|---|---|
| Configuration cache: one entry per instance, refreshed by goroutines and timers, invalidated by failed handshakes | `proxy/proxy/client.go` | `ConfigCache`, `ConfigRegister`, `ConfigRefinement` |
| Connection handling, ConnSet and shutdown | `client.go`, `proxy/proxy/common.go`, end of `main` | `Connections` |
| Copying of the data of a connection | `common.go` | `Relay` |
| FUSE source of connections | `proxy/fuse/fuse.go` | `Fuse` |
| Local sockets and updates from the metadata server | `cmd/cloud_sql_proxy/proxy.go` | `WatchInstances` |
| Certificate source | `proxy/certs/certs.go`, `proxy/util/gcloudutil.go` | `CertSource` |
| Start: flags, credentials, health check server | `cmd/cloud_sql_proxy/cloud_sql_proxy.go`, `internal/healthcheck` | `Startup` |
| Entries of `-instances` | `proxy.go`, `proxy/util/cloudsqlutil.go` | `InstanceConfig` |
| Listing the instances of projects | `cloud_sql_proxy.go` | `ListInstances` |
| Package-level client | `proxy/proxy/dial.go` | `DialClient` |
| File descriptor limit | `proxy/limits/limits.go` | `FDLimits` |

They meet in few places. `main` makes the certificate source, the client and
one source of connections (`Startup`, which uses `InstanceConfig` and ends
where `Run` begins). A source puts connections into a channel that `Run` reads
(`Connections`; the two sources in detail are `Fuse` and `WatchInstances`).
Each handler asks the cache for a configuration (`ConfigCache`), which calls
`Local` and `Remote` of the certificate source (`CertSource`), and then copies
(`Relay`). Each module has what it needs of its neighbours as an outcome: to
`Connections` a dial succeeds or fails, to `ConfigCache` an API call does, to
`Fuse` the database version comes or is empty.

What makes the parts hard, and what should be true of them, is in the hazards
of `PROJECT.json`, each with its line and the properties that cover it.

## 2. Modules

Operators under a comment "Mutant" are faulty variants of the definition that
follows. No specification uses them; putting one in the place of the original
makes the property named with it in `PROJECT.json` fail.

`MCConfigCache`, `MCConnections`, `MCFuse`, `MCStartup` and `MCParts` hold the
constants for TLC. `Parts` extends six modules that share no state, `Relay`,
`CertSource`, `WatchInstances`, `ListInstances`, `DialClient` and `FDLimits`.
Each has its own variables and its own specification (`RelaySpec`, `CertSpec`,
`WatchSpec`, `ListSpec`, `DialSpec`, `LimitsSpec`), about which the theorems
are. A behaviour of `Parts` picks one of them at the start and the others stay
in one initial state: one run then checks all of them, and its properties are
the modules' own. As the step of a part is a step of that module, and the
others stutter, every behaviour of `Parts` is one of each.

The modules `...Proofs` hold the theorems, and `ConfigCacheSteps` the lemmas
`ConfigCacheProofs` rests on (section 4).

### ConfigCache, ConfigRegister, ConfigRefinement

A call of `startRefresh` has a number, which also names its `done` channel, the
`*tls.Config` it builds and the `refreshCertAfter` goroutine it leaves behind;
pointer comparison in the code is comparison of numbers. Each critical section
of `cacheL` is one action, since nothing in it blocks.

| Code | Actions |
|---|---|
| `cachedCfg` | `CfgRead`, `CfgCheck`, `CfgStart` or `CfgReuse`, `CfgWait` or `CfgCancel`, `CfgReread` |
| `DialContext`, `tryConnect` | `Begin`, `DialTCP`, `DialEnd`, `HandshakeOk`, `HandshakeFail` |
| `invalidateCfg` | `InvalidateRead`, `InvalidateWrite` |
| `startRefresh` and `refreshCfg` | `RefreshLock`, `RefreshLocal`, `RefreshRemote`, `RefreshStore`, `RefreshSchedule`, `RefreshClose` |
| `refreshCertAfter` | `TimerFire`, then the actions of `cachedCfg` |

Abstractions: `addr` and `version` are set and cleared with `cfg` and are not
kept apart; `lastRefreshed` is only logged. The Admin API succeeds or fails and
issues a certificate whose lifetime is one of `Lifetimes`. The limiter (package
`golang.org/x/time/rate`, outside this repository) is a bucket of one token.
Any dialer's context may end while it waits. A handshake with a nil
configuration fails, because `crypto/tls` refuses one without a server name.

`ConfigRegister` is what the cache promises, without clock, limiter, entries,
locks and channels: a register per instance, empty or with a version; versions
only grow; one refresh at a time; a dialer holds a version it took from the
register, and only one that holds the current version may discard it.
`ConfigRefinement` maps the cache to it: the value is the entry's `cfg`, the
phase of the refresh is read off the entry's channel, the used versions are the
configurations obtained, and a dialer holds the `cfg` of its copy of the entry.

### Connections

| Code | Actions |
|---|---|
| `listenInstance`, `listenerLifecycle` and `newConn` | `Accept`, `SendConn`, `IgnoreConn` |
| `fsRoot.Close`, first part | `CloseSource` |
| `Run` | `RunNext`, `RunDrained`, `RunClose` |
| `handleConn` | `Count`, `CheckLimit`, `Refuse`, `DialOk`, `DialFail`, `SetAdd`, `SetRemove`, `Uncount` |
| `copyThenClose`, for each direction | `CopyEnd`, `CopyFirst` or `CopySecond`, `CloseRemote`, `CloseLocal` |
| signal handler, `Shutdown`, end of `main` | `Signal`, `TickerEnds`, `TermEnds`, `LastLoad`, `Exit` |

The counter is unsigned and counts modulo `Wrap`. Both sources use a channel of
capacity one. Only FUSE (`UseFuse`) has a ConnSet and may close its source.
`counted` is a history variable, and so is `invalidated` in `ConfigCache`.

### Relay

`myCopy` and `copyThenClose` chunk by chunk, for one connection. The chunks of
a direction are numbered. Peers send, close in good order or break at any time.

| Code | Actions |
|---|---|
| `myCopy` | `Read`, `Write`, `WriteFails` |
| `copyThenClose` | `Select` (on `firstErr`), `CloseSockets` |

A `Read` gives chunks, an error, or both at once; a `Write` may fail after part
of the buffer. `up` copies from the local socket, `down` from the remote one.

### Fuse

| Code | Actions |
|---|---|
| `Lookup` | `LookupCall`, `LookupHit`, `LookupMiss`, `LookupListen`, `LookupFail` |
| `listenerLifecycle`, `newConn` | `Accept`, `Send`, `AcceptError`, `CloseListener`, `RemovePath` |
| `removeListener` | `RemoveListener` |
| `Close`, called by the owner and by Serve's goroutine | `OwnerCloses`, `CloseDst`, `Unmount`, `CloseAll` |
| `NewConnSrc`, its goroutine | `ServeReturns`, `ServeFails` |

`sockLock` is held from `LookupMiss` to `LookupListen` or `LookupFail`, over the
call of `InstanceVersionContext`, whose errors the code drops: a Postgres
instance may be taken for a MySQL one. The temporary directory holds, per
instance, nothing, a socket, or a directory with one; closing a Unix listener
unlinks its path whatever is there, as package `net` does. `ReadDirAll` and
`Attr` only read.

### WatchInstances

| Code | Actions |
|---|---|
| `WatchInstances` | `StaticOpen`, `StaticFails`, `StaticDone` |
| `watchInstancesLoop` | `Update` or `BadUpdate`; per entry `SkipStatic`, `KeepOpen`, `OpenNew` or `OpenFails`; then `CloseRest`; at the end `UpdatesEnd` |
| `listenInstance` | in `StaticOpen` and `OpenNew`; its goroutine is `AcceptFails` |

`bound` is the listener a client gets at an address. Opening a Unix socket first
removes the file at its path; closing one removes the file, whoever made it.
`parseInstanceConfigs` accepts any list, and so does the model: lists may move an
instance to another address, give an address to another instance or to several,
and name an instance more than once. History variables tell the properties what
has happened: `seen` has the configurations of all lists so far, `twice` the
instances that one list named more than once, `hurt` those whose last `Listen`
or whose `Accept` has failed (until they are opened anew), and `recent` those
for which that happened since the latest update.

### CertSource

One `refreshCfg` after another calls `Local` and `Remote`, with and without IAM
login and region checks. `NewCertSourceOpts` starts a goroutine that generates
the key through the same `sync.Once` as `Local`.

| Code | Actions |
|---|---|
| `NewCertSourceOpts`, `generateKey` | `BgGenerates`, `BgHasKey`, `LocalGenerates`, `LocalGenerated` |
| `Local`, `refreshToken` | `LocalCall`, `LocalKey`, `LocalToken`, `LocalRefresh`, `LocalCreated`, `LocalReturn` |
| `backoffAPIRetry` | `Retry`, and `LastAttempt` in `LocalCreated` and `RemoteGot` |
| `Remote`, `findIPAddr` | `RemoteGot`, `RemoteReturn` (`DataError`, `FindIPAddr`) |
| `refreshCfg` | `RefreshReturn` |

An API call succeeds, fails with a server error, which is retried, or with one
of the errors that `backoffAPIRetry` tells apart. Time is a small number. The
token source caches, as `authenticatedClient` makes it of credentials or of
`gcloud`; the static source of `-token`, whose token has no expiry, is left out.
`AddrTypes` are the names of address types there may be; `FindIPAddr` is the
nested loops of `findIPAddr`: of the first wanted type that the instance has,
but for case, the first address.

### Startup and InstanceConfig

`Startup` is `main` up to `Run`, one action per call that may end the process:
`CheckHost`, `GcloudProject`, `CheckFlags`, `CheckScopes`, `AuthGiven`,
`AuthFound`, `ListProjects`, `CreateInstanceConfigs`, `ParseEntry` per entry,
`CombineConfigs`, `NewClient`, `NewServer`, `OpenSource`, `NotifyStarted`.
`Probe`, `HandleProbe` and `AvailableConn` are a request to the health check
server, which may come between any two of them. Flags that are read more than
once are chosen in `Init`, the others where the code reads them.

`InstanceConfig` has the pure functions behind `ParseEntry`: `SplitName`,
`ParseInstanceConnectionName`, `validNets`, `parseTCPOpts` and
`parseInstanceConfig`. Strings are given split at the separators the code
splits at, as sequences of `Words`; a configuration is one of `Configs`, with
its address or path as a sequence.

### ListInstances, DialClient, FDLimits

| Code | Actions |
|---|---|
| `listInstances`, per project | `NextPage`; per instance `Send` or, for a first generation one, `Skip`; `PageSent`, `EndProject` |
| `listInstances`, closer and caller | `Close`, `Collected` |
| `DialContext` | `DialRead`, `DefaultClient` and `InitDefault`, `DialReread`, `DialReturn` |
| `Init`, `InitClient`, `InitWithClient` | `InitWithClient` |
| `SetupFDLimits` | `Getrlimit`, `SetBoth`, `SetSoft` |

A call of `DialContext` or `Init` makes one client at most, so a client is known
by the call that made it. The history variable `overtaken` has the calls of
`DialContext` that were under way when `Init` last returned.

## 3. Runs

Runs that pass:

| Run | What it shows | Bounds |
|---|---|---|
| `cache_dialers` | The cache is right at every interleaving of two dialers, two refreshes, their timers and invalidations (`IInv`, `SingleFlight`, `NeverResurrected`, `ResultsNotLost`, `RefreshQuota`, `CfgOnlyAdvances`) and implements the register (`RefinesRegister`). | 1 instance, 2 dialers, certificates that live 1 tick, no buffer before the expiry, a token each 2 ticks, clock to 2 |
| `cache_calls_return` | Every call of `cachedCfg` returns (`CallsReturn`). | 2 instances sharing the API mutex, a dialer each, 1 refresh each; the clock stands still, so that no timer fires |
| `conns_end` | Counter, limit and exit code are right (`ConnInv`, `LimitRespected`, `CountedAwaited`); both sockets of finished connections are closed (`NothingLeaks`); a signal ends the process (`SignalEnds`). | 2 connections of one instance, limit 1, no FUSE, counter modulo 4 |
| `conns_fuse` | The ConnSet mirrors the copied connections (`ConnSetExact`). | the same with FUSE and without a limit |
| `fuse_lookups` | One listener per instance, links stand for listeners, no send on a closed channel (`FuseInv`); nobody else's clean-up removes a first socket (`FirstSocketStays`); the channel is closed, lookups are answered and closed listeners end (`ChanIsClosed`, `LookupsAnswered`, `ClosedListenersEnd`). | 1 Postgres instance, which may also be taken for MySQL; 2 lookups, 2 listeners |
| `startup` | `main` serves what it was asked for in a sound mode or exits (`ModeIsSound`, `AsksAreServed`, `ConfigsUsable`, `StartupDecides`); default credentials are checked, but for one fallback (`DefaultIsChecked`, see the divergences); probes get 200 only from a serving proxy (`ReadyMeansServing`). | lists with entries of every form, all TCP families, all flags of the mode, 1 probe |
| `parts` | The properties of the six modules of `Parts`; a refresh and a listing of projects return (`CallsReturn`). | see below |

In `parts`: 2 chunks per direction; 3 attempts per API call, tokens and
certificates that live 2 ticks, 2 refreshes; 3 updates from a set of eight lists
over 3 instances, two paths and a port, and 7 listeners; 3 projects with up to 2
pages; 2 dialers with 3 calls each and 1 initialiser; limits from 0 to 5.

`SocketsAvailable` is what remains of `proxy.go:40` and `proxy.go:44` for any
lists. After each update every static or listed instance is reachable that has
an address of its own (`Own`: in all lists so far, one address, which no other
instance has) and for which nothing has failed, a static one also during the
update; and nobody else is, except through a listener of an instance that was
listed twice. `NoOrphans` has the same exception. The unqualified sentence is
false; run `watch_union` shows it.

`DialUsesClient` says that a default client can replace one given to `Init` only
if the call of `DialContext` that makes it was under way when `Init` returned:
every call that begins later dials with a client given to `Init`, or with that
of such a call.

In the cache runs `MaxRefreshes` is `MaxTime \div Throttle + 1` for each
instance. By `RefreshQuota`, which is proved, no further refresh can start, so
this bound never cuts off a behaviour; only the clock does. Two dialers and two
refreshes are what a stale copy, a late invalidation and a lost race need. Two
connections with a limit of one give an admitted and a refused one. Two
listeners are one and its successor; more only repeat that, and the safety
properties are proved for any number. Two chunks let a direction end with
nothing, part or all of them delivered. Three attempts have a first, a middle
and a last one; the code makes five. Three updates let an instance be listed,
dropped and listed again, and an address be given away and back; seven listeners
are as many as the static list and three others can open.

Deadlock is checked in the cache runs only. Elsewhere the system may stop: the
process ends, `main` serves, a listing returns.

Runs in which the code does not do what a comment or usage text says:

| Run | Text | What happens |
|---|---|---|
| `cache_usable_result` | `client.go:376` "if the previous result was invalid, wait for the next result to complete" | the entry is invalidated again before it is read again, or a new refresh is throttled: no configuration and no error is returned |
| `cache_timer_refreshes` | `client.go:218` "refreshCertAfter refreshes the epehemeral certificate of the instance after timeToRefresh" | the limiter has no token, the timer's goroutine ends, and no other is scheduled |
| `conns_closed_before_exit` | `client.go:93` "If nil, connections are not tracked and will not be closed before method Run exits" | a connection that was being dialed is added to the ConnSet after its `Close` |
| `fuse_link_leads_to_socket` | `fuse.go:234` "a symbolic link to a socket which provides connectivity to a remote instance" | the clean-up of a dead listener removes its path after it has left the map, when a new lookup may have made a socket there |
| `watch_union` | `proxy.go:39` "The set of sockets in 'dir' is the union of 'instances' and the most recent list from 'updates'" | an update opens new sockets before it closes old ones: an instance that takes over the path of one that is dropped loses its file to the close, and later updates take it for open |

### Divergences

Smaller differences between code and text, visible in the models; no run is
spent on them.

- `common.go:93` says of the goroutine that lost the race for `firstErr` that
  the other one "already printed its error (and closed the things)". The other
  one may only have filled `firstErr`; it closes later, which `NothingLeaks` and
  `EndOfOneEndsBoth` show.
- `cloud_sql_proxy.go:95` describes `-max_connections` as "the maximum number of
  connections to establish before refusing new connections". The counter also
  has connections that are being refused or dialed (`client.go:153-158`): one
  may be refused although fewer than the maximum are established.
- `fuse.go:296` says `removeListener` "marks that a Listener for an instance has
  exited". For a Postgres instance the path of the socket differs from the link
  (`fuse.go:301`), so that the link stays and later lookups find no listener.
- `fuse.go:63` says that the closer can be used "to shutdown and release any
  resources". `Close` returns early when the unmount fails (`fuse.go:201`), and a
  lookup that is under way may add a listener after the others were closed.
- `proxy.go:40` (see `watch_union`) has more exceptions than the one which that
  run finds. A new instance cannot bind the port of one that is dropped. An
  update that names the path of another instance, static ones included
  (`proxy.go:44`, "will always be available"), removes its file (`proxy.go:132`).
  An instance listed twice gets a second listener, and the first leaves the map
  without being closed (`proxy.go:95`). A listener whose `Accept` failed stays in
  the map (`proxy.go:157`), and later updates do not open it anew.
- `cloud_sql_proxy.go:105` says of `-term_timeout` "the proxy will wait for
  existing connections to close before terminating". `Shutdown` looks at the
  counter, which `handleConn` increments when its goroutine first runs: a
  connection that was accepted and not yet counted is dropped, with exit code 0.
  `CountedAwaited` is about counted ones.
- `fuse.go:268` takes an instance for a MySQL one if `InstanceVersionContext`
  gives no version, and that drops the error of `cachedCfg` (`client.go:522`): a
  lookup of a Postgres instance may get a socket where a directory with one is
  expected. `FuseInv` and `FirstSocketStays` hold in either case.
- `cloud_sql_proxy.go:309` skips the scopes of the default credentials because
  `gcloud` works. If it no longer does when `authenticatedClient` runs it, the
  default credentials are used unchecked; `DefaultIsChecked` names this case as
  the only one.
- `dial.go:41` says "If one of the Init functions hasn't been called yet,
  InitDefault is called". It is also called, and its client put in the place of
  the one given to `Init`, if `Init` is called while a first `DialContext` looks
  for the default credentials.
- `certs.go:224` says "Always refresh the token to ensure its expiration is far
  enough in the future". The caching source that `refreshToken` asks returns
  the cached token while that is valid. `ExpiryBounded` shows that the
  certificate is then taken to expire with it.
- `proxy.go:335` says that an empty result of `CreateInstanceConfigs` comes with
  an error. With `-fuse`, with a list of empty entries, or when all entries
  failed and are skipped, it does not.
- `client.go:537` says that a name "must be in the form
  `project:region:instance-name`". `SplitName` ignores further components
  (`cloudsqlutil.go:43`).
- `cloud_sql_proxy.go:73` says "Open sockets for each Cloud SQL Instance in the
  projects specified". A project that cannot be listed is only logged
  (`cloud_sql_proxy.go:415`) if another one has an instance.

### Fairness

Every assumption is that a goroutine which can run does, that a service or the
kernel answers, or that a `sync.Mutex`, which hands over to a waiter after a
millisecond, starves nobody (strong fairness).

- `ConfigCache`: weak fairness of `CfgStep` and `RefreshStep`, strong fairness
  of `RefreshLock`. Contexts need not end, dialers need not go on, the clock
  need not advance.
- `Connections`: goroutines run, dials end, the shutdown timer fires, and a
  read from a socket the proxy itself closed returns. Peers need not close.
  A weakly fair `SendConn` is enough, as no property depends on which sender
  gets the channel.
- `Fuse`: `Run` takes connections, the Admin API answers, a closed listener's
  `Accept` returns; strong fairness for those who wait for `sockLock` or for
  room in the channel. Nobody need look up, connect, close or unmount.
- `Relay`: a `Read` that can return does, and the proxy's own steps are taken.
  A `Write` waits, without a deadline (`common.go:40`), for a peer that reads:
  `Write` is not fair. `EndOfOneEndsBoth` therefore says that when one of the
  copiers has ended, both sockets are closed and both copiers return; and that
  when a peer closes or breaks, the same happens, provided that the copier
  which reads from it is not stuck for good in a `Write` to the other peer. A
  connection whose peer stops reading and stays open is kept.
- `CertSource`: key generation ends, tokens and API calls are answered. The
  background goroutine need not be the one that generates the key, and the
  next call need not come.
- `Startup`: `main` keeps running, and the API and the machine answer it.
- `ListInstances`: the goroutines run and the API answers.

## 4. Proofs

| Module | Theorems |
|---|---|
| `ConfigCacheProofs` | `Invariance`, `TypeCorrect`, `OneRefreshAtATime`, `WaitsOnAChannel`, `CfgOrErr`, `InvalidatedStaysOut`, `ObtainedIsKept`, `RefreshesAreThrottled`, for a step `NoOlderConfig`, and `Refinement` |
| `ConnectionsProofs` | `Invariance`, `CounterIsExact`, `LimitIsRespected`, `CleanExit`, `ConnSetIsExact` |
| `FuseProofs` | `Invariance`, `FirstSocketIsKept`, `ChannelIsOpen`, `OneListenerEach` |
| `WatchProofs` | `SocketsAreAvailable`, `NoListenerIsLost` and, for a step, `ListedIsKept` |
| `PartsProofs`, for `Relay` | `RelayInvariance`, `DeliversInOrder`, `CleanCloseLosesNothing`, `RelayIsFaithful` |
| `PartsProofs`, for `DialClient` | `ClientIsUsed` |
| `PartsProofs`, for `CertSource` | `RetriesAreBounded`, `RefreshedConfigIsSound` |
| `ListProofs` | `ListingIsComplete` |
| `StartupProofs`, for `Startup` | `StartInvariance`, `StartIsTyped`, `ModeIsAlwaysSound`, `DefaultIsAlwaysChecked`, `ConfigsAreUsable`, `AllAsksAreServed`, `ReadyOnlyWhenServing` |
| `StartupProofs`, for `FDLimits` | `LimitIsEnsured` |

Every safety property that a run checks on a small instance is proved for all
values of the constants, but for `TypeOK` of `Parts` (see the end).

**The cache.** `Spec => []IInv` for any instances, dialers, lifetimes, throttle
and bounds, from `ConstantsAssumption` (types, and a positive throttle, which
`cachedCfg` ensures by its default), `DialersAreNotRefreshes` and
`NoneIsNoInstance` (names are distinct). No safety property is inductive by
itself:

- `SingleFlight` needs that an entry's channel belongs to the latest refresh of
  its instance (`EntriesOwned`, `LatestInEntry`, `RefreshesInOrder`): then a
  refresh that stores finds its own channel there.
- `NoNilWait` needs `LimiterInv`: a limiter without its first token belongs to
  an entry that has a channel, so a throttled first call cannot happen.
- `NeverResurrected` needs that thrown-out and cached configurations were
  stored by their refresh (`InvalidatedObtained`, `EntriesOwned`), so that
  the configuration a refresh is about to store is a new one.
- `ResultsNotLost` needs `SingleFlight` and `LatestInEntry`: what a refresh
  overwrites is older than its own result.
- `RefreshQuota` needs the count tied to the time of the last token
  (`LimiterInv`).

There is one lemma per group of actions with the same effect: `MoveStep` to
`StoreStep` in `ConfigCacheSteps`, `InvalidateStep` and `StartStep` beside the
theorems.

**The cache implements the register.** `Refinement` is
`Spec => RefinesRegister`. Under `IInv` a refresh that runs is the one in its
entry (`InFlightEntry`), so that the phase read off the entry's channel moves
when it does: `CfgStart` is `Start` (`StartRefines`), `RefreshStore` is
`Publish` or `Fail` (`StoreRefines`), `RefreshClose` is `Finish`
(`CloseRefines`), `InvalidateWrite` is `Discard` or nothing
(`InvalidateRefines`), and everything else leaves the registers alone
(`RegisterKept`). A dialer's copy changes only to nothing or to what is in the
entry (`DialersHold`).

**Connections.** `Spec => []ConnInv` for any finite set of connections, any
limit and any counter range larger than the number of connections
(`ConnectionsAssumption`). `LimitRespected` needs the places reserved between
increment and comparison (`LimitReserved`): a handler with
`active <= MaxConnections` saw at most that many counted, itself included.
`CountedAwaited` needs that counted connections leave the counter only by
finishing (`SignalInv`), so that a counter of 0, which is exact, means they
have. `ConnSetExact` is inductive together with `SetTyped`: `Add` appends a
connection that is not in the slice (`AppendNew`), and `Remove`, which finds it
once, leaves the others as they are (`RemoveFinds`).

**FUSE.** `Spec => []FuseInv` for any instances, lookups and number of
listeners (`FuseAssumption`). That an instance has one listener rests on the
link, which lookups test, and on the order in which listeners are made: one is
made only when those before it have called `removeListener` (`SuccessionInv`),
and `removeListener`, whose comparison is the same for all listeners of an
instance, can therefore only find its own link. `LookupInv` carries the test of
the link over the API call: `sockLock` is held. The first socket stays because
nobody before its listener could have a clean-up outstanding; for later ones
that is false (run `fuse_link_leads_to_socket`).

**The relay.** `RelaySpec => []RelayInv`, however many chunks are sent. What was
written, followed by the buffer of `myCopy` while it is about to write, is what
was read (`InOrder`). An `EOF` was seen only after everything was read, and is
returned only after that was written, unless the destination is broken or was
closed by the other direction (`EOFInv`); the latter cannot be when this
direction is the first to end.

**The package-level client.** `DialInv`, for any goroutines that dial and any
that initialise, as long as no goroutine is both (`DialAssumption`): a call that
is about to read the client again has set one, and nobody sets it back to nil.
Once `Init` has returned, a later call finds a client and dials, so that only
calls that `Init` has overtaken can be on their way to set their own.

**Local sockets.** `WatchInv`, for any lists of configurations and any number of
updates and listeners (`WatchAssumption` only gives the constants their types).
An instance is in one of the maps `static`, `dynamic` and `still` at most
(`MapsInv`), and an address leads to an open listener for it, a port to the only
one (`ListenersInv`). Every open listener is in a map under its instance, or was
replaced by a later one because a list had the instance twice; those of
instances with an address of their own, and for which nothing failed, are what
clients reach (`HoldersInv`). The address of such an instance has led to no
other one, so that opening and closing the sockets of others leaves it alone,
and a port of its own is taken only by itself (`BusyIsHeld`); a later list can only
take the address away from it (`OwnShrinks`). `LoopInv` says how far the loop
over a list is: what it has handled is in `still` or static, what `dynamic` still
has of the list is to come, so that what is closed at the end is not listed.

**The certificate source.** `CertInv`, for any number of attempts, lifetimes and
lists of address types (`CertAssumption`). `KeyInv` follows the `sync.Once`: one
of the two goroutines generates the key, once, and from `LocalKey` on the
request has it. `RetryInv` says what the attempts before the last one returned.
Of `FindIPAddr` it is proved that what it returns is an address of a wanted type
with no address of a type listed before (`PreferredAddress`).

**Listing.** `ListInv`, for any finite set of projects and any pages, if the API
gives each instance a name of its own and lists it once, and the projects are
distinct (`ListAssumption`): a project that `-projects` names twice is listed
twice. The
caller has what the goroutines have sent (`Received`), the WaitGroup counts the
goroutines that have not ended, and the channel is closed only when there are
none.

**The start.** `StartInv`, for any lists of entries, listed projects, throttles
and TCP families. `StartupAssumption` says what the words of an entry are not:
the name of the socket of Postgres, or an absolute path or a host with a port
that is a bare loopback address. `AuthInv` carries what `checkFlags` has found
out to `authenticatedClient`; `ModeInv` what `CreateInstanceConfigs` refused
to the opening of the source; `ParseInv` is the loop invariant of
`parseInstanceConfigs`: the configurations so far serve the entries so far
(`Serves`), in their order, all of them if none failed. `ProbeInv` says what a
health check handler has seen of `main` between its two reads.

**The descriptor limit.** `LimitsInv`: while `SetupFDLimits` works with the
limits it read, they are the kernel's.

Checked by TLC only:

- All liveness properties (`CallsReturn`, `SignalEnds`, `NothingLeaks`,
  `ChanIsClosed`, `LookupsAnswered`, `ClosedListenersEnd`, `StartupDecides`,
  `EndOfOneEndsBoth`): fairness is out of the prover's reach.
- `TypeOK` of `Parts`, the types of its six modules in one. Those of
  `CertSource`, `WatchInstances`, `ListInstances`, `DialClient` and `FDLimits`
  are conjuncts of the inductive invariants above; for `Relay` the proofs use
  types without the bound on the number of chunks (`Typed`). The conjunction
  is not stated, as all six modules together are too large a context for the
  provers.
- What the functions of `InstanceConfig` compute on given strings, beyond what
  `ConfigsUsable` and `AsksAreServed` say of it: on the entries that `MCStartup`
  lists.

## 5. Not modelled

- `proxy.NewConnSrc` (`client.go:484-509`), which this program does not call:
  the accept loop of `Connections` and `Fuse` again, with a close of its own
  channel at the end.
- The subscription to the metadata server, which gives `WatchInstances` its
  updates; systemd notification; `-version`, logging flags and the declaration
  of flags; `Close` of the health check server, which runs when `main` ends.
- The descriptor limits of FreeBSD (the same algorithm on signed numbers) and
  of Windows (an error); the FUSE stubs for systems without it.
- The static token source of `-token` in `CertSource`.
- Certificate parsing and the peer verification function passed to
  `crypto/tls`; running `gcloud` and reading its output: only their outcomes.
- The database driver hooks (registration only) and logging.

## 6. What could follow

A composition of `ConfigCache` with `CertSource`, in which a refresh takes
several API calls, to check the timer against the retries; a refinement of the
accept loop of `Connections` by `Fuse` and by `WatchInstances`.
