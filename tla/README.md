# Alvus in TLA+

Alvus is a reverse proxy for LLM providers. It holds several API keys per
provider and spreads the requests of its clients over them; a key that the
provider rate-limits is rested, a key that is refused or used up is retired, and
a provider that fails is left alone for a while. This directory models those
mechanisms in TLA+, model-checks them with TLC, and proves their safety properties
with TLAPS. Line numbers refer to the files under `src/`.

## 1. The system

| Component | State | Operations | Used by |
|---|---|---|---|
| Upstream breaker (`circuitbreaker/upstream.go`) | `state`, `failureCount`, `openedAt`, `halfOpenProbed`, one mutex | `RecordFailure`, `RecordSuccess`, `Allow` | every request handler, health check |
| Key breaker (`circuitbreaker/key.go`), one per key | `state`, `attempt`, `cooldownUntil`, one mutex | `RecordFailure`, `RecordPerma`, `RecordSuccess`, `Allow`, `CooldownRemaining` | request handlers |
| Key pool (`keypool/keypool.go`) | parallel slices `keys`, `names`, `cooldowns`, `disabled`, `lastUsed`, `requestHistory`, a counter, one RW mutex | `Next`, `TimeUntilAvailable`, `Cooldown`, `Disable`, `AddKey`, `RemoveKey`, counts | request handlers, admin handlers, start, reload |
| Proxy path (`server/handlers.go` `executeProxy`) | per request: attempt, key index | the retry loop, one shared-object call after another, no lock held in between | HTTP clients |
| Request history (`keypool/keypool.go`) | per key, the times of its requests of the last minute | `IncrementRequestCount`, `CleanupOldRequests`, `RequestsInLastMinute` | the end of a request, `/api/keys` |
| Health check (`server/lifecycle.go`) | none of its own | a HEAD request per interval, recorded on the upstream breaker | background goroutine per provider known at start |
| Admin API (`server/handlers.go`) | none of its own | list, add, delete, disable, cool keys; reload; clear the log | administrators |
| Key store (`keypool/store.go`, `crypto.go`, `server.go` `PersistKeys`, `cmd/key.go`, `cmd/start.go`) | two JSON files per provider | load at start, save after an admin call, edit by the CLI | admin handlers, start, CLI |
| Providers (`config/config.go`, `cmd/provider.go`, `cmd/config.go`, `cmd/start.go`, `server/handlers.go` `reloadHandler`) | `config.toml`; the map of providers, each with its configuration and pool, one RW mutex for the map | `config init`, `provider add`, `provider remove`, an editor; start; reload | operators, start, administrators, every request |
| Life cycle (`server/manager.go`, `cmd/start.go`, `cmd/stop.go`) | listener, stop channel, wait group, PID file | start, background tasks, shutdown, stop, `alvus stop` | the process, the operator |
| Log store (`logstore/logstore.go`) | bounded slice, one mutex | `Append`, `Len`, `Snapshot`, `Clear` | handlers |
| Metrics, dashboard, middleware, CLI printing | counters, nothing a decision reads | | |

What is hard here:

* A request handler makes up to a dozen calls on three shared objects, each under
  its own lock, and waits for the upstream for up to two minutes in between. What
  it acts on may be old: the key was retired, cooled, or freed meanwhile; an answer
  belongs to a request that was sent before the breaker tripped.
* Two objects keep overlapping records of the same key (`disabled` in the pool and
  PERMANENT in its breaker; a cooldown in the pool and a backoff in its breaker),
  written in different orders by different error paths.
* The retry loop has many reasons to sleep or to go round again; that it ends, and
  that the half-open breaker decides, depend on what other goroutines do.
* An index that `Next` returned is used for minutes on slices that administrators cut and
  extend and on a list of breakers that never changes, in a pool that a reload may have
  replaced; and a provider's settings and keys are two fields that are assigned one after
  the other.
* A server that stops waits for handlers with a time limit, then for tasks that may be
  busy, and shares its PID file with the command that stops it and with its successor.
* Two of the shared objects are used without the lock they ask for: `/api/keys` trims a
  key's history, and requests read the fields of a provider, under none.
* A server serves before its health checks are started, each of which reads its provider's
  configuration when its goroutine gets to run.
* State is persisted from a snapshot that is taken under several locks and written
  without one, into files that two processes rewrite.

What makes each component correct:

* Upstream breaker: one admission per trip, a full lockout after each, consistent
  counters whatever order late outcomes are recorded in.
* Key breaker: a bounded number of strikes, fields that agree, final retirement.
* Key pool: no starvation, parallel slices that stay parallel.
* Proxy path: retirement is recorded in both places; "all keys invalid" is true when
  it is said; every request comes to its answer; a disabled key drains; the half-open state
  is left again.
* Gateway, that is the proxy path while keys come and go: an index names the key it was
  taken for; an answer is held against that key only; a key that is gone drains.
* Key store: the file is the pool once the administrators are done; a key is not used
  after it was disabled or removed; a crash loses at most the call it interrupts.
* Providers: a command loses no section; a request works with the settings and the keys
  of one load; reloads go forward; health checks ask the address that is in use.
* Life cycle: a server that is asked to stop ends and answers what it accepted; the PID
  file names the server that runs.
* Activity, that is the log and the histories: the log is the latest entries; the
  statistics fit it; a request is counted for its minute; using a history harms nobody.

## 2. Modules

| Module | Models | Notes |
|---|---|---|
| `UpstreamBreaker` | `upstream.go`, every method | each method is one step: it holds the mutex from start to end |
| `Circuit` | what callers may rely on from it | abstract; `UpstreamBreaker!KeepsCircuit` is the refinement |
| `TrialAdmissions` | `UpstreamBreaker` with a history of admissions | |
| `KeyBreaker` | `key.go`, as the slice `ProxyEngine.keyCBs` | |
| `ProxyEngine` | the breakers of one provider under one clock (`server.go:20-72`) | composes the two above |
| `ProxyEngineProofs` | theorems about the breakers | |
| `KeyPool` | `keypool.go` | a library of actions, used by the next two |
| `KeyRing` | what users may rely on from a pool | abstract; one list of key records |
| `KeyRotation`, `MCKeyRotation`, `KeyRotationProofs` | the pool under all its methods, with a history of `Next` | |
| `Proxy` | `executeProxy`, the health check, the admin endpoints that disable and cool | instances of `UpstreamBreaker`, `KeyBreaker` and `KeyPool` on its own variables |
| `ProxyProperties`, `MCProxy` | what the proxy path promises | |
| `ProxyProofs` | theorems about the proxy path | |
| `Gateway`, `MCGateway`, `GatewayProofs` | `executeProxy` against the endpoints that add, remove, disable, cool and reload | the control of `Proxy` again, over keys that change; what the counters and the clock decide is left open |
| `KeyStore`, `MCKeyStore`, `KeyStoreProofs` | the keys of one provider on disk: `start.go`, `PersistKeys`, the admin handlers that change keys, `reloadHandler`, `cmd/key.go` | an instance of `KeyPool` on its own variables |
| `Providers`, `MCProviders`, `ProvidersProofs` | `config.toml`, the commands that edit it, start, health checks, reload, and what requests read of a provider | |
| `Lifecycle`, `MCLifecycle`, `LifecycleProofs` | server processes from start to end, their tasks, the PID file, `alvus stop` | |
| `Activity`, `MCActivity`, `ActivityProofs` | the log and a key's request history, with their writers and readers | |

How the state corresponds to the code:

* **Time.** A deadline is kept as what is left until it, rounded up to a tick
  (`resetLeft`, `left`, `cooldowns[i]`, `sleepLeft`); `Elapse` and `Proxy!Tick` let a
  tick pass. `time.Now().After(t)` is "nothing is left". A tick may come at any
  moment, so a step may take arbitrarily long.
* **Requests.** `pc[c]` names the next shared-object call of request `c`, in the
  order of `executeProxy`: `admit` (176), `pick` (182), `wait` (184), `gate` (196),
  `remaining` (197), `scan` (200), `inflight` (231), `cool` (256), `verdict` (259),
  `disable` (261), `perma` (284), `active` (262, 285), `succeedUp` (330), `stream`
  (296-309 and 332-350, where the answer is passed on to the client). `sleep` is any `time.Sleep`, `idle` is between requests. `idx[c]` is the key
  held, 0 for none; the code's indices count from 0, the model's from 1.
* **Merged steps.** The call that follows the upstream's answer is part of the answer's
  step (`RateLimited` includes `RecordFailure`): the handler reads nothing shared in
  between. The loop over `keyCBs` (200-205) is one step, which is sound because
  PERMANENT is final.
* **Abstracted.** Names, log lines, metrics, bodies, URLs and headers are left out; the
  value of Retry-After is any of `RetryAfters`. The status code is one of six classes:
  success, client error, 429, 401/403, server or network error, client abort. The jitter
  of a pool wait (below 500 ms) is below a tick; the jitter of a backoff is any value up
  to half of it. `counter` is kept modulo a multiple of every pool length, which is all
  that `counter % n` sees.

* **Keys on disk.** `keysFile` is `cfg.KeysFile`, which only the server writes; `encFile` is
  `<config dir>/keys/<provider>.enc`, which only the commands write. A file is absent, torn
  (it cannot be parsed) or a list of entries. `pc[a]` is the next step of call `a` of the
  admin API: `change` (the pool's own lock), `copy` (`server.go:150`), `flags` (156, once
  per key), `open` and `write` (the truncation and the write of `os.WriteFile`,
  `store.go:113`). Two writers over one file may leave either text or a mixture, `Written`.
  `reloadHandler`'s assignments are one step. `solo`, `saved` and `cut` are history
  variables: they say which calls overlapped, and whether a stop cut one off. Names are left
  out, the disk is never full, and encryption is a wrapper that only a key takes off.

* **Keys that change.** In `Gateway`, `pools` holds every pool so far, the one in use last,
  because requests and administrators keep the one they took; `keyCBs` keeps the length of
  the start. `moved[c]` is a history variable: a removal in the request's pool took the key
  it holds or one in front of it. Next returns any ready key, a cooldown ends whenever it
  likes, and either verdict is possible of a 429: what `Proxy` and `ProxyEngine` decide by
  counters and clock is a choice here, so that all their behaviours are covered. A handler
  that panics (`Panic`) leaves nothing behind: net/http recovers, and no lock is held.
* **Providers.** Of a configuration the model knows which load of the file it comes from,
  and, of a section of the file, whether it is `complete`, that is passes `Validate` but for the
  keys. `Start` ends where
  the server listens and serves (`start.go:114`); nobody can use it earlier.
  `StartBackgroundTasks` (131) comes some time later, and every check's goroutine reads
  `p.Config` at a time of its own (`BeginCheck`, `manager.go:200`): `checks` are the providers
  with a check, and the load whose address it asks, 0 until it has read it. A reload is a step
  per assignment (`handlers.go:688`, `689`, `705`). `asked` is what the operator wants in the
  file, `overlap` says that two reloads of this server overlapped, `late` are the providers a
  reload brought or changed too late for their check, and `alone` says that no reload touched
  the provider since a request looked it up.
* **Processes.** `phase[s]` is the next step of a server's main goroutine: `new`, `listen`
  (`start.go:114`), `open` and `write` (the PID file, 121), `tasks` (131), `notify` (135),
  `serving` (136), `draining` (142), `stop` (143, `close`), `wait` (143, `wg.Wait`),
  `remove` (124), `gone`. A task waits in its select or is busy in a case of it.
  Connections that are idle do not matter, and a signal that comes before `signal.Notify`
  ends the process.
* **Two words.** The history of a key is a slice, an array and a length. A listing trims it
  under no lock (`handlers.go:461`), a request under the pool's (`keypool.go:276-279`), which
  excludes other requests and no listing. Both load the two words and store them one by one,
  in any order (`Load`, `Store`); a request does so twice, to clean up and to append. `work[u]`
  is what a user has in hand, `suspect` and `overlapped` are history variables that say who
  was at work beside a listing. Where the length belongs to another array there is memory
  behind it, which reads as young or as old (`noise`). But a clean-up that keeps nothing stores
  a nil slice (`keypool.go:119`): with the length of another one it is dereferenced at 120 and
  the handler panics (`Panics`, `Panic`; a lock it holds is released), as does everybody's after
  it, unless somebody who loaded the words earlier has yet to store them. The third word,
  the capacity, is left out, and with it an append that writes into an array it shares or
  beyond its end; so are administrators who remove or add keys meanwhile, and `lastUsed`.

Operators whose comment starts with "Mutant" are not part of any specification: each is
a plausible bug, and replacing the definition that follows by it makes TLC report the
property it stands for.

## 3. Runs

All configurations run with `tlc -config X.cfg M`. Deadlock is checked in
every run but two: in the key store's the program may stop for good, when a crash has
torn the only file with keys and the server refuses to start, and in the life cycle's every
process ends.

| Configuration (module) | Distinct states | Shows |
|---|---|---|
| `ProxyEngine.cfg` | 135 000 | A threshold of 5 and a timeout of 3 ticks, the defaults at 10 s a tick; two key breakers, multiplier 1.5, base 1 and cap 7, so that the backoffs are 1, 1, 2, 3, 5 and then exactly the cap, and jitter alone exceeds it. Any order of calls on any of them: the streak stays below the threshold while CLOSED and a HALF_OPEN breaker has spent its probe (`FieldsAgree`), one caller passes per trip (`OneTrialPerTrip`), the upstream breaker implements `Circuit` (`KeepsCircuit`); fields agree (`BackoffConsistent`), the strikes without a success are bounded (`StrikesBounded`), retirement is final (`PermanentIsFinal`). |
| `MCKeyRotation.cfg` | 142 242 | Pools of up to three keys over two key strings, so that duplicates occur, with cooldowns of -1, 1 and 2 ticks: a key that is ready whenever somebody asks is returned by the n-th call (`RoundRobin`); the slices implement `KeyRing` (`KeepsRing`). Three keys suffice to remove one in the middle. |
| `MCProxy.cfg` | 2 756 930 (symmetric) | Two requests, two keys, one attempt each (a client that asks again takes the place of a retry), a threshold of two, the health check, an administrator for key 1: `PermanentIsDisabled`, `AllKeysInvalidIsTrue`. A key's second rate limit in a row retires it, as with the default settings, so that two requests that hold the same key exhaust it together. |
| `MCProxyLiveness.cfg` (`MCProxy`) | 181 666 | Two requests with two attempts each, one key, a threshold of two, the health check: every request is answered or comes to passing its answer on (`EveryRequestAnswered`); of a disabled key in the end only those are left (`DisabledKeyDrains`); a half-open breaker decides (`ProbeDecides`). |
| `MCProxyProbe.cfg` (`MCProxy`) | violation | `HalfOpenIsProbing`, finding 1. |
| `MCKeyStore.cfg` | 1 890 923 (symmetric) | Two calls of the admin API, stops, starts, reloads, automatic retirement, up to two keys, which a command may have encrypted: a call that overlaps no other leaves the file as the pool is, however the calls before it raced (`LoneCallSaves`), and a stop that cuts off no call loses and revives no key (`RestartKeepsKeys`). The commands may leave a file of one key; with one call at a time and every list of two entries TLC finds the same. |
| `MCKeyStoreRace.cfg` (`MCKeyStore`) | violation | `CallsSave`, finding 2. |
| `MCGateway.cfg` | 428 388 | A request with two attempts, two keys of which the server was started with one, so that the other has no breaker, two pools: its index names its key unless a removal moved it (`IndexNamesKey`); what it changes is its own key in its own pool (`OnlyOwnKeySuffers`); a handler panics only for a key that came later or for an index that was moved (`PanicsOnlyOnChange`); a key that is removed or reloaded away for good is in the end sent no more (`GoneKeyDrains`). |
| `MCGatewayBreaker.cfg` (`MCGateway`) | violation | `EachKeyItsOwnBreaker`, finding 3. |
| `MCProviders.cfg` | 1 303 726 (symmetric) | Two providers, commands, an editor, starts and stops, two reloads that may overlap, a request: no command loses a section unless one was interrupted (`CommandsKeepSections`); every provider has a health check that asks the address in use, unless a reload came after it (`ChecksAreCurrent`); settings and keys come from one load whenever the lock is free (`LoadsAreWhole`), and for a request that no reload of its provider disturbed (`RequestIsWhole`); a lone reload never goes back, and none takes a provider away (`ReloadsGoForward`). |
| `MCLifecycle.cfg` | 65 475 | Two servers, which may run one after the other or compete, `alvus stop`, signals and crashes at any moment: a PID file is stale only after a kill (`StaleFileOnlyByKill`), an orderly end leaves no request unanswered within the 30 s (`DrainedOrExpired`), whoever is interrupted ends (`InterruptedEnds`), and a running server loses its PID file only to the late removal of another one's (`FileLostToLateRemoval`). |
| `MCActivity.cfg` | 1 591 542 (symmetric) | Two requests and two listings of one key, a log of one entry, a window of one tick: the log is the latest entries since it was cleared (`LogIsRecent`), the total of `/api/stats` differs from its counts only as the log changed in between (`StatsDiffer`), a logged success counts for its minute unless a listing overlapped it (`LoggedIsCounted`), and a handler panics on the history only after such an overlap (`LostOnlyToOverlap`). |

`MCGateway` has one request: what another one would do to its keys, disable or cool them,
an administrator does there; with two requests the instance has more than eleven million
states, and its safety properties are proved for any number (section 5). One reload gives an old pool and a new one; a third would be as
old as the first. `MCProviders` has one request for the same reason, and three loads, so
that of the two reloads either may be the later. Two servers are a server and its successor,
or its rival; one request at a time is enough to be left unanswered. In `MCActivity` two
listings or a listing and a request are what a race needs, and a log that overflows with the
second entry; two ticks let an entry of the first grow old.

The key store's bounds are `MaxKeys`, the longest list of the pool, and `Listings`, the
lists a command may leave. Two keys give a list whose order matters and a removal that moves
an index; one command runs at a time.

Two requests are enough for every race between a request and another one on the same
object; that more do not help is proved, of every safety property (section 5).

**Fairness.** `Proxy!Fairness` asks for weak fairness of each request's own steps (the Go
scheduler runs every runnable goroutine; `client.Timeout`, `server.go:57`, ends every
upstream call), of the clock, and of the health check (its ticker ticks and its client has
a timeout, and it records an outcome either way). It does not ask it of a request that passes
its answer on (`stream`): `http.Server` has no write timeout (`manager.go:94`), so that a client
that stops reading holds its handler for ever, and `EveryRequestAnswered` and
`DisabledKeyDrains` go as far as that step. Nothing is assumed of clients or
administrators, and nothing of which answer the upstream gives. `ProbeDecides`
rests on the health check alone (finding 1). `Gateway!Fairness` is the same for a request's
steps, again without those in which it waits for its client (`read`, `count`).
`Lifecycle!Fairness`: the main goroutine runs, its timer fires,
a busy task becomes idle (the health check's client has a timeout, `lifecycle.go:37`), all weakly; a
task's end strongly, because the ticker can disable it again and again while a `select` with
two ready cases takes either with equal chances. No request has to end, no crash and no
signal to come. The other specifications assume none.

## 4. Findings

1. *A probe without an outcome keeps the breaker HALF_OPEN* (`upstream.go:94`).
   `docs/architecture.md:89` lets the single probe end in CLOSED or OPEN. A probe that
   finds no key, is answered 429, 401, 403 or 4xx, or is aborted by its client records
   nothing on the upstream breaker, `halfOpenProbed` stays set, and `Allow` returns false
   with nobody probing, until the health check records an outcome.
2. *Overlapping admin calls save a state that never was* (`server.go:150`). `PersistKeys`
   ("saves the current key pool state to the keys file", line 141) copies keys and flags
   under separate locks and writes under none. Two calls that overlap may save the older
   state last, join the keys of one state to the flags of another, or tear the file.
3. *Keys share, shift and lack breakers* (`handlers.go:196`). `docs/architecture.md:33` gives
   each key a breaker of its own. `keyCBs` is made once for the keys at start-up: a key that
   is added later is beyond its end, and the request that picks it panics; after a removal
   the keys behind are let through, or retired, by the breaker of the key before them.

Deviations that the models have and no run shows:

* A request sleeps off the backoff of the key it was given while another key is ready
  (`handlers.go:213`): a Retry-After can make the pool's cooldown the shorter of the two.
  `docs/architecture.md:58` has it switch to the next usable key. `Proxy!SleepOffBackoff`.
* A start enables disabled keys (`store.go:34`): the flag is saved and never loaded, while
  `cmd/key.go:216` says that disabled keys are not used. `KeyStore!Loaded`.
* Commands are ignored once the server has saved (`start.go:155`): `cfg.KeysFile` comes
  first, and `alvus key add` writes another file. `KeyStore!Loaded`.
* Encrypted keys are used as ciphertext (`start.go:71`): the files are loaded before the
  encryption key is set, and nothing reads `KEYS_ENCRYPTION_KEY` into the server's
  configuration. `KeyStore!Seal`, `KeyStore!Loaded`.
* `key.go:54` converts `math.Pow(multiplier, attempt)` to an integer before it multiplies
  the base, so that with a multiplier of 1.5 the second backoff is the base again, where
  `docs/architecture.md:55` gives base × multiplier^attempt + jitter. `KeyBreaker!Raw`.
* A reload takes what it finds (`handlers.go:685`): `docs/configuration.md:57` keeps the old
  configuration when required fields are missing, but nothing is validated, and the new
  pools hold the keys of the file, which has none. `Providers!AssignConfig`,
  `Gateway!Reload`. A provider that a reload brings has no breakers and, if the checks were
  started before, no health check, and the check of another keeps the address that its
  goroutine found (`manager.go:200`). `Providers!TooLate`.
* A server serves before its health checks start (`start.go:114`, 131), as
  `docs/cli-reference.md:32` says: requests in between go to providers nobody checks.
* There is no watcher: `docs/configuration.md:50` and `docs/cli-reference.md:33` have the file's
  changes applied every second, the code only on `POST /api/reload` (`handlers.go:657`).
* `docs/configuration.md:26` calls `genai` optional, and `provider add` leaves it out without a
  word, while `Validate` (`config.go:97`) refuses the provider at the next start.
  `Providers!AddProvider`, `Providers!Accepted`.
* A command that is interrupted while it writes `config.toml` (`config.go:359`) leaves an empty
  file, which the next command takes for a configuration without providers.
  `Providers!InterruptCommand`.
* A client that stops reading holds its handler, and the key it was given, without a limit
  (`manager.go:94` sets none).
* A key that is added or removed while a reload replaces the pool is changed in a pool
  nobody uses any more, and the new pool is saved (`handlers.go:447`). `KeyStore!ChangeLost`.
* An administrator's index is checked against the list and used on a later one
  (`handlers.go:503`): after a removal in between it is another key's. `KeyStore!Indexed`.
* A provider whose reload comes between looking it up and reading it serves a request with
  the settings of one load and the keys of another (`handlers.go:112`); two reloads
  may be applied in the order they were not read in (672, 682).
* `alvus stop` removes the PID file at once (`docs/cli-reference.md:26`, 165), while the server
  may drain for 30 s more and then removes the file again (`start.go:125`), which by then may
  be its successor's.
* `/api/keys` trims histories without a lock (`handlers.go:461`), although line 104 of
  `keypool.go` asks for one: a request that ends meanwhile may go uncounted, and a torn slice
  whose array is nil makes every later listing of the pool, and every end of a request with
  the key, panic until the key is removed or the pool replaced: the client loses what net/http
  has not sent by then, and the request is neither counted nor logged. `Activity!Panic`.
* `/api/stats` takes its total before its entries (`handlers.go:615`): its success rate may
  exceed 100 %.

## 5. Proofs

Checked with `tlapm`; every leaf is proved, none is assumed. Each theorem is about every value
of the constants that the module's assumption admits, and about `Spec`; a fair
specification implies it.

* `ProxyEngineProofs` on the upstream breaker, for every threshold and timeout that is
  positive (`BreakerAssumption`, which `NewProxyEngine` enforces): `BreakerCorrect` (types,
  `FieldsAgree`), `BreakerKeepsCircuit` (refinement of
  `Circuit`: every step maps to a step or a stutter), `OneTrial` (`OneTrialPerTrip`). The
  inductive invariant is `BreakerInv`: the bound on `failureCount` is inductive only
  together with the fact that a CLOSED breaker is below the threshold; `OneTrial` adds
  that a HALF_OPEN breaker has spent its probe.
* `KeyRotationProofs`, for pools of any length, any keys and any cooldowns: `RotationTypeCorrect`;
  `EveryKeyHasItsTurn` (`RoundRobin`), by `TurnInv`: with every call that passes a ready
  key over, the scan's start comes one closer to it, so that the calls it has waited and the
  calls it still has to wait are fewer than the keys; the lemmas about remainders say that the
  counter's wrap-around moves the start on by one too; `RotationKeepsRing` (refinement of
  `KeyRing`), one lemma per method, each about what the method leaves of three slices.
* `ProxyEngineProofs` on the rest: an engine implements the specifications of its breakers
  (`EngineIsBoth`), and so what is proved of the upstream breaker holds in it; `EngineTypeCorrect`,
  `EngineBackoffs` and `EngineRetiresForGood` are about the key breakers, for every base, cap and
  multiplier. Their inductive invariant is `KeyInv`, the types with `BackoffConsistent`; powers
  are left uninterpreted, all that is used of a backoff is how it compares to the cap
  (`KeyBreaker!ReachesCap`). `EngineStrikes` (`StrikesBounded`) adds `SurvivedBelowCap`, that no
  strike which a key survived had a backoff at the cap, and takes from the library that
  the first strike whose backoff is there exists. It is stated for the settings whose backoff
  reaches the cap within `MaxStrikes`, 64 (`CapIsReached`), as with the defaults it does at the
  second strike: with a base of 0, or below the cap with a multiplier of 1, no rate limit ever
  retires a key, and there is no bound to state.
* `ProxyProofs`, for every number of requests, keys and attempts, and any cooldowns
  (`ProxyAssumption`): `ProxyTypeOK`; `ProxyUsesBreakers`, that the proxy is, on the
  breakers' variables, an implementation of `UpstreamBreaker!Spec` and `KeyBreaker!Spec`,
  so that what is shown of them holds in the proxy; and `RetirementIsSafe`, that
  `PermanentIsDisabled` (`RetiredIsDisabled`) and `AllKeysInvalidIsTrue` always hold. The
  inductive invariant is `ProxyInv`. It adds `DisabledFirst`, that a handler which was
  refused has disabled the key before it marks the breaker: without it the last step of that
  handler would reach a PERMANENT key that the pool still hands out. `DisabledIsFinal` and
  `PermanentIsFinal` make what a handler has read stay true until it acts on it.
* `GatewayProofs`, for any number of requests, keys, pools and retries: `GatewayTypeCorrect`,
  `IndexSound` (`IndexNamesKey`), `OwnKeySuffers`, `PanicsAreChanges`. `TypeOK` and
  `IndexNamesKey` are inductive together; the work is in the removal, which leaves the keys in
  front of it where they are. The two action properties follow step by step: a handler
  changes the pool at its index, where its key is.
* `LifecycleProofs`, for any servers and tasks: `LifecycleTypeCorrect`, whose last conjunct
  says when a server listens and when it has tasks; `StaleFile`, together with
  `WritersOnly`, that the file names a server only after it wrote it, so that one whose
  start fails is never named; `DrainsOrExpires`, by `LateOnly`; `FileLost`
  (`FileLostToLateRemoval`), by `RemovesSignalled`, that the command removes a file only
  after it signalled the server it read there, or found it gone.
* `KeyStoreProofs`, for any keys, any number of calls and any listings of the commands:
  `StoreTypeOK`, `LoneCallsSave` (`LoneCallSaves`), `RestartsKeepKeys` (`RestartKeepsKeys`). The
  inductive invariant is `IInv`: the types, with what entries a call has made of the keys it
  copied; `OverlapOK`, that a call which began alone is alone until another one begins;
  `CopyIsPool`, that what it has copied is still the pool but for keys that were retired
  meanwhile, and that nobody else's file is open; `SavedOK`, that the file stays as the pool
  is until the next change. `LoneCallSaves` alone says nothing of a call that is half done,
  and so is not inductive.
* `ProvidersProofs`, for any names, reloads, requests and loads: `KeepsSections`
  (`CommandsKeepSections`), by `FileInv`, that a command under way will write what was asked
  and has emptied the file; `ProvidersTypeCorrect`, with one reload at a time past the lock;
  `LoadsWhole` and `RequestsWhole`, by `WholeInv`, that settings and keys differ only where a
  reload is between the two, and that it has disturbed the requests there; `ChecksCurrent` (`ChecksAreCurrent`), which is inductive with the types; `GoForward`, by `LatestInv`, that no provider has a load that is yet to come and that
  a reload which runs alone has the latest.
* `ActivityProofs`, for any number of requests and listings, and any sizes of the log and
  the window: `ActivityTypeOK`; `LogCorrect` (`LogIsRecent`) and `StatsCorrect` (`StatsDiffer`), by
  `LogInv`; `CountedCorrect` (`LoggedIsCounted`), by `CountedInv`: an entry that no overlap has
  made suspect is in the history, or, while one user is alone at work on it, in what that
  user has in hand and in the words it has not stored yet (`Remembered`); `LostToOverlap`
  (`LostOnlyToOverlap`), by `WholeInv`: while no listing has overlapped, the user at work is the
  only one, and the history and what it has in hand are slices of one piece, its words
  loaded from one and stored to one, so that none is nil with a length. That a clean-up drops
  nothing young rests on `NthIsRanked`, that each of finitely many indices has its rank
  among them; for this `Activity!Cleaned` picks the entries by rank instead of by the recursion of
  `SelectSeq`, which the backends cannot follow.

Every safety invariant and action property of a passing run is stated by a theorem.
Only model-checked are the liveness properties, `EveryRequestAnswered`, `DisabledKeyDrains`,
`ProbeDecides`, `GoneKeyDrains` and `InterruptedEnds`: fairness and `ENABLED` are out of the
prover's reach. A counterexample, as the three of section 4, is TLC's as well.

## 6. Not modelled

* Several providers that share one `keys.json`: `cfg.KeysFile` is the same for all by default
  (`config.go:78`), so that each one's `PersistKeys` overwrites the others' keys. `KeyStore`
  has one provider; with more, every property it has would hold only of the last to save.
* The port of the server, which is that of the provider a map iteration comes to first
  (`start.go:63`), and the provider of a path without a prefix, chosen the same way though
  the comment says alphabetically (`handlers.go:35`).
* Two commands at a time: they are typed by one operator.
* The values of a configuration, its environment overrides and its single-provider form, but
  for what `Validate` asks of them.
* Cryptography, metrics, dashboard, access log, `MaskKey`, argument parsing and the commands
  that only print. No decision of the program reads what they compute. `docs/api.md:32` has
  the log hold 1000 entries where `manager.go:54` gives it 10000: the size is a constant of
  `Activity`.
