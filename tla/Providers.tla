------------------------------ MODULE Providers ------------------------------
(***************************************************************************)
(* The providers of a server: config.toml, which the commands provider add *)
(* and remove (internal/cmd/provider.go), config init                      *)
(* (internal/cmd/config.go) and an editor change; startServer, which       *)
(* serves the providers that pass Validate and, once it serves them,       *)
(* starts their health checks; reloadHandler, which serves whatever it     *)
(* finds; and the requests that use a provider meanwhile                   *)
(* (internal/server/handlers.go).                                          *)
(*                                                                         *)
(* Of a configuration, two things matter: whether it has all that Validate *)
(* asks for, keys apart, and which load of the file it comes from.  Each   *)
(* load makes a pool too.  reloadHandler holds pr.mu while it assigns, a   *)
(* request only while it looks its provider up.                            *)
(***************************************************************************)
EXTENDS Naturals, Functions

CONSTANTS Names,            \* the names of providers
          Examples,         \* the sections that config init writes, whichever
                            \* names it gives them
          Reloads,          \* concurrent calls of POST /api/reload
          Clients,          \* concurrent requests
          MaxLoads          \* bound: loads of one server process

\* A section with or without the required fields, for some of the names.
Worth == {"complete", "incomplete"}

Sections == UNION {[ns -> Worth] : ns \in SUBSET Names}

NoSections == [n \in {} |-> "complete"]

ASSUME ProvidersAssumption ==
  Examples \subseteq Sections /\ MaxLoads \in Nat \ {0} /\ "nobody" \notin Reloads

VARIABLES file,             \* config.toml
          command,          \* the command that runs, and what it will write
          loads,            \* loads since the start, which is the first; 0 while
                            \* no server is up
          router,           \* pr.providers: the load of its Config and of its
                            \* Pool
          checks,           \* the providers that StartBackgroundTasks has given a
                            \* health check, with the load whose address it asks;
                            \* 0 until its goroutine has read p.Config
          lock,             \* who holds pr.mu for writing
          reload,           \* each reload: next step, its load, what is to do
          request,          \* each request: next step, provider, the loads of
                            \* what it has read
          asked,            \* history: the sections the operator has asked for
                            \* since a command was last interrupted
          overlap,          \* history: two reloads of this server overlapped
          late              \* history: the providers that a reload brought or
                            \* changed too late for their health check

fileVars   == <<file, command, asked>>
serverVars == <<loads, router, checks, lock, reload, request, overlap, late>>
vars       == <<fileVars, serverVars>>

Absent     == [form |-> "absent", sections |-> NoSections]
Unreadable == [form |-> "unreadable", sections |-> NoSections]
Toml(ss)   == [form |-> "toml", sections |-> ss]

NoCommand == [step |-> "idle", sections |-> NoSections]
NoReload  == [step |-> "idle", load |-> 0, todo |-> NoSections, name |-> "none"]
NoRequest == [step |-> "idle", name |-> "none", config |-> 0, pool |-> 0, alone |-> TRUE]

Fresh(load) == [config |-> load, pool |-> load]

NotServing == [n \in {} |-> Fresh(0)]

NoChecks == [n \in {} |-> 0]

Init ==
  /\ file = Absent /\ command = NoCommand /\ asked = NoSections
  /\ loads = 0 /\ router = NotServing /\ checks = NoChecks /\ lock = "nobody"
  /\ reload = [r \in Reloads |-> NoReload]
  /\ request = [c \in Clients |-> NoRequest]
  /\ overlap = FALSE /\ late = {}

With(f, x, y) == [z \in DOMAIN f \cup {x} |-> IF z = x THEN y ELSE f[z]]

Without(f, x) == Restrict(f, DOMAIN f \ {x})

------------------------------------------------------------------------------
(* The commands, and an editor, of one operator.  A command reads the file *)
(* and writes it whole; nobody else changes it in between, so that reading *)
(* and truncating it are one step.                                         *)

\* The first half of os.WriteFile: an empty file is valid TOML without sections.
Rewrite(ss) ==
  /\ command' = [step |-> "write", sections |-> ss]
  /\ file' = Toml(NoSections)
  /\ UNCHANGED serverVars

\* Mutant: an existing file is not read.
AddProviderAfresh(n, worth) ==
  /\ command.step = "idle" /\ file.form # "unreadable"
  /\ n \notin DOMAIN file.sections
  /\ Rewrite(With(NoSections, n, worth))
  /\ asked' = With(asked, n, worth)

\* An absent file and an empty one have no sections; a duplicate is refused.
\* --genai may be left out, although Validate asks for it.
AddProvider(n, worth) ==
  /\ command.step = "idle" /\ file.form # "unreadable"
  /\ n \notin DOMAIN file.sections
  /\ Rewrite(With(file.sections, n, worth))
  /\ asked' = With(asked, n, worth)

RemoveProvider(n) ==
  /\ command.step = "idle" /\ n \in DOMAIN file.sections
  /\ Rewrite(Without(file.sections, n))
  /\ asked' = Without(asked, n)

InitConfig ==
  /\ command.step = "idle" /\ file.form = "absent"
  /\ \E ss \in Examples : Rewrite(ss) /\ asked' = ss

\* The second half.
WriteConfig ==
  /\ command.step = "write"
  /\ file' = Toml(command.sections)
  /\ command' = NoCommand
  /\ UNCHANGED <<asked, serverVars>>

\* Nothing says so to the next command, which finds no sections.
InterruptCommand ==
  /\ command.step = "write"
  /\ command' = NoCommand
  /\ asked' = NoSections
  /\ UNCHANGED <<file, serverVars>>

\* An editor may save anything.
Edit ==
  /\ command.step = "idle"
  /\ \E f \in {Unreadable} \cup {Toml(ss) : ss \in Sections} :
       file' = f /\ asked' = f.sections
  /\ UNCHANGED <<command, serverVars>>

------------------------------------------------------------------------------
(* The server process.                                                     *)

\* LoadAllTomlProviders: an error unless there is a section.
Loadable == file.form = "toml" /\ DOMAIN file.sections # {}

\* The providers that --provider lets through, that have keys, and that are valid.
Accepted(chosen, keyed) ==
  {n \in DOMAIN file.sections \cap chosen \cap keyed : file.sections[n] = "complete"}

\* os.Exit(1) when there is none.  When it ends, the server listens and serves.
Start ==
  /\ loads = 0 /\ Loadable
  /\ \E chosen \in {Names} \cup {{n} : n \in Names} : \E keyed \in SUBSET Names :
       /\ Accepted(chosen, keyed) # {}
       /\ router' = [n \in Accepted(chosen, keyed) |-> Fresh(1)]
  /\ loads' = 1
  /\ UNCHANGED <<fileVars, checks, lock, reload, request, overlap, late>>

Started == DOMAIN checks # {}

\* After the PID file: requests and reloads may have come before it.  It takes
\* pr.mu for reading, and a goroutine for every provider there is.
StartBackgroundTasks ==
  /\ loads > 0 /\ ~Started /\ lock = "nobody"
  /\ checks' = [n \in DOMAIN router |-> 0]
  /\ UNCHANGED <<fileVars, loads, router, lock, reload, request, overlap, late>>

\* Mutant: the loop's variable is not captured.
BeginCheckUncaptured(n) ==
  /\ n \in DOMAIN checks /\ checks[n] = 0
  /\ \E m \in DOMAIN checks : checks' = [checks EXCEPT ![n] = router[m].config]
  /\ UNCHANGED <<fileVars, loads, router, lock, reload, request, overlap, late>>

\* The goroutine reads p.Config, without the lock, and keeps it.
BeginCheck(n) ==
  /\ n \in DOMAIN checks /\ checks[n] = 0
  /\ checks' = [checks EXCEPT ![n] = router[n].config]
  /\ UNCHANGED <<fileVars, loads, router, lock, reload, request, overlap, late>>

\* A stop or a crash.
Stop ==
  /\ loads > 0
  /\ loads' = 0 /\ router' = NotServing /\ checks' = NoChecks /\ lock' = "nobody"
  /\ reload' = [r \in Reloads |-> NoReload]
  /\ request' = [c \in Clients |-> NoRequest]
  /\ overlap' = FALSE /\ late' = {}
  /\ UNCHANGED fileVars

------------------------------------------------------------------------------
(* reloadHandler.  The file is read before the lock is taken; a file that  *)
(* cannot be loaded ends it.                                               *)

LoadConfig(r) ==
  /\ 0 < loads /\ loads < MaxLoads
  /\ reload[r].step = "idle" /\ Loadable
  /\ loads' = loads + 1
  /\ reload' = [reload EXCEPT ![r] = [step |-> "lock", load |-> loads + 1,
                                      todo |-> file.sections, name |-> "none"]]
  /\ overlap' = (overlap \/ \E q \in Reloads : reload[q].step # "idle")
  /\ UNCHANGED <<fileVars, router, checks, lock, request, late>>

\* Mutant: a read lock, which a reload may share.
LockShared(r) ==
  /\ reload[r].step = "lock"
  /\ lock' = r
  /\ reload' = [reload EXCEPT ![r].step = "config"]
  /\ UNCHANGED <<fileVars, loads, router, checks, request, overlap, late>>

Lock(r) ==
  /\ reload[r].step = "lock" /\ lock = "nobody"
  /\ lock' = r
  /\ reload' = [reload EXCEPT ![r].step = "config"]
  /\ UNCHANGED <<fileVars, loads, router, checks, request, overlap, late>>

\* What requests under way have read may be no longer all of a piece.
Disturb(n) ==
  request' = [c \in Clients |->
                IF request[c].name = n THEN [request[c] EXCEPT !.alone = FALSE]
                                       ELSE request[c]]

\* A health check that has read p.Config, or that will never be, misses a change.
TooLate(n) ==
  late' = IF Started /\ (n \in DOMAIN checks => checks[n] # 0) THEN late \cup {n}
                                                              ELSE late

AssignConfig(r, n) ==
  /\ reload[r].step = "config" /\ n \in DOMAIN reload[r].todo \cap DOMAIN router
  /\ router' = [router EXCEPT ![n].config = reload[r].load]
  /\ reload' = [reload EXCEPT ![r].step = "pool", ![r].name = n]
  /\ Disturb(n) /\ TooLate(n)
  /\ UNCHANGED <<fileVars, loads, checks, lock, overlap>>

\* Mutant: the keys are left as they are.
AssignPoolNot(r) ==
  /\ reload[r].step = "pool"
  /\ reload' = [reload EXCEPT ![r].step = "config", ![r].name = "none",
                              ![r].todo = Without(@, reload[r].name)]
  /\ Disturb(reload[r].name)
  /\ UNCHANGED <<fileVars, loads, router, checks, lock, overlap, late>>

AssignPool(r) ==
  /\ reload[r].step = "pool"
  /\ router' = [router EXCEPT ![reload[r].name].pool = reload[r].load]
  /\ reload' = [reload EXCEPT ![r].step = "config", ![r].name = "none",
                              ![r].todo = Without(@, reload[r].name)]
  /\ Disturb(reload[r].name)
  /\ UNCHANGED <<fileVars, loads, checks, lock, overlap, late>>

\* A new provider gets no health check, unless they are all still to start.
AddNew(r, n) ==
  /\ reload[r].step = "config" /\ n \in DOMAIN reload[r].todo \ DOMAIN router
  /\ router' = With(router, n, Fresh(reload[r].load))
  /\ reload' = [reload EXCEPT ![r].todo = Without(@, n)]
  /\ TooLate(n)
  /\ UNCHANGED <<fileVars, loads, checks, lock, request, overlap>>

\* Mutant: the providers that the file does not have are dropped.
UnlockPruning(r) ==
  /\ reload[r].step = "config" /\ reload[r].todo = NoSections
  /\ lock' = "nobody"
  /\ reload' = [reload EXCEPT ![r] = NoReload]
  /\ router' = Restrict(router, {n \in DOMAIN router : router[n].config = reload[r].load})
  /\ checks' = Restrict(checks, DOMAIN checks \cap DOMAIN router')
  /\ UNCHANGED <<fileVars, loads, request, overlap, late>>

Unlock(r) ==
  /\ reload[r].step = "config" /\ reload[r].todo = NoSections
  /\ lock' = "nobody"
  /\ reload' = [reload EXCEPT ![r] = NoReload]
  /\ UNCHANGED <<fileVars, loads, router, checks, request, overlap, late>>

------------------------------------------------------------------------------
(* A request.                                                              *)

\* Mutant: the provider is looked up without the lock.
LookUpUnlocked(c, n) ==
  /\ request[c].step = "idle" /\ n \in DOMAIN router
  /\ request' = [request EXCEPT ![c] = [step |-> "config", name |-> n, config |-> 0,
                                        pool |-> 0, alone |-> TRUE]]
  /\ UNCHANGED <<fileVars, loads, router, checks, lock, reload, overlap, late>>

\* A name that is not served is answered with 404.
LookUp(c, n) ==
  /\ request[c].step = "idle" /\ lock = "nobody" /\ n \in DOMAIN router
  /\ request' = [request EXCEPT ![c] = [step |-> "config", name |-> n, config |-> 0,
                                        pool |-> 0, alone |-> TRUE]]
  /\ UNCHANGED <<fileVars, loads, router, checks, lock, reload, overlap, late>>

\* ps.Config and ps.Pool are read without the lock.
ReadConfig(c) ==
  /\ request[c].step = "config"
  /\ request' = [request EXCEPT ![c].step = "pool",
                                ![c].config = router[request[c].name].config]
  /\ UNCHANGED <<fileVars, loads, router, checks, lock, reload, overlap, late>>

ReadPool(c) ==
  /\ request[c].step = "pool"
  /\ request' = [request EXCEPT ![c].step = "using",
                                ![c].pool = router[request[c].name].pool,
                                ![c].name = "none"]
  /\ UNCHANGED <<fileVars, loads, router, checks, lock, reload, overlap, late>>

Finish(c) ==
  /\ request[c].step = "using"
  /\ request' = [request EXCEPT ![c] = NoRequest]
  /\ UNCHANGED <<fileVars, loads, router, checks, lock, reload, overlap, late>>

------------------------------------------------------------------------------
CommandStep ==
  \/ \E n \in Names : \E worth \in {"complete", "incomplete"} : AddProvider(n, worth)
  \/ \E n \in Names : RemoveProvider(n)
  \/ InitConfig \/ WriteConfig \/ InterruptCommand

ReloadStep(r) ==
  \/ LoadConfig(r) \/ Lock(r) \/ AssignPool(r) \/ Unlock(r)
  \/ \E n \in Names : AssignConfig(r, n) \/ AddNew(r, n)

RequestStep(c) ==
  \/ \E n \in Names : LookUp(c, n)
  \/ ReadConfig(c) \/ ReadPool(c) \/ Finish(c)

Next ==
  \/ CommandStep \/ Edit \/ Start \/ StartBackgroundTasks \/ Stop
  \/ \E n \in Names : BeginCheck(n)
  \/ \E r \in Reloads : ReloadStep(r)
  \/ \E c \in Clients : RequestStep(c)

Spec == Init /\ [][Next]_vars

------------------------------------------------------------------------------
Loads == 1..MaxLoads

FileOK ==
  /\ file \in {Absent, Unreadable} \cup {Toml(ss) : ss \in Sections}
  /\ command \in [step : {"idle", "write"}, sections : Sections]
  /\ asked \in Sections

RouterOK ==
  /\ loads \in 0..MaxLoads /\ overlap \in BOOLEAN
  /\ DOMAIN router \subseteq Names
  /\ router \in [DOMAIN router -> [config : Loads, pool : Loads]]
  /\ loads > 0 <=> DOMAIN router # {}

ChecksOK ==
  /\ DOMAIN checks \subseteq DOMAIN router /\ late \subseteq DOMAIN router
  /\ checks \in [DOMAIN checks -> 0..MaxLoads]

ReloadsOK ==
  /\ reload \in [Reloads -> [step : {"idle", "lock", "config", "pool"}, load : 0..MaxLoads,
                             todo : Sections, name : Names \cup {"none"}]]
  /\ lock \in Reloads \cup {"nobody"}
  /\ \A r \in Reloads :
       /\ reload[r].load <= loads
       /\ reload[r].step # "idle" => reload[r].load > 1
       /\ lock = r <=> reload[r].step \in {"config", "pool"}
       /\ reload[r].step = "pool" => reload[r].name \in DOMAIN router

RequestsOK ==
  /\ request \in [Clients -> [step : {"idle", "config", "pool", "using"},
                              name : Names \cup {"none"},
                              config : 0..MaxLoads, pool : 0..MaxLoads, alone : BOOLEAN]]
  /\ \A c \in Clients :
       request[c].step \in {"config", "pool"} => request[c].name \in DOMAIN router

\* The fields have their types; a server that is up serves a provider, the lock is
\* the reload's that assigns, and whoever uses or checks a provider finds it served.
TypeOK == FileOK /\ RouterOK /\ ChecksOK /\ ReloadsOK /\ RequestsOK

\* The commands keep what the operator asked for before: the file has every section
\* that was added and not removed since, whether it was absent, empty or edited,
\* unless a command was interrupted, which loses them all (provider.go:66-98,
\* 176-187).
CommandsKeepSections == command.step = "idle" => file.sections = asked

\* Once the health checks are started, every provider has one, and it asks the
\* address that requests are sent to, unless a reload brought or changed the
\* provider after that: a reload between serving and starting the checks, or before
\* a goroutine has read p.Config, is not missed (start.go:114, 131,
\* manager.go:186-204).
ChecksAreCurrent ==
  Started => \A n \in DOMAIN router \ late :
               n \in DOMAIN checks /\ checks[n] \in {0, router[n].config}

\* While no reload holds the lock, the Config and the Pool of a provider come from
\* the same load, however many reloads overlapped and whatever each of them
\* found in the file (handlers.go:682-705).
LoadsAreWhole ==
  lock = "nobody" => \A n \in DOMAIN router : router[n].config = router[n].pool

\* A request works with the keys and the settings of one load, unless a reload of
\* its provider came in between looking it up and reading both (handlers.go:96, 112).
RequestIsWhole ==
  \A c \in Clients :
    request[c].step = "using" /\ request[c].alone => request[c].config = request[c].pool

\* A reload never goes back to an older load nor out of service, whatever the file
\* is like when it is read: truncated, unreadable, or without the provider.  Two
\* that overlap may be applied in the wrong order (handlers.go:672, 682).
ReloadsGoForward ==
  [][loads > 0 /\ loads' > 0 =>
       \A n \in DOMAIN router :
         /\ n \in DOMAIN router'
         /\ ~overlap => router'[n].config >= router[n].config]_vars

==============================================================================
