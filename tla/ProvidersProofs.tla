--------------------------- MODULE ProvidersProofs ---------------------------
(***************************************************************************)
(* What Providers promises, for any names, reloads, requests and loads.    *)
(***************************************************************************)
EXTENDS Providers, TLAPS

\* A map with an entry more has the entry, and the others as before.
LEMMA WithEntry ==
  ASSUME NEW f, NEW x, NEW y
  PROVE  /\ DOMAIN With(f, x, y) = DOMAIN f \cup {x}
         /\ With(f, x, y)[x] = y
         /\ \A z \in DOMAIN f : z # x => With(f, x, y)[z] = f[z]
         /\ With(f, x, y) = [z \in DOMAIN With(f, x, y) |-> With(f, x, y)[z]]
BY DEF With

\* And one without it has the others.
LEMMA WithoutEntry ==
  ASSUME NEW f, NEW x
  PROVE  /\ DOMAIN Without(f, x) = DOMAIN f \ {x}
         /\ \A z \in DOMAIN f \ {x} : Without(f, x)[z] = f[z]
BY DEF Without, Restrict

\* Sections are the functions from names to what a section is worth.
LEMMA SectionsAre ==
  ASSUME NEW ss
  PROVE  ss \in Sections <=> ss \in [DOMAIN ss -> Worth] /\ DOMAIN ss \subseteq Names
BY DEF Sections

\* The commands make sections of sections.
LEMMA SectionsClosed ==
  ASSUME NEW ss \in Sections, NEW n \in Names
  PROVE  /\ \A w \in Worth : With(ss, n, w) \in Sections
         /\ Without(ss, n) \in Sections
<1>1. ss \in [DOMAIN ss -> Worth] /\ DOMAIN ss \subseteq Names
  BY SectionsAre
<1>2. ASSUME NEW w \in Worth PROVE With(ss, n, w) \in Sections
  <2>1. With(ss, n, w) \in [DOMAIN ss \cup {n} -> Worth]
    BY <1>1 DEF With
  <2> QED
    BY <1>1, <2>1 DEF Sections
<1>3. Without(ss, n) \in [DOMAIN ss \ {n} -> Worth]
  BY <1>1 DEF Without, Restrict
<1> QED
  BY <1>1, <1>2, <1>3 DEF Sections

LEMMA NoSectionsAre == NoSections \in Sections /\ DOMAIN NoSections = {}
BY DEF NoSections, Sections, Worth

------------------------------------------------------------------------------
(* The configuration file.                                                 *)

\* What a command will write is what the operator has asked for, and until then the
\* file is empty.
FileInv ==
  /\ FileOK
  /\ command.step = "idle" => file.sections = asked
  /\ command.step = "write" => command.sections = asked /\ file = Toml(NoSections)

LEMMA FileInit == Init => FileInv
BY NoSectionsAre DEF Init, FileInv, FileOK, Absent, Unreadable, Toml, NoCommand

LEMMA FileNext == FileInv /\ [Next]_vars => FileInv'
<1> SUFFICES ASSUME FileInv, [Next]_vars
             PROVE  FileInv'
  OBVIOUS
<1> USE DEF FileInv, FileOK
<1>1. file.sections \in Sections
  BY NoSectionsAre DEF Absent, Unreadable, Toml
<1>2. ASSUME NEW n \in Names, NEW w \in Worth, AddProvider(n, w)
      PROVE  FileInv'
  <2>1. With(file.sections, n, w) \in Sections /\ With(asked, n, w) = With(file.sections, n, w)
    BY <1>1, <1>2, SectionsClosed DEF AddProvider
  <2> QED
    BY <1>2, <2>1, NoSectionsAre DEF AddProvider, Rewrite, Toml
<1>3. ASSUME NEW n \in Names, RemoveProvider(n)
      PROVE  FileInv'
  <2>1. Without(file.sections, n) \in Sections /\ Without(asked, n) = Without(file.sections, n)
    BY <1>1, <1>3, SectionsClosed DEF RemoveProvider
  <2> QED
    BY <1>3, <2>1, NoSectionsAre DEF RemoveProvider, Rewrite, Toml
<1>4. CASE InitConfig
  BY <1>4, NoSectionsAre, ProvidersAssumption DEF InitConfig, Rewrite, Toml
<1>5. CASE WriteConfig
  BY <1>5, NoSectionsAre DEF WriteConfig, NoCommand, Toml
<1>6. CASE InterruptCommand
  BY <1>6, NoSectionsAre DEF InterruptCommand, NoCommand, Toml
<1>7. CASE Edit
  BY <1>7, NoSectionsAre DEF Edit, Toml, Unreadable, Absent
<1>8. CASE UNCHANGED fileVars
  BY <1>8 DEF fileVars
<1>9. ASSUME NEW r \in Reloads, ReloadStep(r)
      PROVE  FileInv'
  BY <1>8, <1>9
     DEF ReloadStep, LoadConfig, Lock, AssignPool, Unlock, AssignConfig, AddNew
<1>10. ASSUME NEW c \in Clients, RequestStep(c)
       PROVE  FileInv'
  BY <1>8, <1>10 DEF RequestStep, LookUp, ReadConfig, ReadPool, Finish
<1>11. CASE Start \/ Stop
  BY <1>8, <1>11 DEF Start, Stop
<1>12. CASE StartBackgroundTasks \/ \E n \in Names : BeginCheck(n)
  BY <1>8, <1>12 DEF StartBackgroundTasks, BeginCheck
<1> QED
  BY <1>2, <1>3, <1>4, <1>5, <1>6, <1>7, <1>8, <1>9, <1>10, <1>11, <1>12
     DEF Next, CommandStep, Worth, vars

\* The commands lose no section that the operator asked for and did not remove
\* (provider.go:66-98, 176-187).
THEOREM KeepsSections == Spec => []CommandsKeepSections
<1>1. FileInv => CommandsKeepSections
  BY DEF FileInv, CommandsKeepSections
<1> QED
  BY <1>1, FileInit, FileNext, PTL DEF Spec

------------------------------------------------------------------------------
(* Types.                                                                  *)

LEMMA NotServingIs ==
  DOMAIN NotServing = {} /\ \A S : NotServing \in [DOMAIN NotServing -> S]
<1> DEFINE f == [n \in {} |-> Fresh(0)]
<1>1. DOMAIN f = {} /\ \A S : f \in [{} -> S]
  OBVIOUS
<1> QED
  BY <1>1 DEF NotServing

LEMMA NoChecksAre == DOMAIN NoChecks = {} /\ NoChecks \in [DOMAIN NoChecks -> 0..MaxLoads]
<1> DEFINE f == [n \in {} |-> 0]
<1>1. DOMAIN f = {} /\ f \in [{} -> 0..MaxLoads]
  OBVIOUS
<1> QED
  BY <1>1 DEF NoChecks

LEMMA DownIsEmpty ==
  ASSUME RouterOK, loads = 0
  PROVE  DOMAIN router = {}
<1>1. loads > 0 <=> DOMAIN router # {}
  BY DEF RouterOK
<1>2. ~(loads > 0)
  OBVIOUS
<1> QED
  BY <1>1, <1>2

LEMMA TypeInit == Init => TypeOK
<1> SUFFICES ASSUME Init PROVE TypeOK
  OBVIOUS
<1> USE ProvidersAssumption, NoSectionsAre DEF Init
<1>1. FileOK
  BY FileInit DEF FileInv
<1>2. RouterOK
  <2>1. DOMAIN router = {} /\ \A S : router \in [DOMAIN router -> S]
    BY NotServingIs
  <2>2. router \in [DOMAIN router -> [config : Loads, pool : Loads]]
    BY ONLY <2>1
  <2>3. loads > 0 <=> DOMAIN router # {}
    BY <2>1
  <2>4. DOMAIN router \subseteq Names
    BY <2>1
  <2>5. loads \in 0..MaxLoads
    OBVIOUS
  <2>6. overlap \in BOOLEAN
    OBVIOUS
  <2> QED
    BY ONLY <2>2, <2>3, <2>4, <2>5, <2>6 DEF RouterOK
<1>3. ReloadsOK
  BY DEF ReloadsOK, NoReload
<1>4. RequestsOK
  BY DEF RequestsOK, NoRequest
<1>5. ChecksOK
  BY NoChecksAre DEF ChecksOK
<1> QED
  BY <1>1, <1>2, <1>3, <1>4, <1>5 DEF TypeOK

\* The commands and the editor change nothing of the server.
LEMMA TypeKept ==
  ASSUME TypeOK, UNCHANGED serverVars
  PROVE  RouterOK' /\ ReloadsOK' /\ RequestsOK'
BY DEF TypeOK, serverVars, RouterOK, ReloadsOK, RequestsOK

\* Starting the health checks, or one of them, changes nothing else.
LEMMA CheckStep ==
  ASSUME StartBackgroundTasks \/ \E n \in Names : BeginCheck(n)
  PROVE  UNCHANGED <<fileVars, loads, router, lock, reload, request, overlap, late>>
BY DEF StartBackgroundTasks, BeginCheck

LEMMA TypeStart == TypeOK /\ Start => RouterOK' /\ ReloadsOK' /\ RequestsOK'
<1> SUFFICES ASSUME TypeOK, Start PROVE RouterOK' /\ ReloadsOK' /\ RequestsOK'
  OBVIOUS
<1> USE DEF TypeOK
<1>1. PICK accepted \in SUBSET DOMAIN file.sections :
        /\ accepted # {}
        /\ router' = [n \in accepted |-> Fresh(1)]
  BY DEF Start, Accepted
<1>2. file.sections \in [DOMAIN file.sections -> Worth] /\ DOMAIN file.sections \subseteq Names
  BY NoSectionsAre, SectionsAre DEF FileOK, Absent, Unreadable, Toml
<1>3. loads = 0 /\ loads' = 1 /\ UNCHANGED <<lock, reload, request, overlap>>
  BY DEF Start
<1>4. RouterOK'
  BY <1>1, <1>2, <1>3, ProvidersAssumption DEF RouterOK, Fresh, Loads
<1>5. DOMAIN router = {}
  BY <1>3, DownIsEmpty
<1>6. ReloadsOK'
  BY <1>3, <1>5 DEF ReloadsOK
<1>7. RequestsOK'
  BY <1>3, <1>5 DEF RequestsOK
<1> QED
  BY <1>4, <1>6, <1>7

LEMMA TypeStop == TypeOK /\ Stop => RouterOK' /\ ReloadsOK' /\ RequestsOK'
<1> SUFFICES ASSUME TypeOK, Stop PROVE RouterOK' /\ ReloadsOK' /\ RequestsOK'
  OBVIOUS
<1>1. RouterOK'
  <2>1. DOMAIN router' = {} /\ \A S : router' \in [DOMAIN router' -> S]
    BY NotServingIs DEF Stop
  <2>2. loads' = 0 /\ overlap' = FALSE
    BY DEF Stop
  <2>3. router' \in [DOMAIN router' -> [config : Loads, pool : Loads]]
    BY ONLY <2>1
  <2>4. loads' > 0 <=> DOMAIN router' # {}
    BY <2>1, <2>2
  <2>5. loads' \in 0..MaxLoads
    BY <2>2, ProvidersAssumption
  <2>7. overlap' \in BOOLEAN
    BY <2>2
  <2>6. DOMAIN router' \subseteq Names
    BY <2>1, <2>2
  <2> QED
    BY ONLY <2>3, <2>4, <2>5, <2>6, <2>7 DEF RouterOK, Loads
<1>2. ReloadsOK'
  BY ProvidersAssumption, NoSectionsAre DEF Stop, ReloadsOK, NoReload
<1>3. RequestsOK'
  BY ProvidersAssumption DEF Stop, RequestsOK, NoRequest
<1> QED
  BY <1>1, <1>2, <1>3

\* What is to do for a reload shrinks.
LEMMA TodoShrinks ==
  ASSUME TypeOK, NEW r \in Reloads, NEW n \in Names
  PROVE  Without(reload[r].todo, n) \in Sections
BY SectionsClosed DEF TypeOK, ReloadsOK

LEMMA TypeReload ==
  ASSUME TypeOK, NEW r \in Reloads, ReloadStep(r)
  PROVE  RouterOK' /\ ReloadsOK' /\ RequestsOK'
<1> USE DEF TypeOK
<1>1. CASE LoadConfig(r)
  <2>1. file.sections \in Sections
    BY NoSectionsAre DEF FileOK, Absent, Unreadable, Toml
  <2>2. loads \in Nat /\ loads' = loads + 1 /\ loads' \in 0..MaxLoads
    BY <1>1, ProvidersAssumption DEF LoadConfig, RouterOK
  <2>3. RouterOK'
    BY <1>1, <2>2 DEF LoadConfig, RouterOK
  <2>4. ReloadsOK'
    BY <1>1, <2>1, <2>2, ProvidersAssumption DEF LoadConfig, ReloadsOK
  <2>5. RequestsOK'
    BY <1>1 DEF LoadConfig, RequestsOK
  <2> QED
    BY <2>3, <2>4, <2>5
<1>2. CASE Lock(r)
  <2>1. RouterOK' /\ RequestsOK'
    BY <1>2 DEF Lock, RouterOK, RequestsOK
  <2>2. ReloadsOK'
    BY <1>2, ProvidersAssumption DEF Lock, ReloadsOK
  <2> QED
    BY <2>1, <2>2
<1>3. ASSUME NEW n \in Names, AssignConfig(r, n)
      PROVE  RouterOK' /\ ReloadsOK' /\ RequestsOK'
  <2>1. n \in DOMAIN router /\ n \in DOMAIN reload[r].todo /\ reload[r].step = "config"
    BY <1>3 DEF AssignConfig
  <2>2. reload[r].todo[n] \in Worth
    BY <2>1, SectionsAre DEF ReloadsOK
  <2>3. reload[r].load \in Loads
    BY <2>1 DEF ReloadsOK, RouterOK, Loads
  <2>4. RouterOK'
    BY <1>3, <2>1, <2>2, <2>3 DEF AssignConfig, RouterOK
  <2>5. DOMAIN router' = DOMAIN router
    BY <1>3 DEF AssignConfig
  <2>6. ReloadsOK'
    <3>1. reload' = [reload EXCEPT ![r].step = "pool", ![r].name = n] /\ UNCHANGED <<lock, loads>>
      BY <1>3 DEF AssignConfig
    <3>2. /\ \A q \in Reloads : q # r => reload'[q] = reload[q]
          /\ reload'[r].step = "pool" /\ reload'[r].name = n
          /\ reload'[r].load = reload[r].load
      BY <3>1 DEF ReloadsOK
    <3> DEFINE Rec == [step : {"idle", "lock", "config", "pool"},
                                 load : 0..MaxLoads, todo : Sections,
                                 name : Names \cup {"none"}]
               next == [reload[r] EXCEPT !.step = "pool", !.name = n]
    <3>3. reload' \in [Reloads -> Rec]
      <4>1. reload \in [Reloads -> Rec] /\ reload[r] \in Rec
        BY DEF ReloadsOK
      <4>2. next \in Rec
        BY <4>1
      <4>3. reload' = [reload EXCEPT ![r] = next]
        BY <3>1
      <4> QED
        BY ONLY <4>1, <4>2, <4>3
    <3>4. lock' \in Reloads \cup {"nobody"}
      BY <3>1 DEF ReloadsOK
    <3>5. ASSUME NEW q \in Reloads
          PROVE  /\ reload'[q].load <= loads'
                 /\ reload'[q].step # "idle" => reload'[q].load > 1
                 /\ lock' = q <=> reload'[q].step \in {"config", "pool"}
                 /\ reload'[q].step = "pool" => reload'[q].name \in DOMAIN router'
      BY <2>1, <2>5, <3>1, <3>2 DEF ReloadsOK
    <3> QED
      BY <3>3, <3>4, <3>5 DEF ReloadsOK
  <2>7. RequestsOK'
    BY <1>3, <2>5 DEF AssignConfig, Disturb, RequestsOK
  <2> QED
    BY <2>4, <2>6, <2>7
<1>4. CASE AssignPool(r)
  <2>1. reload[r].step = "pool" /\ reload[r].name \in DOMAIN router /\ reload[r].name \in Names
    BY <1>4 DEF AssignPool, ReloadsOK, RouterOK
  <2>2. reload[r].load \in Loads
    BY <2>1 DEF ReloadsOK, RouterOK, Loads
  <2>3. RouterOK'
    BY <1>4, <2>1, <2>2 DEF AssignPool, RouterOK
  <2>4. DOMAIN router' = DOMAIN router
    BY <1>4 DEF AssignPool
  <2>5. ReloadsOK'
    <3>1. /\ reload' = [reload EXCEPT ![r].step = "config", ![r].name = "none",
                                      ![r].todo = Without(@, reload[r].name)]
          /\ UNCHANGED <<lock, loads>>
      BY <1>4 DEF AssignPool
    <3>2. /\ \A q \in Reloads : q # r => reload'[q] = reload[q]
          /\ reload'[r].step = "config" /\ reload'[r].load = reload[r].load
      BY <3>1 DEF ReloadsOK
    <3>3. Without(reload[r].todo, reload[r].name) \in Sections
      BY <2>1, TodoShrinks
    <3> DEFINE Rec == [step : {"idle", "lock", "config", "pool"},
                                 load : 0..MaxLoads, todo : Sections,
                                 name : Names \cup {"none"}]
               next == [reload[r] EXCEPT !.step = "config", !.name = "none",
                                         !.todo = Without(@, reload[r].name)]
    <3>4. reload' \in [Reloads -> Rec]
      <4>1. reload \in [Reloads -> Rec] /\ reload[r] \in Rec
        BY DEF ReloadsOK
      <4>2. next \in Rec
        BY <3>3, <4>1
      <4>3. reload' = [reload EXCEPT ![r] = next]
        BY <3>1
      <4> QED
        BY ONLY <4>1, <4>2, <4>3
    <3>5. lock' \in Reloads \cup {"nobody"}
      BY <3>1 DEF ReloadsOK
    <3>6. ASSUME NEW q \in Reloads
          PROVE  /\ reload'[q].load <= loads'
                 /\ reload'[q].step # "idle" => reload'[q].load > 1
                 /\ lock' = q <=> reload'[q].step \in {"config", "pool"}
                 /\ reload'[q].step = "pool" => reload'[q].name \in DOMAIN router'
      BY <2>1, <2>4, <3>1, <3>2 DEF ReloadsOK
    <3> QED
      BY <3>4, <3>5, <3>6 DEF ReloadsOK
  <2>6. RequestsOK'
    BY <1>4, <2>4 DEF AssignPool, Disturb, RequestsOK
  <2> QED
    BY <2>3, <2>5, <2>6
<1>5. ASSUME NEW n \in Names, AddNew(r, n)
      PROVE  RouterOK' /\ ReloadsOK' /\ RequestsOK'
  <2>1. reload[r].step = "config" /\ n \in DOMAIN reload[r].todo \ DOMAIN router
    BY <1>5 DEF AddNew
  <2>2. Fresh(reload[r].load) \in
          [config : Loads, pool : Loads]
    BY <2>1, SectionsAre DEF ReloadsOK, RouterOK, Loads, Fresh
  <2>3. router' = With(router, n, Fresh(reload[r].load))
    BY <1>5 DEF AddNew
  <2>4. router' \in [DOMAIN router \cup {n} -> [config : Loads, pool : Loads]]
    BY <2>2, <2>3 DEF RouterOK, With
  <2>5. RouterOK'
    BY <1>5, <2>1, <2>4 DEF AddNew, RouterOK, ReloadsOK
  <2>6. ReloadsOK'
    BY <1>5, <2>1, <2>4, TodoShrinks DEF AddNew, ReloadsOK
  <2>7. RequestsOK'
    BY <1>5, <2>4 DEF AddNew, RequestsOK
  <2> QED
    BY <2>5, <2>6, <2>7
<1>6. CASE Unlock(r)
  <2>1. RouterOK' /\ RequestsOK'
    BY <1>6 DEF Unlock, RouterOK, RequestsOK
  <2>2. ReloadsOK'
    BY <1>6, ProvidersAssumption, NoSectionsAre DEF Unlock, NoReload, ReloadsOK, RouterOK
  <2> QED
    BY <2>1, <2>2
<1> QED
  BY <1>1, <1>2, <1>3, <1>4, <1>5, <1>6 DEF ReloadStep

LEMMA TypeRequest ==
  ASSUME TypeOK, NEW c \in Clients, RequestStep(c)
  PROVE  RouterOK' /\ ReloadsOK' /\ RequestsOK'
<1> USE DEF TypeOK
<1>1. UNCHANGED <<fileVars, loads, router, checks, lock, reload, overlap, late>>
  BY DEF RequestStep, LookUp, ReadConfig, ReadPool, Finish
<1>2. RouterOK' /\ ReloadsOK'
  BY <1>1 DEF RouterOK, ReloadsOK
<1>3. ASSUME NEW n \in Names, LookUp(c, n)
      PROVE  RequestsOK'
  <2>1. /\ n \in DOMAIN router
        /\ request' = [request EXCEPT ![c] =
             [step |-> "config", name |-> n, config |-> 0, pool |-> 0, alone |-> TRUE]]
    BY <1>3 DEF LookUp
  <2>2. 0 \in 0..MaxLoads
    BY ProvidersAssumption
  <2> QED
    BY <1>1, <2>1, <2>2 DEF RequestsOK
<1>4. CASE ReadConfig(c)
  <2>1. router[request[c].name].config \in 0..MaxLoads
    BY <1>4 DEF ReadConfig, RequestsOK, RouterOK, Loads
  <2> QED
    BY <1>1, <1>2, <1>4, <2>1 DEF ReadConfig, RequestsOK
<1>5. CASE ReadPool(c)
  <2>1. router[request[c].name].pool \in 0..MaxLoads
    BY <1>5 DEF ReadPool, RequestsOK, RouterOK, Loads
  <2>2. request' = [request EXCEPT ![c].step = "using",
                                   ![c].pool = router[request[c].name].pool,
                                   ![c].name = "none"]
    BY <1>5 DEF ReadPool
  <2> DEFINE Rec == [step : {"idle", "config", "pool", "using"},
                     name : Names \cup {"none"}, config : 0..MaxLoads,
                     pool : 0..MaxLoads, alone : BOOLEAN]
             read == router[request[c].name].pool
             next == [request[c] EXCEPT !.step = "using", !.pool = read, !.name = "none"]
  <2>3. RequestsOK'
    <3>1. request \in [Clients -> Rec] /\ request[c] \in Rec
      BY DEF RequestsOK
    <3>2. next \in Rec /\ next.step = "using"
      BY <2>1, <3>1
    <3>3. request' = [request EXCEPT ![c] = next]
      BY <2>2
    <3> HIDE DEF next
    <3>4. request' \in [Clients -> Rec]
      BY <3>1, <3>2, <3>3
    <3>5. \A d \in Clients : request'[d].step \in {"config", "pool"} =>
            request'[d].name \in DOMAIN router
      BY <3>1, <3>2, <3>3 DEF RequestsOK
    <3> QED
      BY <1>1, <3>4, <3>5 DEF RequestsOK
  <2> QED
    BY <1>2, <2>3
<1>6. CASE Finish(c)
  BY <1>1, <1>2, <1>6, ProvidersAssumption DEF Finish, NoRequest, RequestsOK
<1> QED
  BY <1>2, <1>3, <1>4, <1>5, <1>6 DEF RequestStep

\* What a step of a reload does to providers and their health checks.
LEMMA ReloadAndChecks ==
  ASSUME NEW r \in Reloads, ReloadStep(r)
  PROVE  /\ checks' = checks /\ DOMAIN router \subseteq DOMAIN router'
         /\ late' = late \/ \E n \in DOMAIN router' : late' = late \cup {n}
<1>1. CASE LoadConfig(r) \/ Lock(r) \/ AssignPool(r) \/ Unlock(r)
  BY <1>1 DEF LoadConfig, Lock, AssignPool, Unlock
<1>2. ASSUME NEW n \in Names, AssignConfig(r, n)
      PROVE  /\ checks' = checks /\ DOMAIN router' = DOMAIN router
             /\ n \in DOMAIN router'
             /\ late' = late \/ late' = late \cup {n}
  BY <1>2 DEF AssignConfig, TooLate
<1>3. ASSUME NEW n \in Names, AddNew(r, n)
      PROVE  /\ checks' = checks /\ DOMAIN router' = DOMAIN router \cup {n}
             /\ late' = late \/ late' = late \cup {n}
  BY <1>3 DEF AddNew, TooLate, With
<1> QED
  BY <1>1, <1>2, <1>3 DEF ReloadStep

LEMMA TypeChecks == TypeOK /\ [Next]_vars => ChecksOK'
<1> SUFFICES ASSUME TypeOK, [Next]_vars PROVE ChecksOK'
  OBVIOUS
<1> USE DEF TypeOK, ChecksOK
<1>1. CASE UNCHANGED serverVars
  BY <1>1 DEF serverVars
<1>2. (CommandStep \/ Edit \/ UNCHANGED vars) => UNCHANGED serverVars
  BY DEF CommandStep, Edit, AddProvider, RemoveProvider, InitConfig, WriteConfig,
         InterruptCommand, Rewrite, vars
<1>3. CASE Start
  <2>1. UNCHANGED <<checks, late>> /\ DOMAIN router = {}
    BY <1>3, DownIsEmpty DEF Start
  <2> QED
    BY <2>1
<1>4. CASE Stop
  BY <1>4, NoChecksAre DEF Stop
<1>5. CASE StartBackgroundTasks
  BY <1>5, ProvidersAssumption DEF StartBackgroundTasks
<1>6. ASSUME NEW n \in Names, BeginCheck(n)
      PROVE  ChecksOK'
  <2>1. /\ n \in DOMAIN router /\ UNCHANGED <<router, late>>
        /\ checks' = [checks EXCEPT ![n] = router[n].config]
    BY <1>6 DEF BeginCheck
  <2>2. router[n].config \in 0..MaxLoads
    BY <2>1 DEF RouterOK, Loads
  <2> QED
    BY <2>1, <2>2
<1>7. ASSUME NEW r \in Reloads, ReloadStep(r)
      PROVE  ChecksOK'
  BY <1>7, ReloadAndChecks
<1>8. ASSUME NEW c \in Clients, RequestStep(c)
      PROVE  ChecksOK'
  <2>1. UNCHANGED <<router, checks, late>>
    BY <1>8 DEF RequestStep, LookUp, ReadConfig, ReadPool, Finish
  <2> QED
    BY <2>1
<1> QED
  BY <1>1, <1>2, <1>3, <1>4, <1>5, <1>6, <1>7, <1>8 DEF Next

LEMMA TypeNext == TypeOK /\ FileInv /\ [Next]_vars => TypeOK'
<1> SUFFICES ASSUME TypeOK, FileInv, [Next]_vars PROVE TypeOK'
  OBVIOUS
<1>1. FileOK' /\ ChecksOK'
  BY FileNext, TypeChecks DEF FileInv
<1>2. CASE UNCHANGED serverVars
  BY <1>1, <1>2, TypeKept DEF TypeOK
<1>3. (CommandStep \/ Edit \/ UNCHANGED vars) => UNCHANGED serverVars
  BY DEF CommandStep, Edit, AddProvider, RemoveProvider, InitConfig, WriteConfig,
         InterruptCommand, Rewrite, vars
<1>4. CASE Start \/ Stop
  BY <1>1, <1>4, TypeStart, TypeStop DEF TypeOK
<1>5. CASE StartBackgroundTasks \/ \E n \in Names : BeginCheck(n)
  <2>1. RouterOK' /\ ReloadsOK' /\ RequestsOK'
    BY <1>5, CheckStep DEF TypeOK, RouterOK, ReloadsOK, RequestsOK
  <2> QED
    BY <1>1, <2>1 DEF TypeOK
<1> QED
  BY <1>1, <1>2, <1>3, <1>4, <1>5, TypeReload, TypeRequest DEF Next, TypeOK

\* However commands, reloads, requests and restarts interleave, whoever uses a
\* provider finds it served, and one reload at a time assigns (handlers.go:682).
THEOREM ProvidersTypeCorrect == Spec => []TypeOK
BY TypeInit, FileInit, TypeNext, FileNext, PTL DEF Spec

------------------------------------------------------------------------------
(* Loads.                                                                  *)

\* A reload has assigned the Config of a provider and not yet the Pool.
Between(n) ==
  \E r \in Reloads : reload[r].step = "pool" /\ reload[r].name = n

\* Config and Pool differ only there, and there only for the requests that the
\* reload has disturbed.
WholeInv ==
  /\ \A r \in Reloads :
       reload[r].step = "pool" => router[reload[r].name].config = reload[r].load
  /\ \A n \in DOMAIN router : router[n].config = router[n].pool \/ Between(n)
  /\ \A c \in Clients : request[c].step \in {"config", "pool"} /\ request[c].alone =>
       router[request[c].name].config = router[request[c].name].pool
  /\ \A c \in Clients : request[c].step = "pool" /\ request[c].alone =>
       request[c].config = router[request[c].name].config
  /\ \A c \in Clients : request[c].step = "using" /\ request[c].alone =>
       request[c].config = request[c].pool

LEMMA WholeInit == Init => WholeInv
BY NotServingIs DEF Init, WholeInv, NoRequest, NoReload

\* Nobody is between the two while the lock is free.
LEMMA FreeIsWhole == TypeOK /\ WholeInv => LoadsAreWhole
<1> SUFFICES ASSUME TypeOK, WholeInv, lock = "nobody", NEW n \in DOMAIN router
             PROVE  router[n].config = router[n].pool
  BY DEF LoadsAreWhole
<1>1. \A r \in Reloads : reload[r].step # "pool"
  BY ProvidersAssumption DEF TypeOK, ReloadsOK
<1>2. ~Between(n)
  BY <1>1 DEF Between
<1> QED
  BY <1>2 DEF WholeInv

\* A step that leaves alone the router, the requests and whoever is between.
LEMMA WholeKept ==
  ASSUME WholeInv, UNCHANGED <<router, request>>,
         \A r \in Reloads : \/ reload'[r] = reload[r]
                            \/ reload[r].step # "pool" /\ reload'[r].step # "pool"
  PROVE  WholeInv'
BY DEF WholeInv, Between

\* A step of a reload at provider n, whose requests it disturbs.
LEMMA WholeAt ==
  ASSUME TypeOK, WholeInv, NEW n \in DOMAIN router,
         DOMAIN router' = DOMAIN router,
         \A m \in DOMAIN router : m # n => router'[m] = router[m],
         \A m \in DOMAIN router : m # n /\ Between(m) => Between(m)',
         router'[n].config = router'[n].pool \/ Between(n)',
         \A q \in Reloads :
           reload'[q].step = "pool" => router'[reload'[q].name].config = reload'[q].load,
         Disturb(n)
  PROVE  WholeInv'
<1>1. ASSUME NEW c \in Clients
      PROVE  /\ request[c].name # n => request'[c] = request[c]
             /\ request[c].name = n => /\ request'[c].alone = FALSE
                                      /\ request'[c].step = request[c].step
  BY DEF Disturb, RequestsOK, TypeOK
<1>2. \A m \in DOMAIN router' : router'[m].config = router'[m].pool \/ Between(m)'
  BY DEF WholeInv
<1>3. ASSUME NEW c \in Clients, request'[c].alone
      PROVE  /\ request'[c] = request[c]
             /\ request[c].step \in {"config", "pool"} =>
                  router'[request[c].name] = router[request[c].name]
  BY <1>1, <1>3 DEF TypeOK, RequestsOK
<1> QED
  BY <1>2, <1>3 DEF WholeInv

LEMMA WholeReload ==
  ASSUME TypeOK, WholeInv, NEW r \in Reloads, ReloadStep(r)
  PROVE  WholeInv'
<1> USE DEF TypeOK, ReloadsOK
<1>1. CASE LoadConfig(r)
  BY <1>1, WholeKept DEF LoadConfig
<1>2. CASE Lock(r)
  BY <1>2, WholeKept DEF Lock
<1>3. CASE Unlock(r)
  BY <1>3, WholeKept DEF Unlock, NoReload
<1>4. ASSUME NEW n \in Names, AssignConfig(r, n)
      PROVE  WholeInv'
  <2>1. /\ n \in DOMAIN router /\ reload[r].step = "config" /\ lock = r
        /\ router' = [router EXCEPT ![n].config = reload[r].load]
        /\ reload' = [reload EXCEPT ![r].step = "pool", ![r].name = n]
        /\ Disturb(n)
    BY <1>4 DEF AssignConfig
  <2>2. router'[n].config = reload[r].load
    <3>1. router[n] \in [config : Loads, pool : Loads]
      BY <2>1 DEF RouterOK
    <3>2. router'[n] = [router[n] EXCEPT !.config = reload[r].load]
      BY <2>1
    <3> QED
      BY <3>1, <3>2
  <2>3. /\ reload'[r].step = "pool" /\ reload'[r].name = n
        /\ reload'[r].load = reload[r].load
        /\ \A q \in Reloads : q # r => reload'[q] = reload[q] /\ reload[q].step # "pool"
    BY <2>1
  <2>4. Between(n)' /\ \A m \in DOMAIN router : ~Between(m)
    BY <2>1, <2>3 DEF Between
  <2>5. /\ DOMAIN router' = DOMAIN router
        /\ \A m \in DOMAIN router : m # n => router'[m] = router[m]
    BY <2>1
  <2>6. \A q \in Reloads :
          reload'[q].step = "pool" => router'[reload'[q].name].config = reload'[q].load
    BY <2>2, <2>3
  <2> QED
    BY <2>1, <2>4, <2>5, <2>6, WholeAt
<1>5. CASE AssignPool(r)
  <2>1. PICK n \in DOMAIN router : reload[r].name = n
    BY <1>5 DEF AssignPool
  <2>2. /\ reload[r].step = "pool" /\ lock = r
        /\ router' = [router EXCEPT ![n].pool = reload[r].load]
        /\ Disturb(n)
    BY <1>5, <2>1 DEF AssignPool
  <2>3. \A q \in Reloads : reload'[q].step # "pool"
    BY <1>5, <2>2 DEF AssignPool
  <2>4. router'[n].config = reload[r].load /\ router'[n].pool = reload[r].load
    BY <2>1, <2>2 DEF WholeInv, RouterOK
  <2>5. \A m \in DOMAIN router : m # n => ~Between(m)
    BY <2>1, <2>2 DEF Between
  <2>6. /\ DOMAIN router' = DOMAIN router
        /\ \A m \in DOMAIN router : m # n => router'[m] = router[m]
    BY <2>2
  <2> QED
    BY <2>2, <2>3, <2>4, <2>5, <2>6, WholeAt
<1>6. ASSUME NEW n \in Names, AddNew(r, n)
      PROVE  WholeInv'
  <2> DEFINE v == Fresh(reload[r].load)
  <2>1. /\ n \notin DOMAIN router /\ router' = With(router, n, v)
        /\ reload[r].step = "config" /\ lock = r
        /\ UNCHANGED request
    BY <1>6 DEF AddNew
  <2>2. v.config = v.pool
    BY DEF Fresh
  <2>3. \A q \in Reloads : reload[q].step # "pool" /\ reload'[q].step # "pool"
    BY <1>6, <2>1 DEF AddNew
  <2> HIDE DEF v
  <2>4. /\ DOMAIN router' = DOMAIN router \cup {n} /\ router'[n] = v
        /\ \A m \in DOMAIN router : router'[m] = router[m]
    BY <2>1 DEF With
  <2>5. \A m \in DOMAIN router : router[m].config = router[m].pool
    BY <2>3 DEF WholeInv, Between
  <2>6. \A m \in DOMAIN router' : router'[m].config = router'[m].pool
    BY <2>2, <2>4, <2>5
  <2>7. \A c \in Clients : request[c].step \in {"config", "pool"} =>
          router'[request[c].name] = router[request[c].name]
    BY <2>4 DEF RequestsOK
  <2> QED
    BY <2>1, <2>3, <2>6, <2>7 DEF WholeInv
<1> QED
  BY <1>1, <1>2, <1>3, <1>4, <1>5, <1>6 DEF ReloadStep

LEMMA WholeRequest ==
  ASSUME TypeOK, WholeInv, NEW c \in Clients, RequestStep(c)
  PROVE  WholeInv'
<1> USE DEF TypeOK, RequestsOK
<1>1. UNCHANGED <<router, reload>> /\ \A d \in Clients : d # c => request'[d] = request[d]
  BY DEF RequestStep, LookUp, ReadConfig, ReadPool, Finish
<1>2. \A n : Between(n)' <=> Between(n)
  BY <1>1 DEF Between
<1>3. ASSUME NEW n \in Names, LookUp(c, n)
      PROVE  WholeInv'
  <2>1. n \in DOMAIN router /\ lock = "nobody"
    BY <1>3 DEF LookUp
  <2>2. router[n].config = router[n].pool
    BY <2>1, FreeIsWhole DEF LoadsAreWhole
  <2>3. request'[c].name = n /\ request'[c].step = "config"
    BY <1>3 DEF LookUp
  <2> QED
    BY <1>1, <1>2, <2>2, <2>3 DEF WholeInv
<1>4. CASE ReadConfig(c)
  <2>1. /\ request[c].step = "config" /\ request'[c].step = "pool"
        /\ request'[c].name = request[c].name /\ request'[c].alone = request[c].alone
        /\ request'[c].config = router[request[c].name].config
    BY <1>4 DEF ReadConfig
  <2> QED
    BY <1>1, <1>2, <2>1 DEF WholeInv
<1>5. CASE ReadPool(c)
  <2>1. /\ request[c].step = "pool" /\ request'[c].step = "using"
        /\ request'[c].config = request[c].config /\ request'[c].alone = request[c].alone
        /\ request'[c].pool = router[request[c].name].pool
    BY <1>5 DEF ReadPool
  <2> QED
    BY <1>1, <1>2, <2>1 DEF WholeInv
<1>6. CASE Finish(c)
  <2>1. request'[c].step = "idle"
    BY <1>6 DEF Finish, NoRequest
  <2> QED
    BY <1>1, <1>2, <2>1 DEF WholeInv
<1> QED
  BY <1>3, <1>4, <1>5, <1>6 DEF RequestStep

\* A start and a stop: nobody uses a provider, and none is between.
LEMMA WholeRestart ==
  ASSUME TypeOK, WholeInv, Start \/ Stop
  PROVE  WholeInv'
<1>1. CASE Start
  <2>1. \A n \in DOMAIN router' : router'[n].config = router'[n].pool
    BY <1>1 DEF Start, Fresh
  <2>2. UNCHANGED <<reload, request>> /\ DOMAIN router = {}
    BY <1>1, DownIsEmpty DEF Start, TypeOK
  <2> QED
    BY <2>1, <2>2 DEF WholeInv, TypeOK, ReloadsOK, RequestsOK
<1>2. CASE Stop
  BY <1>2 DEF Stop, WholeInv, NotServing, NoReload, NoRequest
<1> QED
  BY <1>1, <1>2

LEMMA WholeNext == TypeOK /\ WholeInv /\ [Next]_vars => WholeInv'
<1> SUFFICES ASSUME TypeOK, WholeInv, [Next]_vars PROVE WholeInv'
  OBVIOUS
<1>1. CASE UNCHANGED serverVars
  BY <1>1, WholeKept DEF serverVars
<1>2. (CommandStep \/ Edit \/ UNCHANGED vars) => UNCHANGED serverVars
  BY DEF CommandStep, Edit, AddProvider, RemoveProvider, InitConfig, WriteConfig,
         InterruptCommand, Rewrite, vars
<1>3. CASE StartBackgroundTasks \/ \E n \in Names : BeginCheck(n)
  BY <1>3, CheckStep, WholeKept
<1> QED
  BY <1>1, <1>2, <1>3, WholeReload, WholeRequest, WholeRestart DEF Next

\* Whenever the lock is free, the Config and the Pool of a provider come from the
\* same load, however many reloads overlapped (handlers.go:682-705).
THEOREM LoadsWhole == Spec => []LoadsAreWhole
<1>1. TypeOK /\ WholeInv => LoadsAreWhole
  BY FreeIsWhole
<1> QED
  BY <1>1, ProvidersTypeCorrect, WholeInit, WholeNext, PTL DEF Spec

\* A request uses the Config and the Pool of one load, unless a reload of its
\* provider came in between (handlers.go:96, 112-113).
THEOREM RequestsWhole == Spec => []RequestIsWhole
<1>1. WholeInv => RequestIsWhole
  BY DEF WholeInv, RequestIsWhole
<1> QED
  BY <1>1, ProvidersTypeCorrect, WholeInit, WholeNext, PTL DEF Spec

------------------------------------------------------------------------------
(* What reloads bring.                                                     *)

\* A step of reload r at the router: it leaves a provider alone, assigns one of the
\* fields, or adds the provider.
LEMMA RouterStep ==
  ASSUME TypeOK, NEW r \in Reloads, ReloadStep(r)
  PROVE  /\ DOMAIN router \subseteq DOMAIN router'
         /\ \A n \in DOMAIN router' :
              \/ n \in DOMAIN router /\ router'[n].config = router[n].config
              \/ reload[r].step # "idle" /\ router'[n].config = reload[r].load
<1> USE DEF TypeOK, RouterOK, ReloadsOK
<1>2. CASE LoadConfig(r) \/ Lock(r) \/ Unlock(r)
  BY <1>2 DEF LoadConfig, Lock, Unlock
<1>3. ASSUME NEW n \in Names, AssignConfig(r, n)
      PROVE  /\ DOMAIN router' = DOMAIN router
             /\ \A m \in DOMAIN router : m # n => router'[m] = router[m]
             /\ reload[r].step # "idle" /\ router'[n].config = reload[r].load
  <2>1. n \in DOMAIN router /\ reload[r].step = "config"
    BY <1>3 DEF AssignConfig
  <2>2. router' = [router EXCEPT ![n] = [router[n] EXCEPT !.config = reload[r].load]]
    BY <1>3 DEF AssignConfig
  <2>3. router[n] \in [config : Loads, pool : Loads]
    BY <2>1
  <2> QED
    BY <2>1, <2>2, <2>3
<1>4. CASE AssignPool(r)
  <2>1. PICK n \in DOMAIN router : reload[r].name = n
    BY <1>4 DEF AssignPool
  <2>2. router' = [router EXCEPT ![n] = [router[n] EXCEPT !.pool = reload[r].load]]
    BY <1>4, <2>1 DEF AssignPool
  <2>3. router[n] \in [config : Loads, pool : Loads]
    BY <2>1
  <2> QED
    BY <2>1, <2>2, <2>3
<1>5. ASSUME NEW n \in Names, AddNew(r, n)
      PROVE  /\ DOMAIN router' = DOMAIN router \cup {n} /\ n \notin DOMAIN router
             /\ \A m \in DOMAIN router : router'[m] = router[m]
             /\ reload[r].step # "idle" /\ router'[n].config = reload[r].load
  <2> DEFINE v == Fresh(reload[r].load)
  <2>1. n \notin DOMAIN router /\ reload[r].step = "config" /\ router' = With(router, n, v)
    BY <1>5 DEF AddNew
  <2>2. v.config = reload[r].load
    BY DEF Fresh
  <2> HIDE DEF v
  <2>3. /\ DOMAIN router' = DOMAIN router \cup {n} /\ router'[n] = v
        /\ \A m \in DOMAIN router : router'[m] = router[m]
    BY <2>1 DEF With
  <2> QED
    BY <2>1, <2>2, <2>3
<1> QED
  BY <1>2, <1>3, <1>4, <1>5 DEF ReloadStep

\* A step of anybody else leaves the router alone, but for a start and a stop.
LEMMA RouterKept ==
  ASSUME [Next]_vars, ~(Start \/ Stop), \A r \in Reloads : ~ReloadStep(r)
  PROVE  UNCHANGED <<loads, router, reload, overlap>>
<1>1. ASSUME NEW c \in Clients, RequestStep(c)
      PROVE  UNCHANGED <<loads, router, reload, overlap>>
  BY <1>1 DEF RequestStep, LookUp, ReadConfig, ReadPool, Finish
<1>2. (CommandStep \/ Edit \/ UNCHANGED vars) => UNCHANGED serverVars
  BY DEF CommandStep, Edit, AddProvider, RemoveProvider, InitConfig, WriteConfig,
         InterruptCommand, Rewrite, vars
<1> QED
  BY <1>1, <1>2, CheckStep DEF Next, serverVars

\* What a step of a reload assigns is either read by the health check or late.
LEMMA CurrentReload ==
  ASSUME TypeOK, ChecksAreCurrent, NEW r \in Reloads, ReloadStep(r)
  PROVE  ChecksAreCurrent'
<1> USE DEF TypeOK, RouterOK, ChecksOK, ReloadsOK
<1>1. checks' = checks
  BY ReloadAndChecks
<1>2. ASSUME NEW m, \A n \in DOMAIN router' : n # m =>
               n \in DOMAIN router /\ router'[n].config = router[n].config,
             TooLate(m)
      PROVE  ChecksAreCurrent'
  BY <1>1, <1>2 DEF TooLate, Started, ChecksAreCurrent
<1>3. ASSUME UNCHANGED late, \A n \in DOMAIN router' :
               n \in DOMAIN router /\ router'[n].config = router[n].config
      PROVE  ChecksAreCurrent'
  BY <1>1, <1>3 DEF Started, ChecksAreCurrent
<1>4. CASE LoadConfig(r) \/ Lock(r) \/ Unlock(r)
  BY <1>3, <1>4 DEF LoadConfig, Lock, Unlock
<1>5. CASE AssignPool(r)
  <2>1. PICK n \in DOMAIN router : reload[r].name = n
    BY <1>5 DEF AssignPool
  <2>2. router' = [router EXCEPT ![n] = [router[n] EXCEPT !.pool = reload[r].load]]
    BY <1>5, <2>1 DEF AssignPool
  <2>3. router[n] \in [config : Loads, pool : Loads] /\ UNCHANGED late
    BY <1>5, <2>1 DEF AssignPool
  <2> QED
    BY <1>3, <2>1, <2>2, <2>3
<1>6. ASSUME NEW n \in Names, AssignConfig(r, n)
      PROVE  ChecksAreCurrent'
  <2>1. /\ DOMAIN router' = DOMAIN router /\ TooLate(n)
        /\ \A m \in DOMAIN router : m # n => router'[m] = router[m]
    BY <1>6 DEF AssignConfig
  <2> QED
    BY <1>2, <2>1
<1>7. ASSUME NEW n \in Names, AddNew(r, n)
      PROVE  ChecksAreCurrent'
  <2>1. /\ DOMAIN router' = DOMAIN router \cup {n} /\ TooLate(n)
        /\ \A m \in DOMAIN router : router'[m] = router[m]
    BY <1>7 DEF AddNew, With
  <2> QED
    BY <1>2, <2>1
<1> QED
  BY <1>4, <1>5, <1>6, <1>7 DEF ReloadStep

LEMMA CurrentNext == TypeOK /\ ChecksAreCurrent /\ [Next]_vars => ChecksAreCurrent'
<1> SUFFICES ASSUME TypeOK, ChecksAreCurrent, [Next]_vars PROVE ChecksAreCurrent'
  OBVIOUS
<1> USE DEF ChecksAreCurrent, Started
<1>1. CASE Start
  <2>1. UNCHANGED checks /\ DOMAIN router = {}
    BY <1>1, DownIsEmpty DEF Start, TypeOK
  <2> QED
    BY <2>1 DEF TypeOK, ChecksOK
<1>2. CASE Stop
  BY <1>2, NoChecksAre DEF Stop
<1>3. CASE StartBackgroundTasks
  BY <1>3 DEF StartBackgroundTasks
<1>4. ASSUME NEW n \in Names, BeginCheck(n)
      PROVE  ChecksAreCurrent'
  BY <1>4 DEF BeginCheck, TypeOK, ChecksOK
<1>5. ASSUME NEW c \in Clients, RequestStep(c)
      PROVE  ChecksAreCurrent'
  BY <1>5 DEF RequestStep, LookUp, ReadConfig, ReadPool, Finish
<1>6. CASE UNCHANGED serverVars
  BY <1>6 DEF serverVars
<1>7. (CommandStep \/ Edit \/ UNCHANGED vars) => UNCHANGED serverVars
  BY DEF CommandStep, Edit, AddProvider, RemoveProvider, InitConfig, WriteConfig,
         InterruptCommand, Rewrite, vars
<1> QED
  BY <1>1, <1>2, <1>3, <1>4, <1>5, <1>6, <1>7, CurrentReload DEF Next

\* Once they are started, the health checks ask the addresses that requests are
\* sent to, for every provider that no reload brought or changed after that
\* (start.go:114, 131, manager.go:186-204).
THEOREM ChecksCurrent == Spec => []ChecksAreCurrent
<1>1. Init => ChecksAreCurrent
  BY NoChecksAre DEF Init, ChecksAreCurrent, Started
<1> QED
  BY <1>1, CurrentNext, ProvidersTypeCorrect, PTL DEF Spec

\* No provider has a load that is yet to come, and a reload that runs alone has the
\* latest.
LatestInv ==
  /\ \A n \in DOMAIN router : router[n].config <= loads
  /\ ~overlap => \A r \in Reloads : reload[r].step # "idle" => reload[r].load = loads

\* What a reload does to the loads.
LEMMA LatestReload ==
  ASSUME TypeOK, LatestInv, NEW r \in Reloads, ReloadStep(r)
  PROVE  LatestInv'
<1> USE DEF TypeOK, RouterOK, ReloadsOK
<1>1. loads \in Nat /\ \A q \in Reloads : reload[q].load \in Nat
  BY ProvidersAssumption
<1>2. CASE LoadConfig(r)
  <2>1. /\ UNCHANGED router /\ loads' = loads + 1
        /\ reload'[r].load = loads + 1
        /\ \A q \in Reloads : q # r => reload'[q] = reload[q]
        /\ overlap' = (overlap \/ \E q \in Reloads : reload[q].step # "idle")
    BY <1>2 DEF LoadConfig
  <2>2. \A n \in DOMAIN router : router[n].config \in Nat
    BY DEF Loads
  <2>3. \A n \in DOMAIN router' : router'[n].config <= loads'
    BY <1>1, <2>1, <2>2 DEF LatestInv
  <2>4. ~overlap' => \A q \in Reloads : reload'[q].step # "idle" => reload'[q].load = loads'
    BY <2>1
  <2> QED
    BY <2>3, <2>4 DEF LatestInv
<1>3. CASE ~LoadConfig(r)
  <2>1. UNCHANGED <<loads, overlap>>
    BY <1>3 DEF ReloadStep, Lock, AssignPool, Unlock, AssignConfig, AddNew
  <2>2. \A q \in Reloads : /\ reload'[q].step # "idle" => reload[q].step # "idle"
                           /\ reload'[q].load = reload[q].load \/ reload'[q].step = "idle"
    <3>1. \A q \in Reloads : q # r => reload'[q] = reload[q]
      BY <1>3 DEF ReloadStep, Lock, AssignPool, Unlock, AssignConfig, AddNew
    <3>2. CASE Unlock(r)
      BY <3>1, <3>2 DEF Unlock, NoReload
    <3>3. CASE Lock(r)
      BY <3>1, <3>3 DEF Lock
    <3>4. CASE AssignPool(r)
      BY <3>1, <3>4 DEF AssignPool
    <3>5. ASSUME NEW n \in Names, AssignConfig(r, n) \/ AddNew(r, n)
          PROVE  /\ reload[r].step # "idle"
                 /\ reload'[r].load = reload[r].load
      BY <3>5 DEF AssignConfig, AddNew
    <3> QED
      BY <1>3, <3>1, <3>2, <3>3, <3>4, <3>5 DEF ReloadStep
  <2>3. \A n \in DOMAIN router' : router'[n].config <= loads'
    BY <1>1, <2>1, RouterStep DEF LatestInv
  <2> QED
    BY <2>1, <2>2, <2>3 DEF LatestInv
<1> QED
  BY <1>2, <1>3

LEMMA LatestNext == TypeOK /\ LatestInv /\ [Next]_vars => LatestInv'
<1> SUFFICES ASSUME TypeOK, LatestInv, [Next]_vars PROVE LatestInv'
  OBVIOUS
<1>1. CASE Start
  <2>1. loads' = 1 /\ \A n \in DOMAIN router' : router'[n].config = 1
    BY <1>1 DEF Start, Fresh
  <2>2. \A r \in Reloads : reload'[r].step = "idle"
    <3>1. \A r \in Reloads : reload[r].load <= 0 /\ reload[r].load \in 0..MaxLoads
      BY <1>1 DEF Start, TypeOK, ReloadsOK
    <3>2. \A r \in Reloads : ~(reload[r].load > 1)
      BY <3>1, ProvidersAssumption
    <3> QED
      BY <1>1, <3>2 DEF Start, TypeOK, ReloadsOK
  <2> QED
    BY <2>1, <2>2 DEF LatestInv
<1>2. CASE Stop
  <2>1. DOMAIN router' = {} /\ \A r \in Reloads : reload'[r].step = "idle"
    BY <1>2, NotServingIs DEF Stop, NoReload
  <2> QED
    BY <2>1 DEF LatestInv
<1> QED
  BY <1>1, <1>2, LatestReload, RouterKept DEF LatestInv

\* A reload that runs alone never puts an older load in the place of a newer one,
\* and no reload takes a provider out of service (handlers.go:672-705).
THEOREM GoForward == Spec => ReloadsGoForward
<1> DEFINE A == loads > 0 /\ loads' > 0 =>
                  \A n \in DOMAIN router :
                    /\ n \in DOMAIN router'
                    /\ ~overlap => router'[n].config >= router[n].config
<1>1. Init => LatestInv
  BY NotServingIs DEF Init, LatestInv, NoReload
<1>2. TypeOK /\ LatestInv /\ [Next]_vars => [A]_vars
  <2> SUFFICES ASSUME TypeOK, LatestInv, [Next]_vars, loads > 0, loads' > 0,
                      NEW n \in DOMAIN router
               PROVE  /\ n \in DOMAIN router'
                      /\ ~overlap => router'[n].config >= router[n].config
    OBVIOUS
  <2>1. loads \in Nat /\ router[n].config \in Nat
    BY ProvidersAssumption DEF TypeOK, RouterOK, Loads
  <2>2. ~Start /\ ~Stop
    BY <2>1 DEF Start, Stop
  <2>3. ASSUME NEW r \in Reloads, ReloadStep(r)
        PROVE  /\ n \in DOMAIN router'
               /\ ~overlap => router'[n].config >= router[n].config
    BY <2>1, <2>3, RouterStep DEF LatestInv
  <2> QED
    BY <2>1, <2>2, <2>3, RouterKept
<1> QED
  BY <1>1, <1>2, LatestNext, ProvidersTypeCorrect, PTL DEF Spec, ReloadsGoForward

==============================================================================
