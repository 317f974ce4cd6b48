--------------------------- MODULE LifecycleProofs ---------------------------
(***************************************************************************)
(* For any number of servers, tasks and requests: a PID file that names a  *)
(* process that is gone is the trace of a kill, and a server that leaves   *)
(* in an orderly way has answered its requests or run out of time.         *)
(*                                                                         *)
(* The files of others are what makes the first more than a look at two    *)
(* lines: that a process whose name is in the file has written it, and     *)
(* is not about to fail its start, has to hold beside everything that      *)
(* other servers and the command do to the file.                           *)
(***************************************************************************)
EXTENDS Lifecycle, TLAPS

\* A file names a server only after that server wrote it.
WritersOnly ==
  \A s \in Servers : pidFile = s => phase[s] \notin {"new", "listen", "open", "write"}

\* Requests come with the listener, and behind the draining only late ones are left.
LateOnly ==
  \A s \in Servers :
    /\ phase[s] \in {"new", "listen"} => active[s] = 0
    /\ phase[s] \in {"stop", "wait", "remove"} /\ active[s] # 0 => expired[s]

LifecycleInv == TypeOK /\ StaleFileOnlyByKill /\ WritersOnly /\ LateOnly

\* Before any server is started.
LEMMA LifecycleInit == Init => LifecycleInv
<1> SUFFICES ASSUME Init
             PROVE  LifecycleInv
  OBVIOUS
<1> USE LifecycleAssumption DEF Init
<1>1. "absent" \notin Servers /\ NoServer \notin Servers /\ 0 \in 0..MaxActive
  OBVIOUS
<1>2. ServersOK
  BY <1>1 DEF ServersOK, Phases, Listening, NoTasks
<1>3. TypeOK
  BY <1>2 DEF TypeOK, CommandOK
<1>4. StaleFileOnlyByKill /\ WritersOnly /\ LateOnly
  BY <1>1 DEF StaleFileOnlyByKill, WritersOnly, LateOnly
<1> QED
  BY <1>3, <1>4 DEF LifecycleInv

------------------------------------------------------------------------------
(* Type correctness.                                                       *)

\* One request more below the bound, or one less above zero.
LEMMA ActiveBounds ==
  ASSUME NEW n \in Nat, NEW a \in 0..n
  PROVE  /\ a < n => a + 1 \in 0..n
         /\ a > 0 => a - 1 \in 0..n
OBVIOUS

\* The end of a process frees its port and nothing else of other processes.
LEMMA EndType ==
  ASSUME ServersOK, NEW s \in Servers, End(s), killed' \in [Servers -> BOOLEAN]
  PROVE  ServersOK'
<1>1. NoServer \notin Servers /\ 0 \in 0..MaxActive
  BY LifecycleAssumption
<1>2. phase' \in [Servers -> Phases] /\ port' \in Servers \cup {NoServer}
  BY DEF ServersOK, End, Goto, Phases
<1>3. active' \in [Servers -> 0..MaxActive]
  BY <1>1 DEF ServersOK, End
<1>4. NoTasks \in [Tasks -> {"none", "waiting", "busy"}]
  BY DEF NoTasks
<1>5. task' \in [Servers -> [Tasks -> {"none", "waiting", "busy"}]]
  BY <1>4 DEF ServersOK, End
<1>6. signalled' \in [Servers -> BOOLEAN] /\ expired' \in [Servers -> BOOLEAN]
  BY DEF ServersOK, End
<1>7. ASSUME NEW r \in Servers
      PROVE  /\ phase'[r] \in Listening <=> port' = r
             /\ phase'[r] \in {"new", "listen", "open", "write", "tasks", "remove", "gone"}
                  => task'[r] = NoTasks
  BY <1>1 DEF ServersOK, End, Goto, Listening
<1> QED
  BY <1>2, <1>3, <1>5, <1>6, <1>7 DEF ServersOK

\* An interrupt ends a process or is kept for it.
LEMMA InterruptType ==
  ASSUME ServersOK, NEW s \in Servers, Interrupt(s)
  PROVE  ServersOK'
<1>1. CASE End(s) /\ killed' = [killed EXCEPT ![s] = TRUE]
  <2>1. killed' \in [Servers -> BOOLEAN]
    BY <1>1 DEF ServersOK
  <2> QED
    BY <1>1, <2>1, EndType
<1>2. CASE /\ signalled' = [signalled EXCEPT ![s] = TRUE]
           /\ UNCHANGED <<phase, port, active, task, expired, killed>>
  BY <1>2 DEF ServersOK
<1> QED
  BY <1>1, <1>2 DEF Interrupt

\* The steps of a server's goroutines, and what happens to it.
LEMMA ServersNext == TypeOK /\ [Next]_vars => ServersOK'
<1> SUFFICES ASSUME TypeOK, [Next]_vars
             PROVE  ServersOK'
  OBVIOUS
<1>0. ServersOK
  BY DEF TypeOK
<1> USE <1>0, LifecycleAssumption DEF ServersOK, Phases, Listening, NoTasks, NoServer, Goto
<1>1. ASSUME NEW s \in Servers, Load(s) \/ ListenFails(s)
      PROVE  ServersOK'
  <2>1. CASE End(s) /\ UNCHANGED killed
    BY <2>1, EndType
  <2>2. CASE phase[s] = "new" /\ Goto(s, "listen")
             /\ UNCHANGED <<port, active, task, signalled, expired, killed>>
    BY <2>2
  <2> QED
    BY <1>1, <2>1, <2>2 DEF Load, ListenFails
<1>2. ASSUME NEW s \in Servers, Listen(s)
      PROVE  ServersOK'
  BY <1>2 DEF Listen
<1>3. ASSUME NEW s \in Servers, TruncatePidFile(s) \/ WritePidFile(s)
      PROVE  ServersOK'
  BY <1>3 DEF TruncatePidFile, WritePidFile
<1>4. ASSUME NEW s \in Servers, StartBackgroundTasks(s) \/ Notify(s)
      PROVE  ServersOK'
  <2>1. [t \in Tasks |-> "waiting"] \in [Tasks -> {"none", "waiting", "busy"}]
    OBVIOUS
  <2>2. CASE StartBackgroundTasks(s)
    BY <2>1, <2>2 DEF StartBackgroundTasks
  <2>3. CASE Notify(s)
    BY <2>3 DEF Notify
  <2> QED
    BY <1>4, <2>2, <2>3
<1>5. ASSUME NEW s \in Servers, Shutdown(s)
      PROVE  ServersOK'
  BY <1>5 DEF Shutdown
<1>6. ASSUME NEW s \in Servers, Drained(s) \/ StopTasks(s) \/ TasksEnded(s)
      PROVE  ServersOK'
  BY <1>6 DEF Drained, StopTasks, TasksEnded
<1>7. ASSUME NEW s \in Servers, Exit(s)
      PROVE  ServersOK'
  BY <1>7, EndType DEF Exit
<1>8. ASSUME NEW s \in Servers, TaskStep(s)
      PROVE  ServersOK'
  <2>1. PICK t \in Tasks, from \in {"waiting", "busy"}, to \in {"none", "waiting", "busy"} :
          SetTask(s, t, from, to)
    BY <1>8 DEF TaskStep, TaskTicks, TaskIsDone, TaskEnds
  <2>2. task[s] # NoTasks
    BY <2>1 DEF SetTask
  <2> DEFINE ts == [task[s] EXCEPT ![t] = to]
  <2>3. ts \in [Tasks -> {"none", "waiting", "busy"}]
    OBVIOUS
  <2>4. task' = [task EXCEPT ![s] = ts]
    BY <2>1 DEF SetTask
  <2>5. UNCHANGED <<phase, port, active, signalled, expired, killed>>
    BY <2>1 DEF SetTask
  <2> HIDE DEF ts
  <2> QED
    BY <2>2, <2>3, <2>4, <2>5
<1>9. ASSUME NEW s \in Servers, Accept(s) \/ Answer(s) \/ Expire(s)
      PROVE  ServersOK'
  <2>0. active[s] \in 0..MaxActive /\ MaxActive \in Nat
    OBVIOUS
  <2>1. CASE Accept(s)
    <3>1. active[s] + 1 \in 0..MaxActive
      BY <2>1, <2>0, ActiveBounds DEF Accept
    <3> QED
      BY <2>1, <3>1 DEF Accept
  <2>2. CASE Answer(s)
    <3>1. active[s] - 1 \in 0..MaxActive
      BY <2>2, <2>0, ActiveBounds DEF Answer
    <3> QED
      BY <2>2, <3>1 DEF Answer
  <2>3. CASE Expire(s)
    BY <2>3 DEF Expire
  <2> QED
    BY <1>9, <2>1, <2>2, <2>3
<1>10. ASSUME NEW s \in Servers, Terminate(s)
       PROVE  ServersOK'
  BY <1>10, InterruptType DEF Terminate
<1>11. ASSUME NEW s \in Servers, Crash(s)
       PROVE  ServersOK'
  <2>1. killed' \in [Servers -> BOOLEAN]
    BY <1>11 DEF Crash
  <2> QED
    BY <1>11, <2>1, EndType DEF Crash
<1>12. CASE Signal
  <2>1. command.step = "signal" => command.pid \in Servers
    BY DEF TypeOK, CommandOK
  <2>2. CASE UNCHANGED serverVars
    BY <2>2 DEF serverVars
  <2>3. CASE Interrupt(command.pid)
    BY <1>12, <2>1, <2>3, InterruptType DEF Signal
  <2> QED
    BY <1>12, <2>2, <2>3 DEF Signal
<1>13. CASE UNCHANGED serverVars
  BY <1>13 DEF serverVars
<1> QED
  BY <1>1, <1>2, <1>3, <1>4, <1>5, <1>6, <1>7, <1>8, <1>9, <1>10, <1>11, <1>12, <1>13
     DEF Next, Main, ReadPidFile, RemovePidFile, vars

\* Who touches the file, and what becomes of the command.
LEMMA FileNext ==
  TypeOK /\ [Next]_vars => pidFile' \in Servers \cup {"absent", "empty"} /\ CommandOK'
<1> SUFFICES ASSUME TypeOK, [Next]_vars
             PROVE  pidFile' \in Servers \cup {"absent", "empty"} /\ CommandOK'
  OBVIOUS
<1> USE DEF TypeOK, CommandOK
<1>1. CASE UNCHANGED command /\ pidFile' \in Servers \cup {"absent", "empty"}
  BY <1>1
<1>2. CASE ReadPidFile \/ RemovePidFile
  BY <1>2 DEF ReadPidFile, RemovePidFile
<1>3. CASE Signal
  BY <1>3 DEF Signal
<1> QED
  BY <1>1, <1>2, <1>3
     DEF Next, Main, Load, Listen, ListenFails, TruncatePidFile, WritePidFile,
         StartBackgroundTasks, Notify, Shutdown, Drained, StopTasks, TasksEnded, Exit,
         Accept, Answer, Expire, TaskStep, TaskTicks, TaskIsDone, TaskEnds, SetTask,
         Terminate, Crash, vars

LEMMA TypeNext == TypeOK /\ [Next]_vars => TypeOK'
BY ServersNext, FileNext DEF TypeOK

\* Whatever happens to it, a server listens in the phases between Listen and
\* Shutdown and in no other, and ends without tasks (manager.go:80-163).
THEOREM LifecycleTypeCorrect == Spec => []TypeOK
<1>1. Init => TypeOK
  BY LifecycleInit DEF LifecycleInv
<1> QED
  BY <1>1, TypeNext, PTL DEF Spec

------------------------------------------------------------------------------
(* The file, and the requests that are left.                               *)

\* What a step may do to the phase and to the kill of a server.
LEMMA PhaseMoves ==
  ASSUME TypeOK, [Next]_vars, NEW r \in Servers
  PROVE  /\ killed[r] => killed'[r]
         /\ phase'[r] \in {"new", "listen", "open", "write"} =>
              phase[r] \in {"new", "listen", "open", "write"}
         /\ phase'[r] = "gone" /\ phase[r] # "gone" /\ ~killed'[r] =>
              phase[r] \in {"new", "listen"} \/ pidFile' = "absent"
<1> USE DEF TypeOK, ServersOK, Goto
<1>1. ASSUME NEW s \in Servers, Main(s)
      PROVE  /\ UNCHANGED killed
             /\ phase'[r] # phase[r] => r = s
             /\ phase'[s] \in {"new", "listen", "open", "write"} =>
                  phase[s] \in {"new", "listen", "open", "write"}
             /\ phase'[s] = "gone" => phase[s] \in {"new", "listen"} \/ pidFile' = "absent"
  BY <1>1 DEF Main, Load, Listen, ListenFails, TruncatePidFile, WritePidFile,
              StartBackgroundTasks, Notify, Shutdown, Drained, StopTasks, TasksEnded,
              Exit, End, Phases
<1>2. ASSUME NEW s \in Servers, Interrupt(s) \/ Crash(s)
      PROVE  /\ killed[r] => killed'[r]
             /\ phase'[r] = phase[r] \/ (phase'[r] = "gone" /\ killed'[r])
  BY <1>2 DEF Interrupt, Crash, End
<1>3. CASE UNCHANGED <<phase, killed>>
  BY <1>3
<1>4. CASE Signal
  <2>1. command.pid \in Servers
    BY <1>4 DEF Signal, CommandOK
  <2>2. Interrupt(command.pid) \/ UNCHANGED <<phase, killed>>
    BY <1>4 DEF Signal, serverVars
  <2> QED
    BY <2>1, <2>2, <1>2, <1>3
<1> QED
  BY <1>1, <1>2, <1>3, <1>4
     DEF Next, Accept, Answer, Expire, TaskStep, TaskTicks, TaskIsDone, TaskEnds,
         SetTask, Terminate, ReadPidFile, RemovePidFile, vars, serverVars

\* The file gets the name of a server only from the server itself.
LEMMA FileMoves ==
  ASSUME TypeOK, [Next]_vars, NEW r \in Servers, pidFile' = r, pidFile # r
  PROVE  WritePidFile(r)
<1>1. r # "absent" /\ r # "empty"
  BY LifecycleAssumption
<1> QED
  BY <1>1 DEF Next, Main, Load, Listen, ListenFails, TruncatePidFile, WritePidFile,
         StartBackgroundTasks, Notify, Shutdown, Drained, StopTasks, TasksEnded, Exit,
         Accept, Answer, Expire, TaskStep, TaskTicks, TaskIsDone, TaskEnds, SetTask,
         Terminate, Crash, ReadPidFile, Signal, RemovePidFile, vars, serverVars

\* The two parts of the invariant that are about the file.
LEMMA FileNextInv ==
  LifecycleInv /\ [Next]_vars => WritersOnly' /\ StaleFileOnlyByKill'
<1> SUFFICES ASSUME LifecycleInv, [Next]_vars, NEW r \in Servers, pidFile' = r
             PROVE  /\ phase'[r] \notin {"new", "listen", "open", "write"}
                    /\ phase'[r] = "gone" => killed'[r]
  BY DEF WritersOnly, StaleFileOnlyByKill
<1> USE DEF LifecycleInv
<1>1. CASE pidFile = r
  BY <1>1, PhaseMoves, LifecycleAssumption DEF WritersOnly, StaleFileOnlyByKill
<1>2. CASE pidFile # r
  <2>1. WritePidFile(r)
    BY <1>2, FileMoves
  <2>2. phase'[r] = "tasks"
    BY <2>1 DEF WritePidFile, Goto, TypeOK, ServersOK
  <2> QED
    BY <2>2
<1> QED
  BY <1>1, <1>2

\* Nobody accepts behind the draining, and the 30 s do not come back.
LEMMA LateNext == LifecycleInv /\ [Next]_vars => LateOnly'
<1> SUFFICES ASSUME LifecycleInv, [Next]_vars
             PROVE  LateOnly'
  OBVIOUS
<1>0. TypeOK /\ ServersOK /\ LateOnly
  BY DEF LifecycleInv, TypeOK
<1>1. ASSUME NEW s \in Servers, End(s)
      PROVE  LateOnly'
  BY <1>0, <1>1 DEF End, Goto, ServersOK, LateOnly
<1>2. ASSUME NEW s \in Servers, Interrupt(s)
      PROVE  LateOnly'
  BY <1>0, <1>1, <1>2 DEF Interrupt, LateOnly
<1>3. CASE UNCHANGED <<phase, active, expired>>
  BY <1>0, <1>3 DEF LateOnly
<1>4. ASSUME NEW s \in Servers, Main(s)
      PROVE  LateOnly'
  <2>1. CASE End(s)
    BY <2>1, <1>1
  <2>2. CASE ~End(s)
    <3>1. /\ UNCHANGED <<active, expired>>
          /\ \A r \in Servers \ {s} : phase'[r] = phase[r]
          /\ phase'[s] \in {"new", "listen"} => phase[s] \in {"new", "listen"}
          /\ phase'[s] \in {"stop", "wait", "remove"} =>
               \/ phase[s] \in {"stop", "wait", "remove"}
               \/ active[s] = 0 \/ expired[s]
      BY <1>0, <1>4, <2>2
         DEF Main, Load, Listen, ListenFails, TruncatePidFile, WritePidFile,
             StartBackgroundTasks, Notify, Shutdown, Drained, StopTasks, TasksEnded,
             Exit, Goto, ServersOK, Phases
    <3> QED
      BY <1>0, <3>1 DEF LateOnly
  <2> QED
    BY <2>1, <2>2
<1>5. ASSUME NEW s \in Servers, Accept(s)
      PROVE  LateOnly'
  <2>1. phase[s] \in Listening
    BY <1>0, <1>5 DEF Accept, ServersOK
  <2> QED
    BY <1>0, <1>5, <2>1 DEF Accept, Listening, LateOnly, ServersOK
<1>6. ASSUME NEW s \in Servers, Answer(s)
      PROVE  LateOnly'
  <2>1. active[s] # 0
    BY <1>0, <1>6 DEF Answer, ServersOK
  <2> QED
    BY <1>0, <1>6, <2>1 DEF Answer, LateOnly, ServersOK
<1>7. ASSUME NEW s \in Servers, Expire(s)
      PROVE  LateOnly'
  BY <1>0, <1>7 DEF Expire, LateOnly, ServersOK
<1>8. CASE Signal
  <2>1. command.pid \in Servers
    BY <1>0, <1>8 DEF Signal, TypeOK, CommandOK
  <2> QED
    BY <1>2, <1>3, <1>8, <2>1 DEF Signal, serverVars
<1> QED
  BY <1>1, <1>2, <1>3, <1>4, <1>5, <1>6, <1>7, <1>8
     DEF Next, TaskStep, TaskTicks, TaskIsDone, TaskEnds, SetTask, Terminate, Crash,
         ReadPidFile, RemovePidFile, vars, serverVars

\* Every step keeps the inductive invariant.
LEMMA LifecycleNext == LifecycleInv /\ [Next]_vars => LifecycleInv'
BY TypeNext, FileNextInv, LateNext DEF LifecycleInv

\* A process that has ended and that the PID file still names was killed
\* (start.go:109-125), whatever other servers and alvus stop do to the file.
THEOREM StaleFile == Spec => []StaleFileOnlyByKill
<1>1. LifecycleInv => StaleFileOnlyByKill
  BY DEF LifecycleInv
<1> QED
  BY <1>1, LifecycleInit, LifecycleNext, PTL DEF Spec

\* An orderly end cuts off no request before the 30 s are over (start.go:140-142).
THEOREM DrainsOrExpires == Spec => DrainedOrExpired
<1>1. LifecycleInv /\ [Next]_vars =>
        [\A s \in Servers :
           phase[s] # "gone" /\ phase'[s] = "gone" /\ active[s] # 0 =>
             killed'[s] \/ expired[s]]_vars
  <2> SUFFICES ASSUME LifecycleInv, Next, NEW s \in Servers,
                      phase[s] # "gone", phase'[s] = "gone", ~killed'[s]
               PROVE  active[s] = 0 \/ expired[s]
    OBVIOUS
  <2>1. TypeOK /\ ServersOK /\ LateOnly
    BY DEF LifecycleInv, TypeOK
  <2>2. ASSUME NEW r \in Servers, Main(r)
        PROVE  phase[s] \in {"new", "listen", "remove"}
    BY <2>1, <2>2
       DEF Main, Load, Listen, ListenFails, TruncatePidFile, WritePidFile,
           StartBackgroundTasks, Notify, Shutdown, Drained, StopTasks, TasksEnded,
           Exit, End, Goto, ServersOK, Phases
  <2>3. ASSUME NEW r \in Servers, Interrupt(r) \/ Crash(r)
        PROVE  FALSE
    BY <2>1, <2>3 DEF Interrupt, Crash, End, Goto, ServersOK
  <2>4. ~Signal
    <3>1. command.step = "signal" => command.pid \in Servers
      BY <2>1 DEF TypeOK, CommandOK
    <3> QED
      BY <3>1, <2>3 DEF Signal, serverVars
  <2>5. \E r \in Servers : Main(r)
    BY <2>3, <2>4
       DEF Next, Accept, Answer, Expire, TaskStep, TaskTicks, TaskIsDone, TaskEnds,
           SetTask, Terminate, ReadPidFile, RemovePidFile, serverVars
  <2> QED
    BY <2>1, <2>2, <2>5 DEF LateOnly
<1> QED
  BY <1>1, LifecycleInit, LifecycleNext, PTL DEF Spec, DrainedOrExpired

------------------------------------------------------------------------------
(* Whose file alvus stop removes.                                          *)

\* It goes on to the removal only when it has signalled the server it read.
RemovesSignalled ==
  command.step = "remove" => phase[command.pid] = "gone" \/ signalled[command.pid]

LEMMA RemovesSignalledNext ==
  TypeOK /\ RemovesSignalled /\ [Next]_vars => RemovesSignalled'
<1> SUFFICES ASSUME TypeOK, RemovesSignalled, [Next]_vars
             PROVE  RemovesSignalled'
  OBVIOUS
<1>0. ServersOK /\ CommandOK
  BY DEF TypeOK
<1>1. ASSUME NEW s \in Servers, Interrupt(s)
      PROVE  /\ phase'[s] = "gone" \/ signalled'[s]
             /\ \A r \in Servers : phase[r] = "gone" => phase'[r] = "gone"
             /\ \A r \in Servers : signalled[r] => signalled'[r]
  BY <1>0, <1>1 DEF Interrupt, End, Goto, ServersOK
<1>2. CASE /\ UNCHANGED command
           /\ \A r \in Servers : /\ phase[r] = "gone" => phase'[r] = "gone"
                                 /\ signalled[r] => signalled'[r]
  BY <1>0, <1>2 DEF RemovesSignalled, CommandOK
<1>3. ASSUME NEW s \in Servers, Main(s)
      PROVE  /\ UNCHANGED <<command, signalled>>
             /\ \A r \in Servers : phase[r] = "gone" => phase'[r] = "gone"
  BY <1>0, <1>3
     DEF Main, Load, Listen, ListenFails, TruncatePidFile, WritePidFile,
         StartBackgroundTasks, Notify, Shutdown, Drained, StopTasks, TasksEnded, Exit,
         End, Goto, ServersOK
<1>4. ASSUME NEW s \in Servers, Terminate(s) \/ Crash(s)
      PROVE  RemovesSignalled'
  <2>1. CASE Terminate(s)
    BY <1>1, <1>2, <2>1 DEF Terminate
  <2>2. CASE Crash(s)
    BY <1>0, <1>2, <2>2 DEF Crash, End, Goto, ServersOK
  <2> QED
    BY <1>4, <2>1, <2>2
<1>5. CASE Signal
  <2>1. command.pid \in Servers /\ command \in [step : {"idle", "signal", "remove"},
                                                pid : Servers \cup {NoServer}]
    BY <1>0, <1>5 DEF Signal, CommandOK
  <2>2. CASE phase[command.pid] = "gone"
    BY <1>5, <2>2 DEF Signal, RemovesSignalled
  <2>3. CASE phase[command.pid] # "gone"
    <3>1. command' = [command EXCEPT !.step = "remove"] /\ Interrupt(command.pid)
      BY <1>5, <2>3 DEF Signal
    <3>2. command'.pid = command.pid
      BY <2>1, <3>1
    <3> QED
      BY <1>1, <2>1, <3>1, <3>2 DEF RemovesSignalled
  <2> QED
    BY <2>2, <2>3
<1>6. CASE ReadPidFile \/ RemovePidFile
  BY <1>6 DEF ReadPidFile, RemovePidFile, RemovesSignalled
<1> QED
  BY <1>2, <1>3, <1>4, <1>5, <1>6
     DEF Next, Accept, Answer, Expire, TaskStep, TaskTicks, TaskIsDone, TaskEnds,
         SetTask, vars, serverVars

\* A server that serves and was not asked to stop loses its PID file only to the late
\* removal of another one's (start.go:125, stop.go:63): the file is emptied and
\* written by whoever listens, and alvus stop has signalled whom it read.
THEOREM FileLost == Spec => FileLostToLateRemoval
<1>1. TypeOK /\ RemovesSignalled /\ [Next]_vars =>
        [\A s \in Servers :
           /\ phase[s] = "serving" /\ ~signalled[s]
           /\ pidFile = s /\ pidFile' # s
           => \/ command.step = "remove" /\ command.pid # s
              \/ \E r \in Servers \ {s} : phase[r] = "remove"]_vars
  <2> SUFFICES ASSUME TypeOK, RemovesSignalled, Next, NEW s \in Servers,
                      phase[s] = "serving", ~signalled[s], pidFile = s, pidFile' # s
               PROVE  \/ command.step = "remove" /\ command.pid # s
                      \/ \E r \in Servers \ {s} : phase[r] = "remove"
    OBVIOUS
  <2>0. port = s /\ \A r \in Servers : phase[r] \in {"open", "write"} => port = r
    BY DEF TypeOK, ServersOK, Listening
  <2>1. ASSUME NEW r \in Servers, TruncatePidFile(r) \/ WritePidFile(r)
        PROVE  FALSE
    BY <2>0, <2>1 DEF TruncatePidFile, WritePidFile
  <2>2. ASSUME NEW r \in Servers, Exit(r)
        PROVE  phase[r] = "remove" /\ r # s
    BY <2>2 DEF Exit
  <2>3. CASE RemovePidFile
    BY <2>3 DEF RemovePidFile, RemovesSignalled
  <2> QED
    BY <2>1, <2>2, <2>3
       DEF Next, Main, Load, Listen, ListenFails, StartBackgroundTasks, Notify, Shutdown,
           Drained, StopTasks, TasksEnded, Accept, Answer, Expire, TaskStep, TaskTicks,
           TaskIsDone, TaskEnds, SetTask, Terminate, Crash, ReadPidFile, Signal
<1>2. Init => RemovesSignalled
  BY DEF Init, RemovesSignalled
<1> QED
  BY <1>1, <1>2, LifecycleTypeCorrect, RemovesSignalledNext, PTL
     DEF Spec, FileLostToLateRemoval

==============================================================================
