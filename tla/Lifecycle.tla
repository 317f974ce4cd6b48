------------------------------ MODULE Lifecycle ------------------------------
(***************************************************************************)
(* Server processes that are started in one directory, for one port:       *)
(* startServer (internal/cmd/start.go), Start, StartBackgroundTasks,       *)
(* Shutdown and Stop of ProviderRouter (internal/server/manager.go), the   *)
(* background tasks (internal/server/lifecycle.go), the PID file, and      *)
(* alvus stop (internal/cmd/stop.go).                                      *)
(*                                                                         *)
(* What a start reads, and may refuse, is the subject of Providers.  The   *)
(* kernel ends a process with all that it has open; process numbers are    *)
(* not used again.                                                         *)
(***************************************************************************)
EXTENDS Naturals

CONSTANTS Servers,          \* the processes
          Tasks,            \* the background tasks of a server, two per provider
          MaxActive         \* bound: requests that a server has at a time

NoServer == "no server"

ASSUME LifecycleAssumption ==
  MaxActive \in Nat /\ Servers \cap {NoServer, "absent", "empty"} = {}

VARIABLES phase,            \* the next step of each server's main goroutine
          port,             \* the server that listens
          pidFile,          \* "absent", "empty" or the server it names
          active,           \* the requests that each server handles
          task,             \* each background task: "none", "waiting", "busy"
          signalled,        \* an interrupt waits in sigCh, or was taken from it
          expired,          \* the 30 s of a shutdown are over
          killed,           \* history: it ended by a crash or an uncaught signal
          command           \* alvus stop: its next step, and the server it read

serverVars == <<phase, port, active, task, signalled, expired, killed>>
vars == <<serverVars, pidFile, command>>

NoTasks == [t \in Tasks |-> "none"]

Init ==
  /\ phase = [s \in Servers |-> "new"]
  /\ port = NoServer
  /\ pidFile = "absent"
  /\ active = [s \in Servers |-> 0]
  /\ task = [s \in Servers |-> NoTasks]
  /\ signalled = [s \in Servers |-> FALSE]
  /\ expired = [s \in Servers |-> FALSE]
  /\ killed = [s \in Servers |-> FALSE]
  /\ command = [step |-> "idle", pid |-> NoServer]

------------------------------------------------------------------------------
(* The main goroutine.                                                     *)

Goto(s, label) == phase' = [phase EXCEPT ![s] = label]

\* The end of a process.  Connections are cut, and nobody waits for them.
End(s) ==
  /\ Goto(s, "gone")
  /\ port' = IF port = s THEN NoServer ELSE port
  /\ active' = [active EXCEPT ![s] = 0]
  /\ task' = [task EXCEPT ![s] = NoTasks]
  /\ UNCHANGED <<signalled, expired>>

\* Configuration and keys are loaded; os.Exit(1) if they give no provider.
Load(s) ==
  /\ phase[s] = "new"
  /\ \/ Goto(s, "listen") /\ UNCHANGED <<port, active, task, signalled, expired>>
     \/ End(s)
  /\ UNCHANGED <<pidFile, killed, command>>

Listen(s) ==
  /\ phase[s] = "listen" /\ port = NoServer
  /\ port' = s
  /\ Goto(s, "open")
  /\ UNCHANGED <<pidFile, active, task, signalled, expired, killed, command>>

\* os.Exit(1), which runs no deferred call.
ListenFails(s) ==
  /\ phase[s] = "listen" /\ port # NoServer
  /\ End(s)
  /\ UNCHANGED <<pidFile, killed, command>>

\* os.WriteFile truncates, then writes.
TruncatePidFile(s) ==
  /\ phase[s] = "open"
  /\ pidFile' = "empty"
  /\ Goto(s, "write")
  /\ UNCHANGED <<port, active, task, signalled, expired, killed, command>>

WritePidFile(s) ==
  /\ phase[s] = "write"
  /\ pidFile' = s
  /\ Goto(s, "tasks")
  /\ UNCHANGED <<port, active, task, signalled, expired, killed, command>>

StartBackgroundTasks(s) ==
  /\ phase[s] = "tasks"
  /\ task' = [task EXCEPT ![s] = [t \in Tasks |-> "waiting"]]
  /\ Goto(s, "notify")
  /\ UNCHANGED <<port, pidFile, active, signalled, expired, killed, command>>

Notify(s) ==
  /\ phase[s] = "notify"
  /\ Goto(s, "serving")
  /\ UNCHANGED <<port, pidFile, active, task, signalled, expired, killed, command>>

\* Mutant: the handlers are not waited for.
ShutdownAtOnce(s) ==
  /\ phase[s] = "serving" /\ signalled[s]
  /\ port' = NoServer
  /\ Goto(s, "stop")
  /\ UNCHANGED <<pidFile, active, task, signalled, expired, killed, command>>

\* The signal is received, and http.Server.Shutdown closes the listener.
Shutdown(s) ==
  /\ phase[s] = "serving" /\ signalled[s]
  /\ port' = NoServer
  /\ Goto(s, "draining")
  /\ UNCHANGED <<pidFile, active, task, signalled, expired, killed, command>>

\* It returns when no request is left, or with the context's error.
Drained(s) ==
  /\ phase[s] = "draining" /\ (active[s] = 0 \/ expired[s])
  /\ Goto(s, "stop")
  /\ UNCHANGED <<port, pidFile, active, task, signalled, expired, killed, command>>

\* Mutant: Stop waits for the tasks before it closes their channel.
StopTasksLate(s) ==
  /\ phase[s] = "stop" /\ task[s] = NoTasks
  /\ Goto(s, "wait")
  /\ UNCHANGED <<port, pidFile, active, task, signalled, expired, killed, command>>

\* close(pr.stop).
StopTasks(s) ==
  /\ phase[s] = "stop"
  /\ Goto(s, "wait")
  /\ UNCHANGED <<port, pidFile, active, task, signalled, expired, killed, command>>

\* Mutant: the tasks are not waited for.
TasksAbandoned(s) ==
  /\ phase[s] = "wait"
  /\ Goto(s, "remove")
  /\ UNCHANGED <<port, pidFile, active, task, signalled, expired, killed, command>>

\* pr.wg.Wait().  The goroutine of Serve ended when the listener was closed;
\* handlers are not counted.
TasksEnded(s) ==
  /\ phase[s] = "wait" /\ task[s] = NoTasks
  /\ Goto(s, "remove")
  /\ UNCHANGED <<port, pidFile, active, task, signalled, expired, killed, command>>

\* Mutant: the PID file stays.
ExitLeavingFile(s) ==
  /\ phase[s] = "remove"
  /\ End(s)
  /\ UNCHANGED <<pidFile, killed, command>>

\* The deferred os.Remove, whosever the file is now, and the return from main.
Exit(s) ==
  /\ phase[s] = "remove"
  /\ pidFile' = "absent"
  /\ End(s)
  /\ UNCHANGED <<killed, command>>

Main(s) ==
  \/ Load(s) \/ Listen(s) \/ ListenFails(s)
  \/ TruncatePidFile(s) \/ WritePidFile(s) \/ StartBackgroundTasks(s) \/ Notify(s)
  \/ Shutdown(s) \/ Drained(s) \/ StopTasks(s) \/ TasksEnded(s) \/ Exit(s)

------------------------------------------------------------------------------
(* The other goroutines of a server, and what happens to it.               *)

Accept(s) ==
  /\ port = s /\ active[s] < MaxActive
  /\ active' = [active EXCEPT ![s] = @ + 1]
  /\ UNCHANGED <<phase, port, pidFile, task, signalled, expired, killed, command>>

Answer(s) ==
  /\ active[s] > 0
  /\ active' = [active EXCEPT ![s] = @ - 1]
  /\ UNCHANGED <<phase, port, pidFile, task, signalled, expired, killed, command>>

SetTask(s, t, from, to) ==
  /\ task[s][t] = from
  /\ task' = [task EXCEPT ![s][t] = to]
  /\ UNCHANGED <<phase, port, pidFile, active, signalled, expired, killed, command>>

\* The ticker's case of the select, also when the channel is closed already.
TaskTicks(s, t) == SetTask(s, t, "waiting", "busy")

TaskIsDone(s, t) == SetTask(s, t, "busy", "waiting")

TaskEnds(s, t) ==
  phase[s] \in {"wait", "remove"} /\ SetTask(s, t, "waiting", "none")

Expire(s) ==
  /\ phase[s] = "draining" /\ ~expired[s]
  /\ expired' = [expired EXCEPT ![s] = TRUE]
  /\ UNCHANGED <<phase, port, pidFile, active, task, signalled, killed, command>>

\* From signal.Notify on an interrupt waits in sigCh, whose one place is enough;
\* one that comes earlier ends the process.
Interrupt(s) ==
  IF phase[s] \in {"new", "listen", "open", "write", "tasks", "notify"}
  THEN /\ End(s)
       /\ killed' = [killed EXCEPT ![s] = TRUE]
  ELSE /\ signalled' = [signalled EXCEPT ![s] = TRUE]
       /\ UNCHANGED <<phase, port, active, task, expired, killed>>

\* Ctrl-C, or a service manager.
Terminate(s) ==
  /\ phase[s] # "gone"
  /\ Interrupt(s)
  /\ UNCHANGED <<pidFile, command>>

Crash(s) ==
  /\ phase[s] # "gone"
  /\ End(s)
  /\ killed' = [killed EXCEPT ![s] = TRUE]
  /\ UNCHANGED <<pidFile, command>>

------------------------------------------------------------------------------
(* alvus stop.                                                             *)

\* A file that is absent or names no process ends the command.
ReadPidFile ==
  /\ command.step = "idle" /\ pidFile \in Servers
  /\ command' = [step |-> "signal", pid |-> pidFile]
  /\ UNCHANGED <<serverVars, pidFile>>

\* Mutant: a failed signal does not end the command.
SignalUnchecked ==
  /\ command.step = "signal"
  /\ command' = [command EXCEPT !.step = "remove"]
  /\ \/ UNCHANGED serverVars
     \/ phase[command.pid] # "gone" /\ Interrupt(command.pid)
  /\ UNCHANGED pidFile

\* An error if the process is gone; the file stays.
Signal ==
  /\ command.step = "signal"
  /\ IF phase[command.pid] = "gone"
     THEN /\ command' = [step |-> "idle", pid |-> NoServer]
          /\ UNCHANGED serverVars
     ELSE /\ command' = [command EXCEPT !.step = "remove"]
          /\ Interrupt(command.pid)
  /\ UNCHANGED pidFile

\* proc.Wait returns an error at once, as the server is not a child of the
\* command, and the error is not looked at.
RemovePidFile ==
  /\ command.step = "remove"
  /\ pidFile' = "absent"
  /\ command' = [step |-> "idle", pid |-> NoServer]
  /\ UNCHANGED serverVars

------------------------------------------------------------------------------
TaskStep(s) == \E t \in Tasks : TaskTicks(s, t) \/ TaskIsDone(s, t) \/ TaskEnds(s, t)

Next ==
  \/ \E s \in Servers :
       \/ Main(s) \/ TaskStep(s)
       \/ Accept(s) \/ Answer(s) \/ Expire(s) \/ Terminate(s) \/ Crash(s)
  \/ ReadPidFile \/ Signal \/ RemovePidFile

Spec == Init /\ [][Next]_vars

\* The scheduler runs the main goroutine and the timer of its context; the
\* client of a health check has a timeout; and a select whose ticker and channel
\* are both ready takes either with equal chances.  No request need ever end.
Fairness ==
  \A s \in Servers :
    /\ WF_vars(Main(s)) /\ WF_vars(Expire(s))
    /\ \A t \in Tasks : WF_vars(TaskIsDone(s, t)) /\ SF_vars(TaskEnds(s, t))

FairSpec == Spec /\ Fairness

------------------------------------------------------------------------------
Phases == {"new", "listen", "open", "write", "tasks", "notify", "serving",
           "draining", "stop", "wait", "remove", "gone"}

Listening == {"open", "write", "tasks", "notify", "serving"}

ServersOK ==
  /\ phase \in [Servers -> Phases]
  /\ port \in Servers \cup {NoServer}
  /\ active \in [Servers -> 0..MaxActive]
  /\ task \in [Servers -> [Tasks -> {"none", "waiting", "busy"}]]
  /\ signalled \in [Servers -> BOOLEAN]
  /\ expired \in [Servers -> BOOLEAN] /\ killed \in [Servers -> BOOLEAN]
  /\ \A s \in Servers :
       /\ phase[s] \in Listening <=> port = s
       /\ phase[s] \in {"new", "listen", "open", "write", "tasks", "remove", "gone"} =>
            task[s] = NoTasks

CommandOK ==
  /\ command \in [step : {"idle", "signal", "remove"}, pid : Servers \cup {NoServer}]
  /\ command.step # "idle" => command.pid \in Servers

\* Types; a server listens in the phases between Listen and Shutdown and in no
\* other, has tasks only between their start and its end, and ends with none.
TypeOK == ServersOK /\ pidFile \in Servers \cup {"absent", "empty"} /\ CommandOK

\* A process that has ended and that the PID file still names was killed: neither
\* a start that failed (start.go:109-117), nor a shutdown (start.go:124), nor the
\* removal of files by others leaves a name behind.
StaleFileOnlyByKill ==
  \A s \in Servers : pidFile = s /\ phase[s] = "gone" => killed[s]

\* A server that leaves in an orderly way has answered every request it accepted,
\* unless the 30 s were over (start.go:140-142).
DrainedOrExpired ==
  [][\A s \in Servers :
       phase[s] # "gone" /\ phase'[s] = "gone" /\ active[s] # 0 =>
         killed'[s] \/ expired[s]]_vars

\* Whoever is sent an interrupt ends, whatever its requests, its tasks, the
\* moment of the signal and other servers do (manager.go:145-163).
InterruptedEnds ==
  \A s \in Servers : signalled[s] ~> phase[s] = "gone"

\* "alvus.pid is written automatically, and alvus stop sends the interrupt through
\* this file" (cli-reference.md:26): a server that serves and was not asked to stop
\* loses its file only to the late removal of another one's, by that server's own
\* shutdown (start.go:125) or by the command that stopped it (stop.go:63).
FileLostToLateRemoval ==
  [][\A s \in Servers :
       /\ phase[s] = "serving" /\ ~signalled[s]
       /\ pidFile = s /\ pidFile' # s
       => \/ command.step = "remove" /\ command.pid # s
          \/ \E r \in Servers \ {s} : phase[r] = "remove"]_vars

==============================================================================
