------------------------------- MODULE Daemon -------------------------------
(***************************************************************************)
(* The daemon and the commands that manage it (cmd/aiclibridge/daemon.go,  *)
(* with its unix and windows halves, uninstall.go and the boot and         *)
(* shutdown of serveStack in cli.go). They share three things: the pid     *)
(* file, the process table and the listen address. Each command is a       *)
(* process of its own and may meet any other at any point; a daemon may    *)
(* crash and leave its pid file behind.                                    *)
(***************************************************************************)
EXTENDS Naturals, FiniteSets

CONSTANTS
  Pids,      \* bound: the pids the system hands out (again and again)
  Commands,  \* bound: the terminals commands are run from, one after the other
  Verbs      \* what they may be: a subset of AllVerbs

AllVerbs  == {"start", "stop", "restart", "upgrade", "uninstall"}
Platforms == {"unix", "windows"}

ASSUME DaemonAssumption == Pids \subseteq Nat \ {0} /\ Verbs \subseteq AllVerbs

VARIABLES
  platform,  \* which of daemon_unix.go and daemon_windows.go is built
  pidFile,   \* the pid in aiclibridge.pid; 0 when there is none
  port,      \* the pid that listens on cfg.Listen, or 0
  table,     \* per pid: "none", a phase of a daemon, "zombie", or a process that is
             \* no daemon: "foreign", or "alien" when it belongs to another user
  parent,    \* per pid: the start that forked it, or "init"
  installed, \* the binary is on the disk
  cmd,       \* per command: its verb, where it is, the pid stop has read, whether
             \* that one was found running, the pid start has forked
  rushed,    \* history: a command was begun while another or a boot was under way
  trouble    \* history: a daemon crashed or could not be forked or booted, or
             \* a foreign process came

systemVars == <<pidFile, port, table, parent>>
vars == <<platform, systemVars, installed, cmd, rushed, trouble>>

Starting == {"check", "writePid", "boot"}
Daemons  == Starting \cup {"serve", "drain", "remove"}

-----------------------------------------------------------------------------
(* The system: signals and the process table *)

\* isRunning: kill(pid, 0) also finds a zombie; OpenProcess does not. A process we
\* may not signal (EPERM), or not open, counts as not running.
IsRunning(pid) == pid # 0 /\ table[pid] \notin {"none", "alien"}

\* A process that ends stays a zombie until its parent has ended, on unix.
Ended(pid) == IF platform = "unix" /\ parent[pid] # "init" THEN "zombie" ELSE "none"

Release(pid) == port' = IF port = pid THEN 0 ELSE port

Dies(pid) == table' = [table EXCEPT ![pid] = Ended(pid)] /\ Release(pid)

\* SIGTERM. Before signal.Notify the default action applies; the first one then
\* starts the shutdown, which closes the listener, and later ones are ignored. On
\* windows CTRL+BREAK may not arrive.
Terminated(pid) ==
  CASE table[pid] \in Starting \cup {"foreign"} -> Dies(pid)
    [] table[pid] = "serve" -> table' = [table EXCEPT ![pid] = "drain"] /\ Release(pid)
    [] OTHER -> UNCHANGED <<table, port>>

SignalTerm(pid) == \/ Terminated(pid)
                   \/ platform = "windows" /\ UNCHANGED <<table, port>>

Returned(c) == cmd[c].pc = "exited"

\* The commands that have ended give their zombies to init, which reaps them.
Reap ==
  /\ \E pid \in Pids : parent[pid] # "init" /\ Returned(parent[pid])
  /\ LET orphans == {pid \in Pids : parent[pid] # "init" /\ Returned(parent[pid])}
     IN /\ parent' = [pid \in Pids |-> IF pid \in orphans THEN "init" ELSE parent[pid]]
        /\ table' = [pid \in Pids |-> IF pid \in orphans /\ table[pid] = "zombie"
                                      THEN "none" ELSE table[pid]]
  /\ UNCHANGED <<platform, pidFile, port, installed, cmd, rushed, trouble>>

-----------------------------------------------------------------------------
(* A command begins; restart and upgrade are stop, then start *)

Rest == [verb |-> "none", pc |-> "exited", target |-> 0, found |-> FALSE, child |-> 0]

At(c, place)   == cmd[c].pc = place
GoTo(c, place) == cmd' = [cmd EXCEPT ![c].pc = place]
Exit(c)        == cmd' = [cmd EXCEPT ![c] = Rest]

\* Bound: after commands have overlapped once, no further one is begun.
Begin(c) ==
  /\ Returned(c) /\ installed /\ ~rushed
  /\ \E v \in Verbs :
       cmd' = [cmd EXCEPT ![c] = [Rest EXCEPT !.verb = v,
                                              !.pc = IF v = "start" THEN "check" ELSE "read"]]
  /\ rushed' = (rushed \/ (\E d \in Commands : ~Returned(d))
                       \/ (\E p \in Pids : table[p] \in Daemons \ {"serve"}))
  /\ UNCHANGED <<platform, systemVars, installed, trouble>>

\* What follows a stop, whatever it returned.
AfterStop(c) ==
  CASE cmd[c].verb = "stop"      -> Exit(c)
    [] cmd[c].verb = "restart"   -> GoTo(c, "check")
    [] cmd[c].verb = "upgrade"   -> GoTo(c, "install")
    [] cmd[c].verb = "uninstall" -> GoTo(c, "stray")

stopLeaves == <<platform, parent, installed, rushed, trouble>>

\* Mutant: "not running" ends restart and upgrade as well.
NotRunningEndsAll(c) ==
  /\ At(c, "read")
  /\ IF pidFile = 0 THEN Exit(c)
     ELSE cmd' = [cmd EXCEPT ![c].target = pidFile, ![c].pc = "probe"]
  /\ UNCHANGED <<pidFile, port, table, stopLeaves>>

ReadPid(c) ==
  /\ At(c, "read")
  /\ IF pidFile = 0 THEN AfterStop(c)
     ELSE cmd' = [cmd EXCEPT ![c].target = pidFile, ![c].pc = "probe"]
  /\ UNCHANGED <<pidFile, port, table, stopLeaves>>

\* A stale pid file is removed and reported as "not running".
Probe(c) ==
  /\ At(c, "probe")
  /\ IF IsRunning(cmd[c].target)
     THEN cmd' = [cmd EXCEPT ![c].found = TRUE, ![c].pc = "term"]
     ELSE GoTo(c, "unlink")
  /\ UNCHANGED <<pidFile, port, table, stopLeaves>>

\* A process that has gone meanwhile, or is another user's, is an error of kill(2).
Term(c) ==
  /\ At(c, "term")
  /\ \/ IsRunning(cmd[c].target) /\ SignalTerm(cmd[c].target) /\ GoTo(c, "await")
     \/ /\ ~IsRunning(cmd[c].target) /\ UNCHANGED <<table, port>>
        /\ IF platform = "unix" THEN AfterStop(c) ELSE GoTo(c, "await")
  /\ UNCHANGED <<pidFile, stopLeaves>>

\* isRunning is false within ten seconds.
SeeExit(c) ==
  /\ At(c, "await") /\ ~IsRunning(cmd[c].target)
  /\ GoTo(c, "unlink")
  /\ UNCHANGED <<pidFile, port, table, stopLeaves>>

\* Mutant: no force is used.
AwaitOnly(c) ==
  /\ At(c, "await") /\ IsRunning(cmd[c].target)
  /\ GoTo(c, "unlink")
  /\ UNCHANGED <<pidFile, port, table, stopLeaves>>

\* The ten seconds are over: SIGKILL, and half a second for it to act.
Kill(c) ==
  /\ At(c, "await") /\ IsRunning(cmd[c].target)
  /\ IF table[cmd[c].target] = "zombie" THEN UNCHANGED <<table, port>> ELSE Dies(cmd[c].target)
  /\ GoTo(c, "unlink")
  /\ UNCHANGED <<pidFile, stopLeaves>>

\* removePID, whoever has written the file since.
Unlink(c) ==
  /\ At(c, "unlink")
  /\ pidFile' = 0 /\ AfterStop(c)
  /\ UNCHANGED <<port, table, stopLeaves>>

Stop(c) == ReadPid(c) \/ Probe(c) \/ Term(c) \/ SeeExit(c) \/ Kill(c) \/ Unlink(c)

-----------------------------------------------------------------------------
(* start *)

startLeaves == <<platform, pidFile, port, installed, rushed>>

\* Only a live pid blocks start.
Check(c) ==
  /\ At(c, "check")
  /\ IF IsRunning(pidFile) THEN Exit(c) ELSE GoTo(c, "fork")
  /\ UNCHANGED <<table, parent, trouble, startLeaves>>

\* forkChild; opening the log file or forking may fail.
Fork(c) ==
  /\ At(c, "fork")
  /\ \/ \E pid \in Pids :
          /\ installed /\ table[pid] = "none"
          /\ table'  = [table EXCEPT ![pid] = "check"]
          /\ parent' = [parent EXCEPT ![pid] = c]
          /\ cmd' = [cmd EXCEPT ![c].child = pid, ![c].pc = "poll"]
          /\ UNCHANGED trouble
     \/ Exit(c) /\ trouble' = TRUE /\ UNCHANGED <<table, parent>>
  /\ UNCHANGED startLeaves

\* Any pid in the file is taken for the child's and reported as started.
SeePidFile(c) ==
  /\ At(c, "poll") /\ pidFile # 0
  /\ Exit(c)
  /\ UNCHANGED <<table, parent, trouble, startLeaves>>

ChildGone(c) ==
  /\ At(c, "poll") /\ pidFile = 0 /\ ~IsRunning(cmd[c].child)
  /\ Exit(c)
  /\ UNCHANGED <<table, parent, trouble, startLeaves>>

\* Two seconds without a pid file: the daemon is said to be started all the same.
PollEnds(c) ==
  /\ At(c, "poll") /\ pidFile = 0 /\ IsRunning(cmd[c].child)
  /\ Exit(c)
  /\ UNCHANGED <<table, parent, trouble, startLeaves>>

Start(c) == Check(c) \/ Fork(c) \/ SeePidFile(c) \/ ChildGone(c) \/ PollEnds(c)

-----------------------------------------------------------------------------
(* upgrade and uninstall *)

\* go install, which may fail.
Install(c) ==
  /\ At(c, "install")
  /\ GoTo(c, "check") \/ Exit(c)
  /\ UNCHANGED <<systemVars, platform, installed, rushed, trouble>>

\* pkill -f aiclibridge sends SIGTERM to every daemon and every command, to the
\* uninstaller too (it spares only pkill itself), and no command handles it;
\* taskkill /F ends them all.
KillStray(c) ==
  /\ At(c, "stray")
  /\ table' = [p \in Pids |->
                 CASE table[p] \in Starting -> Ended(p)
                   [] table[p] = "serve" /\ platform = "unix" -> "drain"
                   [] table[p] \in Daemons /\ platform = "windows" -> "none"
                   [] OTHER -> table[p]]
  /\ port' = 0
  /\ cmd' = [d \in Commands |-> Rest]
  /\ UNCHANGED <<platform, pidFile, parent, installed, rushed, trouble>>

\* Neither pkill nor taskkill on the PATH: locate the binary, ask, remove it.
RemoveBinary(c) ==
  /\ At(c, "stray")
  /\ installed' \in {TRUE, FALSE} /\ Exit(c)
  /\ UNCHANGED <<platform, systemVars, rushed, trouble>>

-----------------------------------------------------------------------------
(* The daemon: start --foreground, runDaemonForeground and serveStack *)

daemonLeaves == <<platform, parent, installed, cmd, rushed>>

Phase(pid, phase) == table' = [table EXCEPT ![pid] = phase]

\* The child makes the check of start again, for itself.
ChildChecks(p) ==
  /\ table[p] = "check"
  /\ IF IsRunning(pidFile)
     THEN Dies(p) /\ trouble' = TRUE
     ELSE Phase(p, "writePid") /\ UNCHANGED <<port, trouble>>
  /\ UNCHANGED <<pidFile, daemonLeaves>>

\* Mutant: the file is created, never overwritten.
WritePidOnce(p) ==
  /\ table[p] = "writePid"
  /\ pidFile' = (IF pidFile = 0 THEN p ELSE pidFile) /\ Phase(p, "boot")
  /\ UNCHANGED <<port, trouble, daemonLeaves>>

WritePid(p) ==
  /\ table[p] = "writePid"
  /\ pidFile' = p /\ Phase(p, "boot")
  /\ UNCHANGED <<port, trouble, daemonLeaves>>

\* Data dir, store, detection, facade, listener: any of them may fail, and the
\* listener does when the address is in use.
Boot(p) ==
  /\ table[p] = "boot"
  /\ \/ port = 0 /\ port' = p /\ Phase(p, "serve") /\ UNCHANGED trouble
     \/ Phase(p, "remove") /\ trouble' = TRUE /\ UNCHANGED port
  /\ UNCHANGED <<pidFile, daemonLeaves>>

\* Shutdown, fc.Close and st.Close have returned.
Drained(p) ==
  /\ table[p] = "drain" /\ Phase(p, "remove")
  /\ UNCHANGED <<pidFile, port, trouble, daemonLeaves>>

\* The deferred removePID, whoever has written the file since, and the exit.
RemovePid(p) ==
  /\ table[p] = "remove"
  /\ pidFile' = 0 /\ Dies(p)
  /\ UNCHANGED <<trouble, daemonLeaves>>

DaemonRuns(p) == ChildChecks(p) \/ WritePid(p) \/ Boot(p) \/ Drained(p) \/ RemovePid(p)

\* A panic, the OOM killer, a power cut: nothing is cleaned up.
Crash(p) ==
  /\ table[p] \in Daemons /\ Dies(p) /\ trouble' = TRUE
  /\ UNCHANGED <<pidFile, daemonLeaves>>

\* A process that is no daemon comes, under a pid that is free, or goes.
Foreign(p) ==
  /\ \/ table[p] = "none" /\ \E kind \in {"foreign", "alien"} : Phase(p, kind)
     \/ table[p] \in {"foreign", "alien"} /\ Phase(p, "none")
  /\ trouble' = TRUE
  /\ UNCHANGED <<pidFile, port, daemonLeaves>>

-----------------------------------------------------------------------------

Init ==
  /\ platform \in Platforms
  /\ pidFile = 0 /\ port = 0 /\ installed = TRUE
  /\ table = [p \in Pids |-> "none"] /\ parent = [p \in Pids |-> "init"]
  /\ cmd = [c \in Commands |-> Rest]
  /\ rushed = FALSE /\ trouble = FALSE

Uninstalled == ~installed /\ (\A c \in Commands : Returned(c)) /\ UNCHANGED vars

Next ==
  \/ \E c \in Commands : Begin(c) \/ Stop(c) \/ Start(c) \/ Install(c) \/ KillStray(c) \/ RemoveBinary(c)
  \/ \E p \in Pids : DaemonRuns(p) \/ Crash(p) \/ Foreign(p)
  \/ Reap \/ Uninstalled

\* Commands and daemons make progress, the waits of the commands are bounded, init
\* reaps. Nobody has to begin a command, nothing has to crash.
Fairness ==
  /\ \A c \in Commands : WF_vars(Stop(c) \/ Start(c) \/ Install(c) \/ KillStray(c) \/ RemoveBinary(c))
  /\ \A p \in Pids : WF_vars(DaemonRuns(p))
  /\ WF_vars(Reap)

Spec     == Init /\ [][Next]_vars
FairSpec == Spec /\ Fairness

-----------------------------------------------------------------------------
(* Properties *)

\* Every variable has the type of its Go counterpart.
TypeOK ==
  /\ platform \in Platforms
  /\ pidFile \in Pids \cup {0} /\ port \in Pids \cup {0}
  /\ table \in [Pids -> Daemons \cup {"none", "zombie", "foreign", "alien"}]
  /\ parent \in [Pids -> Commands \cup {"init"}]
  /\ installed \in BOOLEAN
  /\ cmd \in [Commands -> [verb : AllVerbs \cup {"none"},
                           pc : {"read", "probe", "term", "await", "unlink", "install",
                                 "stray", "check", "fork", "poll", "exited"},
                           target : Pids \cup {0}, found : BOOLEAN, child : Pids \cup {0}]]
  /\ rushed \in BOOLEAN /\ trouble \in BOOLEAN

\* Commands given one after the other, each once the daemon of the one before has
\* booted or ended, find the daemon that serves under the pid in the file, even
\* after crashes and failed boots and with stale pid files about: a second start
\* does not take the file away from the first one's daemon.
PidFileNamesServer ==
  ~rushed => \A p \in Pids : table[p] = "serve" => pidFile = p

\* When stop is about to report success no daemon is left, nor one on its way, even
\* if it ignored SIGTERM or its shutdown hangs; for commands given one at a time.
StoppedMeansGone ==
  \A c \in Commands :
    ~rushed /\ cmd[c].verb = "stop" /\ At(c, "unlink") /\ cmd[c].found
      => port = 0 /\ \A p \in Pids : table[p] \notin Daemons

\* restart of a running or stopped daemon brings one up: the new one finds the port
\* free and no live pid in the file; unless something else goes wrong meanwhile.
RestartServes ==
  \A c \in Commands : cmd[c].verb = "restart" /\ At(c, "read")
    ~> (\E p \in Pids : table[p] = "serve" /\ pidFile = p) \/ rushed \/ trouble

=============================================================================
