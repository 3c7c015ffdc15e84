---------------------------- MODULE DaemonProofs ----------------------------
(* The pid file names the daemon that serves, and a stop that reports success *)
(* leaves none: for any number of pids and of terminals, whatever crashes,    *)
(* and whichever process the system gives a stale pid to.                     *)
EXTENDS Daemon, TLAPS

Phases == Daemons \cup {"none", "zombie", "foreign", "alien"}
Stages == {"read", "probe", "term", "await", "unlink", "install", "stray", "check", "fork",
           "poll", "exited"}
Stopping == {"read", "probe", "term", "await", "unlink"}

Alive == {p \in Pids : table[p] \in Daemons}

\* Only commands that stop something first are at the stages of stop; and the
\* listener is the serving daemon's.
Sound ==
  /\ TypeOK
  /\ \A c \in Commands : cmd[c].pc \in Stopping => cmd[c].verb \in AllVerbs \ {"start"}
  /\ port # 0 => table[port] = "serve"

\* Commands given one after the other: one command and one daemon at a time, ...
OneCommand == \A c, d \in Commands : ~Returned(c) /\ ~Returned(d) => c = d
OneDaemon  == \A p, q \in Alive : p = q

\* ... which is named by the file from the moment it has written it, ...
Named == \A p \in Alive : table[p] \notin {"check", "writePid"} => pidFile = p

\* ... and what a command can meet where it is.
Meets ==
  \A c \in Commands :
    /\ cmd[c].pc \in {"read", "probe", "term", "check"} => \A p \in Alive : table[p] = "serve"
    /\ cmd[c].pc \in {"probe", "term"} => pidFile = cmd[c].target
    /\ cmd[c].pc = "await" => \A p \in Alive : p = cmd[c].target
                                               /\ table[p] \in {"serve", "drain", "remove"}
    /\ cmd[c].pc \in {"unlink", "stray", "install", "fork"} => Alive = {}

Calm == ~rushed => OneCommand /\ OneDaemon /\ Named /\ Meets

IInv == Sound /\ Calm

-----------------------------------------------------------------------------
(* What the steps do to the commands and to the process table *)

CmdType == [verb : AllVerbs \cup {"none"}, pc : Stages, target : Pids \cup {0},
            found : BOOLEAN, child : Pids \cup {0}]

LEMMA Types == TypeOK <=> /\ platform \in Platforms
                          /\ pidFile \in Pids \cup {0} /\ port \in Pids \cup {0}
                          /\ table \in [Pids -> Phases]
                          /\ parent \in [Pids -> Commands \cup {"init"}]
                          /\ installed \in BOOLEAN
                          /\ cmd \in [Commands -> CmdType]
                          /\ rushed \in BOOLEAN /\ trouble \in BOOLEAN
BY DEF TypeOK, Phases, CmdType, Stages

LEMMA TypesNext ==
  /\ platform' \in Platforms
  /\ pidFile' \in Pids \cup {0} /\ port' \in Pids \cup {0}
  /\ table' \in [Pids -> Phases]
  /\ parent' \in [Pids -> Commands \cup {"init"}]
  /\ installed' \in BOOLEAN
  /\ cmd' \in [Commands -> CmdType]
  /\ rushed' \in BOOLEAN /\ trouble' \in BOOLEAN
  => TypeOK'
BY DEF TypeOK, Phases, CmdType, Stages

\* cmd' is cmd but for command c, which now is r.
Moved(c, r) == r \in CmdType /\ cmd' = [cmd EXCEPT ![c] = r]

Keeps(c, r) == r.verb = cmd[c].verb /\ r.target = cmd[c].target

LEMMA Moves ==
  ASSUME TypeOK, NEW c \in Commands, NEW r, Moved(c, r)
  PROVE  /\ cmd' \in [Commands -> CmdType] /\ cmd'[c] = r
         /\ \A d \in Commands \ {c} : cmd'[d] = cmd[d]
BY Types DEF Moved

LEMMA GoesTo ==
  ASSUME TypeOK, NEW c \in Commands, NEW place \in Stages, GoTo(c, place)
  PROVE  \E r : Moved(c, r) /\ r.pc = place /\ Keeps(c, r)
<1> DEFINE r == [cmd[c] EXCEPT !.pc = place]
<1>1. cmd[c] \in CmdType
  BY Types
<1>2. r \in CmdType /\ r.pc = place /\ Keeps(c, r)
  BY <1>1 DEF CmdType, Keeps
<1>3. cmd' = [cmd EXCEPT ![c] = r]
  BY DEF GoTo
<1> QED
  BY <1>2, <1>3 DEF Moved

LEMMA Exits ==
  ASSUME NEW c \in Commands, Exit(c)
  PROVE  \E r : Moved(c, r) /\ r.pc = "exited"
<1>1. Rest \in CmdType /\ Rest.pc = "exited"
  BY DEF Rest, CmdType, Stages
<1> QED
  BY <1>1 DEF Exit, Moved

LEMMA StopIsOver ==
  ASSUME Sound, NEW c \in Commands, cmd[c].pc \in Stopping, AfterStop(c)
  PROVE  \E r : Moved(c, r) /\ r.pc \in {"exited", "check", "install", "stray"}
<1>1. cmd[c].verb \in {"stop", "restart", "upgrade", "uninstall"}
  BY DEF Sound, AllVerbs
<1>2. CASE Exit(c)
  BY <1>2, Exits
<1>3. ASSUME NEW place \in {"check", "install", "stray"}, GoTo(c, place)
      PROVE  \E r : Moved(c, r) /\ r.pc \in {"exited", "check", "install", "stray"}
  <2>1. place \in Stages
    BY DEF Stages
  <2> QED
    BY <1>3, <2>1, GoesTo DEF Sound
<1> QED
  BY <1>1, <1>2, <1>3 DEF AfterStop

\* The listener is closed with its process, and a process that has died is no daemon.
LEMMA Deaths ==
  ASSUME TypeOK, NEW p \in Pids, Dies(p)
  PROVE  /\ table' \in [Pids -> Phases] /\ table'[p] \in {"none", "zombie"}
         /\ \A q \in Pids \ {p} : table'[q] = table[q]
         /\ port' = (IF port = p THEN 0 ELSE port) /\ port' \in Pids \cup {0}
BY Types DEF Dies, Release, Ended, Phases

\* A command that acts is the only one there is.
LEMMA OnlyOneMoves ==
  ASSUME TypeOK, OneCommand, NEW c \in Commands, ~Returned(c), NEW r, Moved(c, r)
  PROVE  OneCommand' /\ \A d \in Commands \ {c} : cmd'[d].pc = "exited"
<1>1. \A d \in Commands \ {c} : cmd[d].pc = "exited"
  BY DEF OneCommand, Returned, At
<1>2. \A d \in Commands \ {c} : cmd'[d].pc = "exited"
  BY <1>1, Moves
<1> QED
  BY <1>2 DEF OneCommand, Returned, At

\* No daemon is born, none changes its phase, and the file is left alone.
Fewer == \A p \in Pids : table'[p] = table[p] \/ table'[p] \notin Daemons

LEMMA FewerDaemons ==
  ASSUME Fewer, OneDaemon, Named, pidFile' = pidFile
  PROVE  /\ Alive' \subseteq Alive /\ OneDaemon' /\ Named'
         /\ \A p \in Alive' : table'[p] = table[p]
<1>1. \A p \in Alive' : p \in Alive /\ table'[p] = table[p]
  BY DEF Fewer, Alive
<1> QED
  BY <1>1 DEF OneDaemon, Named

\* A step of a command that stays calm: what it must meet where it goes.
Met(r) ==
  /\ r.pc \in {"read", "probe", "term", "check"} => \A p \in Alive' : table'[p] = "serve"
  /\ r.pc \in {"probe", "term"} => pidFile' = r.target
  /\ r.pc = "await" => \A p \in Alive' : p = r.target /\ table'[p] \in {"serve", "drain", "remove"}
  /\ r.pc \in {"unlink", "stray", "install", "fork"} => Alive' = {}

LEMMA CommandMeets ==
  ASSUME TypeOK, OneCommand, NEW c \in Commands, ~Returned(c), NEW r, Moved(c, r), Met(r)
  PROVE  OneCommand' /\ Meets'
<1>1. OneCommand' /\ \A d \in Commands \ {c} : cmd'[d].pc = "exited"
  BY OnlyOneMoves
<1>2. cmd'[c] = r
  BY Moves
<1> QED
  BY <1>1, <1>2 DEF Met, Meets

\* A command that has nothing to say about stop keeps Sound.
LEMMA SoundMoves ==
  ASSUME Sound, NEW c \in Commands, NEW r, Moved(c, r),
         r.pc \in Stopping => cmd[c].pc \in Stopping /\ r.verb = cmd[c].verb
  PROVE  /\ cmd' \in [Commands -> CmdType]
         /\ \A d \in Commands : cmd'[d].pc \in Stopping => cmd'[d].verb \in AllVerbs \ {"start"}
<1>1. cmd' \in [Commands -> CmdType] /\ cmd'[c] = r /\ \A d \in Commands \ {c} : cmd'[d] = cmd[d]
  BY Moves DEF Sound
<1> QED
  BY <1>1 DEF Sound

-----------------------------------------------------------------------------
(* stop *)

\* A step of a command that leaves the daemons alone.
LEMMA QuietCommand ==
  ASSUME IInv, NEW c \in Commands, ~Returned(c), NEW r, Moved(c, r),
         UNCHANGED <<table, port, rushed>>,
         r.pc \in Stopping => cmd[c].pc \in Stopping /\ r.verb = cmd[c].verb,
         ~rushed => Met(r) /\ (pidFile' = pidFile \/ Alive = {}),
         TypeOK'
  PROVE  IInv'
<1>1. Sound'
  BY SoundMoves DEF IInv, Sound
<1>2. CASE rushed
  BY <1>1, <1>2 DEF IInv, Calm
<1>3. CASE ~rushed
  <2>1. OneCommand' /\ Meets'
    BY <1>3, CommandMeets DEF IInv, Calm, Sound
  <2>2. Alive' = Alive /\ OneDaemon' /\ Named'
    BY <1>3 DEF IInv, Calm, Alive, OneDaemon, Named
  <2> QED
    BY <1>1, <2>1, <2>2 DEF IInv, Calm
<1> QED
  BY <1>2, <1>3

LEMMA ReadPidKeeps == ASSUME IInv, NEW c \in Commands, ReadPid(c) PROVE IInv'
<1> USE DEF ReadPid, stopLeaves
<1>1. TypeOK /\ Sound /\ cmd[c].pc = "read" /\ ~Returned(c) /\ cmd[c] \in CmdType
  BY Types DEF IInv, Sound, At, Returned
<1>2. ~rushed => \A p \in Alive : table[p] = "serve" /\ p = pidFile
  BY <1>1 DEF IInv, Calm, Meets, Named
<1>3. Alive' = Alive
  BY DEF Alive
<1>4. ASSUME NEW r, Moved(c, r),
             r.pc \in Stopping => cmd[c].pc \in Stopping /\ r.verb = cmd[c].verb,
             ~rushed => Met(r)
      PROVE  IInv'
  <2>1. TypeOK'
    BY <1>1, <1>4, Types, TypesNext, Moves
  <2> QED
    BY <1>1, <1>4, <2>1, QuietCommand
<1>5. CASE pidFile = 0
  <2>1. PICK r : Moved(c, r) /\ r.pc \in {"exited", "check", "install", "stray"}
    BY <1>1, <1>5, StopIsOver DEF Stopping
  <2>2. ~rushed => Alive = {}
    BY <1>2, <1>5, DaemonAssumption DEF Alive
  <2>3. ~rushed => Met(r)
    BY <1>3, <2>1, <2>2 DEF Met
  <2> QED
    BY <1>4, <2>1, <2>3 DEF Stopping
<1>6. CASE pidFile # 0
  <2> DEFINE r == [cmd[c] EXCEPT !.target = pidFile, !.pc = "probe"]
  <2>1. r \in CmdType /\ r.pc = "probe" /\ r.target = pidFile /\ r.verb = cmd[c].verb
    BY <1>1, Types DEF CmdType, Stages
  <2>2. Moved(c, r)
    BY <1>6, <2>1 DEF Moved
  <2>3. ~rushed => Met(r)
    BY <1>2, <1>3, <2>1 DEF Met, Alive
  <2> QED
    BY <1>1, <1>4, <2>1, <2>2, <2>3 DEF Stopping
<1> QED
  BY <1>5, <1>6

LEMMA ProbeKeeps == ASSUME IInv, NEW c \in Commands, Probe(c) PROVE IInv'
<1> USE DEF Probe, stopLeaves
<1>1. TypeOK /\ Sound /\ cmd[c].pc = "probe" /\ ~Returned(c) /\ cmd[c] \in CmdType
  BY Types DEF IInv, Sound, At, Returned
<1>2. ~rushed => pidFile = cmd[c].target
                 /\ \A p \in Alive : table[p] = "serve" /\ p = cmd[c].target
  BY <1>1 DEF IInv, Calm, Meets, Named
<1>3. Alive' = Alive
  BY DEF Alive
<1>4. ASSUME NEW r, Moved(c, r), r.verb = cmd[c].verb, ~rushed => Met(r)
      PROVE  IInv'
  <2>1. TypeOK'
    BY <1>1, <1>4, Types, TypesNext, Moves
  <2> QED
    BY <1>1, <1>4, <2>1, QuietCommand DEF Stopping
<1>5. CASE IsRunning(cmd[c].target)
  <2> DEFINE r == [cmd[c] EXCEPT !.found = TRUE, !.pc = "term"]
  <2>1. r \in CmdType /\ r.pc = "term" /\ r.target = cmd[c].target /\ r.verb = cmd[c].verb
    BY <1>1 DEF CmdType, Stages
  <2>2. Moved(c, r)
    BY <1>5, <2>1 DEF Moved
  <2>3. ~rushed => Met(r)
    BY <1>2, <1>3, <2>1 DEF Met, Alive
  <2> QED
    BY <1>4, <2>1, <2>2, <2>3
<1>6. CASE ~IsRunning(cmd[c].target)
  <2>1. PICK r : Moved(c, r) /\ r.pc = "unlink" /\ Keeps(c, r)
    BY <1>1, <1>6, GoesTo DEF Stages
  <2>2. ~rushed => Alive = {}
    BY <1>2, <1>6, DaemonAssumption DEF Alive, IsRunning, Daemons, Starting
  <2>3. ~rushed => Met(r)
    BY <1>3, <2>1, <2>2 DEF Met
  <2> QED
    BY <1>4, <2>1, <2>3 DEF Keeps
<1> QED
  BY <1>5, <1>6

LEMMA UnlinkKeeps == ASSUME IInv, NEW c \in Commands, Unlink(c) PROVE IInv'
<1> USE DEF Unlink, stopLeaves
<1>1. TypeOK /\ Sound /\ cmd[c].pc = "unlink" /\ ~Returned(c)
  BY DEF IInv, Sound, At, Returned
<1>2. PICK r : Moved(c, r) /\ r.pc \in {"exited", "check", "install", "stray"}
  BY <1>1, StopIsOver DEF Stopping
<1>3. TypeOK'
  BY <1>1, <1>2, Types, TypesNext, Moves
<1>4. ~rushed => Alive = {} /\ Alive' = {}
  BY <1>1 DEF IInv, Calm, Meets, Alive
<1>5. ~rushed => Met(r)
  BY <1>2, <1>4 DEF Met
<1> QED
  BY <1>1, <1>2, <1>3, <1>4, <1>5, QuietCommand DEF Stopping

LEMMA SeeExitKeeps == ASSUME IInv, NEW c \in Commands, SeeExit(c) PROVE IInv'
<1> USE DEF SeeExit, stopLeaves
<1>1. TypeOK /\ Sound /\ cmd[c].pc = "await" /\ ~Returned(c)
  BY DEF IInv, Sound, At, Returned
<1>2. PICK r : Moved(c, r) /\ r.pc = "unlink" /\ Keeps(c, r)
  BY <1>1, GoesTo DEF Stages
<1>3. TypeOK'
  BY <1>1, <1>2, Types, TypesNext, Moves
<1>4. ~rushed => Alive = {} /\ Alive' = {}
  BY <1>1, DaemonAssumption DEF IInv, Calm, Meets, Alive, IsRunning, Daemons, Starting
<1>5. ~rushed => Met(r)
  BY <1>2, <1>4 DEF Met
<1> QED
  BY <1>1, <1>2, <1>3, <1>5, QuietCommand DEF Stopping, Keeps

\* A step that changes the process table and moves a command on.
LEMMA SignallingCommand ==
  ASSUME IInv, NEW c \in Commands, ~Returned(c), NEW r, Moved(c, r), UNCHANGED rushed,
         r.pc \in Stopping => cmd[c].pc \in Stopping /\ r.verb = cmd[c].verb,
         TypeOK', port' # 0 => table'[port'] = "serve",
         ~rushed => Met(r) /\ OneDaemon' /\ Named'
  PROVE  IInv'
<1>1. Sound'
  BY SoundMoves DEF IInv, Sound
<1>2. CASE rushed
  BY <1>1, <1>2 DEF IInv, Calm
<1>3. CASE ~rushed
  <2>1. OneCommand' /\ Meets'
    BY <1>3, CommandMeets DEF IInv, Calm, Sound
  <2> QED
    BY <1>1, <1>3, <2>1 DEF IInv, Calm
<1> QED
  BY <1>2, <1>3

LEMMA KillKeeps == ASSUME IInv, NEW c \in Commands, Kill(c) PROVE IInv'
<1> USE DEF Kill, stopLeaves
<1> DEFINE t == cmd[c].target
<1>1. TypeOK /\ Sound /\ cmd[c].pc = "await" /\ ~Returned(c) /\ cmd[c] \in CmdType
  BY Types DEF IInv, Sound, At, Returned
<1>2. PICK r : Moved(c, r) /\ r.pc = "unlink" /\ Keeps(c, r)
  BY <1>1, GoesTo DEF Stages
<1>3. t \in Pids
  BY <1>1 DEF CmdType, IsRunning
<1>4. /\ table' \in [Pids -> Phases] /\ table'[t] \in {"none", "zombie"}
      /\ \A q \in Pids \ {t} : table'[q] = table[q]
      /\ port' \in Pids \cup {0} /\ (port' # 0 => port' = port /\ port # t)
  <2>1. CASE table[t] = "zombie"
    BY <1>1, <2>1, Types DEF Sound
  <2>2. CASE table[t] # "zombie"
    BY <1>1, <1>3, <2>2, Deaths
  <2> QED
    BY <2>1, <2>2
<1>5. TypeOK'
  BY <1>1, <1>2, <1>4, Types, TypesNext, Moves
<1>6. port' # 0 => table'[port'] = "serve"
  BY <1>1, <1>4, Types DEF Sound
<1>7. ~rushed => Alive' = {}
  BY <1>1, <1>3, <1>4 DEF IInv, Calm, Meets, Alive, Daemons, Starting
<1>8. ~rushed => Met(r) /\ OneDaemon' /\ Named'
  BY <1>2, <1>7 DEF Met, OneDaemon, Named
<1> QED
  BY <1>1, <1>2, <1>5, <1>6, <1>8, SignallingCommand DEF Stopping, Keeps

LEMMA Signals ==
  ASSUME Sound, NEW t \in Pids, SignalTerm(t)
  PROVE  /\ table' \in [Pids -> Phases] /\ port' \in Pids \cup {0}
         /\ port' # 0 => table'[port'] = "serve"
         /\ \A q \in Pids \ {t} : table'[q] = table[q]
         /\ \/ table'[t] = table[t] \/ table'[t] \notin Daemons
            \/ table[t] = "serve" /\ table'[t] = "drain"
<1>0. TypeOK /\ (port # 0 => table[port] = "serve") /\ port \in Pids \cup {0}
  BY Types DEF Sound
<1>1. CASE table[t] \in Starting \cup {"foreign"} /\ Terminated(t)
  <2>1. Dies(t)
    BY <1>1 DEF Terminated, Starting
  <2> QED
    BY <1>0, <2>1, Deaths DEF Daemons, Starting
<1>2. CASE table[t] = "serve" /\ Terminated(t)
  <2>1. table' = [table EXCEPT ![t] = "drain"] /\ Release(t)
    BY <1>2 DEF Terminated, Starting
  <2> QED
    BY <1>0, <1>2, <2>1, Types DEF Release, Phases, Daemons
<1>3. CASE UNCHANGED <<table, port>>
  BY <1>0, <1>3, Types
<1>4. CASE table[t] \notin Starting \cup {"foreign", "serve"} /\ Terminated(t)
  BY <1>3, <1>4 DEF Terminated
<1> QED
  BY <1>1, <1>2, <1>3, <1>4 DEF SignalTerm

LEMMA TermKeeps == ASSUME IInv, NEW c \in Commands, Term(c) PROVE IInv'
<1> USE DEF Term, stopLeaves
<1> DEFINE t == cmd[c].target
<1>1. TypeOK /\ Sound /\ cmd[c].pc = "term" /\ ~Returned(c) /\ cmd[c] \in CmdType
  BY Types DEF IInv, Sound, At, Returned
<1>2. ~rushed => pidFile = t /\ \A p \in Alive : table[p] = "serve" /\ p = t
  BY <1>1 DEF IInv, Calm, Meets, Named
<1>3. CASE IsRunning(t)
  <2>1. t \in Pids /\ SignalTerm(t) /\ GoTo(c, "await")
    BY <1>1, <1>3 DEF CmdType, IsRunning
  <2>2. PICK r : Moved(c, r) /\ r.pc = "await" /\ Keeps(c, r)
    BY <1>1, <2>1, GoesTo DEF Stages
  <2>3. TypeOK'
    BY <1>1, <2>1, <2>2, Types, TypesNext, Moves, Signals
  <2>4. ~rushed => \A p \in Alive' : p = t /\ table'[p] \in {"serve", "drain"}
    BY <1>1, <1>2, <2>1, Signals DEF Alive
  <2>5. ~rushed => Met(r) /\ OneDaemon' /\ Named'
    BY <1>2, <2>2, <2>4 DEF Met, OneDaemon, Named, Keeps
  <2> QED
    BY <1>1, <2>1, <2>2, <2>3, <2>5, Signals, SignallingCommand DEF Stopping, Keeps
<1>4. CASE ~IsRunning(t)
  <2>1. UNCHANGED <<table, port>>
    BY <1>4
  <2>2. Alive' = Alive /\ (~rushed => Alive = {})
    BY <1>2, <1>4, <2>1, DaemonAssumption DEF Alive, IsRunning, Daemons, Starting
  <2>3. PICK r : Moved(c, r) /\ r.pc \in {"exited", "check", "install", "stray", "await"}
                 /\ (r.pc = "await" => r.verb = cmd[c].verb)
    <3>1. CASE platform = "unix"
      BY <1>1, <1>4, <3>1, StopIsOver DEF Stopping
    <3>2. CASE platform # "unix"
      BY <1>1, <1>4, <3>2, GoesTo DEF Stages, Keeps
    <3> QED
      BY <3>1, <3>2
  <2>4. TypeOK'
    BY <1>1, <2>1, <2>3, Types, TypesNext, Moves
  <2>5. ~rushed => Met(r)
    BY <2>2, <2>3 DEF Met
  <2> QED
    BY <1>1, <2>1, <2>3, <2>4, <2>5, QuietCommand DEF Stopping
<1> QED
  BY <1>3, <1>4

LEMMA StopKeeps == ASSUME IInv, NEW c \in Commands, Stop(c) PROVE IInv'
BY ReadPidKeeps, ProbeKeeps, TermKeeps, SeeExitKeeps, KillKeeps, UnlinkKeeps DEF Stop

-----------------------------------------------------------------------------
(* A command begins; start, upgrade and uninstall *)

LEMMA BeginKeeps == ASSUME IInv, NEW c \in Commands, Begin(c) PROVE IInv'
<1>1. TypeOK /\ Sound /\ ~rushed
  BY DEF Begin, systemVars, IInv, Sound
<1>2. PICK v \in Verbs :
        cmd' = [cmd EXCEPT ![c] = [Rest EXCEPT !.verb = v,
                                               !.pc = IF v = "start" THEN "check" ELSE "read"]]
  BY DEF Begin, systemVars
<1> DEFINE r == [Rest EXCEPT !.verb = v, !.pc = IF v = "start" THEN "check" ELSE "read"]
<1>3. Moved(c, r) /\ r.verb = v /\ v \in AllVerbs
      /\ r.pc = (IF v = "start" THEN "check" ELSE "read")
  BY <1>2, DaemonAssumption DEF Moved, Rest, CmdType, Stages
<1>4. /\ cmd' \in [Commands -> CmdType] /\ cmd'[c] = r
      /\ \A d \in Commands \ {c} : cmd'[d] = cmd[d]
  BY <1>1, <1>3, Moves
<1>5. rushed' \in BOOLEAN
  BY <1>1, Zenon DEF Begin, systemVars
<1>6. TypeOK'
  BY <1>1, <1>4, <1>5, Types, TypesNext DEF Begin, systemVars
<1>7. Sound'
  <2>1. r.pc \in Stopping => r.verb \in AllVerbs \ {"start"}
    BY <1>3 DEF Stopping
  <2>2. \A d \in Commands : cmd'[d].pc \in Stopping => cmd'[d].verb \in AllVerbs \ {"start"}
    BY <1>1, <1>4, <2>1 DEF Sound
  <2> QED
    BY <1>1, <1>6, <2>2 DEF Begin, systemVars, Sound
<1>8. ASSUME ~rushed' PROVE OneCommand' /\ OneDaemon' /\ Named' /\ Meets'
  <2>1. (\A d \in Commands : Returned(d)) /\ \A p \in Pids : table[p] \notin Daemons \ {"serve"}
    BY <1>1, <1>8, Zenon DEF Begin, systemVars
  <2>2. \A d \in Commands \ {c} : cmd'[d].pc = "exited"
    BY <1>4, <2>1 DEF Returned, At
  <2>3. OneCommand'
    BY <2>2 DEF OneCommand, Returned, At
  <2>4. Alive' = Alive /\ OneDaemon' /\ Named'
    BY <1>1 DEF Begin, systemVars, IInv, Calm, Alive, OneDaemon, Named
  <2>5. \A p \in Alive' : table'[p] = "serve"
    BY <2>1, <2>4 DEF Begin, systemVars, Alive
  <2>6. r.pc \in {"read", "check"}
    BY <1>3
  <2>7. Meets'
    BY <1>4, <2>2, <2>5, <2>6 DEF Meets
  <2> QED
    BY <2>3, <2>4, <2>7
<1> QED
  BY <1>7, <1>8 DEF IInv, Calm

LEMMA CheckKeeps == ASSUME IInv, NEW c \in Commands, Check(c) PROVE IInv'
<1> USE DEF Check, startLeaves
<1>1. TypeOK /\ cmd[c].pc = "check" /\ ~Returned(c)
  BY DEF IInv, Sound, At, Returned
<1>2. PICK r : Moved(c, r) /\ r.pc \in {"exited", "fork"} /\ (r.pc = "fork" => ~IsRunning(pidFile))
  BY <1>1, Exits, GoesTo DEF Stages
<1>3. TypeOK'
  BY <1>1, <1>2, Types, TypesNext, Moves
<1>4. Alive' = Alive /\ (~rushed => \A p \in Alive : p = pidFile /\ IsRunning(p))
  BY <1>1, DaemonAssumption DEF IInv, Calm, Meets, Named, Alive, IsRunning
<1>5. ~rushed => Met(r)
  BY <1>2, <1>4 DEF Met
<1> QED
  BY <1>1, <1>2, <1>3, <1>5, QuietCommand DEF Stopping

LEMMA ForkKeeps == ASSUME IInv, NEW c \in Commands, Fork(c) PROVE IInv'
<1> USE DEF Fork, startLeaves
<1>1. TypeOK /\ cmd[c].pc = "fork" /\ ~Returned(c) /\ cmd[c] \in CmdType
  BY Types DEF IInv, Sound, At, Returned
<1>2. ~rushed => Alive = {}
  BY <1>1 DEF IInv, Calm, Meets
<1>3. ASSUME NEW pid \in Pids, table[pid] = "none",
             table' = [table EXCEPT ![pid] = "check"], parent' = [parent EXCEPT ![pid] = c],
             cmd' = [cmd EXCEPT ![c].child = pid, ![c].pc = "poll"], trouble' = trouble
      PROVE  IInv'
  <2> DEFINE r == [cmd[c] EXCEPT !.child = pid, !.pc = "poll"]
  <2>1. Moved(c, r) /\ r.pc = "poll"
    BY <1>1, <1>3 DEF Moved, CmdType, Stages
  <2>2. /\ table' \in [Pids -> Phases] /\ table'[pid] = "check"
        /\ \A q \in Pids \ {pid} : table'[q] = table[q]
    BY <1>1, <1>3, Types DEF Phases, Daemons, Starting
  <2>3. TypeOK'
    BY <1>1, <1>3, <2>1, <2>2, Types, TypesNext, Moves
  <2>4. port' # 0 => table'[port'] = "serve"
    BY <1>1, <1>3, <2>2, Types DEF IInv, Sound
  <2>5. ~rushed => Alive' = {pid}
    BY <1>2, <2>2 DEF Alive, Daemons, Starting
  <2>6. ~rushed => Met(r) /\ OneDaemon' /\ Named'
    BY <2>1, <2>2, <2>5 DEF Met, OneDaemon, Named
  <2> QED
    BY <1>1, <2>1, <2>3, <2>4, <2>6, SignallingCommand DEF Stopping
<1>4. CASE Exit(c) /\ trouble' = TRUE /\ UNCHANGED <<table, parent>>
  <2>1. PICK r : Moved(c, r) /\ r.pc = "exited"
    BY <1>4, Exits
  <2>2. TypeOK'
    BY <1>1, <1>4, <2>1, Types, TypesNext, Moves
  <2> QED
    BY <1>1, <1>4, <2>1, <2>2, QuietCommand DEF Stopping, Met
<1> QED
  BY <1>3, <1>4

\* The command returns, and with it goes all it was about to do.
LEMMA ReturningCommand ==
  ASSUME IInv, NEW c \in Commands, ~Returned(c), Exit(c), UNCHANGED <<table, port, pidFile, rushed>>,
         UNCHANGED <<platform, parent, trouble>>, installed' \in BOOLEAN
  PROVE  IInv'
<1>1. PICK r : Moved(c, r) /\ r.pc = "exited"
  BY Exits
<1>2. TypeOK'
  BY <1>1, Types, TypesNext, Moves DEF IInv, Sound
<1> QED
  BY <1>1, <1>2, QuietCommand DEF Stopping, Met

LEMMA PollKeeps ==
  ASSUME IInv, NEW c \in Commands, SeePidFile(c) \/ ChildGone(c) \/ PollEnds(c) PROVE IInv'
<1>1. ~Returned(c) /\ installed \in BOOLEAN
  BY DEF SeePidFile, ChildGone, PollEnds, At, Returned, IInv, Sound, TypeOK
<1> QED
  BY <1>1, ReturningCommand DEF SeePidFile, ChildGone, PollEnds, startLeaves

LEMMA InstallKeeps == ASSUME IInv, NEW c \in Commands, Install(c) PROVE IInv'
<1>1. TypeOK /\ cmd[c].pc = "install" /\ ~Returned(c)
  BY DEF Install, At, Returned, IInv, Sound
<1>2. CASE Exit(c)
  BY <1>1, <1>2, ReturningCommand DEF Install, systemVars, TypeOK
<1>3. CASE GoTo(c, "check")
  <2>1. PICK r : Moved(c, r) /\ r.pc = "check"
    BY <1>1, <1>3, GoesTo DEF Stages
  <2>2. TypeOK'
    BY <1>1, <2>1, Types, TypesNext, Moves DEF Install, systemVars
  <2>3. ~rushed => Alive' = {}
    BY <1>1 DEF IInv, Calm, Meets, Install, systemVars, Alive
  <2>4. ~rushed => Met(r)
    BY <2>1, <2>3 DEF Met
  <2> QED
    BY <1>1, <2>1, <2>2, <2>4, QuietCommand DEF Install, systemVars, Stopping
<1> QED
  BY <1>2, <1>3 DEF Install

LEMMA RemoveBinaryKeeps == ASSUME IInv, NEW c \in Commands, RemoveBinary(c) PROVE IInv'
BY ReturningCommand DEF RemoveBinary, systemVars, At, Returned

\* Every command ends here, so the pid of a daemon is not known to any.
LEMMA KillStrayKeeps == ASSUME IInv, NEW c \in Commands, KillStray(c) PROVE IInv'
<1>1. TypeOK /\ cmd[c].pc = "stray"
  BY DEF KillStray, IInv, Sound, At
<1>2. \A d \in Commands : cmd'[d] = Rest
  BY DEF KillStray
<1>3. Rest \in CmdType /\ Rest.pc = "exited"
  BY DEF Rest, CmdType, Stages
<1>4. \A p \in Pids : table'[p] \in Phases
                      /\ (table[p] \notin Daemons => table'[p] = table[p])
  BY <1>1, Types DEF KillStray, Ended, Phases, Daemons, Starting
<1>5. table' \in [Pids -> Phases] /\ cmd' \in [Commands -> CmdType]
  <2>1. table' = [p \in Pids |-> table'[p]]
    BY DEF KillStray
  <2>2. cmd' = [d \in Commands |-> cmd'[d]]
    BY DEF KillStray
  <2> QED
    BY <1>2, <1>3, <1>4, <2>1, <2>2
<1>6. TypeOK'
  BY <1>1, <1>5, Types, TypesNext DEF KillStray
<1>7. Sound'
  BY <1>2, <1>3, <1>6 DEF Sound, KillStray, Stopping
<1>8. ASSUME ~rushed PROVE OneCommand' /\ OneDaemon' /\ Named' /\ Meets'
  <2>1. Alive' = {}
    BY <1>1, <1>4, <1>8 DEF IInv, Calm, Meets, Alive
  <2> QED
    BY <1>2, <1>3, <2>1 DEF OneCommand, OneDaemon, Named, Meets, Returned, At
<1> QED
  BY <1>7, <1>8 DEF IInv, Calm, KillStray

-----------------------------------------------------------------------------
(* The daemons, and what happens to them *)

\* A process ends or changes, no daemon is born, the commands look on.
LEMMA FewerKeeps ==
  ASSUME IInv, Fewer, UNCHANGED <<cmd, rushed, pidFile>>, TypeOK', port' # 0 => table'[port'] = "serve"
  PROVE  IInv'
<1>1. Sound'
  BY DEF IInv, Sound
<1>2. ASSUME ~rushed PROVE OneCommand' /\ OneDaemon' /\ Named' /\ Meets'
  <2>1. /\ Alive' \subseteq Alive /\ OneDaemon' /\ Named'
        /\ \A p \in Alive' : table'[p] = table[p]
    BY <1>2, FewerDaemons DEF IInv, Calm
  <2>2. OneCommand'
    BY <1>2 DEF IInv, Calm, OneCommand, Returned, At
  <2>3. Meets'
    BY <1>2, <2>1 DEF IInv, Calm, Meets
  <2> QED
    BY <2>1, <2>2, <2>3
<1> QED
  BY <1>1, <1>2 DEF IInv, Calm

LEMMA DeathKeeps ==
  ASSUME IInv, NEW p \in Pids, Dies(p), UNCHANGED <<platform, pidFile, parent, installed, cmd, rushed>>,
         trouble' \in BOOLEAN
  PROVE  IInv'
<1>1. TypeOK /\ (port # 0 => table[port] = "serve")
  BY DEF IInv, Sound
<1>2. TypeOK'
  BY <1>1, Deaths, Types, TypesNext
<1>3. Fewer
  BY <1>1, Deaths DEF Fewer, Daemons, Starting
<1>4. port' # 0 => table'[port'] = "serve"
  BY <1>1, Deaths, Types
<1> QED
  BY <1>2, <1>3, <1>4, FewerKeeps

LEMMA ForeignKeeps == ASSUME IInv, NEW p \in Pids, Foreign(p) PROVE IInv'
<1>1. TypeOK /\ (port # 0 => table[port] = "serve")
  BY DEF IInv, Sound
<1>2. /\ table' \in [Pids -> Phases] /\ table'[p] \in {"none", "foreign", "alien"}
      /\ \A q \in Pids \ {p} : table'[q] = table[q]
  BY <1>1, Types DEF Foreign, Phase, Phases
<1>3. TypeOK'
  BY <1>1, <1>2, Types, TypesNext DEF Foreign, daemonLeaves
<1>4. Fewer
  BY <1>2 DEF Fewer, Daemons, Starting
<1>5. port' # 0 => table'[port'] = "serve"
  BY <1>1, <1>2, Types DEF Foreign
<1> QED
  BY <1>3, <1>4, <1>5, FewerKeeps DEF Foreign, daemonLeaves

LEMMA ReapKeeps == ASSUME IInv, Reap PROVE IInv'
<1>1. TypeOK /\ (port # 0 => table[port] = "serve")
  BY DEF IInv, Sound
<1>2. /\ table' \in [Pids -> Phases] /\ parent' \in [Pids -> Commands \cup {"init"}]
      /\ \A p \in Pids : table'[p] = table[p] \/ (table[p] = "zombie" /\ table'[p] = "none")
  BY <1>1, Types DEF Reap, Phases
<1>3. TypeOK'
  BY <1>1, <1>2, Types, TypesNext DEF Reap
<1>4. Fewer
  BY <1>2 DEF Fewer, Daemons, Starting
<1>5. port' # 0 => table'[port'] = "serve"
  BY <1>1, <1>2, Types DEF Reap
<1> QED
  BY <1>3, <1>4, <1>5, FewerKeeps DEF Reap

\* A daemon takes its next step, and is the only one.
LEMMA PhaseKeeps ==
  ASSUME IInv, NEW p \in Pids, table[p] \in Daemons, NEW phase \in Daemons, Phase(p, phase),
         phase = "writePid" \/ pidFile' = p
           \/ (pidFile' = pidFile /\ table[p] \notin {"check", "writePid"}),
         UNCHANGED <<cmd, rushed>>, TypeOK', port' # 0 => table'[port'] = "serve",
         table[p] # "serve", table[p] \in {"drain", "remove"} => phase = "remove"
  PROVE  IInv'
<1>1. Sound'
  BY DEF IInv, Sound
<1>2. table'[p] = phase /\ \A q \in Pids \ {p} : table'[q] = table[q]
  BY Types DEF IInv, Sound, Phase
<1>3. ASSUME ~rushed PROVE OneCommand' /\ OneDaemon' /\ Named' /\ Meets'
  <2>1. Alive = {p} /\ Alive' = {p}
    BY <1>2, <1>3 DEF IInv, Calm, OneDaemon, Alive
  <2>2. OneDaemon' /\ OneCommand' /\ Named'
    BY <1>2, <1>3, <2>1 DEF IInv, Calm, OneDaemon, OneCommand, Named, Returned, At
  <2>3. Meets'
    BY <1>2, <1>3, <2>1 DEF IInv, Calm, Meets
  <2> QED
    BY <2>2, <2>3
<1> QED
  BY <1>1, <1>3 DEF IInv, Calm

LEMMA ChildChecksKeeps == ASSUME IInv, NEW p \in Pids, ChildChecks(p) PROVE IInv'
<1> USE DEF ChildChecks, daemonLeaves
<1>1. CASE IsRunning(pidFile)
  BY <1>1, DeathKeeps
<1>2. CASE ~IsRunning(pidFile)
  <2>1. TypeOK /\ (port # 0 => table[port] = "serve") /\ table[p] = "check" /\ Phase(p, "writePid")
    BY <1>2 DEF IInv, Sound
  <2>2. table' \in [Pids -> Phases] /\ \A q \in Pids \ {p} : table'[q] = table[q]
    BY <2>1, Types DEF Phase, Phases, Daemons, Starting
  <2>3. TypeOK' /\ (port' # 0 => table'[port'] = "serve")
    BY <1>2, <2>1, <2>2, Types, TypesNext
  <2> QED
    BY <1>2, <2>1, <2>3, PhaseKeeps DEF Daemons, Starting
<1> QED
  BY <1>1, <1>2

LEMMA WritePidKeeps == ASSUME IInv, NEW p \in Pids, WritePid(p) PROVE IInv'
<1> USE DEF WritePid, daemonLeaves
<1>1. TypeOK /\ (port # 0 => table[port] = "serve") /\ table[p] = "writePid" /\ Phase(p, "boot")
  BY DEF IInv, Sound
<1>2. table' \in [Pids -> Phases] /\ \A q \in Pids \ {p} : table'[q] = table[q]
  BY <1>1, Types DEF Phase, Phases, Daemons, Starting
<1>3. TypeOK' /\ (port' # 0 => table'[port'] = "serve")
  BY <1>1, <1>2, Types, TypesNext
<1> QED
  BY <1>1, <1>3, PhaseKeeps DEF Daemons, Starting

LEMMA BootKeeps == ASSUME IInv, NEW p \in Pids, Boot(p) PROVE IInv'
<1> USE DEF Boot, daemonLeaves
<1>1. TypeOK /\ (port # 0 => table[port] = "serve") /\ table[p] = "boot"
  BY DEF IInv, Sound
<1>2. PICK phase \in {"serve", "remove"} : Phase(p, phase) /\ (phase = "remove" => port' = port)
        /\ (phase = "serve" => port' = p)
  OBVIOUS
<1>3. /\ table' \in [Pids -> Phases] /\ table'[p] = phase
      /\ \A q \in Pids \ {p} : table'[q] = table[q]
  BY <1>1, <1>2, Types DEF Phase, Phases, Daemons, Starting
<1>4. TypeOK' /\ (port' # 0 => table'[port'] = "serve")
  BY <1>1, <1>2, <1>3, Types, TypesNext
<1> QED
  BY <1>1, <1>2, <1>4, PhaseKeeps DEF Daemons, Starting

LEMMA DrainedKeeps == ASSUME IInv, NEW p \in Pids, Drained(p) PROVE IInv'
<1> USE DEF Drained, daemonLeaves
<1>1. TypeOK /\ (port # 0 => table[port] = "serve") /\ table[p] = "drain" /\ Phase(p, "remove")
  BY DEF IInv, Sound
<1>2. table' \in [Pids -> Phases] /\ \A q \in Pids \ {p} : table'[q] = table[q]
  BY <1>1, Types DEF Phase, Phases, Daemons, Starting
<1>3. TypeOK' /\ (port' # 0 => table'[port'] = "serve")
  BY <1>1, <1>2, Types, TypesNext
<1> QED
  BY <1>1, <1>3, PhaseKeeps DEF Daemons, Starting

\* The file is removed by the daemon it names, which is the last one.
LEMMA RemovePidKeeps == ASSUME IInv, NEW p \in Pids, RemovePid(p) PROVE IInv'
<1> USE DEF RemovePid, daemonLeaves
<1>1. TypeOK /\ (port # 0 => table[port] = "serve") /\ table[p] = "remove" /\ Dies(p)
  BY DEF IInv, Sound
<1>2. TypeOK'
  BY <1>1, Deaths, Types, TypesNext
<1>3. port' # 0 => table'[port'] = "serve"
  BY <1>1, Deaths, Types
<1>4. ASSUME ~rushed PROVE OneCommand' /\ OneDaemon' /\ Named' /\ Meets'
  <2>1. p \in Alive /\ Alive' = {}
    BY <1>1, <1>4, Deaths DEF IInv, Calm, OneDaemon, Alive, Daemons, Starting
  <2>2. OneCommand' /\ OneDaemon' /\ Named'
    BY <1>4, <2>1 DEF IInv, Calm, OneCommand, OneDaemon, Named, Returned, At
  <2>3. \A c \in Commands : cmd[c].pc \notin {"probe", "term"}
    BY <1>1, <1>4, <2>1 DEF IInv, Calm, Meets
  <2>4. Meets'
    BY <2>1, <2>3 DEF Meets
  <2> QED
    BY <2>2, <2>4
<1> QED
  BY <1>2, <1>3, <1>4 DEF IInv, Calm, Sound

-----------------------------------------------------------------------------

LEMMA InitIInv == Init => IInv
<1> SUFFICES ASSUME Init PROVE IInv
  OBVIOUS
<1>1. Rest \in CmdType /\ Rest.pc = "exited" /\ \A c \in Commands : cmd[c] = Rest
  BY DEF Init, Rest, CmdType, Stages
<1>2. TypeOK
  BY <1>1, Types DEF Init, Phases
<1>3. Sound
  BY <1>1, <1>2 DEF Init, Sound, Stopping
<1>4. Alive = {}
  BY DEF Init, Alive, Daemons, Starting
<1> QED
  BY <1>1, <1>3, <1>4 DEF IInv, Calm, OneCommand, OneDaemon, Named, Meets, Returned, At

LEMMA StutterKeeps == IInv /\ UNCHANGED vars => IInv'
<1> SUFFICES ASSUME IInv, UNCHANGED vars PROVE IInv'
  OBVIOUS
<1> USE DEF vars, systemVars
<1>1. TypeOK' /\ Fewer /\ (port' # 0 => table'[port'] = "serve")
  BY DEF IInv, Sound, TypeOK, Fewer
<1> QED
  BY <1>1, FewerKeeps

LEMMA NextIInv == IInv /\ [Next]_vars => IInv'
<1> SUFFICES ASSUME IInv, [Next]_vars PROVE IInv'
  OBVIOUS
<1>1. ASSUME NEW c \in Commands,
             Begin(c) \/ Stop(c) \/ Start(c) \/ Install(c) \/ KillStray(c) \/ RemoveBinary(c)
      PROVE  IInv'
  BY <1>1, BeginKeeps, StopKeeps, CheckKeeps, ForkKeeps, PollKeeps, InstallKeeps, KillStrayKeeps,
    RemoveBinaryKeeps DEF Start
<1>2. ASSUME NEW p \in Pids, DaemonRuns(p)
      PROVE  IInv'
  BY <1>2, ChildChecksKeeps, WritePidKeeps, BootKeeps, DrainedKeeps, RemovePidKeeps DEF DaemonRuns
<1>3. ASSUME NEW p \in Pids, Crash(p) \/ Foreign(p)
      PROVE  IInv'
  BY <1>3, DeathKeeps, ForeignKeeps DEF Crash, daemonLeaves
<1> QED
  BY <1>1, <1>2, <1>3, ReapKeeps, StutterKeeps DEF Next, Uninstalled

LEMMA Invariant == Spec => []IInv
BY InitIInv, NextIInv, PTL DEF Spec

\* Every variable keeps its type, whatever overlaps and crashes.
THEOREM TypeCorrect == Spec => []TypeOK
<1>1. IInv => TypeOK
  BY DEF IInv, Sound
<1> QED
  BY <1>1, Invariant, PTL

\* aiclibridge.pid names the daemon that serves, for commands given one after the other.
THEOREM ServerIsNamed == Spec => []PidFileNamesServer
<1>1. IInv => PidFileNamesServer
  BY DEF IInv, Calm, Named, Alive, PidFileNamesServer, Daemons, Starting
<1> QED
  BY <1>1, Invariant, PTL

\* When runStop is about to report success, no daemon is left.
THEOREM StopLeavesNone == Spec => []StoppedMeansGone
<1>1. ASSUME IInv, NEW c \in Commands, ~rushed, At(c, "unlink")
      PROVE  port = 0 /\ \A p \in Pids : table[p] \notin Daemons
  <2>1. Alive = {}
    BY <1>1 DEF IInv, Calm, Meets, At
  <2> QED
    BY <1>1, <2>1, Types DEF IInv, Sound, Alive, Daemons, Starting
<1>2. IInv => StoppedMeansGone
  BY <1>1 DEF StoppedMeansGone
<1> QED
  BY <1>2, Invariant, PTL
=============================================================================
