---------------------------- MODULE NodeControl ----------------------------
(***************************************************************************)
(* chutney's control of a network of tor processes (lib/chutney/TorNet.py):*)
(* one "chutney VERB network" invocation at a time runs Network.configure, *)
(* start, stop, restart, status or hup, each a loop over the nodes calling *)
(* their LocalNodeController; what persists between invocations is the     *)
(* file system (each node's pid file, lock file and torrc) and the         *)
(* processes.  A pid is held by no process, by the tor of a node, or by a  *)
(* foreign process that was given a pid a tor had before.  Processes exit  *)
(* and pids are reused whenever the system likes: the environment, with    *)
(* no fairness.                                                            *)
(***************************************************************************)
EXTENDS Naturals, FiniteSets

CONSTANTS
  N,         \* the number of nodes, in the order ConfigureNodes added them
  Pids,      \* the pids processes can have
  MaxPolls,  \* "for n in range(15)": the polls after each round of signals
  None,      \* getPid() finding no pid file
  Free,      \* a pid no process holds
  Foreign    \* a process that is not a tor of this network

Nodes == 1 .. N
Signals == {"INT", "KILL", "HUP"}
\* (mutant: SIGKILL from the second round on)
RoundSignalEarlyKill(r) == IF r < 2 THEN "INT" ELSE "KILL"

\* Network.stop: "for sig, desc in [(SIGINT, ...), (SIGINT, ...), (SIGKILL, ...)]"
RoundSignal(r) == IF r < 3 THEN "INT" ELSE "KILL"

VARIABLES
  verb,      \* the Network method running, "idle" between invocations
  stage,     \* within it: "nodes" (the loop over the nodes), "kill" (os.kill
             \* of the pid just checked), "poll" (stop's wait loop)
  i,         \* the node the loop is at
  round,     \* stop's round: 1, 2 (SIGINT), 3 (SIGKILL)
  polls,     \* stop's polls in this round
  target,    \* the pid isRunning(pid) was just true of, signalled next
  ok,        \* the all([...]) of start and hup so far
  restarting,\* restart: stop, then start, returning None
  result,    \* the last invocation: its return value, or "raised"
  pidfile,   \* ${dir}/pid of each node
  lock,      \* ${dir}/lock of each node: the pid of the tor that created it
             \* and holds its fcntl lock, None when there is no such file
  torrc,     \* ${dir}/torrc of each node exists
  owner,     \* the process holding each pid
  ints,      \* the SIGINTs a tor has had from chutney (counting up to 2)
  torFound   \* the tor binary is where $CHUTNEY_TOR or $PATH says

ncvars == <<verb, stage, i, round, polls, target, ok, restarting, result,
            pidfile, lock, torrc, owner, ints, torFound>>
fsVars == <<pidfile, lock, torrc, owner, ints>>

NCTypeOK ==
  /\ verb \in {"idle", "configure", "start", "stop", "status", "hup"}
  /\ stage \in {"nodes", "kill", "poll"}
  /\ i \in 1 .. N + 1 /\ round \in 1 .. 3 /\ polls \in 0 .. MaxPolls
  /\ target \in Pids \cup {None}
  /\ ok \in BOOLEAN /\ restarting \in BOOLEAN
  /\ result \in {"True", "False", "None", "raised"}
  /\ pidfile \in [Nodes -> Pids \cup {None}]
  /\ lock \in [Nodes -> Pids \cup {None}] /\ torrc \in [Nodes -> BOOLEAN]
  /\ owner \in [Pids -> Nodes \cup {Free, Foreign}]
  /\ ints \in [Pids -> 0 .. 2] /\ torFound \in BOOLEAN

\* No network directory yet; whatever else runs on the machine
NCInit ==
  /\ verb = "idle" /\ stage = "nodes" /\ i = 1 /\ round = 1 /\ polls = 0
  /\ target = None /\ ok = TRUE /\ restarting = FALSE /\ result = "None"
  /\ pidfile = [n \in Nodes |-> None] /\ lock = [n \in Nodes |-> None]
  /\ torrc = [n \in Nodes |-> FALSE]
  /\ owner \in [Pids -> {Free, Foreign}] /\ ints = [p \in Pids |-> 0]
  /\ torFound \in BOOLEAN

(***************************************************************************)
(* LocalNodeController.getPid / isRunning: the pid in the pid file, and    *)
(* os.kill(pid, 0) not failing with ESRCH.  Any process answers, a tor of  *)
(* this node or not ("XXXX check if this is really tor!").                 *)
(***************************************************************************)
IsRunning(pid) == pid # None /\ owner[pid] # Free
NodeRunning(n) == IsRunning(pidfile[n])
FreePids == {p \in Pids : owner[p] = Free}

\* The data directory's lock file is locked by a live tor of the node
LockHeld(n) == lock[n] # None /\ owner[lock[n]] = n

\* The value a Python bool prints as
PyBool(b) == IF b THEN "True" ELSE "False"

\* An invocation ends: its return value, and back to the command line
Return(r) ==
  /\ verb' = "idle" /\ result' = r /\ stage' = "nodes" /\ i' = 1
  /\ round' = 1 /\ polls' = 0 /\ target' = None /\ restarting' = FALSE

\* The user runs "chutney VERB network"; restart is stop, then start
Invoke ==
  /\ verb = "idle"
  /\ \E v \in {"configure", "start", "stop", "restart", "status", "hup"} :
       /\ verb' = IF v = "restart" THEN "stop" ELSE v
       /\ restarting' = (v = "restart")
  /\ ok' = TRUE /\ result' = "None"
  /\ UNCHANGED <<stage, i, round, polls, target, fsVars, torFound>>

(***************************************************************************)
(* Network.configure: "rm -rf ./net/nodes/*" (every pid file, lock file    *)
(* and torrc of the nodes), then checkConfig, which formats every torrc    *)
(* and may raise, preConfig, config (which writes every torrc) and         *)
(* postConfig.  Running tors are not stopped.                              *)
(***************************************************************************)
Configure ==
  /\ verb = "configure"
  /\ pidfile' = [n \in Nodes |-> None] /\ lock' = [n \in Nodes |-> None]
  /\ \/ torFound /\ torrc' = [n \in Nodes |-> TRUE] /\ Return("None")
     \* _checkConfig: Template.format of a node's torrc raises (KeyError,
     \* ValueError) after the rm -rf, so no torrc is written.  Without the
     \* tor binary this always happens: the first _createTorrcFile of config
     \* sees --list-torrc-options fail with ENOENT before it opens the torrc,
     \* and 'print(...) % tor' raises TypeError, so its sys.exit(0) is never
     \* reached
     \/ torrc' = [n \in Nodes |-> FALSE] /\ Return("raised")
  /\ ok' = ok
  /\ UNCHANGED <<owner, ints, torFound>>

(***************************************************************************)
(* LocalNodeController.start for node i, one node after the other; the     *)
(* list comprehension in Network.start calls it for every node before      *)
(* all() looks at the results.  tor refuses a data directory whose lock    *)
(* file another tor holds, and may fail to launch for reasons of its own.  *)
(***************************************************************************)
Launch(n) ==
  \E q \in FreePids :
    \/ /\ ~LockHeld(n)
       /\ owner' = [owner EXCEPT ![q] = n] /\ ints' = [ints EXCEPT ![q] = 0]
       /\ pidfile' = [pidfile EXCEPT ![n] = q] /\ lock' = [lock EXCEPT ![n] = q]
       /\ ok' = ok
    \* p.returncode != None and != 0
    \/ ok' = FALSE /\ UNCHANGED <<pidfile, lock, owner, ints>>

StartNode ==
  /\ verb = "start" /\ i <= N
  /\ \/ /\ NodeRunning(i)
        /\ i' = i + 1 /\ UNCHANGED <<ok, pidfile, lock, owner, ints, result>>
     \/ /\ ~NodeRunning(i) /\ torFound /\ FreePids # {} /\ torrc[i]
        /\ Launch(i) /\ i' = i + 1 /\ UNCHANGED result
     \* waitOnLaunch opens the torrc it was given: IOError without one (the
     \* tor launched exits at once for want of its configuration)
     \/ /\ ~NodeRunning(i) /\ torFound /\ FreePids # {} /\ ~torrc[i]
        /\ Return("raised") /\ UNCHANGED <<ok, pidfile, lock, owner, ints>>
     \* ENOENT: 'print(...) % tor_path' raises TypeError; any other OSError
     \* from Popen (no pid to fork with) is re-raised
     \/ /\ ~NodeRunning(i) /\ (~torFound \/ FreePids = {})
        /\ Return("raised") /\ UNCHANGED <<ok, pidfile, lock, owner, ints>>
  /\ UNCHANGED <<verb, stage, round, polls, target, restarting, torrc, torFound>>

\* "return rv"; restart itself returns None
StartEnd ==
  /\ verb = "start" /\ i = N + 1
  /\ Return(IF restarting THEN "None" ELSE PyBool(ok)) /\ ok' = ok
  /\ UNCHANGED <<fsVars, torFound>>

(***************************************************************************)
(* Network.stop: three rounds (SIGINT, another SIGINT, SIGKILL).  In each, *)
(* "if c.isRunning(): c.stop(sig=sig)" for every node, where stop reads    *)
(* the pid again and calls os.kill(pid, sig) after its own isRunning; then *)
(* up to MaxPolls polls, returning (after cleanup_lockfile of every node)  *)
(* as soon as no node is running.  After the third round it returns too.   *)
(***************************************************************************)
StopCheck ==
  /\ verb = "stop" /\ stage = "nodes" /\ i <= N
  /\ \/ ~NodeRunning(i) /\ i' = i + 1 /\ UNCHANGED <<stage, target>>
     \/ NodeRunning(i) /\ target' = pidfile[i] /\ stage' = "kill" /\ UNCHANGED i
  /\ UNCHANGED <<verb, round, polls, ok, restarting, result, fsVars, torFound>>

\* The signal stop or hup sends now
CurrentSignal == IF verb = "hup" THEN "HUP" ELSE RoundSignal(round)

\* What the process at pid p does with sig: a tor counts SIGINTs and shuts
\* down later (TorExit), SIGKILL ends any process, a foreign process may
\* die of SIGINT or SIGHUP
Deliver(p, sig) ==
  \/ sig = "KILL" /\ owner' = [owner EXCEPT ![p] = Free]
     /\ ints' = [ints EXCEPT ![p] = 0]
  \/ sig = "INT" /\ owner[p] \in Nodes /\ owner' = owner
     /\ ints' = [ints EXCEPT ![p] = IF @ < 2 THEN @ + 1 ELSE 2]
  \/ sig # "KILL" /\ owner[p] = Foreign
     /\ owner' \in {owner, [owner EXCEPT ![p] = Free]} /\ ints' = ints
  \/ sig = "HUP" /\ owner[p] \in Nodes /\ UNCHANGED <<owner, ints>>

\* os.kill(pid, sig) in LocalNodeController.stop or hup; ESRCH when the
\* process exited since isRunning looked is not caught
Kill ==
  /\ stage = "kill"
  /\ \/ owner[target] # Free /\ Deliver(target, CurrentSignal)
        /\ stage' = "nodes" /\ i' = i + 1 /\ target' = None
        /\ UNCHANGED <<verb, round, polls, restarting, result>>
     \/ owner[target] = Free /\ Return("raised") /\ UNCHANGED <<owner, ints>>
     \* LocalNodeController.stop reads the pid and asks isRunning again: a
     \* node gone since Network.stop's own check is passed over quietly
     \/ /\ verb = "stop" /\ ~NodeRunning(i)
        /\ stage' = "nodes" /\ i' = i + 1 /\ target' = None
        /\ UNCHANGED <<verb, round, polls, restarting, result, owner, ints>>
  /\ UNCHANGED <<ok, pidfile, lock, torrc, torFound>>

\* The loop over the nodes is done: wait for them
StopWait ==
  /\ verb = "stop" /\ stage = "nodes" /\ i = N + 1
  /\ stage' = "poll" /\ polls' = 0
  /\ UNCHANGED <<verb, i, round, target, ok, restarting, result, fsVars, torFound>>

\* stop has returned: restart goes on with start
StopReturn ==
  IF restarting
  THEN /\ verb' = "start" /\ stage' = "nodes" /\ i' = 1 /\ round' = 1
       /\ polls' = 0 /\ ok' = TRUE /\ UNCHANGED <<target, restarting, result>>
  ELSE Return("None") /\ ok' = ok

\* (mutant: one poll too many, "range(16)")
StopPollExtra ==
  /\ verb = "stop" /\ stage = "poll" /\ polls <= MaxPolls
  /\ \/ /\ \A n \in Nodes : ~NodeRunning(n)
        /\ lock' = [n \in Nodes |-> IF NodeRunning(n) THEN lock[n] ELSE None]
        /\ StopReturn
     \/ /\ \E n \in Nodes : NodeRunning(n)
        /\ polls' = polls + 1
        /\ UNCHANGED <<verb, stage, i, round, target, ok, restarting, result, lock>>
  /\ UNCHANGED <<pidfile, torrc, owner, ints, torFound>>

\* (mutant: waiting until the nodes are down, with no bound on the polls)
StopPollUnbounded ==
  /\ verb = "stop" /\ stage = "poll" /\ polls < MaxPolls
  /\ \/ /\ \A n \in Nodes : ~NodeRunning(n)
        /\ lock' = [n \in Nodes |-> IF NodeRunning(n) THEN lock[n] ELSE None]
        /\ StopReturn
     \/ /\ \E n \in Nodes : NodeRunning(n)
        /\ UNCHANGED <<verb, stage, i, round, polls, target, ok, restarting, result, lock>>
  /\ UNCHANGED <<pidfile, torrc, owner, ints, torFound>>

\* One poll, "time.sleep(1); if all(not c.isRunning() for c in controllers)":
\* then cleanup_lockfile removes the lock file of every node not running
StopPoll ==
  /\ verb = "stop" /\ stage = "poll" /\ polls < MaxPolls
  /\ \/ /\ \A n \in Nodes : ~NodeRunning(n)
        /\ lock' = [n \in Nodes |-> IF NodeRunning(n) THEN lock[n] ELSE None]
        /\ StopReturn
     \/ /\ \E n \in Nodes : NodeRunning(n)
        /\ polls' = polls + 1
        /\ UNCHANGED <<verb, stage, i, round, target, ok, restarting, result, lock>>
  /\ UNCHANGED <<pidfile, torrc, owner, ints, torFound>>

\* MaxPolls polls without success: c.check() prints each node's state, and
\* the next round begins; after the SIGKILL round stop gives up
StopRoundEnd ==
  /\ verb = "stop" /\ stage = "poll" /\ polls = MaxPolls
  /\ \/ round < 3 /\ round' = round + 1 /\ stage' = "nodes" /\ i' = 1
        /\ UNCHANGED <<verb, polls, target, ok, restarting, result>>
     \/ round = 3 /\ StopReturn
  /\ UNCHANGED <<fsVars, torFound>>

\* Network.status: check() of every node, "n_ok == len(self._nodes)"
Status ==
  /\ verb = "status"
  /\ Return(PyBool(\A n \in Nodes : NodeRunning(n))) /\ ok' = ok
  /\ UNCHANGED <<fsVars, torFound>>

\* Network.hup: hup() of every node, which sends SIGHUP if isRunning(pid)
\* and returns False for a node not running
HupCheck ==
  /\ verb = "hup" /\ stage = "nodes" /\ i <= N
  /\ \/ ~NodeRunning(i) /\ ok' = FALSE /\ i' = i + 1 /\ UNCHANGED <<stage, target>>
     \/ NodeRunning(i) /\ target' = pidfile[i] /\ stage' = "kill"
        /\ UNCHANGED <<i, ok>>
  /\ UNCHANGED <<verb, round, polls, restarting, result, fsVars, torFound>>

HupEnd ==
  /\ verb = "hup" /\ stage = "nodes" /\ i = N + 1
  /\ Return(PyBool(ok)) /\ ok' = ok
  /\ UNCHANGED <<fsVars, torFound>>

(***************************************************************************)
(* The environment.  A tor exits, cleanly (removing its pid file) or not   *)
(* (a crash, leaving the pid file and the lock file); another program      *)
(* starts with a free pid, or ends.                                        *)
(***************************************************************************)
TorExit(p) ==
  /\ owner[p] \in Nodes
  /\ owner' = [owner EXCEPT ![p] = Free] /\ ints' = [ints EXCEPT ![p] = 0]
  /\ pidfile' \in {pidfile, [pidfile EXCEPT ![owner[p]] = None]}
  /\ UNCHANGED <<lock, torrc>>

ForeignStart(p) ==
  /\ owner[p] = Free /\ owner' = [owner EXCEPT ![p] = Foreign]
  /\ UNCHANGED <<pidfile, lock, torrc, ints>>

ForeignExit(p) ==
  /\ owner[p] = Foreign /\ owner' = [owner EXCEPT ![p] = Free]
  /\ UNCHANGED <<pidfile, lock, torrc, ints>>

Environment ==
  /\ \E p \in Pids : TorExit(p) \/ ForeignStart(p) \/ ForeignExit(p)
  /\ UNCHANGED <<verb, stage, i, round, polls, target, ok, restarting, result, torFound>>

\* The steps of the chutney process running a verb
Chutney ==
  \/ Configure \/ StartNode \/ StartEnd \/ StopCheck \/ Kill \/ StopWait
  \/ StopPoll \/ StopRoundEnd \/ Status \/ HupCheck \/ HupEnd

NCNext == Invoke \/ Chutney \/ Environment

\* A running chutney process keeps taking steps (time.sleep returns); the
\* user and the rest of the system need not do anything
NCSpec == NCInit /\ [][NCNext]_ncvars /\ WF_ncvars(Chutney)

(***************************************************************************)
(* Properties.                                                             *)
(***************************************************************************)

\* Network.stop returns, or raises, even when a tor ignores every SIGINT
\* and nothing else on the machine ever moves: its polls are bounded, and
\* after the SIGKILL round it gives up (restart then goes on to start)
StopEnds == [](verb = "stop" => <>(verb # "stop"))

\* stop escalates: a tor of the network is sent SIGKILL only after it had
\* two SIGINTs from chutney in the rounds before, whatever
\* exited, crashed or took a reused pid in between
KillAfterTwoInts ==
  [][stage = "kill" /\ stage' = "nodes" /\ CurrentSignal = "KILL"
       /\ owner[target] \in Nodes
     => ints[target] = 2]_ncvars

====
