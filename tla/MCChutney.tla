---------------------------- MODULE MCChutney ----------------------------
(***************************************************************************)
(* The two parts of chutney a command line reaches: "chutney verify" runs  *)
(* Network.verify, i.e. a TrafficTester (TrafficTester.tla); every other   *)
(* verb runs the node control of NodeControl.tla.  They share no state    *)
(* the model keeps (verify only reads the client nodes' socks ports), so   *)
(* a behaviour here is one of either: command says which.                  *)
(* The torrc files the node control starts tors with are written by        *)
(* Templating.tla's Template.format, checked here over the environments    *)
(* TorNet builds.                                                          *)
(***************************************************************************)
EXTENDS TrafficTester, NodeControl

CONSTANT MaxIterations   \* Template.MAX_ITERATIONS

VARIABLE command   \* "verify", or "control" for the other verbs

allVars == <<command, vars, ncvars>>

\* The part a behaviour does not run keeps one of its initial states
ChutneyInit ==
  /\ Init /\ NCInit
  /\ \/ command = "verify" /\ owner = [p \in Pids |-> Free] /\ ~torFound
     \/ command = "control" /\ bad = [s \in Sources |-> FALSE]

Verify == command = "verify" /\ Next /\ UNCHANGED <<command, ncvars>>
Control == command = "control" /\ NCNext /\ UNCHANGED <<command, vars>>

\* The fairness of each part: run()'s loop, and the chutney process
ChutneySpec ==
  /\ ChutneyInit /\ [][Verify \/ Control]_allVars
  /\ WF_allVars(command = "verify" /\ LoopStep /\ UNCHANGED <<command, ncvars>>)
  /\ WF_allVars(command = "control" /\ Chutney /\ UNCHANGED <<command, vars>>)

\* TrafficTester's TerminatesIfNoClose, of a verify invocation
VerifyTerminatesIfNoClose == command = "verify" => TerminatesIfNoClose

(***************************************************************************)
(* A node's environment as TorNet builds it: Environ over DEFAULTS, the     *)
(* TorEnviron _BASE_ENVIRON, the TorEnviron of a template node made with   *)
(* Node(tag=..., torrc=...), and the TorEnviron of one of its getN         *)
(* children, which setNodenum gives its nodenum.  Keys: a is nodenum, b    *)
(* is tag, t is torrc, and ab is nick, which _get_nick computes from my's  *)
(* nodenum and tag.  Every template node's torrc is the file f; there is a *)
(* node for each nodenum va and tag vb, and a torrc_template_path          *)
(* directory for each text f may hold (the directory is named by it).      *)
(***************************************************************************)
NodeValues == {<<>>, <<"b">>, <<"$", "b">>, <<"$", "a">>, <<"}">>, <<"$">>}
TorrcTexts ==
  UNION {[1 .. k -> {"$", "{", "}", "a", "b"}] : k \in 0 .. 3}
    \cup {<<"$", "a", "b">>, <<"$", "{", "i", ":", "f", "}">>}
Envs ==
  {<<"defaults">>, <<"base">>} \cup {<<"template", vb>> : vb \in NodeValues}
    \cup {<<"node", va, vb>> : va, vb \in NodeValues}

Env == INSTANCE Templating WITH
  IdChars <- {"a", "b", "t", "f", "i", ":"},
  NoParent <- <<>>,
  EnvDict <- [e \in Envs |->
                CASE e[1] = "node" -> [k \in {<<"a">>} |-> e[2]]
                  [] e[1] = "template" -> [k \in {<<"b">>, <<"t">>} |->
                                             IF k = <<"b">> THEN e[2] ELSE <<"f">>]
                  [] OTHER -> <<>>],
  EnvGetters <- [e \in Envs |-> IF e[1] = "defaults" THEN {} ELSE {<<"a", "b">>}],
  EnvParent <- [e \in Envs |-> CASE e[1] = "node" -> <<"template", e[3]>>
                                   [] e[1] = "template" -> <<"base">>
                                   [] e[1] = "base" -> <<"defaults">>
                                   [] OTHER -> <<>>],
  GetterDeps <- [k \in {<<"a", "b">>} |-> <<<<"a">>, <<"b">>>>],
  Files <- [d \in TorrcTexts |-> [f \in {<<"f">>} |-> d]]

\* LocalNodeBuilder._createTorrcFile formats "$${include:$torrc}" rather
\* than the torrc file itself: its first pass turns $$ into $ and $torrc
\* into the file name, the second includes the file.  Formatting through
\* the wrapper must be formatting the file's text with two of the
\* MAX_ITERATIONS passes spent: same text, same KeyError, same ValueError.
TorrcFormats ==
  \A va, vb \in NodeValues, dir \in TorrcTexts :
    Env!Format(Env!TorrcTemplate, dir, <<"node", va, vb>>)
    = Env!Iterate(dir, 2, Env!Includer(<<"node", va, vb>>, dir))

\* (of every control command, which configure and start)
TorrcCostsTwoPasses == command = "control" => TorrcFormats

====
