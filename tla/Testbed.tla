------------------------------- MODULE Testbed -------------------------------
(***************************************************************************)
(* Egress trials: every trial boots a sing-box core of its own on a        *)
(* loopback port that was free a moment ago, waits until something accepts *)
(* connections there, measures through it and kills the core.  Trials of   *)
(* one list run one after the other, but the egress watchdog and every     *)
(* click on "rescore" have a thread and a list of their own.               *)
(***************************************************************************)
CONSTANTS
  Thread,    \* threads that run trials
  Node,      \* candidates
  Broken,    \* candidates whose configuration sing-box refuses
  Port,      \* ephemeral loopback ports
  None,      \* no node, no core, no port; nothing in a file
  Torn       \* two configurations written over each other

ASSUME TestbedConstants ==
  /\ None \notin Thread \cup Node \cup Port /\ Broken \subseteq Node
  /\ Torn \notin Node \cup {None}

VARIABLES
  stage,     \* per thread: "idle", "picked", "created", "staged", "checked",
             \* "written", "waiting", "ready", "drop"
  node,      \* per thread: the candidate under trial
  port,      \* per thread: its port
  check,     \* what is in the file `sing-box check` reads, one for all trials
  file,      \* per config file: the configuration in it
  core,      \* per thread: its child: "none", "starting", "up", "dead"
  serves,    \* per thread: the node its running core dials through
  listener,  \* per port: the thread whose core is bound to it
  measured,  \* per thread: the node that its report is really about
  shared     \* ghost: the trials whose port was given to another trial as well

testbedVars == <<stage, node, port, check, file, core, serves, listener, measured, shared>>
child       == <<core, serves, listener>>

TestbedInit ==
  /\ stage = [t \in Thread |-> "idle"]
  /\ node = [t \in Thread |-> None] /\ port = [t \in Thread |-> None]
  /\ check = None /\ file = [p \in Port |-> None]
  /\ core = [t \in Thread |-> "none"] /\ serves = [t \in Thread |-> None]
  /\ listener = [p \in Port |-> None]
  /\ measured = [t \in Thread |-> None] /\ shared = {}

Goto(t, from, to) == stage[t] = from /\ stage' = [stage EXCEPT ![t] = to]

-----------------------------------------------------------------------------
\* Ports that bind("127.0.0.1:0") may return: unbound now.  One that another
\* trial was given and has not bound yet is among them.
Ephemeral == {p \in Port : listener[p] = None}

\* ephemeral_loopback_port: bound and dropped again.
PickPort(t, n) ==
  /\ Goto(t, "idle", "picked")
  /\ node' = [node EXCEPT ![t] = n]
  /\ \E p \in Ephemeral :
       LET others == {u \in Thread : port[u] = p} IN
       /\ port' = [port EXCEPT ![t] = p]
       /\ shared' = IF others = {} THEN shared ELSE shared \cup others \cup {t}
  /\ UNCHANGED <<check, file, child, measured>>

\* Mutant of ConfigFile: one file for all trials of the process.
ConfigFileShared(p) == CHOOSE q \in Port : TRUE

\* <tmp>/myproxy-testbed-<pid>/<port>.json
ConfigFile(p) == p

\* validate_config: <tmp>/myproxy-adapter/config.json is created, which empties it,
\* and written.  A file that another trial has written since may end up torn.
CreateCheck(t) ==
  /\ Goto(t, "picked", "created")
  /\ check' = None
  /\ UNCHANGED <<node, port, file, child, measured, shared>>

StageCheck(t) ==
  /\ Goto(t, "created", "staged")
  /\ check' \in {node[t]} \cup (IF check = None THEN {} ELSE {Torn})
  /\ UNCHANGED <<node, port, file, child, measured, shared>>

Accepted == Node \ Broken

\* `sing-box check` reads whatever is in the file by then.
CheckPasses(t) ==
  /\ check \in Accepted
  /\ Goto(t, "staged", "checked")
  /\ UNCHANGED <<node, port, check, file, child, measured, shared>>

CheckRejects(t) ==
  /\ check \notin Accepted
  /\ Goto(t, "staged", "drop")
  /\ UNCHANGED <<node, port, check, file, child, measured, shared>>

WriteConfig(t) ==
  /\ Goto(t, "checked", "written")
  /\ file' = [file EXCEPT ![ConfigFile(port[t])] = node[t]]
  /\ UNCHANGED <<node, port, check, child, measured, shared>>

\* The node does not compile, a directory is not writable, sing-box is not there:
\* the trial fails to boot.
BootFails(t) ==
  /\ stage[t] \in {"picked", "created", "staged", "checked", "written"}
  /\ stage' = [stage EXCEPT ![t] = "drop"]
  /\ UNCHANGED <<node, port, check, file, child, measured, shared>>

SpawnCore(t) ==
  /\ Goto(t, "written", "waiting")
  /\ core' = [core EXCEPT ![t] = "starting"]
  /\ UNCHANGED <<node, port, check, file, serves, listener, measured, shared>>

\* The core reads its file and binds; a port in use, or a configuration that only
\* passed because another was checked for it, ends it.
CoreBinds(t) ==
  /\ core[t] = "starting"
  /\ IF listener[port[t]] = None /\ file[ConfigFile(port[t])] \notin Broken
     THEN /\ core' = [core EXCEPT ![t] = "up"]
          /\ serves' = [serves EXCEPT ![t] = file[ConfigFile(port[t])]]
          /\ listener' = [listener EXCEPT ![port[t]] = t]
     ELSE /\ core' = [core EXCEPT ![t] = "dead"]
          /\ UNCHANGED <<serves, listener>>
  /\ UNCHANGED <<stage, node, port, check, file, measured, shared>>

\* The core exits on its own.
CoreDies(t) ==
  /\ core[t] \in {"starting", "up"}
  /\ core' = [core EXCEPT ![t] = "dead"]
  /\ serves' = [serves EXCEPT ![t] = None]
  /\ listener' = [p \in Port |-> IF listener[p] = t THEN None ELSE listener[p]]
  /\ UNCHANGED <<stage, node, port, check, file, measured, shared>>

\* wait_until_ready: connecting comes before asking whether the child exited.
\* Not connected, the loop ends when the child is gone or at its deadline.
WaitUntilReady(t) ==
  /\ Goto(t, "waiting", IF listener[port[t]] # None THEN "ready" ELSE "drop")
  /\ UNCHANGED <<node, port, check, file, child, measured, shared>>

\* The scatter talks to whatever listens on the port.
Measure(t) ==
  /\ Goto(t, "ready", "drop")
  /\ LET l == listener[port[t]] IN
     measured' = [measured EXCEPT ![t] = IF l = None THEN None ELSE serves[l]]
  /\ UNCHANGED <<node, port, check, file, child, shared>>

\* Drop for Testbed: kill and wait; the port is free again.  The report is
\* handed over and the thread moves on.
Finish(t) ==
  /\ Goto(t, "drop", "idle")
  /\ core' = [core EXCEPT ![t] = "none"]
  /\ serves' = [serves EXCEPT ![t] = None]
  /\ listener' = [p \in Port |-> IF listener[p] = t THEN None ELSE listener[p]]
  /\ node' = [node EXCEPT ![t] = None] /\ port' = [port EXCEPT ![t] = None]
  /\ measured' = [measured EXCEPT ![t] = None]
  /\ shared' = shared \ {t}
  /\ UNCHANGED <<check, file>>

Trial(t) ==
  \/ CreateCheck(t) \/ StageCheck(t) \/ CheckPasses(t) \/ CheckRejects(t)
  \/ WriteConfig(t) \/ BootFails(t) \/ SpawnCore(t) \/ WaitUntilReady(t) \/ Measure(t) \/ Finish(t)

TestbedNext ==
  \E t \in Thread :
    (\E n \in Node : PickPort(t, n)) \/ Trial(t) \/ CoreBinds(t) \/ CoreDies(t)

TestbedSpec == TestbedInit /\ [][TestbedNext]_testbedVars

-----------------------------------------------------------------------------
\* run_egress_trials: trials run so that "a dead node cannot poison the others":
\* a report is about the candidate under trial, never about another trial's,
\* whatever cores fail to boot, come up late or die meanwhile.  The one thing
\* that can break this is the kernel giving a port to two trials before either
\* core has bound it; nothing in the code sees to that.
MeasuresOwnNode == \A t \in Thread \ shared : measured[t] \in {None, node[t]}

\* Testbed::spawn fails loudly "if ... the config is rejected": a trial is turned
\* down for its own configuration, not for the one another trial left in the file.
RejectedForItsOwn == [][\A t \in Thread : CheckRejects(t) => node[t] \in Broken]_testbedVars

\* The same without the exception, which is what the comment says.
NeverPoisoned == \A t \in Thread : measured[t] \in {None, node[t]}
=============================================================================
