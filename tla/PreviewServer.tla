---------------------------- MODULE PreviewServer ----------------------------
(***************************************************************************)
(* The tool that stops and restarts the preview of a built app             *)
(* (scripts/preview.mjs).  Runs of the tool may overlap or be killed; what *)
(* they know of one another is the owner of the port and a pidfile.        *)
(* A server binds the port some time after it was spawned, and exits if    *)
(* the port is taken; a pid may be used again by another program.          *)
(***************************************************************************)
EXTENDS Integers, Sequences, FiniteSets

CONSTANTS
  Runs,            \* runs of the tool
  MaxPids,         \* bound on servers ever spawned
  MaxBuilds,       \* bound on builds
  MaxToolFaults    \* bound on killed runs, re-used pids and servers that do not die

ASSUME PreviewAssumption == {MaxPids, MaxBuilds, MaxToolFaults} \subseteq Nat

VARIABLES
  build,       \* the build that is on disk
  process,     \* every process: how it is, and the build that it serves
  pidFile,     \* the pid in .grok/preview.pid, 0 if there is no file
  tool,        \* the runs of the tool
  toolFaults

previewVars == <<build, process, pidFile, tool, toolFaults>>

Pids == DOMAIN process
Up == {p \in Pids : process[p].is \in {"starting", "bound"}}
\* portOwners: the listener.
portOwners == {p \in Pids : process[p].is = "bound"}
Over(how) == [at |-> how]
Running(t) == tool[t].at \notin {"idle", "ok", "failed", "killed"}

PreviewInit ==
  /\ build = 1 /\ process = <<>> /\ pidFile = 0
  /\ tool = [t \in Runs |-> Over("idle")] /\ toolFaults = 0

\* A run is undisturbed if no other overlaps it and it can know every server.
Begin(t, action) ==
  LET alone == (\A u \in Runs : ~Running(u)) /\ Up \subseteq portOwners \cup {pidFile} IN
  /\ ~Running(t)
  /\ tool' = [u \in Runs |->
       IF u = t THEN [at |-> "look", action |-> action, alone |-> alone, owners |-> {},
                      child |-> 0, build |-> build, then |-> "free"]
       ELSE IF Running(u) THEN [tool[u] EXCEPT !.alone = FALSE] ELSE tool[u]]
  /\ UNCHANGED <<build, process, pidFile, toolFaults>>

\* Mutant: only the listener counts.
OnlyListener(p) == FALSE
\* The pid in the file counts if its command line still is that of a preview.
looksLikePreviewProcess(p) == p \in Up

previewOwners == portOwners \cup {p \in {pidFile} \ {0} : looksLikePreviewProcess(p)}

Look(t) ==
  /\ tool[t].at = "look"
  /\ tool' = [tool EXCEPT ![t].at = "terminate", ![t].owners = previewOwners]
  /\ UNCHANGED <<build, process, pidFile, toolFaults>>

\* SIGTERM, then SIGKILL; a stubborn process outlives both.
terminatePids(t) ==
  /\ tool[t].at = "terminate"
  /\ \E stubborn \in SUBSET (tool[t].owners \cap Up) :
       /\ IF stubborn = {} THEN UNCHANGED toolFaults
          ELSE toolFaults < MaxToolFaults /\ toolFaults' = toolFaults + 1
       /\ process' = [p \in Pids |-> IF p \in (tool[t].owners \cap Up) \ stubborn
                                     THEN [process[p] EXCEPT !.is = "dead"] ELSE process[p]]
       /\ tool' = [tool EXCEPT ![t].at = "check", ![t].owners = stubborn]
  /\ UNCHANGED <<build, pidFile>>

\* stopOutcome: the pidfile is removed only when nothing holds the port.
stopOutcome(t) ==
  /\ tool[t].at = "check"
  /\ IF (tool[t].owners \cap Up) \cup portOwners # {}
     THEN tool' = [tool EXCEPT ![t] = Over("failed")] /\ UNCHANGED pidFile
     ELSE /\ pidFile' = 0
          /\ tool' = [tool EXCEPT ![t] =
               IF tool[t].then = "fail" THEN Over("failed")
               ELSE IF tool[t].action = "restart" THEN [tool[t] EXCEPT !.at = "free"]
               ELSE Over("ok")]
  /\ UNCHANGED <<build, process, toolFaults>>

\* The child is spawned in a group of its own, and its pid is written.
Spawn(t) ==
  /\ tool[t].at = "free" /\ Len(process) < MaxPids
  /\ process' = Append(process, [is |-> "starting", build |-> build])
  /\ pidFile' = Len(process')
  /\ tool' = [tool EXCEPT ![t].at = "wait", ![t].child = Len(process')]
  /\ UNCHANGED <<build, toolFaults>>

\* A restart that fails stops its child: it may bind a few seconds later.
AfterFailure(t) == [tool EXCEPT ![t].at = "look", ![t].then = "fail"]

\* waitForReady: any response will do; or the child has exited, or time is up.
waitForReady(t) ==
  /\ tool[t].at = "wait"
  /\ \/ portOwners # {} /\ tool' = [tool EXCEPT ![t] = Over("ok")]
     \/ tool' = AfterFailure(t)
  /\ UNCHANGED <<build, process, pidFile, toolFaults>>

\* strictPort.
Bind(p) ==
  /\ process[p].is = "starting"
  /\ process' = [process EXCEPT ![p].is = IF portOwners = {} THEN "bound" ELSE "dead"]
  /\ UNCHANGED <<build, pidFile, tool, toolFaults>>

Rebuild ==
  /\ build < MaxBuilds /\ build' = build + 1
  /\ tool' = [t \in Runs |-> IF Running(t) THEN [tool[t] EXCEPT !.alone = FALSE] ELSE tool[t]]
  /\ UNCHANGED <<process, pidFile, toolFaults>>

\* A run is killed, or the pid of a dead server goes to another program.
Mishap ==
  /\ toolFaults < MaxToolFaults /\ toolFaults' = toolFaults + 1
  /\ \/ /\ \E t \in Runs : Running(t) /\ tool' = [tool EXCEPT ![t] = Over("killed")]
        /\ UNCHANGED process
     \/ /\ \E p \in Pids :
             process[p].is = "dead" /\ process' = [process EXCEPT ![p].is = "other"]
        /\ UNCHANGED tool
  /\ UNCHANGED <<build, pidFile>>

PreviewNext ==
  \/ \E t \in Runs :
       \/ \E action \in {"stop", "restart"} : Begin(t, action)
       \/ Look(t) \/ terminatePids(t) \/ stopOutcome(t) \/ Spawn(t) \/ waitForReady(t)
  \/ \E p \in Pids : Bind(p)
  \/ Rebuild \/ Mishap

PreviewSpec == PreviewInit /\ [][PreviewNext]_previewVars
-----------------------------------------------------------------------------
\* What a run reports is so, unless another overlaps it: after a stop no server is up,
\* not even one that has yet to bind; after a restart the port is its own child's,
\* with the build it was run for; and a restart that fails leaves no child that might
\* bind later, unless it could not be killed.
ReportTrue ==
  [][\A t \in Runs :
       Running(t) /\ tool[t].alone =>
         /\ tool'[t].at = "failed" => (tool[t].child \in Up' => tool[t].owners # {})
         /\ tool'[t].at = "ok" /\ tool[t].action = "stop" => Up' = {}
         /\ tool'[t].at = "ok" /\ tool[t].action = "restart" =>
              /\ portOwners' = {tool[t].child}
              /\ process'[tool[t].child].build = tool[t].build]_previewVars
=============================================================================
