---------------------------- MODULE LaunchAgent -----------------------------
(***************************************************************************)
(* buildtools.LaunchAgent: the steps that install, uninstall and restart a  *)
(* launchd job, and what they do to the plist on disk and to the job that   *)
(* launchd has loaded.  A plist, and a job, is known by the version of the  *)
(* program that describes it; 0 is none, Torn a plist half written.         *)
(***************************************************************************)
EXTENDS ToolSteps, Naturals

Torn == 99

\* An agent, as it is configured: the form of its label, and whether it names
\* a program.
Agents == [label : STRING, program : BOOLEAN]

\* LaunchAgentPlist.Validate: a label that names a file, and a program.
PlistIsValid(a) == a.label = "plain" /\ a.program

\* PlistPath and ServiceTarget: only the label matters.
TargetIsValid(a) == a.label = "plain"

Bootout == Step("bootout", "job", 0)

AgentInstall(a, v) ==
    IF PlistIsValid(a)
    THEN <<Step("mkdir", "LaunchAgents", 0), Step("plist", "agent", v), Bootout,
           Step("bootstrap", "job", 0)>>
    ELSE <<ErrorStep>>

AgentUninstall(a) ==
    IF TargetIsValid(a) THEN <<Bootout, Step("unlink", "agent", 0)>> ELSE <<ErrorStep>>

AgentRestart(a) == IF TargetIsValid(a) THEN <<Step("kickstart", "job", 0)>> ELSE <<ErrorStep>>

AgentStatus(a) == IF TargetIsValid(a) THEN <<Step("print", "job", 0)>> ELSE <<ErrorStep>>
-----------------------------------------------------------------------------
(* What launchctl and the file system do (external).                       *)

NoAgent == [plist |-> 0, job |-> 0]

AgentDone(st, g) ==
    CASE st.do = "plist"     -> [g EXCEPT !.plist = st.arg]
      [] st.do = "unlink"    -> [g EXCEPT !.plist = 0]
      [] st.do = "bootout"   -> [g EXCEPT !.job = 0]
      [] st.do = "bootstrap" -> [g EXCEPT !.job = g.plist]
      [] OTHER               -> g

\* What a step that fails, or is killed, may leave.
AgentPartly(st, g) ==
    {g, AgentDone(st, g)} \cup (IF st.do = "plist" THEN {[g EXCEPT !.plist = Torn]} ELSE {})

\* A job is loaded from a plist that can be read, and only once.
AgentAble(st, g) ==
    CASE st.do = "bootstrap"              -> g.job = 0 /\ g.plist \notin {0, Torn}
      [] st.do \in {"kickstart", "bootout"} -> g.job # 0
      [] OTHER                            -> TRUE

\* The user logs in: launchd loads what is in the directory.
AgentLogin(g) == [g EXCEPT !.job = IF g.plist = Torn THEN 0 ELSE g.plist]
=============================================================================
