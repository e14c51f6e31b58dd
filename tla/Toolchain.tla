----------------------------- MODULE Toolchain ------------------------------
(***************************************************************************)
(* The programs that are put together from the steps of buildtools, and     *)
(* what happens when such a program is run, and run again: a step may fail, *)
(* its context may be cancelled, the program may be killed, and the user    *)
(* may log in, at any time.                                                 *)
(*                                                                          *)
(* A tool offers flows, lists of steps that StepRunner.Run runs:            *)
(*   packager: build a bundle and install it; register it with a browser    *)
(*   service:  install, uninstall, restart and show a launch agent          *)
(*   product:  stage and build an installer package; install it             *)
(***************************************************************************)
EXTENDS ToolSteps, BundleParts, LaunchAgent, Packages

CONSTANTS
    Configs,    \* what a tool may be configured with
    Versions,   \* of the program that is built; a positive number each
    MaxRuns     \* bound: how often the tool is run

PackagerConfigs ==
    [tool : {"packager"}, helper : Helpers, ext : Extensions, softlink : BOOLEAN,
     dirs : Seq({"missing", "writable", "readonly"}), register : Browsers \cup {"safari"}]
ServiceConfigs == [tool : {"service"}, agent : Agents]
ProductConfigs == [tool : {"product"}, package : PackageConfigs]

ASSUME ConfigsAssumption == Configs \subseteq PackagerConfigs \cup ServiceConfigs \cup ProductConfigs
ASSUME VersionsAssumption == Versions \subseteq 1..98 /\ MaxRuns \in Nat

VARIABLES
    tool,       \* "packager", "service" or "product"
    config,     \* how it is configured
    runs,       \* how often it was run
    flow,       \* the flow that is run, or was: its name and version
    status,     \* "idle", "running", "stopped"
    todo,       \* the steps still to be run
    log,        \* the error of the last entry of the RunResult
    dry,        \* the run is a dry run
    done,       \* the context of the run is done
    world,      \* the file system and launchd, as far as the tool reaches them
    rejected    \* history: the flows of which a dry run has failed, not cancelled

vars == <<tool, config, runs, flow, status, todo, log, dry, done, world, rejected>>

\* Mutant: the bundle is signed after it is installed.
StepsSignInPlace(t, f) ==
    CASE t = "packager" /\ f.name = "install" -> Front(BuildSteps(config, f.version)) \o InstallBundle(config.dirs, config.softlink)
             \o <<Step("sign", "bundle", 0)>>
      [] t = "packager" /\ f.name = "register" -> InstallNativeMessagingManifest(config.helper, config.register)
      [] t = "service" /\ f.name = "install" -> AgentInstall(config.agent, f.version)
      [] t = "service" /\ f.name = "uninstall" -> AgentUninstall(config.agent)
      [] t = "service" /\ f.name = "restart" -> AgentRestart(config.agent)
      [] t = "service" /\ f.name = "status" -> AgentStatus(config.agent)
      [] t = "product" /\ f.name = "build" -> Package(config.package, f.version)
      [] t = "product" /\ f.name = "install" -> PackageInstall(config.package)

Steps(t, f) ==
    CASE t = "packager" /\ f.name = "install" -> BuildSteps(config, f.version) \o InstallBundle(config.dirs, config.softlink)
      [] t = "packager" /\ f.name = "register" -> InstallNativeMessagingManifest(config.helper, config.register)
      [] t = "service" /\ f.name = "install" -> AgentInstall(config.agent, f.version)
      [] t = "service" /\ f.name = "uninstall" -> AgentUninstall(config.agent)
      [] t = "service" /\ f.name = "restart" -> AgentRestart(config.agent)
      [] t = "service" /\ f.name = "status" -> AgentStatus(config.agent)
      [] t = "product" /\ f.name = "build" -> Package(config.package, f.version)
      [] t = "product" /\ f.name = "install" -> PackageInstall(config.package)

Flows(t) == CASE t = "packager" -> {"install", "register"}
              [] t = "service"  -> {"install", "uninstall", "restart", "status"}
              [] t = "product"  -> {"build", "install"}

Nothing(t) == CASE t = "packager" -> NoBundles [] t = "service" -> NoAgent [] t = "product" -> NoPackage
Done(st) == CASE tool = "packager" -> PartsDone(st, world)
              [] tool = "service"  -> AgentDone(st, world)
              [] tool = "product"  -> PackageDone(st, world)
Partly(st) == CASE tool = "packager" -> PartsPartly(st, world)
                [] tool = "service"  -> AgentPartly(st, world)
                [] tool = "product"  -> PackagePartly(st, world)
Able(st) == /\ st.do # "error"
            /\ CASE tool = "packager" -> PartsAble(st, world)
                 [] tool = "service"  -> AgentAble(st, world)
                 [] tool = "product"  -> PackageAble(st, world)

Init ==
    /\ config \in Configs /\ tool = config.tool /\ runs = 0
    /\ world = Nothing(tool)
    /\ flow = [name |-> "none", version |-> 0] /\ status = "idle" /\ todo = <<>> /\ log = "none"
    /\ dry = FALSE /\ done = FALSE /\ rejected = {}
-----------------------------------------------------------------------------
\* The steps are made and handed to a runner.
Begin(name, v) ==
    /\ status # "running" /\ runs < MaxRuns
    /\ runs' = runs + 1
    /\ flow' = [name |-> name, version |-> v]
    /\ todo' = Steps(tool, flow')
    /\ dry' \in BOOLEAN /\ done' = FALSE
    /\ status' = "running" /\ log' = "none"
    /\ UNCHANGED <<tool, config, world, rejected>>

\* The next step succeeds.  A dry run only writes down what it would do.
RunStep ==
    /\ status = "running" /\ todo # <<>>
    /\ done => ~RefusedWhenDone(Head(todo), dry)
    /\ IF Executes(Head(todo), dry)
       THEN Able(Head(todo)) /\ world' = Done(Head(todo))
       ELSE world' = world
    /\ todo' = Tail(todo) /\ log' = "nil"
    /\ UNCHANGED <<tool, config, runs, flow, status, dry, done, rejected>>

\* The next step fails in a way that it does not report.
RunStepIgnoringError ==
    /\ status = "running" /\ todo # <<>>
    /\ ErrorIgnored(Head(todo)) /\ ~done /\ ~dry
    /\ world' \in Partly(Head(todo))
    /\ todo' = Tail(todo) /\ log' = "nil"
    /\ UNCHANGED <<tool, config, runs, flow, status, dry, done, rejected>>

\* The next step fails: its result is the last one.  A check only fails if
\* what it checks is not so; the end of the context may come in the middle of
\* a command.
Fail ==
    /\ status = "running" /\ todo # <<>>
    /\ Head(todo).do \in Checks => ~Able(Head(todo))
    /\ IF Executes(Head(todo), dry)
       THEN (ErrorIgnored(Head(todo)) => done) /\ world' \in Partly(Head(todo))
       ELSE done /\ RefusedWhenDone(Head(todo), dry) /\ world' = world
    /\ todo' = Tail(todo) /\ log' = "error" /\ status' = "stopped"
    /\ rejected' = IF dry /\ ~done THEN rejected \cup {flow} ELSE rejected
    /\ UNCHANGED <<tool, config, runs, flow, dry, done>>

\* No step is left.
Return ==
    /\ status = "running" /\ todo = <<>>
    /\ status' = "stopped"
    /\ UNCHANGED <<tool, config, runs, flow, todo, log, dry, done, world, rejected>>

\* The context is cancelled.
Cancel ==
    /\ status = "running" /\ ~done
    /\ done' = TRUE
    /\ UNCHANGED <<tool, config, runs, flow, status, todo, log, dry, world, rejected>>

\* The program is killed, in the middle of a step.
Killed ==
    /\ status = "running" /\ todo # <<>>
    /\ IF Executes(Head(todo), dry) THEN world' \in Partly(Head(todo)) ELSE world' = world
    /\ status' = "idle" /\ todo' = <<>> /\ log' = "none"
    /\ UNCHANGED <<tool, config, runs, flow, dry, done, rejected>>

\* The user logs in; that ended whatever was running.
Login ==
    /\ status # "running" /\ tool = "service"
    /\ world' = AgentLogin(world)
    /\ status' = "idle" /\ todo' = <<>> /\ log' = "none"
    /\ UNCHANGED <<tool, config, runs, flow, dry, done, rejected>>

Next ==
    \/ \E name \in Flows(tool), v \in Versions : Begin(name, v)
    \/ RunStep \/ RunStepIgnoringError \/ Fail \/ Return \/ Cancel \/ Killed \/ Login

Spec == Init /\ [][Next]_vars
-----------------------------------------------------------------------------
\* RunResult.Error is nil, and it was no dry run.
Success(name) == status = "stopped" /\ log # "error" /\ ~dry /\ flow.name = name

\* What a dry run has rejected no real run accomplishes afterwards: a dry run does
\* not fail for want of what its earlier steps would have made.
DryRunIsRight == ~dry /\ status = "stopped" /\ log # "error" => flow \notin rejected

\* However earlier runs ended, a flow that builds, signs and installs and
\* reports success leaves an exact copy of the bundle where it is installed, of
\* this version and of no other, in which every signature is valid: signed from
\* the inside out, nothing adds or signs what a signature already covers.
InstalledIsBuilt ==
    tool = "packager" /\ Success("install") =>
        /\ world.dest = world.built /\ world.dest.seals = DOMAIN Covers
        /\ \A i \in ToSet(Items) : world.dest.files[i] = flow.version
        /\ config.softlink => world.link

\* A browser takes every manifest that it can read, in the bundle and in the
\* directory it searches: it has the form that this browser asks for, and it
\* lists for each browser only what is meant for it.
ManifestsAreUsable ==
    tool = "packager" =>
        \A b \in Browsers : \A m \in {world.built.shown[b], world.dest.shown[b], world.hosts[b]} :
            m \in {NoManifest, TornManifest}
            \/ /\ ManifestIsValid(m, b)
               /\ m.origins => b \in Chromium
               /\ m.extensions => b = "firefox"

\* Installing an agent that reports success means that launchd runs what is on
\* disk, which is what was to be installed, whatever was loaded or left before.
AgentIsCurrent ==
    tool = "service" /\ Success("install") =>
        world.plist = flow.version /\ world.job = flow.version

\* There is no package beside contents that are newer than it: a build that
\* fails, at whatever point, leaves none that would be installed in its place.
PackageIsCurrent ==
    tool = "product" /\ world.pkg # Unstaged =>
        \A p \in Parts : world.staged[p] \in {0, world.pkg[p]}
=============================================================================
