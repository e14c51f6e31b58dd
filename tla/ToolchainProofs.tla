--------------------------- MODULE ToolchainProofs --------------------------
(* Safety of the programs that are put together from the steps of           *)
(* buildtools, for any configurations of them, versions of the program, and *)
(* however often one is run, fails, is cancelled or is killed.              *)
EXTENDS Toolchain, SequenceTheorems, WellFoundedInduction, TLAPS

\* What a tool is does not change.
Tooled ==
    /\ config \in Configs /\ tool = config.tool /\ tool \in {"packager", "service", "product"}
    /\ status \in {"idle", "running", "stopped"}

LEMMA TooledStarts == Init => Tooled
  BY ConfigsAssumption DEF Init, Tooled, PackagerConfigs, ServiceConfigs, ProductConfigs

LEMMA ToolStays == [Next]_vars => tool' = tool /\ config' = config
  BY DEF Next, Begin, RunStep, RunStepIgnoringError, Fail, Return, Cancel, Killed, Login, vars

LEMMA TooledKeeps == Tooled /\ [Next]_vars => Tooled'
  BY DEF Tooled, Next, Begin, RunStep, RunStepIgnoringError, Fail, Return, Cancel, Killed,
         Login, vars

\* A check has no effect that a dry run would have to avoid.
LEMMA ChecksChangeNothing ==
    ASSUME Tooled, NEW st, st.do \in Checks
    PROVE  Done(st) = world /\ Partly(st) = {world}
<1>1. st.do \in {"error", "validate"}
  BY DEF Checks
<1>2. PartsDone(st, world) = world /\ AgentDone(st, world) = world /\ PackageDone(st, world) = world
  BY <1>1 DEF PartsDone, AgentDone, PackageDone
<1>3. PartsPartly(st, world) = {world}
  BY <1>1, <1>2 DEF PartsPartly
<1>4. AgentPartly(st, world) = {world}
  BY <1>1, <1>2 DEF AgentPartly
<1>5. PackagePartly(st, world) = {world}
  BY <1>1, <1>2 DEF PackagePartly
<1> QED
  BY <1>2, <1>3, <1>4, <1>5 DEF Done, Partly, Tooled

LEMMA DrySteps ==
    ASSUME Tooled, dry, Executes(Head(todo), dry)
    PROVE  Done(Head(todo)) = world /\ Partly(Head(todo)) = {world}
  BY ChecksChangeNothing DEF Executes

-----------------------------------------------------------------------------
(* The launch agent.                                                       *)

Installing == status = "running" /\ flow.name = "install" /\ ~dry

\* How far an installation has got: what launchd has loaded is only known
\* once the new plist is in place and the old job is out of the way.
InstallKnows ==
    \/ todo = AgentInstall(config.agent, flow.version)
    \/ todo = <<Step("plist", "agent", flow.version), Bootout, Step("bootstrap", "job", 0)>>
    \/ todo = <<Bootout, Step("bootstrap", "job", 0)>> /\ world.plist = flow.version
    \/ todo = <<Step("bootstrap", "job", 0)>> /\ world.plist = flow.version
    \/ todo = <<>> /\ world.plist = flow.version /\ world.job = flow.version

AgentType == [plist : Nat, job : Nat]

LEMMA AgentWorld ==
    ASSUME NEW g \in AgentType, NEW st, st.do = "plist" => st.arg \in Nat
    PROVE  AgentDone(st, g) \in AgentType /\ AgentPartly(st, g) \subseteq AgentType
<1>1. AgentDone(st, g) \in AgentType
  BY DEF AgentDone, AgentType
<1>2. [g EXCEPT !.plist = Torn] \in AgentType
  BY DEF AgentType, Torn
<1> QED
  BY <1>1, <1>2 DEF AgentPartly

\* The steps of an agent: the plist that they write is that of the version.
AgentSteps(v) ==
    {ErrorStep, Bootout, Step("mkdir", "LaunchAgents", 0), Step("plist", "agent", v),
     Step("bootstrap", "job", 0), Step("unlink", "agent", 0), Step("kickstart", "job", 0),
     Step("print", "job", 0)}

LEMMA Tuples ==
    ASSUME NEW S, NEW a \in S, NEW b \in S, NEW c \in S, NEW d \in S
    PROVE  /\ <<a>> \in Seq(S) /\ <<a, b>> \in Seq(S)
           /\ <<a, b, c>> \in Seq(S) /\ <<a, b, c, d>> \in Seq(S)
  OBVIOUS

LEMMA AgentStepsAre ==
    ASSUME Tooled, tool = "service", NEW f, f.name \in Flows(tool), f.version \in Nat
    PROVE  Steps(tool, f) \in Seq(AgentSteps(f.version))
<1> DEFINE S == AgentSteps(f.version)
<1>1. /\ ErrorStep \in S /\ Bootout \in S
      /\ Step("mkdir", "LaunchAgents", 0) \in S /\ Step("plist", "agent", f.version) \in S
      /\ Step("bootstrap", "job", 0) \in S /\ Step("unlink", "agent", 0) \in S
      /\ Step("kickstart", "job", 0) \in S /\ Step("print", "job", 0) \in S
  BY DEF AgentSteps
<1> HIDE DEF S
<1>2. AgentInstall(config.agent, f.version) \in Seq(S)
  BY <1>1, Tuples DEF AgentInstall
<1>3. AgentUninstall(config.agent) \in Seq(S)
  BY <1>1, Tuples DEF AgentUninstall
<1>4. AgentRestart(config.agent) \in Seq(S) /\ AgentStatus(config.agent) \in Seq(S)
  BY <1>1, Tuples DEF AgentRestart, AgentStatus
<1>5. f.name \in {"install", "uninstall", "restart", "status"}
  BY DEF Flows
<1> QED
  BY <1>2, <1>3, <1>4, <1>5 DEF Steps, S

AgentInv ==
    tool = "service" =>
        /\ world \in AgentType /\ flow.version \in Nat
        /\ todo \in Seq(AgentSteps(flow.version))
        /\ Installing => InstallKnows
        /\ AgentIsCurrent

\* A step has happened, or failed, or the program was killed in it.
LEMMA AgentStepKeeps ==
    ASSUME Tooled, AgentInv, tool = "service", status = "running", todo # <<>>
    PROVE  /\ AgentDone(Head(todo), world) \in AgentType
           /\ AgentPartly(Head(todo), world) \subseteq AgentType
           /\ Done(Head(todo)) = AgentDone(Head(todo), world)
           /\ Partly(Head(todo)) = AgentPartly(Head(todo), world)
           /\ Able(Head(todo)) => Head(todo).do # "error" /\ AgentAble(Head(todo), world)
           /\ Tail(todo) \in Seq(AgentSteps(flow.version))
<1>1. Head(todo) \in AgentSteps(flow.version) /\ Tail(todo) \in Seq(AgentSteps(flow.version))
  BY DEF AgentInv
<1>2. Head(todo).do = "plist" => Head(todo).arg \in Nat
  <2> DEFINE st == Head(todo)
             v == flow.version
  <2>1. \/ st = Step("plist", "agent", v) \/ st = ErrorStep \/ st = Bootout
        \/ st = Step("mkdir", "LaunchAgents", 0) \/ st = Step("bootstrap", "job", 0)
        \/ st = Step("unlink", "agent", 0) \/ st = Step("kickstart", "job", 0)
        \/ st = Step("print", "job", 0)
    BY <1>1 DEF AgentSteps
  <2>2. /\ v \in Nat /\ Step("plist", "agent", v).arg = v
        /\ ErrorStep.do # "plist" /\ Bootout.do # "plist"
        /\ Step("mkdir", "LaunchAgents", 0).do # "plist"
        /\ Step("bootstrap", "job", 0).do # "plist" /\ Step("unlink", "agent", 0).do # "plist"
        /\ Step("kickstart", "job", 0).do # "plist" /\ Step("print", "job", 0).do # "plist"
    BY DEF AgentInv, Bootout, ErrorStep, Step
  <2> HIDE DEF st, v
  <2>3. st.do = "plist" => st.arg = v
    BY <2>1, <2>2
  <2> QED
    BY <2>2, <2>3 DEF st, v
<1>3. world \in AgentType
  BY DEF AgentInv
<1> QED
  BY <1>1, <1>2, <1>3, AgentWorld DEF Done, Partly, Able

\* Installing an agent goes from one of its stages to the next.
LEMMA InstallProceeds ==
    ASSUME Tooled, AgentInv, tool = "service", status = "running", todo # <<>>, InstallKnows,
           log' # "error", todo' = Tail(todo), flow' = flow, config' = config,
           Head(todo).do # "error",
           \/ AgentAble(Head(todo), world) /\ world' = AgentDone(Head(todo), world)
           \/ ErrorIgnored(Head(todo)) /\ world' \in AgentPartly(Head(todo), world)
    PROVE  InstallKnows'
<1> DEFINE v == flow.version
           mkdir == Step("mkdir", "LaunchAgents", 0)
           plist == Step("plist", "agent", v)
           bootstrap == Step("bootstrap", "job", 0)
<1> USE DEF Step, Bootout
<1>1. world \in AgentType /\ v \in Nat
  BY DEF AgentInv
<1>2. CASE todo = AgentInstall(config.agent, v)
  <2>1. PlistIsValid(config.agent)
    <3>1. todo = <<ErrorStep>> => Head(todo) = ErrorStep
      OBVIOUS
    <3>2. ErrorStep.do = "error"
      BY DEF ErrorStep
    <3> QED
      BY <1>2, <3>1, <3>2 DEF AgentInstall
  <2>2. todo' = <<plist, Bootout, bootstrap>>
    BY <1>2, <2>1 DEF AgentInstall
  <2> QED
    BY <2>2 DEF InstallKnows
<1>3. CASE todo = <<plist, Bootout, bootstrap>>
  <2>1. Head(todo) = plist /\ todo' = <<Bootout, bootstrap>>
    BY <1>3
  <2>2. world' = AgentDone(plist, world)
    BY <2>1 DEF ErrorIgnored
  <2>3. world'.plist = v
    BY <1>1, <2>2 DEF AgentDone, AgentType
  <2> QED
    BY <2>1, <2>3 DEF InstallKnows
<1>4. CASE todo = <<Bootout, bootstrap>> /\ world.plist = v
  <2>1. Head(todo) = Bootout /\ todo' = <<bootstrap>>
    BY <1>4
  <2>2. world'.plist = v
    BY <1>1, <1>4, <2>1 DEF AgentDone, AgentPartly, AgentType
  <2> QED
    BY <2>1, <2>2 DEF InstallKnows
<1>5. CASE todo = <<bootstrap>> /\ world.plist = v
  <2>1. Head(todo) = bootstrap /\ todo' = <<>>
    BY <1>5
  <2>2. world' = AgentDone(bootstrap, world)
    BY <2>1 DEF ErrorIgnored
  <2>3. world'.plist = v /\ world'.job = v
    BY <1>1, <1>5, <2>2 DEF AgentDone, AgentType
  <2> QED
    BY <2>1, <2>3 DEF InstallKnows
<1> QED
  BY <1>2, <1>3, <1>4, <1>5 DEF InstallKnows

\* An installation that reports success has done every one of its steps.
THEOREM AgentIsCurrentAlways == Spec => []AgentIsCurrent
<1> DEFINE Inv == Tooled /\ AgentInv
<1>1. Init => Inv
  <2> SUFFICES ASSUME Init PROVE AgentInv
    BY TooledStarts
  <2>1. tool = "service" => world \in AgentType
    BY DEF Init, Nothing, NoAgent, AgentType
  <2> QED
    BY <2>1 DEF Init, AgentInv, Installing, AgentIsCurrent, Success
<1>2. Inv /\ [Next]_vars => Inv'
  <2> SUFFICES ASSUME Inv, [Next]_vars, tool = "service" PROVE AgentInv'
    BY TooledKeeps, ToolStays DEF AgentInv
  <2>0. /\ world \in AgentType /\ flow.version \in Nat
        /\ todo \in Seq(AgentSteps(flow.version))
        /\ Installing => InstallKnows
        /\ AgentIsCurrent
    BY DEF AgentInv
  <2>1. ASSUME NEW name \in Flows(tool), NEW v \in Versions, Begin(name, v) PROVE AgentInv'
    <3>1. flow' = [name |-> name, version |-> v] /\ todo' = Steps(tool, flow') /\ config' = config
      BY <2>1 DEF Begin
    <3>2. v \in Nat
      BY VersionsAssumption
    <3>3. todo' \in Seq(AgentSteps(v))
      BY <3>1, <3>2, AgentStepsAre
    <3>4. name = "install" => todo' = AgentInstall(config.agent, v)
      BY <3>1 DEF Steps
    <3>5. world' = world /\ status' = "running"
      BY <2>1 DEF Begin
    <3>6. Installing' => InstallKnows'
      BY <3>1, <3>4 DEF Installing, InstallKnows
    <3> QED
      BY <2>0, <3>1, <3>2, <3>3, <3>5, <3>6 DEF AgentInv, AgentIsCurrent, Success
  <2>2. CASE RunStep \/ RunStepIgnoringError
    <3>1. /\ status = "running" /\ todo # <<>> /\ todo' = Tail(todo) /\ log' = "nil"
          /\ tool' = tool /\ config' = config /\ flow' = flow /\ status' = status /\ dry' = dry
      BY <2>2 DEF RunStep, RunStepIgnoringError
    <3>2. /\ AgentDone(Head(todo), world) \in AgentType
          /\ AgentPartly(Head(todo), world) \subseteq AgentType
          /\ Done(Head(todo)) = AgentDone(Head(todo), world)
          /\ Partly(Head(todo)) = AgentPartly(Head(todo), world)
          /\ Able(Head(todo)) => Head(todo).do # "error" /\ AgentAble(Head(todo), world)
          /\ Tail(todo) \in Seq(AgentSteps(flow.version))
      BY <3>1, AgentStepKeeps
    <3>3. world' \in AgentType
      BY <2>0, <2>2, <3>2 DEF RunStep, RunStepIgnoringError
    <3>4. ~dry => \/ Head(todo).do # "error" /\ AgentAble(Head(todo), world)
                     /\ world' = AgentDone(Head(todo), world)
                  \/ ErrorIgnored(Head(todo)) /\ world' \in AgentPartly(Head(todo), world)
      BY <2>2, <3>2 DEF RunStep, RunStepIgnoringError, Executes
    <3>5. ErrorIgnored(Head(todo)) => Head(todo).do # "error"
      BY DEF ErrorIgnored
    <3>6. Installing' => InstallKnows'
      BY <2>0, <3>1, <3>4, <3>5, InstallProceeds DEF Installing
    <3> QED
      BY <2>0, <3>1, <3>2, <3>3, <3>6 DEF AgentInv, AgentIsCurrent, Success
  <2>3. CASE Fail \/ Killed
    <3>1. /\ status = "running" /\ todo # <<>> /\ tool' = tool /\ flow' = flow
          /\ todo' \in {<<>>, Tail(todo)}
          /\ \/ status' = "stopped" /\ log' = "error"
             \/ status' = "idle"
      BY <2>3 DEF Fail, Killed
    <3>2. /\ AgentPartly(Head(todo), world) \subseteq AgentType
          /\ Partly(Head(todo)) = AgentPartly(Head(todo), world)
          /\ Tail(todo) \in Seq(AgentSteps(flow.version))
      BY <3>1, AgentStepKeeps
    <3>3. world' \in AgentType
      BY <2>0, <2>3, <3>2 DEF Fail, Killed
    <3>4. flow'.version \in Nat /\ todo' \in Seq(AgentSteps(flow'.version))
      <4>1. <<>> \in Seq(AgentSteps(flow.version))
        OBVIOUS
      <4>2. todo' \in Seq(AgentSteps(flow.version))
        BY <3>1, <3>2, <4>1
      <4> QED
        BY <2>0, <3>1, <4>2
    <3>5. ~Installing' /\ AgentIsCurrent'
      BY <3>1 DEF Installing, AgentIsCurrent, Success
    <3> QED
      BY <3>3, <3>4, <3>5 DEF AgentInv
  <2>4. CASE Return
    BY <2>0, <2>4 DEF Return, AgentInv, Installing, InstallKnows, AgentIsCurrent, Success,
                      AgentInstall
  <2>5. CASE Login
    <3>1. world' \in AgentType
      BY <2>0, <2>5 DEF Login, AgentLogin, AgentType
    <3>2. status' = "idle" /\ todo' = <<>> /\ flow' = flow
      BY <2>5 DEF Login
    <3>3. flow'.version \in Nat /\ todo' \in Seq(AgentSteps(flow'.version))
      BY <2>0, <3>2
    <3>4. ~Installing' /\ AgentIsCurrent'
      BY <3>2 DEF Installing, AgentIsCurrent, Success
    <3> QED
      BY <3>1, <3>3, <3>4 DEF AgentInv
  <2>6. CASE Cancel \/ UNCHANGED vars
    <3>1. UNCHANGED <<tool, config, flow, status, todo, log, dry, world>>
      BY <2>6 DEF Cancel, vars
    <3> QED
      BY <2>0, <3>1 DEF AgentInv, Installing, InstallKnows, AgentIsCurrent, Success
  <2> QED
    BY <2>1, <2>2, <2>3, <2>4, <2>5, <2>6 DEF Next
<1>3. Inv => AgentIsCurrent
  BY DEF AgentInv, AgentIsCurrent
<1> QED
  BY <1>1, <1>2, <1>3, PTL DEF Spec

-----------------------------------------------------------------------------
(* The installer package.                                                  *)

Cleaning == {ErrorStep, Step("rm", "buildDir", 0)}
Staging(v) ==
    {Step("mkdir", "root", 0), Step("mkdir", "outputs", 0), Step("mkdir", "scripts", 0),
     Step("rsync", "root", v), Step("write", "scripts", v), Step("plist", "component", v)}
Building ==
    {ErrorStep, Step("pkgbuild", "outputs", 0), Step("mkdir", "resources", 0),
     Step("copy", "resources", 0), Step("productbuild", "outputs", 0),
     Step("installer", "system", 0)}

Contents == [Parts -> Nat]
PackageType ==
    [staged : Contents, dirs : SUBSET {"root", "outputs", "scripts", "resources"},
     pkg : Contents, product : Contents, system : Contents]

Current(k) == k.pkg # Unstaged => \A p \in Parts : k.staged[p] \in {0, k.pkg[p]}

\* What the package is made of is staged while there is none.
StagedFirst(s, v) == \E a \in Seq(Staging(v)), b \in Seq(Building) : s = a \o b

PackageKnows ==
    \/ /\ todo # <<>> /\ Head(todo) \in Cleaning
       /\ StagedFirst(Tail(todo), flow.version)
    \/ world.pkg = Unstaged /\ StagedFirst(todo, flow.version)
    \/ todo \in Seq(Building)

LEMMA UnstagedIsContents == Unstaged \in Contents
  BY DEF Unstaged, Contents

\* A file is staged, beside no package.
LEMMA StagingKeeps ==
    ASSUME NEW k \in PackageType, NEW v \in Nat, NEW st \in Staging(v), k.pkg = Unstaged
    PROVE  /\ PackagePartly(st, k) = {k, PackageDone(st, k)}
           /\ PackageDone(st, k) \in PackageType /\ PackageDone(st, k).pkg = Unstaged
<1>1. ASSUME NEW d \in {"root", "outputs", "scripts"}, st = Step("mkdir", d, 0)
      PROVE  /\ PackageDone(st, k) \in PackageType /\ PackageDone(st, k).pkg = k.pkg
             /\ st.do # "rm"
  BY <1>1 DEF PackageDone, PackageType, Step
<1>2. ASSUME NEW d \in {"rsync", "write", "plist"}, NEW p \in Parts, st = Step(d, p, v)
      PROVE  /\ PackageDone(st, k) \in PackageType /\ PackageDone(st, k).pkg = k.pkg
             /\ st.do # "rm"
  <2>1. PackageDone(st, k) = [k EXCEPT !.staged = [k.staged EXCEPT ![p] = v]]
    BY <1>2 DEF PackageDone, PackageType, Step
  <2>2. [k.staged EXCEPT ![p] = v] \in Contents
    BY DEF PackageType, Contents
  <2>3. st.do # "rm"
    BY <1>2 DEF Step
  <2> QED
    BY <2>1, <2>2, <2>3 DEF PackageType
<1>3. \/ \E d \in {"root", "outputs", "scripts"} : st = Step("mkdir", d, 0)
      \/ \E d \in {"rsync", "write", "plist"}, p \in Parts : st = Step(d, p, v)
  BY DEF Staging, Parts
<1>4. /\ PackageDone(st, k) \in PackageType /\ PackageDone(st, k).pkg = k.pkg
      /\ st.do # "rm"
  BY <1>1, <1>2, <1>3
<1> QED
  BY <1>4 DEF PackagePartly

\* The package is built, and put to use.
LEMMA BuildingKeeps ==
    ASSUME NEW k \in PackageType, Current(k), NEW st \in Building
    PROVE  /\ PackagePartly(st, k) = {k, PackageDone(st, k)}
           /\ PackageDone(st, k) \in PackageType /\ Current(PackageDone(st, k))
<1> DEFINE w == PackageDone(st, k)
<1>1. CASE st = ErrorStep \/ st = Step("copy", "resources", 0)
  <2>1. st.do \in {"error", "copy"}
    <3>1. ErrorStep.do = "error" /\ Step("copy", "resources", 0).do = "copy"
      BY DEF ErrorStep, Step
    <3> QED
      BY <1>1, <3>1
  <2>2. w = k
    BY <2>1 DEF PackageDone
  <2> QED
    BY <2>1, <2>2 DEF PackagePartly
<1>2. CASE st = Step("mkdir", "resources", 0)
  <2>1. w = [k EXCEPT !.dirs = @ \cup {"resources"}] /\ st.do # "rm"
    BY <1>2 DEF PackageDone, Step
  <2> QED
    BY <2>1 DEF PackagePartly, PackageType, Current
<1>3. CASE st = Step("pkgbuild", "outputs", 0)
  <2>1. w = [k EXCEPT !.pkg = k.staged] /\ st.do # "rm"
    BY <1>3 DEF PackageDone, Step
  <2> QED
    BY <2>1 DEF PackagePartly, PackageType, Current
<1>4. CASE st = Step("productbuild", "outputs", 0)
  <2>1. w = [k EXCEPT !.product = k.pkg] /\ st.do # "rm"
    BY <1>4 DEF PackageDone, Step
  <2> QED
    BY <2>1 DEF PackagePartly, PackageType, Current
<1>5. CASE st = Step("installer", "system", 0)
  <2>1. w = [k EXCEPT !.system = k.pkg] /\ st.do # "rm"
    BY <1>5 DEF PackageDone, Step
  <2> QED
    BY <2>1 DEF PackagePartly, PackageType, Current
<1> QED
  BY <1>1, <1>2, <1>3, <1>4, <1>5 DEF Building

\* Removing the build directory, or part of it, leaves nothing newer than the
\* package.
LEMMA CleaningKeeps ==
    ASSUME NEW k \in PackageType, Current(k), NEW st \in Cleaning
    PROVE  /\ \A w \in PackagePartly(st, k) : w \in PackageType /\ Current(w)
           /\ st.do # "error" => PackageDone(st, k) \in PackageType
                                 /\ PackageDone(st, k).pkg = Unstaged
<1>1. CASE st = ErrorStep
  BY <1>1 DEF ErrorStep, Step, PackageDone, PackagePartly
<1>2. CASE st = Step("rm", "buildDir", 0)
  <2>1. PackageDone(st, k) = [k EXCEPT !.staged = Unstaged, !.dirs = {}, !.pkg = Unstaged]
    BY <1>2 DEF PackageDone, Step
  <2>2. PackageDone(st, k) \in PackageType /\ PackageDone(st, k).pkg = Unstaged
    BY <2>1, UnstagedIsContents DEF PackageType
  <2>3. ASSUME NEW w \in PartlyRemoved(k) PROVE w \in PackageType /\ Current(w)
    <3>1. PICK gone \in SUBSET Parts, left \in {k.pkg, Unstaged} :
              w = Removed(k, gone, left)
      BY <2>3 DEF PartlyRemoved
    <3> DEFINE f == Without(gone, k.staged)
    <3>2. k.staged \in [Parts -> Nat]
      BY DEF PackageType, Contents
    <3>3. f \in Contents /\ \A q \in Parts : f[q] \in {0, k.staged[q]}
      BY <3>2 DEF Contents, Without
    <3> HIDE DEF f
    <3>4. w = [k EXCEPT !.staged = f, !.pkg = left]
      BY <3>1 DEF f, Removed
    <3>5. left \in Contents
      BY UnstagedIsContents DEF PackageType
    <3>6. w \in PackageType /\ w.staged = f /\ w.pkg = left
      BY <3>3, <3>4, <3>5 DEF PackageType
    <3> QED
      BY <3>3, <3>6 DEF Current
  <2>4. ASSUME NEW w \in PackagePartly(st, k), w \notin PartlyRemoved(k)
        PROVE  w \in {k, PackageDone(st, k)}
    BY <2>4 DEF PackagePartly
  <2> QED
    BY <2>2, <2>3, <2>4 DEF Current
<1> QED
  BY <1>1, <1>2 DEF Cleaning

LEMMA ProductStepsAre ==
    ASSUME Tooled, tool = "product", NEW f, f.name \in Flows(tool), f.version \in Nat
    PROVE  \/ /\ Steps(tool, f) # <<>> /\ Head(Steps(tool, f)) \in Cleaning
              /\ StagedFirst(Tail(Steps(tool, f)), f.version)
              /\ Steps(tool, f) \in Seq(Cleaning \cup Staging(f.version) \cup Building)
           \/ Steps(tool, f) \in Seq(Building)
<1> DEFINE p == config.package
           v == f.version
<1>1. CASE f.name = "build"
  <2>1. PkgCreate \in Seq(Staging(v)) /\ PkgStage(p, v) \in Seq(Staging(v))
    <3>1. /\ Step("mkdir", "root", 0) \in Staging(v) /\ Step("mkdir", "outputs", 0) \in Staging(v)
          /\ Step("mkdir", "scripts", 0) \in Staging(v) /\ Step("rsync", "root", v) \in Staging(v)
          /\ Step("write", "scripts", v) \in Staging(v)
          /\ Step("plist", "component", v) \in Staging(v)
      BY DEF Staging
    <3>2. PkgCreate \in Seq(Staging(v))
      <4> DEFINE S == Staging(v)
                 a == Step("mkdir", "root", 0)
                 b == Step("mkdir", "outputs", 0)
                 c == Step("mkdir", "scripts", 0)
      <4>1. a \in S /\ b \in S /\ c \in S
        BY <3>1
      <4>2. PkgCreate = <<a, b, c>>
        BY DEF PkgCreate
      <4> HIDE DEF S, a, b, c
      <4>3. <<a, b, c>> \in Seq(S)
        BY <4>1, Tuples
      <4> QED
        BY <4>2, <4>3 DEF S
    <3>3. /\ <<Step("rsync", "root", v)>> \in Seq(Staging(v))
          /\ <<Step("write", "scripts", v)>> \in Seq(Staging(v))
          /\ <<Step("plist", "component", v)>> \in Seq(Staging(v))
      BY <3>1
    <3> QED
      <4> DEFINE S == Staging(v)
                 a == <<Step("rsync", "root", v)>>
                 b == <<Step("write", "scripts", v)>>
                 c == <<Step("plist", "component", v)>>
      <4>1. a \in Seq(S) /\ b \in Seq(S) /\ c \in Seq(S) /\ <<>> \in Seq(S)
        BY <3>3
      <4>2. PkgStage(p, v) = a \o (IF p.script THEN b ELSE <<>>) \o c
        BY DEF PkgStage
      <4> HIDE DEF S, a, b, c
      <4>3. (IF p.script THEN b ELSE <<>>) \in Seq(S)
        BY <4>1
      <4>4. a \o (IF p.script THEN b ELSE <<>>) \in Seq(S)
        BY <4>1, <4>3
      <4>5. PkgStage(p, v) \in Seq(S)
        BY <4>1, <4>2, <4>4
      <4> QED
        BY <3>2, <4>5 DEF S
  <2>2. PkgBuildSteps(p) \in Seq(Building) /\ ProductSteps(p) \in Seq(Building)
    <3>1. /\ ErrorStep \in Building /\ Step("pkgbuild", "outputs", 0) \in Building
          /\ Step("mkdir", "resources", 0) \in Building
          /\ Step("copy", "resources", 0) \in Building
          /\ Step("productbuild", "outputs", 0) \in Building
      BY DEF Building
    <3> QED
      BY <3>1 DEF PkgBuildSteps, ProductSteps
  <2>3. \E c \in Cleaning : PkgClean(p) = <<c>>
    BY DEF PkgClean, Cleaning
  <2> DEFINE a == PkgCreate \o PkgStage(p, v)
             b == PkgBuildSteps(p) \o ProductSteps(p)
  <2>4. a \in Seq(Staging(v)) /\ b \in Seq(Building)
    BY <2>1, <2>2
  <2>5. PICK c \in Cleaning : PkgClean(p) = <<c>>
    BY <2>3
  <2>6. Steps(tool, f) = <<c>> \o PkgCreate \o PkgStage(p, v) \o PkgBuildSteps(p) \o ProductSteps(p)
    BY <1>1, <2>5 DEF Steps, Package
  <2> DEFINE S == Cleaning \cup Staging(v) \cup Building
  <2>7. /\ <<c>> \in Seq(S) /\ PkgCreate \in Seq(S) /\ PkgStage(p, v) \in Seq(S)
        /\ PkgBuildSteps(p) \in Seq(S) /\ ProductSteps(p) \in Seq(S)
    BY <2>1, <2>2
  <2>8. Steps(tool, f) = <<c>> \o (a \o b)
    <3> HIDE DEF S
    <3>1. <<c>> \o PkgCreate \o PkgStage(p, v) = <<c>> \o a
      BY <2>7, ConcatAssociative
    <3>2. a \in Seq(S) /\ b \in Seq(S)
      BY <2>7
    <3>3. (<<c>> \o a) \o PkgBuildSteps(p) \o ProductSteps(p) = (<<c>> \o a) \o b
      BY <2>7, <3>2, ConcatAssociative
    <3>4. (<<c>> \o a) \o b = <<c>> \o (a \o b)
      <4> HIDE DEF a, b
      <4> QED
        BY <2>7, <3>2, ConcatAssociative
    <3> QED
      BY <2>6, <3>1, <3>3, <3>4
  <2>9. a \o b \in Seq(S)
    BY <2>4
  <2>10. Head(<<c>> \o (a \o b)) = c /\ Tail(<<c>> \o (a \o b)) = a \o b /\ <<c>> \o (a \o b) # <<>>
    <3> HIDE DEF a, b, S
    <3> QED
      BY <2>7, <2>9
  <2>11. <<c>> \o (a \o b) \in Seq(S)
    <3> HIDE DEF a, b, S
    <3> QED
      BY <2>7, <2>9
  <2> HIDE DEF a, b
  <2> QED
    BY <2>4, <2>8, <2>10, <2>11 DEF StagedFirst
<1>2. CASE f.name = "install"
  <2>1. ErrorStep \in Building /\ Step("installer", "system", 0) \in Building
    BY DEF Building
  <2>2. PackageInstall(p) \in Seq(Building)
    BY <2>1 DEF PackageInstall
  <2> QED
    BY <1>2, <2>2 DEF Steps
<1>3. f.name \in {"build", "install"}
  BY DEF Flows
<1> QED
  BY <1>1, <1>2, <1>3

PackageInv ==
    tool = "product" =>
        /\ world \in PackageType /\ flow.version \in Nat
        /\ status = "running" /\ ~dry => PackageKnows
        /\ PackageIsCurrent

\* How the rest of the steps is known after one of them.
LEMMA StagedFirstTail ==
    ASSUME NEW v, NEW s, StagedFirst(s, v), s # <<>>
    PROVE  \/ Head(s) \in Staging(v) /\ StagedFirst(Tail(s), v)
           \/ s \in Seq(Building)
<1>1. PICK a \in Seq(Staging(v)), b \in Seq(Building) : s = a \o b
  BY DEF StagedFirst
<1>2. CASE a = <<>>
  BY <1>1, <1>2
<1>3. CASE a # <<>>
  <2>1. Head(a) \in Staging(v) /\ Tail(a) \in Seq(Staging(v))
    BY <1>3
  <2>2. Head(s) = Head(a) /\ Tail(s) = Tail(a) \o b
    <3> DEFINE S == Staging(v) \cup Building
    <3>1. a \in Seq(S) /\ b \in Seq(S)
      OBVIOUS
    <3> HIDE DEF S
    <3> QED
      BY <1>1, <1>3, <3>1
  <2> QED
    BY <2>1, <2>2 DEF StagedFirst
<1> QED
  BY <1>2, <1>3

\* What a step of a package, done, or cut short, makes of the invariant.
LEMMA PackageStepKeeps ==
    ASSUME Tooled, PackageInv, tool = "product", status = "running", ~dry, todo # <<>>,
           NEW st, st = Head(todo), NEW rest, rest = Tail(todo)
    PROVE  /\ \A w \in Partly(st) : w \in PackageType /\ Current(w)
           /\ \A w : \/ st.do # "error" /\ w = Done(st)
                     \/ ErrorIgnored(st) /\ w \in Partly(st)
                     => /\ w \in PackageType /\ Current(w)
                        /\ \/ w.pkg = Unstaged /\ StagedFirst(rest, flow.version)
                           \/ rest \in Seq(Building)
<1> DEFINE v == flow.version
<1>1. Done(st) = PackageDone(st, world) /\ Partly(st) = PackagePartly(st, world)
  BY DEF Done, Partly
<1>2. world \in PackageType /\ v \in Nat /\ Current(world)
  BY DEF PackageInv, PackageIsCurrent, Current
<1>3. CASE st \in Cleaning /\ StagedFirst(rest, v)
  <2>1. ~ErrorIgnored(st)
    <3>1. ErrorStep.do = "error" /\ Step("rm", "buildDir", 0).do = "rm"
      BY DEF ErrorStep, Step
    <3> QED
      BY <1>3, <3>1 DEF Cleaning, ErrorIgnored
  <2>2. /\ \A w \in PackagePartly(st, world) : w \in PackageType /\ Current(w)
        /\ st.do # "error" => /\ PackageDone(st, world) \in PackageType
                              /\ PackageDone(st, world).pkg = Unstaged
    BY <1>2, <1>3, CleaningKeeps
  <2> QED
    BY <1>1, <1>3, <2>1, <2>2 DEF Current
<1>4. CASE world.pkg = Unstaged /\ st \in Staging(v) /\ StagedFirst(rest, v)
  <2>1. /\ PackagePartly(st, world) = {world, PackageDone(st, world)}
        /\ PackageDone(st, world) \in PackageType /\ PackageDone(st, world).pkg = Unstaged
    BY <1>2, <1>4, StagingKeeps
  <2> QED
    BY <1>1, <1>2, <1>4, <2>1 DEF Current
<1>5. CASE todo \in Seq(Building)
  <2>1. st \in Building /\ rest \in Seq(Building)
    BY <1>5
  <2>2. /\ PackagePartly(st, world) = {world, PackageDone(st, world)}
        /\ PackageDone(st, world) \in PackageType /\ Current(PackageDone(st, world))
    BY <1>2, <2>1, BuildingKeeps
  <2> QED
    BY <1>1, <1>2, <2>1, <2>2
<1>6. PackageKnows
  BY DEF PackageInv
<1>7. world.pkg = Unstaged /\ StagedFirst(todo, v) =>
          \/ world.pkg = Unstaged /\ st \in Staging(v) /\ StagedFirst(rest, v)
          \/ todo \in Seq(Building)
  BY StagedFirstTail
<1> QED
  BY <1>3, <1>4, <1>5, <1>6, <1>7 DEF PackageKnows

\* Whatever step fails or is cut short, no package outlives what it was made of.
THEOREM PackageIsCurrentAlways == Spec => []PackageIsCurrent
<1> DEFINE Inv == Tooled /\ PackageInv
<1>1. Init => Inv
  <2> SUFFICES ASSUME Init, tool = "product" PROVE PackageInv
    BY TooledStarts DEF PackageInv
  <2>1. world = NoPackage /\ flow.version = 0 /\ status = "idle"
    BY DEF Init, Nothing
  <2>2. world \in PackageType /\ world.pkg = Unstaged
    BY <2>1, UnstagedIsContents DEF NoPackage, PackageType
  <2> QED
    BY <2>1, <2>2 DEF PackageInv, PackageIsCurrent
<1>2. Inv /\ [Next]_vars => Inv'
  <2> SUFFICES ASSUME Inv, [Next]_vars, tool = "product" PROVE PackageInv'
    BY TooledKeeps, ToolStays DEF PackageInv
  <2>0. /\ world \in PackageType /\ flow.version \in Nat
        /\ status = "running" /\ ~dry => PackageKnows
        /\ PackageIsCurrent
    BY DEF PackageInv
  <2>1. ASSUME NEW name \in Flows(tool), NEW v \in Versions, Begin(name, v) PROVE PackageInv'
    <3>1. /\ flow' = [name |-> name, version |-> v] /\ todo' = Steps(tool, flow')
          /\ world' = world
      BY <2>1 DEF Begin
    <3>2. v \in Nat /\ flow'.name = name /\ flow'.version = v
      BY <3>1, VersionsAssumption
    <3>3. \/ /\ todo' # <<>> /\ Head(todo') \in Cleaning
             /\ StagedFirst(Tail(todo'), flow'.version)
          \/ todo' \in Seq(Building)
      BY <3>1, <3>2, ProductStepsAre
    <3> QED
      BY <2>0, <3>1, <3>2, <3>3 DEF PackageInv, PackageKnows, PackageIsCurrent
  <2>2. CASE RunStep \/ RunStepIgnoringError
    <3>1. /\ status = "running" /\ todo # <<>> /\ todo' = Tail(todo)
          /\ tool' = tool /\ flow' = flow /\ status' = status /\ dry' = dry
      BY <2>2 DEF RunStep, RunStepIgnoringError
    <3>2. CASE dry
      <4>1. world' = world
        BY <2>2, <3>2, ChecksChangeNothing DEF RunStep, RunStepIgnoringError, Executes
      <4> QED
        BY <2>0, <3>1, <3>2, <4>1 DEF PackageInv, PackageIsCurrent
    <3>3. CASE ~dry
      <4>1. \/ Head(todo).do # "error" /\ world' = Done(Head(todo))
            \/ ErrorIgnored(Head(todo)) /\ world' \in Partly(Head(todo))
        BY <2>2, <3>3 DEF RunStep, RunStepIgnoringError, Executes, Able
      <4>2. /\ world' \in PackageType /\ Current(world')
            /\ \/ world'.pkg = Unstaged /\ StagedFirst(Tail(todo), flow.version)
               \/ Tail(todo) \in Seq(Building)
        BY <3>1, <3>3, <4>1, PackageStepKeeps
      <4>3. PackageIsCurrent'
        BY <4>2 DEF Current, PackageIsCurrent
      <4>4. PackageKnows'
        BY <3>1, <4>2 DEF PackageKnows
      <4> QED
        BY <2>0, <3>1, <4>2, <4>3, <4>4 DEF PackageInv
    <3> QED
      BY <3>2, <3>3
  <2>3. CASE Fail \/ Killed
    <3>1. /\ status = "running" /\ todo # <<>> /\ flow' = flow /\ status' # "running"
      BY <2>3 DEF Fail, Killed
    <3>2. world' \in PackageType /\ PackageIsCurrent'
      <4>1. CASE dry
        <5>1. world' = world
          BY <2>3, <4>1, DrySteps DEF Fail, Killed
        <5> QED
          BY <2>0, <5>1 DEF PackageIsCurrent
      <4>2. CASE ~dry
        <5>1. world' \in Partly(Head(todo))
          BY <2>3, <4>2 DEF Fail, Killed, Executes
        <5>2. world' \in PackageType /\ Current(world')
          BY <3>1, <4>2, <5>1, PackageStepKeeps
        <5> QED
          BY <5>2 DEF Current, PackageIsCurrent
      <4> QED
        BY <4>1, <4>2
    <3> QED
      BY <2>0, <3>1, <3>2 DEF PackageInv
  <2>4. CASE Return \/ Login
    <3>1. world' = world /\ status' # "running" /\ flow' = flow
      BY <2>4 DEF Return, Login
    <3> QED
      BY <2>0, <3>1 DEF PackageInv, PackageIsCurrent
  <2>5. CASE Cancel \/ UNCHANGED vars
    <3>1. UNCHANGED <<tool, flow, status, todo, dry, world>>
      BY <2>5 DEF Cancel, vars
    <3> QED
      BY <2>0, <3>1 DEF PackageInv, PackageKnows, PackageIsCurrent
  <2> QED
    BY <2>1, <2>2, <2>3, <2>4, <2>5 DEF Next
<1>3. Inv => PackageIsCurrent
  BY DEF PackageInv, PackageIsCurrent
<1> QED
  BY <1>1, <1>2, <1>3, PTL DEF Spec

-----------------------------------------------------------------------------
(* Induction over sequences.                                              *)

\* Every nonempty set of numbers has a least one.
LEMMA LeastNat ==
    ASSUME NEW T \in SUBSET Nat, T # {}
    PROVE  \E n \in T : \A m \in T : n <= m
<1>1. PICK x \in T : \A y \in T : ~(<<y, x>> \in OpToRel(<, Nat))
  BY NatLessThanWellFounded, WFMin
<1>2. \A y \in T : ~(y < x)
  BY <1>1 DEF OpToRel
<1> QED
  BY <1>2

\* Sequences that are put together from sequences of one kind are of that kind.
LEMMA FlattenSeqClosed ==
    ASSUME NEW S, NEW C \in SUBSET Seq(S), <<>> \in C, \A s \in C, t \in C : s \o t \in C,
           NEW q \in Seq(C)
    PROVE  FlattenSeq(q) \in C
<1> DEFINE Upto(n, f) == f = [i \in 1..n |-> IF i = 1 THEN q[i] ELSE f[i - 1] \o q[i]]
           N == Len(q)
           Unbuilt == {n \in 0..N : ~ \E f : Upto(n, f)}
<1>0. N \in Nat /\ q \in [1..N -> C]
  OBVIOUS
<1>1. \A n \in 0..N : \E f : Upto(n, f)
  <2> HIDE DEF N
  <2>1. SUFFICES ASSUME Unbuilt # {} PROVE FALSE
    OBVIOUS
  <2>2. PICK n \in Unbuilt : \A m \in Unbuilt : n <= m
    <3>1. Unbuilt \in SUBSET Nat
      <4> HIDE DEF Upto
      <4> QED
        BY <1>0
    <3> HIDE DEF Unbuilt
    <3> QED
      BY <2>1, <3>1, LeastNat
  <2>3. n # 0
    <3>1. Upto(0, [i \in 1..0 |-> 0])
      OBVIOUS
    <3> QED
      BY <3>1
  <2>4. n \in 1..N /\ n - 1 \in 0..N /\ n - 1 \notin Unbuilt
    <3>1. n \in 0..N
      OBVIOUS
    <3> HIDE DEF Unbuilt, Upto
    <3> QED
      BY <1>0, <2>2, <2>3, <3>1
  <2>5. PICK f : Upto(n - 1, f)
    BY <2>4
  <2> DEFINE g == [i \in 1..n |-> IF i < n THEN f[i] ELSE IF i = 1 THEN q[i] ELSE f[i - 1] \o q[i]]
  <2>6. ASSUME NEW i \in 1..n PROVE g[i] = IF i = 1 THEN q[i] ELSE g[i - 1] \o q[i]
    <3>1. CASE i = n
      BY <1>0, <2>4, <3>1
    <3>2. CASE i < n
      <4>1. i \in 1..(n - 1)
        BY <1>0, <2>4, <3>2
      <4>2. f[i] = IF i = 1 THEN q[i] ELSE f[i - 1] \o q[i]
        BY <1>0, <2>5, <4>1
      <4> QED
        BY <1>0, <2>4, <3>2, <4>2
    <3> QED
      BY <1>0, <2>4, <3>1, <3>2
  <2>7. Upto(n, g)
    BY <2>6
  <2> QED
    BY <2>2, <2>7
<1>2. CASE N = 0
  BY <1>2 DEF FlattenSeq
<1>3. CASE N # 0
  <2> DEFINE F == CHOOSE f : Upto(N, f)
             Bad == {n \in 1..N : F[n] \notin C}
  <2>1. Upto(N, F)
    <3> HIDE DEF Upto, N
    <3>1. \E f : Upto(N, f)
      BY <1>0, <1>1
    <3> QED
      BY <3>1
  <2>2. ASSUME NEW i \in 1..N PROVE F[i] = IF i = 1 THEN q[i] ELSE F[i - 1] \o q[i]
    <3> HIDE DEF F
    <3> QED
      BY <2>1
  <2>3. Bad = {}
    <3> HIDE DEF F
    <3>1. SUFFICES ASSUME Bad # {} PROVE FALSE
      OBVIOUS
    <3>2. PICK n \in Bad : \A m \in Bad : n <= m
      <4>1. Bad \in SUBSET Nat
        OBVIOUS
      <4> HIDE DEF Bad
      <4> QED
        BY <3>1, <4>1, LeastNat
    <3>3. q[n] \in C
      OBVIOUS
    <3>4. n # 1 => F[n - 1] \in C
      BY <3>2
    <3> QED
      BY <2>2, <3>2, <3>3, <3>4
  <2>4. FlattenSeq(q) = F[N]
    BY <1>3 DEF FlattenSeq
  <2>5. F[N] \in C
    <3> HIDE DEF F, N
    <3> QED
      BY <1>0, <1>3, <2>3
  <2> QED
    BY <2>4, <2>5
<1> QED
  BY <1>2, <1>3

-----------------------------------------------------------------------------
(* The parts of a bundle.                                                  *)

Manifests ==
    [path : {"none", "torn", "absolute", "relative"}, origins : BOOLEAN, extensions : BOOLEAN,
     name : {"none", "lower", "mixed"}]
Usable(m, b) ==
    \/ m \in {NoManifest, TornManifest}
    \/ ManifestIsValid(m, b) /\ (m.origins => b \in Chromium) /\ (m.extensions => b = "firefox")

Found == {f \in [Browsers -> Manifests] : \A b \in Browsers : Usable(f[b], b)}
ItemSet == {"info", "exe", "helper", "appexInfo", "appexExe", "appexResources"}
Seals == {"helper", "exe", "appexExe", "appex", "bundle"}
Dirs ==
    {"MacOS", "Resources", "Helpers", "appexMacOS", "appexResources"}
    \cup {Shown[b] : b \in Browsers} \cup {Hosts[b] : b \in Browsers}
BundleType ==
    [files : [ItemSet -> Nat], dirs : SUBSET Dirs, seals : SUBSET Seals, shown : Found]
PartsType == [built : BundleType, dest : BundleType, link : BOOLEAN, hosts : Found]

\* The steps of the packager, by what they do.
Mkdirs == {Step("mkdir", d, 0) : d \in Dirs}
ItemStep(v) ==
    [info |-> Step("plist", "info", v), exe |-> Step("copy", "exe", v),
     helper |-> Step("copy", "helper", v), appexInfo |-> Step("plist", "appexInfo", v),
     appexExe |-> Step("copy", "appexExe", v),
     appexResources |-> Step("copydir", "appexResources", v)]
Puts(v) == {ItemStep(v)[i] : i \in ItemSet}
IsPut(st, i, v) == st = ItemStep(v)[i]
SignOf(s) == Step("sign", s, 0)
Signs == {SignOf(s) : s \in Seals}
Validates == {Step("validate", b, m) : b \in Browsers, m \in Manifests}
Writes ==
    {Step("write", Shown[b], m) : b \in Browsers, m \in Manifests}
    \cup {Step("write", Hosts[b], m) : b \in Browsers, m \in Manifests}
Moves == {Step("rsync", "dest", 0), Step("link", "dest", 0)}

LEMMA ItemsAre == ToSet(Items) = ItemSet
<1>1. DOMAIN Items = 1..6
  BY DEF Items
<1>2. 1..6 = {1, 2, 3, 4, 5, 6}
  OBVIOUS
<1>3. ToSet(Items) = {Items[1], Items[2], Items[3], Items[4], Items[5], Items[6]}
  BY <1>1, <1>2 DEF ToSet
<1> QED
  BY <1>3 DEF Items, ItemSet

LEMMA CoversAre ==
    /\ DOMAIN Covers = Seals
    /\ \A s \in {"helper", "exe", "appexExe"} : Covers[s] = {s}
    /\ Covers["appex"] = Appex /\ Covers["bundle"] = ItemSet
  BY ItemsAre DEF Covers, Seals

LEMMA ShownToWriter ==
    ASSUME NEW b \in Browsers, NEW m
    PROVE  /\ ShownTo(Step("write", Shown[b], m)) = b /\ InBundle(Step("write", Shown[b], m))
           /\ ShownTo(Step("write", Hosts[b], m)) = b /\ ~InBundle(Step("write", Hosts[b], m))
<1> USE DEF Browsers, Shown, Hosts
<1>1. Step("write", Shown[b], m).what = Shown[b] /\ Step("write", Hosts[b], m).what = Hosts[b]
  BY DEF Step
<1>2. \A c \in Browsers : /\ Shown[b] \in {Shown[c], Hosts[c]} <=> c = b
                          /\ Hosts[b] \in {Shown[c], Hosts[c]} <=> c = b
                          /\ Hosts[b] # Shown[c]
  OBVIOUS
<1>3. ASSUME NEW st, st.what \in {Shown[b], Hosts[b]}
      PROVE  (CHOOSE c \in Browsers : st.what \in {Shown[c], Hosts[c]}) = b
  BY <1>2, <1>3
<1> QED
  BY <1>1, <1>2, <1>3 DEF ShownTo, InBundle

LEMMA MkdirKeeps ==
    ASSUME NEW w \in PartsType, NEW st \in Mkdirs
    PROVE  /\ PartsPartly(st, w) = {w, PartsDone(st, w)}
           /\ PartsDone(st, w) \in PartsType
           /\ PartsDone(st, w) = [w EXCEPT !.built.dirs = @ \cup {st.what}]
<1>1. PICK d \in Dirs : st = Step("mkdir", d, 0)
  BY DEF Mkdirs
<1>2. st.do = "mkdir" /\ st.what = d
  BY <1>1 DEF Step
<1>3. PartsDone(st, w) = [w EXCEPT !.built.dirs = @ \cup {st.what}]
  BY <1>2 DEF PartsDone
<1>4. PartsPartly(st, w) = {w, PartsDone(st, w)}
  BY <1>2 DEF PartsPartly
<1>5. w.built \in BundleType
  BY DEF PartsType
<1>6. [w.built EXCEPT !.dirs = @ \cup {d}] \in BundleType
  BY <1>5 DEF BundleType
<1> QED
  BY <1>2, <1>3, <1>4, <1>6 DEF PartsType

LEMMA PutKeeps ==
    ASSUME NEW w \in PartsType, NEW v \in Nat, NEW i \in ItemSet, NEW st, IsPut(st, i, v)
    PROVE  /\ PartsPartly(st, w) = {w, PartsDone(st, w)}
           /\ PartsDone(st, w) \in PartsType
           /\ PartsDone(st, w).built.files[i] = v
           /\ \A j \in ItemSet :
                  j # i => PartsDone(st, w).built.files[j] = w.built.files[j]
<1>1. st.do \in {"plist", "copy", "copydir"} /\ st.what = i /\ st.arg = v
  BY DEF IsPut, ItemStep, ItemSet, Step
<1>2. PartsDone(st, w) = [w EXCEPT !.built = Put(w.built, i, v)]
  BY <1>1 DEF PartsDone
<1>3. PartsPartly(st, w) = {w, PartsDone(st, w)}
  BY <1>1 DEF PartsPartly
<1>4. w.built \in BundleType
  BY DEF PartsType
<1>5. Put(w.built, i, v) \in BundleType
      /\ Put(w.built, i, v).files = [w.built.files EXCEPT ![i] = v]
  <2>1. [w.built.files EXCEPT ![i] = v] \in [ItemSet -> Nat]
    BY <1>4 DEF BundleType
  <2>2. {s \in w.built.seals : i \notin Covers[s]} \in SUBSET Seals
    BY <1>4 DEF BundleType
  <2>3. Put(w.built, i, v) = [w.built EXCEPT !.files = [w.built.files EXCEPT ![i] = v],
                                             !.seals = {s \in w.built.seals : i \notin Covers[s]}]
    BY <1>4 DEF Put, BundleType
  <2> QED
    BY <1>4, <2>1, <2>2, <2>3 DEF BundleType
<1>6. PartsDone(st, w) \in PartsType
      /\ PartsDone(st, w).built.files = [w.built.files EXCEPT ![i] = v]
  BY <1>2, <1>5 DEF PartsType
<1>7. w.built.files \in [ItemSet -> Nat]
  BY <1>4 DEF BundleType
<1> QED
  BY <1>3, <1>6, <1>7

LEMMA PutIsPut ==
    ASSUME NEW w \in PartsType, NEW v \in Nat, NEW i \in ItemSet, NEW st, IsPut(st, i, v),
           NEW j \in ItemSet
    PROVE  PartsDone(st, w).built.files[j] \in {w.built.files[j], v}
           /\ (j = i => PartsDone(st, w).built.files[j] = v)
  BY PutKeeps

LEMMA SignKeeps ==
    ASSUME NEW w \in PartsType, NEW s \in Seals, NEW st, st = SignOf(s)
    PROVE  /\ PartsPartly(st, w) = {w, PartsDone(st, w)}
           /\ PartsDone(st, w) \in PartsType
           /\ PartsDone(st, w).built.files = w.built.files
           /\ PartsDone(st, w).built.seals =
                  {t \in w.built.seals : ~(Covers[s] \subseteq Covers[t])} \cup {s}
<1>1. st.do = "sign" /\ st.what = s
  BY DEF SignOf, Step
<1>2. PartsDone(st, w) = [w EXCEPT !.built = Seal(w.built, s)]
  BY <1>1 DEF PartsDone
<1>3. PartsPartly(st, w) = {w, PartsDone(st, w)}
  BY <1>1 DEF PartsPartly
<1> DEFINE new == {t \in w.built.seals : ~(Covers[s] \subseteq Covers[t])} \cup {s}
<1>4. w.built \in BundleType
  BY DEF PartsType
<1>5. new \in SUBSET Seals
  BY <1>4 DEF BundleType
<1>6. Seal(w.built, s) = [w.built EXCEPT !.seals = new]
  BY DEF Seal
<1>7. Seal(w.built, s) \in BundleType /\ Seal(w.built, s).files = w.built.files
      /\ Seal(w.built, s).seals = new
  <2> HIDE DEF new
  <2> QED
    BY <1>4, <1>5, <1>6 DEF BundleType
<1> QED
  BY <1>2, <1>3, <1>7 DEF PartsType

LEMMA WriteKeeps ==
    ASSUME NEW w \in PartsType, NEW b \in Browsers, NEW m \in Manifests, Usable(m, b),
           NEW st, st \in {Step("write", Shown[b], m), Step("write", Hosts[b], m)}
    PROVE  /\ PartsPartly(st, w) \subseteq PartsType
           /\ PartsDone(st, w) \in PartsType
           /\ PartsDone(st, w).built.files = w.built.files
<1>1. /\ st.do = "write"
      /\ [st EXCEPT !.arg = TornManifest] \in
            {Step("write", Shown[b], TornManifest), Step("write", Hosts[b], TornManifest)}
  BY DEF Step
<1>2. TornManifest \in Manifests /\ Usable(TornManifest, b)
  BY DEF TornManifest, NoManifest, Manifests, Usable
<1>3. ASSUME NEW n \in Manifests, Usable(n, b),
             NEW u, u \in {Step("write", Shown[b], n), Step("write", Hosts[b], n)}
      PROVE  PartsDone(u, w) \in PartsType /\ PartsDone(u, w).built.files = w.built.files
  <2>1. u.do = "write" /\ u.arg = n
    BY <1>3 DEF Step
  <2>0. ShownTo(u) = b
    BY <1>3, ShownToWriter
  <2>2. \/ PartsDone(u, w) = [w EXCEPT !.built = Shows(w.built, b, n)]
        \/ PartsDone(u, w) = [w EXCEPT !.hosts = [w.hosts EXCEPT ![b] = n]]
    BY <2>0, <2>1 DEF PartsDone, PartsType
  <2>3. w.built \in BundleType /\ w.hosts \in Found
    BY DEF PartsType
  <2>4. [w.hosts EXCEPT ![b] = n] \in Found
    BY <1>3, <2>3 DEF Found
  <2>5. w.built.shown \in Found
    BY <2>3 DEF BundleType
  <2>6. [w.built.shown EXCEPT ![b] = n] \in Found
    BY <1>3, <2>5 DEF Found
  <2>7. Shows(w.built, b, n) =
            [w.built EXCEPT !.shown = [w.built.shown EXCEPT ![b] = n],
                            !.seals = w.built.seals \ {"bundle"}]
    BY <2>3 DEF Shows, BundleType
  <2>8. Shows(w.built, b, n) \in BundleType /\ Shows(w.built, b, n).files = w.built.files
    BY <2>3, <2>6, <2>7 DEF BundleType
  <2> QED
    BY <2>2, <2>4, <2>8 DEF PartsType
<1>4. PartsDone(st, w) \in PartsType /\ PartsDone(st, w).built.files = w.built.files
  BY <1>3
<1>5. PartsDone([st EXCEPT !.arg = TornManifest], w) \in PartsType
  BY <1>1, <1>2, <1>3
<1>6. PartsPartly(st, w) = {w, PartsDone(st, w), PartsDone([st EXCEPT !.arg = TornManifest], w)}
  BY <1>1 DEF PartsPartly
<1> QED
  BY <1>4, <1>5, <1>6

LEMMA MoveKeeps ==
    ASSUME NEW w \in PartsType, NEW st \in Moves
    PROVE  /\ PartsPartly(st, w) \subseteq PartsType
           /\ PartsDone(st, w) \in PartsType
           /\ PartsDone(st, w).built = w.built
           /\ st.do = "rsync" => PartsDone(st, w).dest = w.built
           /\ st.do = "link" => PartsDone(st, w).link /\ PartsDone(st, w).dest = w.dest
<1>1. Len(Items) = 6
  BY DEF Items
<1>2. Synced(w, 7) = [w EXCEPT !.dest = w.built]
  BY <1>1 DEF Synced, PartsType
<1>3. ASSUME NEW n \in 1..6 PROVE Synced(w, n) \in PartsType
  <2> DEFINE files == [i \in ItemSet |-> IF \E k \in 1..n : Items[k] = i
                                         THEN w.built.files[i] ELSE w.dest.files[i]]
             seals == {s \in w.dest.seals : \A i \in Covers[s] : \A k \in 1..n : Items[k] # i}
  <2>1. w.built \in BundleType /\ w.dest \in BundleType
    BY DEF PartsType
  <2>2. files \in [ItemSet -> Nat] /\ seals \in SUBSET Seals
    BY <2>1 DEF BundleType
  <2>3. Synced(w, n) = [w EXCEPT !.dest = [w.dest EXCEPT !.files = files, !.seals = seals]]
    <3>1. ~(n > Len(Items)) /\ DOMAIN w.dest.files = ItemSet
      BY <1>1, <2>1 DEF BundleType
    <3> QED
      BY <2>1, <3>1, Zenon DEF Synced
  <2> HIDE DEF files, seals
  <2>4. [w.dest EXCEPT !.files = files, !.seals = seals] \in BundleType
    BY <2>1, <2>2 DEF BundleType
  <2> QED
    BY <2>3, <2>4 DEF PartsType
<1>4. CASE st = Step("rsync", "dest", 0)
  <2>1. st.do = "rsync"
    BY <1>4 DEF Step
  <2>2. PartsDone(st, w) = Synced(w, 7)
    BY <1>1, <2>1 DEF PartsDone
  <2>3. PartsPartly(st, w) = {w, PartsDone(st, w)} \cup {Synced(w, n) : n \in 1..6}
    BY <1>1, <2>1 DEF PartsPartly
  <2>4. PartsDone(st, w) \in PartsType /\ PartsDone(st, w).built = w.built
        /\ PartsDone(st, w).dest = w.built
    BY <1>2, <2>2 DEF PartsType
  <2> QED
    BY <1>3, <2>1, <2>3, <2>4
<1>5. CASE st = Step("link", "dest", 0)
  <2>1. st.do = "link"
    BY <1>5 DEF Step
  <2>2. PartsDone(st, w) = [w EXCEPT !.link = TRUE]
    BY <2>1 DEF PartsDone
  <2>3. PartsPartly(st, w) = {w, PartsDone(st, w)}
    BY <2>1 DEF PartsPartly
  <2> QED
    BY <2>1, <2>2, <2>3 DEF PartsType
<1> QED
  BY <1>4, <1>5 DEF Moves

\* What adds to a bundle, and what then signs and installs it.
Adding(v) == {ErrorStep} \cup Mkdirs \cup Puts(v) \cup Validates \cup Writes
Ending == {ErrorStep} \cup Signs \cup Moves
PartSteps(v) == Adding(v) \cup Ending

\* A step that is bound to fail, and steps that do not write a manifest that
\* cannot be used, for one of those comes before it.
Doomed(st) == st.do = "error" \/ (st.do = "validate" /\ ~ManifestIsValid(st.arg, st.what))
Checked(q) ==
    \A i \in DOMAIN q : q[i].do = "write" =>
        Usable(q[i].arg, ShownTo(q[i])) \/ \E j \in DOMAIN q : j < i /\ Doomed(q[j])

LEMMA CheckedConcat ==
    ASSUME NEW S, NEW q \in Seq(S), NEW r \in Seq(S), Checked(q), Checked(r)
    PROVE  Checked(q \o r)
<1> DEFINE s == q \o r
<1>1. SUFFICES ASSUME NEW i \in DOMAIN s, s[i].do = "write"
               PROVE  Usable(s[i].arg, ShownTo(s[i])) \/ \E j \in DOMAIN s : j < i /\ Doomed(s[j])
  BY DEF Checked
<1>2. /\ DOMAIN q = 1..Len(q) /\ DOMAIN r = 1..Len(r) /\ DOMAIN s = 1..(Len(q) + Len(r))
      /\ Len(q) \in Nat /\ Len(r) \in Nat
      /\ \A k \in DOMAIN q : s[k] = q[k]
      /\ \A k \in DOMAIN r : s[k + Len(q)] = r[k]
  OBVIOUS
<1> HIDE DEF s
<1>3. CASE i \in DOMAIN q
  <2>1. Usable(q[i].arg, ShownTo(q[i])) \/ \E j \in DOMAIN q : j < i /\ Doomed(q[j])
    BY <1>1, <1>2, <1>3 DEF Checked
  <2>2. \A j \in DOMAIN q : j \in DOMAIN s
    BY <1>2
  <2> QED
    BY <1>2, <1>3, <2>1, <2>2
<1>4. CASE i \notin DOMAIN q
  <2> DEFINE k == i - Len(q)
  <2>1. k \in DOMAIN r /\ s[i] = r[k] /\ i = k + Len(q)
    <3>1. k \in DOMAIN r /\ i = k + Len(q)
      BY <1>1, <1>2, <1>4
    <3> HIDE DEF k
    <3> QED
      BY <1>2, <3>1
  <2> HIDE DEF k
  <2>2. Usable(r[k].arg, ShownTo(r[k])) \/ \E j \in DOMAIN r : j < k /\ Doomed(r[j])
    BY <1>1, <2>1 DEF Checked
  <2>3. ASSUME NEW j \in DOMAIN r, j < k, Doomed(r[j])
        PROVE  \E n \in DOMAIN s : n < i /\ Doomed(s[n])
    <3>1. j + Len(q) \in DOMAIN s /\ j + Len(q) < i /\ s[j + Len(q)] = r[j]
      BY <1>2, <2>1, <2>3
    <3> QED
      BY <2>3, <3>1
  <2> QED
    BY <2>1, <2>2, <2>3
<1> QED
  BY <1>3, <1>4

LEMMA CheckedTail ==
    ASSUME NEW S, NEW q \in Seq(S), q # <<>>, Checked(q)
    PROVE  /\ Head(q).do = "write" => Usable(Head(q).arg, ShownTo(Head(q)))
           /\ ~Doomed(Head(q)) => Checked(Tail(q))
<1> DEFINE r == Tail(q)
<1>1. /\ DOMAIN q = 1..Len(q) /\ Len(q) \in Nat \ {0} /\ DOMAIN r = 1..(Len(q) - 1)
      /\ q[1] = Head(q) /\ 1 \in DOMAIN q
      /\ \A i \in DOMAIN r : r[i] = q[i + 1] /\ i + 1 \in DOMAIN q
  OBVIOUS
<1>2. Head(q).do = "write" => Usable(Head(q).arg, ShownTo(Head(q)))
  <2>1. \A j \in DOMAIN q : ~(j < 1)
    BY <1>1
  <2> QED
    BY <1>1, <2>1 DEF Checked
<1>3. ASSUME ~Doomed(Head(q)), NEW i \in DOMAIN r, r[i].do = "write"
      PROVE  Usable(r[i].arg, ShownTo(r[i])) \/ \E j \in DOMAIN r : j < i /\ Doomed(r[j])
  <2> HIDE DEF r
  <2>1. \/ Usable(q[i + 1].arg, ShownTo(q[i + 1]))
        \/ \E j \in DOMAIN q : j < i + 1 /\ Doomed(q[j])
    BY <1>1, <1>3 DEF Checked
  <2>2. ASSUME NEW j \in DOMAIN q, j < i + 1, Doomed(q[j])
        PROVE  \E n \in DOMAIN r : n < i /\ Doomed(r[n])
    <3>1. j # 1
      BY <1>1, <1>3, <2>2
    <3>2. j - 1 \in DOMAIN r /\ j - 1 < i /\ (j - 1) + 1 = j
      BY <1>1, <1>3, <2>2, <3>1
    <3>3. r[j - 1] = q[j]
      BY <1>1, <3>2
    <3> QED
      BY <2>2, <3>2, <3>3
  <2> QED
    BY <1>1, <1>3, <2>1, <2>2
<1> QED
  BY <1>2, <1>3 DEF Checked

Goods(v) == {q \in Seq(Adding(v)) : Checked(q)}

LEMMA GoodsAreClosed ==
    ASSUME NEW v
    PROVE  Goods(v) \subseteq Seq(Adding(v)) /\ <<>> \in Goods(v)
           /\ \A q \in Goods(v), r \in Goods(v) : q \o r \in Goods(v)
<1>1. <<>> \in Goods(v)
  BY DEF Goods, Checked
<1>2. ASSUME NEW q \in Goods(v), NEW r \in Goods(v) PROVE q \o r \in Goods(v)
  <2>1. q \in Seq(Adding(v)) /\ r \in Seq(Adding(v)) /\ Checked(q) /\ Checked(r)
    BY DEF Goods
  <2>2. Checked(q \o r)
    BY <2>1, CheckedConcat
  <2>3. q \o r \in Seq(Adding(v))
    BY <2>1
  <2> QED
    BY <2>2, <2>3 DEF Goods
<1> QED
  BY <1>1, <1>2 DEF Goods

\* Steps that write no manifest.
Plain(v) == {ErrorStep} \cup Mkdirs \cup Puts(v)

LEMMA PlainIsGood ==
    ASSUME NEW v, NEW q \in Seq(Plain(v))
    PROVE  q \in Goods(v)
<1>1. q \in Seq(Adding(v))
  <2>1. Plain(v) \subseteq Adding(v)
    BY DEF Plain, Adding
  <2> QED
    BY <2>1, SeqMonotonic
<1>2. ASSUME NEW st \in Plain(v) PROVE st.do # "write"
  <2>1. CASE st = ErrorStep
    BY <2>1 DEF ErrorStep, Step
  <2>2. CASE st \in Mkdirs
    BY <2>2 DEF Mkdirs, Step
  <2>3. CASE st \in Puts(v)
    <3>1. PICK i \in ItemSet : st = ItemStep(v)[i]
      BY <2>3 DEF Puts
    <3>2. st.do \in {"plist", "copy", "copydir"}
      BY <3>1 DEF ItemStep, ItemSet, Step
    <3> QED
      BY <3>2
  <2> QED
    BY <2>1, <2>2, <2>3 DEF Plain
<1>3. \A i \in DOMAIN q : q[i] \in Plain(v)
  OBVIOUS
<1> QED
  BY <1>1, <1>2, <1>3 DEF Goods, Checked

LEMMA EndingIsChecked ==
    ASSUME NEW q \in Seq(Ending)
    PROVE  Checked(q)
<1>1. ASSUME NEW st \in Ending PROVE st.do # "write"
  <2>1. CASE st = ErrorStep
    BY <2>1 DEF ErrorStep, Step
  <2>2. CASE st \in Signs
    BY <2>2 DEF Signs, SignOf, Step
  <2>3. CASE st \in Moves
    <3>1. Step("rsync", "dest", 0).do = "rsync" /\ Step("link", "dest", 0).do = "link"
      BY DEF Step
    <3> QED
      BY <2>3, <3>1 DEF Moves
  <2> QED
    BY <2>1, <2>2, <2>3 DEF Ending
<1>2. \A i \in DOMAIN q : q[i] \in Ending
  OBVIOUS
<1> QED
  BY <1>1, <1>2 DEF Checked

LEMMA WriteManifestIsGood ==
    ASSUME NEW v, NEW h \in Helpers, NEW b \in Browsers, NEW where, where \in {Shown, Hosts}
    PROVE  WriteManifest(h, b, where) \in Goods(v)
<1> DEFINE m == Manifest(h, b)
           x == Step("validate", b, m)
           y == Step("mkdir", where[b], 0)
           z == Step("write", where[b], m)
           q == <<x, y, z>>
<1>1. m \in Manifests
  BY DEF Manifest, Manifests, Helpers
<1>2. x \in Validates
  BY <1>1 DEF Validates
<1>3. y \in Mkdirs
  BY DEF Mkdirs, Dirs
<1>4. z \in Writes
  BY <1>1 DEF Writes
<1>5. x \in Adding(v) /\ y \in Adding(v) /\ z \in Adding(v)
  BY <1>2, <1>3, <1>4 DEF Adding
<1>6. ManifestIsValid(m, b) => Usable(m, b)
  BY DEF Manifest, Usable, Helpers, Browsers, Chromium
<1>7. /\ x.do = "validate" /\ x.arg = m /\ x.what = b /\ y.do = "mkdir"
      /\ z.do = "write" /\ z.arg = m
  BY DEF Step
<1>8. ShownTo(z) = b
  BY ShownToWriter
<1>9. WriteManifest(h, b, where) = q
  BY DEF WriteManifest
<1> HIDE DEF m, x, y, z
<1>10. q \in Seq(Adding(v))
  <2> DEFINE S == Adding(v)
  <2> HIDE DEF S
  <2>1. x \in S /\ y \in S /\ z \in S
    BY <1>5 DEF S
  <2>2. q \in Seq(S)
    BY <2>1, Tuples
  <2> QED
    BY <2>2 DEF S
<1>11. Checked(q)
  <2>1. DOMAIN q = 1..3 /\ q[1] = x /\ q[2] = y /\ q[3] = z
    OBVIOUS
  <2>2. x.do # "write" /\ y.do # "write"
    BY <1>7
  <2>3. Usable(z.arg, ShownTo(z)) \/ Doomed(x)
    BY <1>6, <1>7, <1>8 DEF Doomed
  <2> HIDE DEF q
  <2>4. \A i \in DOMAIN q : i = 1 \/ i = 2 \/ i = 3
    BY <2>1
  <2> QED
    BY <2>1, <2>2, <2>3, <2>4 DEF Checked
<1> QED
  BY <1>9, <1>10, <1>11 DEF Goods

-----------------------------------------------------------------------------
\* What is in a sequence that is put together from two, or without its first.
LEMMA ToSetConcat ==
    ASSUME NEW S, NEW q \in Seq(S), NEW r \in Seq(S)
    PROVE  ToSet(q \o r) = ToSet(q) \cup ToSet(r)
<1> DEFINE s == q \o r
<1>1. /\ DOMAIN q = 1..Len(q) /\ DOMAIN r = 1..Len(r) /\ DOMAIN s = 1..(Len(q) + Len(r))
      /\ Len(q) \in Nat /\ Len(r) \in Nat
      /\ \A k \in DOMAIN q : s[k] = q[k]
      /\ \A k \in DOMAIN r : s[k + Len(q)] = r[k]
  OBVIOUS
<1> HIDE DEF s
<1>2. ASSUME NEW k \in DOMAIN s PROVE s[k] \in ToSet(q) \cup ToSet(r)
  <2>1. CASE k \in DOMAIN q
    BY <1>1, <2>1 DEF ToSet
  <2>2. CASE k \notin DOMAIN q
    <3>1. PICK n \in DOMAIN r : k = n + Len(q)
      <4>1. k - Len(q) \in DOMAIN r /\ k = (k - Len(q)) + Len(q)
        BY <1>1, <2>2
      <4> QED
        BY <4>1
    <3> QED
      BY <1>1, <3>1 DEF ToSet
  <2> QED
    BY <2>1, <2>2
<1>3. ASSUME NEW k \in DOMAIN q PROVE q[k] \in ToSet(s)
  <2>1. k \in DOMAIN s /\ s[k] = q[k]
    BY <1>1
  <2> QED
    BY <2>1 DEF ToSet
<1>4. ASSUME NEW k \in DOMAIN r PROVE r[k] \in ToSet(s)
  <2>1. k + Len(q) \in DOMAIN s /\ s[k + Len(q)] = r[k]
    BY <1>1
  <2> QED
    BY <2>1 DEF ToSet
<1>5. \A x : /\ x \in ToSet(q) <=> \E k \in DOMAIN q : x = q[k]
             /\ x \in ToSet(r) <=> \E k \in DOMAIN r : x = r[k]
             /\ x \in ToSet(s) <=> \E k \in DOMAIN s : x = s[k]
  BY DEF ToSet
<1>6. ToSet(s) \subseteq ToSet(q) \cup ToSet(r)
  BY <1>2, <1>5
<1>7. ToSet(q) \cup ToSet(r) \subseteq ToSet(s)
  BY <1>3, <1>4, <1>5
<1> QED
  BY <1>6, <1>7 DEF s

LEMMA ToSetTail ==
    ASSUME NEW S, NEW q \in Seq(S), q # <<>>
    PROVE  ToSet(q) = {Head(q)} \cup ToSet(Tail(q))
<1>1. /\ <<Head(q)>> \in Seq(S) /\ Tail(q) \in Seq(S) /\ q = <<Head(q)>> \o Tail(q)
  OBVIOUS
<1>2. ToSet(<<Head(q)>>) = {Head(q)}
  <2>1. DOMAIN <<Head(q)>> = {1} /\ <<Head(q)>>[1] = Head(q)
    OBVIOUS
  <2> QED
    BY <2>1 DEF ToSet
<1> DEFINE h == <<Head(q)>>
           t == Tail(q)
<1>3. h \in Seq(S) /\ t \in Seq(S) /\ q = h \o t /\ ToSet(h) = {Head(q)}
  BY <1>1, <1>2
<1> HIDE DEF h, t
<1>4. ToSet(h \o t) = ToSet(h) \cup ToSet(t)
  BY <1>3, ToSetConcat
<1> QED
  BY <1>3, <1>4 DEF t

LEMMA TupleMembers ==
    ASSUME NEW a, NEW b, NEW c, NEW d, NEW e
    PROVE  /\ a \in ToSet(<<a>>) /\ b \in ToSet(<<a, b>>)
           /\ c \in ToSet(<<a, b, c, d>>) /\ d \in ToSet(<<a, b, c, d>>)
           /\ c \in ToSet(<<a, b, c, d, e>>) /\ d \in ToSet(<<a, b, c, d, e>>)
           /\ e \in ToSet(<<a, b, c, d, e>>)
<1>1. /\ 1 \in DOMAIN <<a>> /\ 2 \in DOMAIN <<a, b>>
      /\ 3 \in DOMAIN <<a, b, c, d>> /\ 4 \in DOMAIN <<a, b, c, d>>
      /\ 3 \in DOMAIN <<a, b, c, d, e>> /\ 4 \in DOMAIN <<a, b, c, d, e>>
      /\ 5 \in DOMAIN <<a, b, c, d, e>>
  OBVIOUS
<1> QED
  BY <1>1 DEF ToSet

LEMMA TupleOfFive ==
    ASSUME NEW S, NEW a \in S, NEW b \in S, NEW c \in S, NEW d \in S, NEW e \in S
    PROVE  <<a, b, c, d, e>> \in Seq(S)
  OBVIOUS

\* Every item is put, or a step that cannot be made is among the steps.
AddsAll(q, v, items) == ErrorStep \in ToSet(q) \/ \A i \in items : ItemStep(v)[i] \in ToSet(q)

LEMMA ErrorIsGood == \A v : <<ErrorStep>> \in Goods(v)
<1> TAKE v
<1> DEFINE S == Plain(v)
<1>1. ErrorStep \in S
  BY DEF Plain
<1> HIDE DEF S
<1>2. <<ErrorStep>> \in Seq(S)
  BY <1>1
<1> QED
  BY <1>2, PlainIsGood DEF S

LEMMA NativeHelperIsGood ==
    ASSUME NEW h \in Helpers, NEW v
    PROVE  /\ AddNativeMessagingHelper(h, v) \in Goods(v)
           /\ AddsAll(AddNativeMessagingHelper(h, v), v, {"helper"})
<1>1. CASE ~h.executable \/ h.browsers = <<>> \/ "safari" \in ToSet(h.browsers)
  <2>1. AddNativeMessagingHelper(h, v) = <<ErrorStep>>
    BY <1>1 DEF AddNativeMessagingHelper
  <2>2. <<ErrorStep>> \in Goods(v)
    BY ErrorIsGood
  <2>3. ErrorStep \in ToSet(<<ErrorStep>>)
    BY TupleMembers
  <2> QED
    BY <2>1, <2>2, <2>3 DEF AddsAll
<1>2. CASE ~(~h.executable \/ h.browsers = <<>> \/ "safari" \in ToSet(h.browsers))
  <2> DEFINE x == Step("mkdir", "Helpers", 0)
             y == Step("copy", "helper", v)
             n == Len(h.browsers)
             seqs == [i \in DOMAIN h.browsers |-> WriteManifest(h, h.browsers[i], Shown)]
  <2>1. AddNativeMessagingHelper(h, v) = <<x, y>> \o FlattenSeq(seqs)
    BY <1>2 DEF AddNativeMessagingHelper
  <2>2. x \in Plain(v) /\ y \in Plain(v) /\ y = ItemStep(v)["helper"]
    <3>1. x \in Mkdirs
      BY DEF Mkdirs, Dirs
    <3>2. y = ItemStep(v)["helper"]
      BY DEF ItemStep
    <3>3. y \in Puts(v)
      BY <3>2 DEF Puts, ItemSet
    <3> QED
      BY <3>1, <3>2, <3>3 DEF Plain
  <2>3. seqs \in Seq(Goods(v))
    <3>1. h.browsers \in Seq(Browsers \cup {"safari"})
      BY DEF Helpers
    <3>2. n \in Nat /\ DOMAIN h.browsers = 1..n
      BY <3>1
    <3>3. ASSUME NEW i \in 1..n PROVE WriteManifest(h, h.browsers[i], Shown) \in Goods(v)
      <4>1. h.browsers[i] \in Browsers \cup {"safari"} /\ h.browsers[i] \in ToSet(h.browsers)
        BY <3>1, <3>2, <3>3 DEF ToSet
      <4>2. h.browsers[i] \in Browsers
        BY <1>2, <4>1
      <4> QED
        BY <4>2, WriteManifestIsGood
    <3>4. seqs \in [1..n -> Goods(v)]
      <4>1. seqs = [i \in 1..n |-> WriteManifest(h, h.browsers[i], Shown)]
        BY <3>2
      <4> QED
        BY <3>3, <4>1
    <3> HIDE DEF seqs, n
    <3> QED
      BY <3>2, <3>4
  <2>4. FlattenSeq(seqs) \in Goods(v)
    <3> DEFINE C == Goods(v)
               S == Adding(v)
    <3>1. C \in SUBSET Seq(S) /\ <<>> \in C /\ \A s \in C, t \in C : s \o t \in C
      BY GoodsAreClosed
    <3>2. seqs \in Seq(C)
      BY <2>3
    <3> HIDE DEF C, S, seqs
    <3>3. FlattenSeq(seqs) \in C
      BY <3>1, <3>2, FlattenSeqClosed
    <3> QED
      BY <3>3 DEF C
  <2> HIDE DEF x, y, seqs
  <2>5. <<x, y>> \in Goods(v)
    <3> DEFINE S == Plain(v)
    <3> HIDE DEF S
    <3>1. <<x, y>> \in Seq(S)
      BY <2>2, Tuples DEF S
    <3> QED
      BY <3>1, PlainIsGood DEF S
  <2>6. AddNativeMessagingHelper(h, v) \in Goods(v)
    BY <2>1, <2>4, <2>5, GoodsAreClosed
  <2>7. y \in ToSet(<<x, y>> \o FlattenSeq(seqs))
    <3> DEFINE p == <<x, y>>
               r == FlattenSeq(seqs)
    <3>1. p \in Seq(Adding(v)) /\ r \in Seq(Adding(v))
      BY <2>4, <2>5, GoodsAreClosed
    <3>2. y \in ToSet(p)
      BY TupleMembers
    <3> HIDE DEF p, r
    <3>3. ToSet(p \o r) = ToSet(p) \cup ToSet(r)
      BY <3>1, ToSetConcat
    <3> QED
      BY <3>2, <3>3 DEF p, r
  <2> QED
    BY <2>1, <2>2, <2>6, <2>7 DEF AddsAll
<1> QED
  BY <1>1, <1>2

LEMMA ExtensionIsGood ==
    ASSUME NEW e, NEW v
    PROVE  /\ AddSafariWebExtension(e, v) \in Goods(v)
           /\ AddsAll(AddSafariWebExtension(e, v), v, {"appexInfo", "appexExe", "appexResources"})
<1>1. CASE ~ExtensionIsValid(e)
  <2>1. AddSafariWebExtension(e, v) = <<ErrorStep>>
    BY <1>1 DEF AddSafariWebExtension
  <2>2. <<ErrorStep>> \in Goods(v)
    BY ErrorIsGood
  <2>3. ErrorStep \in ToSet(<<ErrorStep>>)
    BY TupleMembers
  <2> QED
    BY <2>1, <2>2, <2>3 DEF AddsAll
<1>2. CASE ExtensionIsValid(e)
  <2> DEFINE x == Step("mkdir", "appexMacOS", 0)
             y == Step("mkdir", "appexResources", 0)
             a == Step("plist", "appexInfo", v)
             b == Step("copy", "appexExe", v)
             c == Step("copydir", "appexResources", v)
             q == <<x, y, a, b, c>>
  <2>1. AddSafariWebExtension(e, v) = q
    BY <1>2 DEF AddSafariWebExtension
  <2>2. x \in Mkdirs /\ y \in Mkdirs
    BY DEF Mkdirs, Dirs
  <2>3. a = ItemStep(v)["appexInfo"] /\ b = ItemStep(v)["appexExe"]
        /\ c = ItemStep(v)["appexResources"]
    BY DEF ItemStep
  <2>4. a \in Puts(v) /\ b \in Puts(v) /\ c \in Puts(v)
    BY <2>3 DEF Puts, ItemSet
  <2> HIDE DEF x, y, a, b, c
  <2>5. q \in Goods(v)
    <3> DEFINE S == Plain(v)
    <3>1. x \in S /\ y \in S /\ a \in S /\ b \in S /\ c \in S
      BY <2>2, <2>4 DEF Plain
    <3> HIDE DEF S
    <3>2. q \in Seq(S)
      BY <3>1, TupleOfFive
    <3> QED
      BY <3>2, PlainIsGood DEF S
  <2>6. a \in ToSet(q) /\ b \in ToSet(q) /\ c \in ToSet(q)
    BY TupleMembers
  <2> QED
    BY <2>1, <2>3, <2>5, <2>6 DEF AddsAll
<1> QED
  BY <1>1, <1>2

\* The steps of an installation: what adds to the bundle, what signs it, and
\* what installs it.
BundleContents(c, v) ==
    <<Step("mkdir", "MacOS", 0), Step("mkdir", "Resources", 0),
      Step("plist", "info", v), Step("copy", "exe", v)>>
    \o AddNativeMessagingHelper(c.helper, v) \o AddSafariWebExtension(c.ext, v)
Signing ==
    <<SignOf("helper"), SignOf("appexExe"), SignOf("appex"), SignOf("exe"), SignOf("bundle")>>
Moving == InstallBundle(config.dirs, config.softlink)

LEMMA SigningIsEnding == Signing \in Seq(Signs)
<1> DEFINE a == SignOf("helper")
           b == SignOf("appexExe")
           c == SignOf("appex")
           d == SignOf("exe")
           e == SignOf("bundle")
<1>1. a \in Signs /\ b \in Signs /\ c \in Signs /\ d \in Signs /\ e \in Signs
  BY DEF Signs, Seals
<1>2. Signing = <<a, b, c, d, e>>
  BY DEF Signing
<1> HIDE DEF a, b, c, d, e
<1> QED
  BY <1>1, <1>2, TupleOfFive

LEMMA MovingIs ==
    \/ Moving = <<ErrorStep>>
    \/ ~config.softlink /\ Moving = <<Step("rsync", "dest", 0)>>
    \/ config.softlink /\ Moving = <<Step("rsync", "dest", 0), Step("link", "dest", 0)>>
<1>1. ASSUME NEW S, NEW r \in S, NEW l \in S
      PROVE  <<r>> \o <<>> = <<r>> /\ <<r>> \o <<l>> = <<r, l>>
  <2>1. <<r>> \in Seq(S) /\ <<l>> \in Seq(S)
    OBVIOUS
  <2>2. <<r>> \o <<>> = <<r>>
    BY <2>1, ConcatEmptySeq
  <2>3. <<r>> \o <<l>> = <<r, l>>
    <3> DEFINE q == <<r>> \o <<l>>
    <3>1. q \in Seq(S) /\ Len(q) = 2 /\ q[1] = r /\ q[2] = l
      BY <2>1
    <3>2. <<r, l>> \in Seq(S)
      OBVIOUS
    <3> HIDE DEF q
    <3>3. \A i \in 1..2 : q[i] = <<r, l>>[i]
      BY <3>1
    <3> QED
      BY <3>1, <3>2, <3>3, SeqEqual DEF q
  <2> QED
    BY <2>2, <2>3
<1> DEFINE r == Step("rsync", "dest", 0)
           l == Step("link", "dest", 0)
<1>2. Moving \in {<<ErrorStep>>, <<r>> \o (IF config.softlink THEN <<l>> ELSE <<>>)}
  BY DEF Moving, InstallBundle
<1> HIDE DEF r, l
<1>3. <<r>> \o <<>> = <<r>> /\ <<r>> \o <<l>> = <<r, l>>
  <2>1. r \in {r, l} /\ l \in {r, l}
    OBVIOUS
  <2> QED
    BY <1>1, <2>1
<1>4. \/ Moving = <<ErrorStep>>
      \/ ~config.softlink /\ Moving = <<r>>
      \/ config.softlink /\ Moving = <<r, l>>
  BY <1>2, <1>3
<1> QED
  BY <1>4 DEF r, l

LEMMA MovingIsEnding == Moving \in Seq(Ending)
<1> DEFINE S == Ending
           r == Step("rsync", "dest", 0)
           l == Step("link", "dest", 0)
<1>1. ErrorStep \in S /\ r \in S /\ l \in S
  BY DEF Ending, Moves
<1>2. \/ Moving = <<ErrorStep>> \/ Moving = <<r>> \/ Moving = <<r, l>>
  BY MovingIs
<1> HIDE DEF S, r, l
<1>3. Moving \in Seq(S)
  BY <1>1, <1>2, Tuples
<1> QED
  BY <1>3 DEF S

LEMMA PackagerConfigured ==
    ASSUME Tooled, tool = "packager"
    PROVE  config.helper \in Helpers /\ config.register \in Browsers \cup {"safari"}
<1>1. config \in PackagerConfigs \/ config \in ServiceConfigs \/ config \in ProductConfigs
  BY ConfigsAssumption DEF Tooled
<1>2. config \in ServiceConfigs => config.tool = "service"
  BY DEF ServiceConfigs
<1>3. config \in ProductConfigs => config.tool = "product"
  BY DEF ProductConfigs
<1>4. config \in PackagerConfigs
  BY <1>1, <1>2, <1>3 DEF Tooled
<1> QED
  BY <1>4 DEF PackagerConfigs

LEMMA ContentsAreGood ==
    ASSUME Tooled, tool = "packager", NEW v
    PROVE  BundleContents(config, v) \in Goods(v) /\ AddsAll(BundleContents(config, v), v, ItemSet)
<1> DEFINE x == Step("mkdir", "MacOS", 0)
           y == Step("mkdir", "Resources", 0)
           a == Step("plist", "info", v)
           b == Step("copy", "exe", v)
           p == <<x, y, a, b>>
           h == AddNativeMessagingHelper(config.helper, v)
           e == AddSafariWebExtension(config.ext, v)
<1>1. BundleContents(config, v) = p \o h \o e
  BY DEF BundleContents
<1>2. p \in Goods(v) /\ a \in ToSet(p) /\ b \in ToSet(p)
  <2> DEFINE S == Plain(v)
  <2>1. x \in Mkdirs /\ y \in Mkdirs
    BY DEF Mkdirs, Dirs
  <2>2. a = ItemStep(v)["info"] /\ b = ItemStep(v)["exe"]
    BY DEF ItemStep
  <2>3. a \in Puts(v) /\ b \in Puts(v)
    BY <2>2 DEF Puts, ItemSet
  <2>4. x \in S /\ y \in S /\ a \in S /\ b \in S
    BY <2>1, <2>3 DEF Plain
  <2> HIDE DEF S, x, y, a, b
  <2>5. p \in Seq(S)
    BY <2>4, Tuples
  <2>6. p \in Goods(v)
    BY <2>5, PlainIsGood DEF S
  <2> QED
    BY <2>6, TupleMembers
<1>3. AddsAll(p, v, {"info", "exe"})
  <2>1. a = ItemStep(v)["info"] /\ b = ItemStep(v)["exe"]
    BY DEF ItemStep
  <2> HIDE DEF a, b, p
  <2> QED
    BY <1>2, <2>1 DEF AddsAll
<1>4. h \in Goods(v) /\ AddsAll(h, v, {"helper"})
  BY PackagerConfigured, NativeHelperIsGood
<1>5. e \in Goods(v) /\ AddsAll(e, v, {"appexInfo", "appexExe", "appexResources"})
  BY ExtensionIsGood
<1> HIDE DEF p, h, e
<1>6. p \o h \in Goods(v) /\ p \o h \o e \in Goods(v)
  BY <1>2, <1>4, <1>5, GoodsAreClosed
<1>7. ToSet(p \o h \o e) = ToSet(p) \cup ToSet(h) \cup ToSet(e)
  <2>1. p \in Seq(Adding(v)) /\ h \in Seq(Adding(v)) /\ e \in Seq(Adding(v))
        /\ p \o h \in Seq(Adding(v))
    BY <1>2, <1>4, <1>5, <1>6, GoodsAreClosed
  <2>2. ToSet(p \o h) = ToSet(p) \cup ToSet(h)
    BY <2>1, ToSetConcat
  <2> DEFINE ph == p \o h
  <2>3. ph \in Seq(Adding(v)) /\ ToSet(ph) = ToSet(p) \cup ToSet(h)
    BY <2>1, <2>2
  <2> HIDE DEF ph
  <2>4. ToSet(ph \o e) = ToSet(ph) \cup ToSet(e)
    BY <2>1, <2>3, ToSetConcat
  <2> QED
    BY <2>3, <2>4 DEF ph
<1> DEFINE q == p \o h \o e
<1>8. q \in Goods(v) /\ ToSet(q) = ToSet(p) \cup ToSet(h) \cup ToSet(e)
      /\ BundleContents(config, v) = q
  BY <1>1, <1>6, <1>7
<1> HIDE DEF q
<1> QED
  BY <1>3, <1>4, <1>5, <1>8 DEF AddsAll, ItemSet

LEMMA InstallIs ==
    ASSUME Tooled, tool = "packager", NEW f, f.name = "install"
    PROVE  Steps(tool, f) = BundleContents(config, f.version) \o (Signing \o Moving)
<1> DEFINE v == f.version
           c == BundleContents(config, v)
           s == <<SignOf("helper")>>
           t == <<SignOf("appexExe"), SignOf("appex")>>
           u == <<SignOf("exe"), SignOf("bundle")>>
           S == Adding(v) \cup Ending
<1>1. Steps(tool, f) = BuildSteps(config, v) \o Moving
  BY DEF Steps, Moving
<1>2. BuildSteps(config, v) = c \o s \o t \o u
  BY DEF BuildSteps, BundleContents, SignSafariWebExtension, SignOf
<1>3. Signing = (s \o t) \o u
  BY DEF Signing
<1>4. c \in Seq(S) /\ Signing \in Seq(S) /\ Moving \in Seq(S)
  <2>1. c \in Seq(Adding(v))
    BY ContentsAreGood, GoodsAreClosed
  <2>2. Signing \in Seq(Ending)
    BY SigningIsEnding, SeqMonotonic DEF Ending
  <2> QED
    BY <2>1, <2>2, MovingIsEnding, SeqMonotonic
<1>5. s \in Seq(S) /\ t \in Seq(S) /\ u \in Seq(S)
  <2>1. \A x \in Seals : SignOf(x) \in S
    BY DEF Ending, Signs
  <2> HIDE DEF S
  <2>2. /\ SignOf("helper") \in S /\ SignOf("appexExe") \in S
        /\ SignOf("appex") \in S /\ SignOf("exe") \in S
        /\ SignOf("bundle") \in S
    BY <2>1 DEF Seals
  <2> QED
    BY <2>2, Tuples
<1> HIDE DEF c, s, t, u, S
<1>6. c \o s \o t = c \o (s \o t)
  BY <1>4, <1>5, ConcatAssociative
<1> DEFINE st == s \o t
<1>7. st \in Seq(S)
  BY <1>5
<1>8. c \o s \o t \o u = (c \o st) \o u
  BY <1>6
<1> HIDE DEF st
<1>9. (c \o st) \o u = c \o (st \o u)
  <2>1. c \in Seq(S) /\ st \in Seq(S) /\ u \in Seq(S)
    BY <1>4, <1>5, <1>7
  <2> QED
    BY ONLY <2>1, ConcatAssociative
<1>10. st \o u = Signing
  BY <1>3 DEF st
<1>11. Steps(tool, f) = (c \o Signing) \o Moving
  BY <1>1, <1>2, <1>8, <1>9, <1>10
<1>12. (c \o Signing) \o Moving = c \o (Signing \o Moving)
  BY <1>4, ConcatAssociative
<1> QED
  BY <1>11, <1>12 DEF c

\* Whichever flow it is, its steps are of the kinds above, and checked.
LEMMA PackagerStepsAre ==
    ASSUME Tooled, tool = "packager", NEW f, f.name \in Flows(tool)
    PROVE  Steps(tool, f) \in Seq(PartSteps(f.version)) /\ Checked(Steps(tool, f))
<1> DEFINE v == f.version
           S == PartSteps(v)
<1>1. Adding(v) \subseteq S /\ Ending \subseteq S
  BY DEF PartSteps
<1>2. ASSUME NEW q \in Goods(v) PROVE q \in Seq(S) /\ Checked(q)
  BY <1>1, SeqMonotonic DEF Goods
<1> HIDE DEF S
<1>3. CASE f.name = "install"
  <2> DEFINE c == BundleContents(config, v)
  <2>1. Steps(tool, f) = c \o (Signing \o Moving)
    BY <1>3, InstallIs
  <2>2. c \in Seq(S) /\ Checked(c)
    BY <1>2, ContentsAreGood
  <2>3. Signing \in Seq(Ending) /\ Moving \in Seq(Ending)
    BY SigningIsEnding, MovingIsEnding, SeqMonotonic DEF Ending
  <2> DEFINE e == Signing \o Moving
  <2>4. e \in Seq(Ending)
    BY <2>3
  <2> HIDE DEF c, e
  <2>5. e \in Seq(S) /\ Checked(e)
    BY <1>1, <2>4, SeqMonotonic, EndingIsChecked
  <2>6. c \o e \in Seq(S) /\ Checked(c \o e)
    BY <2>2, <2>5, CheckedConcat
  <2> QED
    BY <2>1, <2>6 DEF S, c, e
<1>4. CASE f.name = "register"
  <2>1. Steps(tool, f) = InstallNativeMessagingManifest(config.helper, config.register)
    BY <1>4 DEF Steps
  <2>2. Steps(tool, f) \in Goods(v)
    BY <2>1, PackagerConfigured, WriteManifestIsGood, ErrorIsGood
       DEF InstallNativeMessagingManifest
  <2> QED
    BY <1>2, <2>2 DEF S
<1>5. f.name \in {"install", "register"}
  BY DEF Flows
<1> QED
  BY <1>3, <1>4, <1>5

\* A step, done or cut short, leaves what browsers find usable.
LEMMA PartsStepKeeps ==
    ASSUME Tooled, tool = "packager", world \in PartsType, NEW v \in Nat,
           NEW st \in PartSteps(v), st.do = "write" => Usable(st.arg, ShownTo(st))
    PROVE  Done(st) \in PartsType /\ Partly(st) \subseteq PartsType
<1>1. Done(st) = PartsDone(st, world) /\ Partly(st) = PartsPartly(st, world)
  BY DEF Done, Partly
<1>2. CASE st = ErrorStep \/ st \in Validates
  <2>1. ErrorStep.do = "error" /\ \A x \in Validates : x.do = "validate"
    BY DEF ErrorStep, Validates, Step
  <2>2. st.do \in Checks
    BY <1>2, <2>1 DEF Checks
  <2> QED
    BY <2>2, ChecksChangeNothing
<1>3. CASE st \in Mkdirs
  <2>1. PartsPartly(st, world) = {world, PartsDone(st, world)} /\ PartsDone(st, world) \in PartsType
    BY <1>3, MkdirKeeps
  <2> QED
    BY <1>1, <2>1
<1>4. CASE st \in Puts(v)
  <2>1. PICK i \in ItemSet : IsPut(st, i, v)
    BY <1>4 DEF Puts, IsPut
  <2>2. PartsPartly(st, world) = {world, PartsDone(st, world)} /\ PartsDone(st, world) \in PartsType
    BY <2>1, PutKeeps
  <2> QED
    BY <1>1, <2>2
<1>5. CASE st \in Writes
  <2>1. PICK b \in Browsers, m \in Manifests :
            st \in {Step("write", Shown[b], m), Step("write", Hosts[b], m)}
    BY <1>5 DEF Writes
  <2>2. st.do = "write" /\ st.arg = m
    BY <2>1 DEF Step
  <2>3. ShownTo(st) = b
    BY <2>1, ShownToWriter
  <2>4. Usable(m, b)
    BY <2>2, <2>3
  <2> QED
    BY <1>1, <2>1, <2>4, WriteKeeps
<1>6. CASE st \in Signs
  <2>1. PICK s \in Seals : st = SignOf(s)
    BY <1>6 DEF Signs
  <2>2. PartsPartly(st, world) = {world, PartsDone(st, world)} /\ PartsDone(st, world) \in PartsType
    BY <2>1, SignKeeps, Zenon
  <2> QED
    BY <1>1, <2>2
<1>7. CASE st \in Moves
  BY <1>1, <1>7, MoveKeeps
<1> QED
  BY <1>2, <1>3, <1>4, <1>5, <1>6, <1>7 DEF PartSteps, Adding, Ending

PartsInv ==
    tool = "packager" =>
        /\ world \in PartsType /\ flow.version \in Nat
        /\ todo \in Seq(PartSteps(flow.version))
        /\ status = "running" /\ ~dry => Checked(todo)

LEMMA PartsStart == Init => PartsInv
<1> SUFFICES ASSUME Init, tool = "packager" PROVE PartsInv
  BY DEF PartsInv
<1>1. world = NoBundles /\ flow.version = 0 /\ todo = <<>> /\ status = "idle"
  BY DEF Init, Nothing
<1>2. [b \in Browsers |-> NoManifest] \in Found
  BY DEF Found, Usable, NoManifest, Manifests
<1>3. NoBundle \in BundleType
  BY <1>2, ItemsAre DEF NoBundle, BundleType
<1>4. NoBundles \in PartsType
  BY <1>2, <1>3 DEF NoBundles, PartsType
<1> QED
  BY <1>1, <1>4 DEF PartsInv

\* The step that comes next, what it does, and what is left then.
LEMMA PartsHead ==
    ASSUME Tooled, PartsInv, tool = "packager", status = "running", ~dry, todo # <<>>
    PROVE  /\ Head(todo) \in PartSteps(flow.version)
           /\ Tail(todo) \in Seq(PartSteps(flow.version))
           /\ Head(todo).do = "write" => Usable(Head(todo).arg, ShownTo(Head(todo)))
           /\ Done(Head(todo)) \in PartsType /\ Partly(Head(todo)) \subseteq PartsType
           /\ ~Doomed(Head(todo)) => Checked(Tail(todo))
           /\ Able(Head(todo)) => ~Doomed(Head(todo))
           /\ ErrorIgnored(Head(todo)) => ~Doomed(Head(todo))
<1> DEFINE S == PartSteps(flow.version)
<1>1. todo \in Seq(S) /\ Checked(todo) /\ world \in PartsType /\ flow.version \in Nat
  BY DEF PartsInv
<1>2. Head(todo) \in S /\ Tail(todo) \in Seq(S)
  <2> HIDE DEF S
  <2> QED
    BY <1>1
<1>3. /\ Head(todo).do = "write" => Usable(Head(todo).arg, ShownTo(Head(todo)))
      /\ ~Doomed(Head(todo)) => Checked(Tail(todo))
  <2> HIDE DEF S
  <2> QED
    BY <1>1, CheckedTail
<1>4. Done(Head(todo)) \in PartsType /\ Partly(Head(todo)) \subseteq PartsType
  BY <1>1, <1>2, <1>3, PartsStepKeeps
<1>5. Able(Head(todo)) => ~Doomed(Head(todo))
  BY DEF Able, PartsAble, Doomed
<1>6. ErrorIgnored(Head(todo)) => ~Doomed(Head(todo))
  BY DEF ErrorIgnored, Doomed
<1> QED
  BY <1>2, <1>3, <1>4, <1>5, <1>6

LEMMA PartsKeep == Tooled /\ PartsInv /\ [Next]_vars => PartsInv'
<1> SUFFICES ASSUME Tooled, PartsInv, [Next]_vars, tool = "packager" PROVE PartsInv'
  BY ToolStays DEF PartsInv
<1>0. /\ world \in PartsType /\ flow.version \in Nat
      /\ todo \in Seq(PartSteps(flow.version))
      /\ status = "running" /\ ~dry => Checked(todo)
  BY DEF PartsInv
<1>1. ASSUME NEW name \in Flows(tool), NEW v \in Versions, Begin(name, v) PROVE PartsInv'
  <2>1. flow' = [name |-> name, version |-> v] /\ todo' = Steps(tool, flow') /\ world' = world
    BY <1>1 DEF Begin
  <2>2. v \in Nat /\ flow'.name = name /\ flow'.version = v
    BY <2>1, VersionsAssumption
  <2>3. todo' \in Seq(PartSteps(flow'.version)) /\ Checked(todo')
    BY <2>1, <2>2, PackagerStepsAre
  <2>4. Checked(todo)'
    BY <2>3 DEF Checked
  <2> QED
    BY <1>0, <2>1, <2>2, <2>3, <2>4 DEF PartsInv
<1>2. CASE RunStep \/ RunStepIgnoringError
  <2>1. /\ status = "running" /\ todo # <<>> /\ todo' = Tail(todo)
        /\ flow' = flow /\ dry' = dry
    BY <1>2 DEF RunStep, RunStepIgnoringError
  <2>2. Tail(todo) \in Seq(PartSteps(flow.version))
    <3> DEFINE S == PartSteps(flow.version)
    <3> HIDE DEF S
    <3>1. todo \in Seq(S)
      BY <1>0 DEF S
    <3>2. Tail(todo) \in Seq(S)
      BY <2>1, <3>1
    <3> QED
      BY <3>2 DEF S
  <2>3. CASE dry
    <3>1. world' = world
      BY <1>2, <2>3, DrySteps DEF RunStep, RunStepIgnoringError
    <3> QED
      BY <1>0, <2>1, <2>2, <2>3, <3>1 DEF PartsInv
  <2>4. CASE ~dry
    <3>1. \/ Able(Head(todo)) /\ world' = Done(Head(todo))
          \/ ErrorIgnored(Head(todo)) /\ world' \in Partly(Head(todo))
      BY <1>2, <2>4 DEF RunStep, RunStepIgnoringError, Executes
    <3>2. world' \in PartsType /\ Checked(Tail(todo))
      BY <2>1, <2>4, <3>1, PartsHead
    <3>3. Checked(todo)'
      BY <2>1, <3>2 DEF Checked
    <3> QED
      BY <1>0, <2>1, <2>2, <3>2, <3>3 DEF PartsInv
  <2> QED
    BY <2>3, <2>4
<1>3. CASE Fail \/ Killed
  <2>1. /\ status = "running" /\ todo # <<>> /\ flow' = flow /\ status' # "running"
        /\ todo' \in {<<>>, Tail(todo)}
    BY <1>3 DEF Fail, Killed
  <2>2. todo' \in Seq(PartSteps(flow.version))
    <3> DEFINE S == PartSteps(flow.version)
    <3> HIDE DEF S
    <3>1. todo \in Seq(S)
      BY <1>0 DEF S
    <3>2. Tail(todo) \in Seq(S) /\ <<>> \in Seq(S)
      BY <2>1, <3>1
    <3>3. todo' \in Seq(S)
      BY <2>1, <3>2
    <3> QED
      BY <3>3 DEF S
  <2>3. world' \in PartsType
    <3>1. CASE dry
      BY <1>0, <1>3, <3>1, DrySteps DEF Fail, Killed
    <3>2. CASE ~dry
      <4>1. world' \in Partly(Head(todo))
        BY <1>3, <3>2 DEF Fail, Killed, Executes
      <4> QED
        BY <2>1, <3>2, <4>1, PartsHead
    <3> QED
      BY <3>1, <3>2
  <2> QED
    BY <1>0, <2>1, <2>2, <2>3 DEF PartsInv
<1>4. CASE Return
  BY <1>0, <1>4 DEF Return, PartsInv
<1>5. CASE Login
  BY <1>5 DEF Login
<1>6. CASE Cancel \/ UNCHANGED vars
  <2>1. UNCHANGED <<tool, flow, status, todo, dry, world>>
    BY <1>6 DEF Cancel, vars
  <2>2. Checked(todo) => Checked(todo)'
    BY <2>1 DEF Checked
  <2> QED
    BY <1>0, <2>1, <2>2 DEF PartsInv
<1> QED
  BY <1>1, <1>2, <1>3, <1>4, <1>5, <1>6 DEF Next

\* Whatever helper is configured, and however a tool ends, no browser finds a
\* manifest that it would refuse, or that lists what is another's.
THEOREM ManifestsAreUsableAlways == Spec => []ManifestsAreUsable
<1>1. PartsInv => ManifestsAreUsable
  <2> SUFFICES ASSUME PartsInv, tool = "packager" PROVE ManifestsAreUsable
    BY DEF ManifestsAreUsable
  <2>1. world.built.shown \in Found /\ world.dest.shown \in Found /\ world.hosts \in Found
    BY DEF PartsInv, PartsType, BundleType
  <2> QED
    BY <2>1 DEF ManifestsAreUsable, Found, Usable
<1> QED
  BY <1>1, TooledStarts, TooledKeeps, PartsStart, PartsKeep, PTL DEF Spec

-----------------------------------------------------------------------------
\* A signature is made before those of all that contains it.
InsideOut(q) ==
    \A i \in DOMAIN q : \A t \in Seals :
        Covers[q[i].what] \subseteq Covers[t] =>
            t = q[i].what \/ \E j \in DOMAIN q : i < j /\ q[j] = SignOf(t)

FilesAre(w, v) == \A i \in ItemSet : w.built.files[i] = v
Adds(q, w, v) ==
    ErrorStep \in ToSet(q) \/ \A i \in ItemSet : w.built.files[i] = v \/ ItemStep(v)[i] \in ToSet(q)
Sealing(q, w) == InsideOut(q) /\ \A s \in Seals : s \in w.built.seals \/ SignOf(s) \in ToSet(q)
Moved(w, v) == w.dest = w.built /\ w.built.seals = Seals /\ FilesAre(w, v)

\* How far the installation of a bundle has got: what is still missing in it
\* is still to be done.
BundleKnows ==
    LET v == flow.version IN
    \/ \E q \in Seq(Adding(v)) : todo = q \o (Signing \o Moving) /\ Adds(q, world, v)
    \/ \E q \in Seq(Signs) : todo = q \o Moving /\ Sealing(q, world) /\ FilesAre(world, v)
    \/ todo = <<Step("link", "dest", 0)>> /\ Moved(world, v)
    \/ todo = <<>> /\ Moved(world, v) /\ (config.softlink => world.link)

LEMMA SigningIsInsideOut == InsideOut(Signing) /\ \A s \in Seals : SignOf(s) \in ToSet(Signing)
<1>1. /\ DOMAIN Signing = 1..5
      /\ Signing[1] = SignOf("helper") /\ Signing[2] = SignOf("appexExe")
      /\ Signing[3] = SignOf("appex") /\ Signing[4] = SignOf("exe")
      /\ Signing[5] = SignOf("bundle")
  BY DEF Signing
<1>2. \A s : SignOf(s).what = s
  BY DEF SignOf, Step
<1>3. ASSUME NEW t \in Seals
      PROVE  /\ Covers["helper"] \subseteq Covers[t] => t \in {"helper", "bundle"}
             /\ Covers["appexExe"] \subseteq Covers[t] => t \in {"appexExe", "appex", "bundle"}
             /\ Covers["appex"] \subseteq Covers[t] => t \in {"appex", "bundle"}
             /\ Covers["exe"] \subseteq Covers[t] => t \in {"exe", "bundle"}
             /\ Covers["bundle"] \subseteq Covers[t] => t = "bundle"
  BY CoversAre DEF Seals, Appex, ItemSet
<1>4. \A s \in Seals : SignOf(s) \in ToSet(Signing)
  BY <1>1 DEF Seals, ToSet
<1>5. ASSUME NEW i \in 1..5, NEW t \in Seals, Covers[Signing[i].what] \subseteq Covers[t]
      PROVE  t = Signing[i].what \/ \E j \in 1..5 : i < j /\ Signing[j] = SignOf(t)
  <2>1. CASE i = 1
    BY <1>1, <1>2, <1>3, <1>5, <2>1
  <2>2. CASE i = 2
    BY <1>1, <1>2, <1>3, <1>5, <2>2
  <2>3. CASE i = 3
    BY <1>1, <1>2, <1>3, <1>5, <2>3
  <2>4. CASE i = 4
    BY <1>1, <1>2, <1>3, <1>5, <2>4
  <2>5. CASE i = 5
    BY <1>1, <1>2, <1>3, <1>5, <2>5
  <2> QED
    BY <2>1, <2>2, <2>3, <2>4, <2>5
<1> QED
  BY <1>1, <1>4, <1>5 DEF InsideOut

LEMMA ConcatHeadTail ==
    ASSUME NEW S, NEW s \in Seq(S), NEW t \in Seq(S), s # <<>>
    PROVE  s \o t # <<>> /\ Head(s \o t) = Head(s) /\ Tail(s \o t) = Tail(s) \o t
<1>1. s \o t # <<>> /\ Head(s \o t) = Head(s)
  OBVIOUS
<1>2. Tail(s \o t) = Tail(s) \o t
  OBVIOUS
<1> QED
  BY <1>1, <1>2

\* A step that adds to the bundle succeeds.
LEMMA AddingProceeds ==
    ASSUME NEW w \in PartsType, NEW v \in Nat, NEW q \in Seq(Adding(v)), q # <<>>,
           Adds(q, w, v), Head(q).do # "error",
           Head(q).do = "write" => Usable(Head(q).arg, ShownTo(Head(q)))
    PROVE  Adds(Tail(q), PartsDone(Head(q), w), v)
<1> DEFINE st == Head(q)
           u == PartsDone(st, w)
           S == Adding(v)
<1>1. st \in S /\ ToSet(q) = {st} \cup ToSet(Tail(q))
  <2>1. q \in Seq(S)
    OBVIOUS
  <2> HIDE DEF S
  <2>2. ToSet(q) = {Head(q)} \cup ToSet(Tail(q))
    BY <2>1, ToSetTail
  <2> QED
    BY <2>1, <2>2
<1>2. st # ErrorStep
  <2>1. ErrorStep.do = "error"
    BY DEF ErrorStep, Step
  <2> QED
    BY <2>1
<1>3. \A j \in ItemSet : u.built.files[j] \in {w.built.files[j], v}
  <2>1. CASE st \in Validates
    <3>1. \A x \in Validates : x.do = "validate"
      BY DEF Validates, Step
    <3>2. u = w
      BY <2>1, <3>1 DEF PartsDone
    <3> QED
      BY <3>2
  <2>2. CASE st \in Mkdirs
    <3> HIDE DEF st
    <3>1. u = [w EXCEPT !.built.dirs = @ \cup {st.what}]
      BY <2>2, MkdirKeeps
    <3>2. u.built.files = w.built.files
      BY <3>1 DEF PartsType, BundleType
    <3> QED
      BY <3>2
  <2>3. CASE st \in Puts(v)
    <3>1. PICK i \in ItemSet : IsPut(st, i, v)
      BY <2>3 DEF Puts, IsPut
    <3> HIDE DEF st
    <3> QED
      BY <3>1, PutIsPut
  <2>4. CASE st \in Writes
    <3>1. PICK b \in Browsers, m \in Manifests :
              st \in {Step("write", Shown[b], m), Step("write", Hosts[b], m)}
      BY <2>4 DEF Writes
    <3>2. st.do = "write" /\ st.arg = m
      BY <3>1 DEF Step
    <3>3. ShownTo(st) = b
      BY <3>1, ShownToWriter
    <3>4. Usable(m, b)
      BY <3>2, <3>3
    <3> HIDE DEF st
    <3> QED
      BY <3>1, <3>4, WriteKeeps
  <2> HIDE DEF st, u
  <2> QED
    BY <1>1, <1>2, <2>1, <2>2, <2>3, <2>4 DEF Adding
<1>4. ASSUME NEW i \in ItemSet, st = ItemStep(v)[i] PROVE u.built.files[i] = v
  <2> HIDE DEF st
  <2> QED
    BY <1>4, PutIsPut DEF IsPut
<1> HIDE DEF st, u
<1>5. \A i \in ItemSet : w.built.files[i] = v => u.built.files[i] = v
  BY <1>3
<1> QED
  BY <1>1, <1>2, <1>4, <1>5 DEF Adds, st, u

\* A signature is made, and all that are still missing then are to be made.
LEMMA SealingProceeds ==
    ASSUME NEW w \in PartsType, NEW q \in Seq(Signs), q # <<>>, Sealing(q, w)
    PROVE  /\ Sealing(Tail(q), PartsDone(Head(q), w))
           /\ PartsDone(Head(q), w).built.files = w.built.files
<1>1. PICK s \in Seals : Head(q) = SignOf(s)
  BY DEF Signs
<1> DEFINE u == PartsDone(SignOf(s), w)
           r == Tail(q)
<1>2. /\ u.built.files = w.built.files
      /\ u.built.seals = {t \in w.built.seals : ~(Covers[s] \subseteq Covers[t])} \cup {s}
  BY SignKeeps
<1>3. /\ DOMAIN q = 1..Len(q) /\ Len(q) \in Nat \ {0} /\ DOMAIN r = 1..(Len(q) - 1)
      /\ q[1] = Head(q) /\ 1 \in DOMAIN q
      /\ \A i \in DOMAIN r : r[i] = q[i + 1] /\ i + 1 \in DOMAIN q
  OBVIOUS
<1>4. SignOf(s).what = s
  BY DEF SignOf, Step
<1>5. ToSet(q) = {SignOf(s)} \cup ToSet(r)
  BY <1>1, ToSetTail
<1> HIDE DEF u, r
<1>6. ASSUME NEW j \in DOMAIN q, 1 < j PROVE j - 1 \in DOMAIN r /\ r[j - 1] = q[j]
  <2>1. j - 1 \in DOMAIN r /\ (j - 1) + 1 = j
    BY <1>3, <1>6
  <2> QED
    BY <1>3, <2>1
<1>7. InsideOut(r)
  <2> SUFFICES ASSUME NEW i \in DOMAIN r, NEW t \in Seals, Covers[r[i].what] \subseteq Covers[t],
                      t # r[i].what
               PROVE  \E j \in DOMAIN r : i < j /\ r[j] = SignOf(t)
    BY DEF InsideOut
  <2>1. i + 1 \in DOMAIN q /\ r[i] = q[i + 1] /\ i \in Nat
    BY <1>3
  <2>2. PICK j \in DOMAIN q : i + 1 < j /\ q[j] = SignOf(t)
    BY <2>1 DEF Sealing, InsideOut
  <2>3. 1 < j /\ i < j - 1
    BY <1>3, <2>1, <2>2
  <2> QED
    BY <1>6, <2>2, <2>3
<1>8. ASSUME NEW t \in Seals, t # s, Covers[s] \subseteq Covers[t] PROVE SignOf(t) \in ToSet(r)
  <2>1. PICK j \in DOMAIN q : 1 < j /\ q[j] = SignOf(t)
    BY <1>1, <1>3, <1>4, <1>8 DEF Sealing, InsideOut
  <2> QED
    BY <1>6, <2>1 DEF ToSet
<1>9. ASSUME NEW t \in Seals PROVE t \in u.built.seals \/ SignOf(t) \in ToSet(r)
  <2>1. CASE t = s
    BY <1>2, <2>1
  <2>2. CASE t # s /\ Covers[s] \subseteq Covers[t]
    BY <1>8, <2>2
  <2>3. CASE t # s /\ ~(Covers[s] \subseteq Covers[t])
    <3>1. SignOf(t) # SignOf(s)
      BY <2>3 DEF SignOf, Step
    <3>2. t \in w.built.seals \/ SignOf(t) \in ToSet(q)
      BY DEF Sealing
    <3> QED
      BY <1>2, <1>5, <2>3, <3>1, <3>2
  <2> QED
    BY <2>1, <2>2, <2>3
<1> QED
  BY <1>1, <1>2, <1>7, <1>9 DEF Sealing, u, r

\* No step of the packager fails without that being reported.
LEMMA PartErrorsCount ==
    ASSUME NEW v, NEW st \in PartSteps(v)
    PROVE  ~ErrorIgnored(st)
<1>1. CASE st = ErrorStep
  <2>1. ErrorStep.do = "error"
    BY DEF ErrorStep, Step
  <2> QED
    BY <1>1, <2>1 DEF ErrorIgnored
<1>2. CASE st \in Mkdirs
  BY <1>2 DEF Mkdirs, Step, ErrorIgnored
<1>3. CASE st \in Puts(v)
  <2>1. PICK i \in ItemSet : st = ItemStep(v)[i]
    BY <1>3 DEF Puts
  <2>2. st.do \in {"plist", "copy", "copydir"}
    BY <2>1 DEF ItemStep, ItemSet, Step
  <2> QED
    BY <2>2 DEF ErrorIgnored
<1>4. CASE st \in Validates
  BY <1>4 DEF Validates, Step, ErrorIgnored
<1>5. CASE st \in Writes
  <2>1. st.do = "write"
    BY <1>5 DEF Writes, Step
  <2> QED
    BY <2>1 DEF ErrorIgnored
<1>6. CASE st \in Signs
  <2>1. st.do = "sign"
    BY <1>6 DEF Signs, SignOf, Step
  <2> QED
    BY <2>1 DEF ErrorIgnored
<1>7. CASE st \in Moves
  <2>1. Step("rsync", "dest", 0).do = "rsync" /\ Step("link", "dest", 0).do = "link"
    BY DEF Step
  <2>2. st.do \in {"rsync", "link"}
    BY <1>7, <2>1 DEF Moves
  <2> QED
    BY <2>2 DEF ErrorIgnored
<1> QED
  BY <1>1, <1>2, <1>3, <1>4, <1>5, <1>6, <1>7 DEF PartSteps, Adding, Ending

\* With nothing left to be added, all is in place that is to be signed; with
\* nothing left to be signed, every signature is valid.
LEMMA AddedIsSigned ==
    ASSUME NEW v, todo = <<>> \o (Signing \o Moving), Adds(<<>>, world, v)
    PROVE  /\ todo = Signing \o Moving /\ Signing \in Seq(Signs)
           /\ Sealing(Signing, world) /\ FilesAre(world, v)
<1>1. todo = Signing \o Moving
  <2> DEFINE S == Ending
             e == Signing \o Moving
  <2>1. Signing \in Seq(S) /\ Moving \in Seq(S)
    BY SigningIsEnding, MovingIsEnding, SeqMonotonic DEF Ending
  <2>2. e \in Seq(S)
    BY <2>1
  <2> HIDE DEF e, S
  <2>3. <<>> \o e = e
    BY <2>2, ConcatEmptySeq
  <2> QED
    BY <2>3 DEF e
<1>2. ToSet(<<>>) = {}
  BY DEF ToSet
<1> QED
  BY <1>1, <1>2, SigningIsEnding, SigningIsInsideOut DEF Sealing, FilesAre, Adds

LEMMA AddingNext ==
    ASSUME Tooled, PartsInv, tool = "packager", status = "running", ~dry, todo # <<>>,
           Able(Head(todo)), world' = Done(Head(todo)), todo' = Tail(todo),
           flow' = flow, config' = config,
           NEW q \in Seq(Adding(flow.version)), q # <<>>,
           todo = q \o (Signing \o Moving), Adds(q, world, flow.version)
    PROVE  BundleKnows'
<1> DEFINE v == flow.version
           r == Tail(q)
           e == Signing \o Moving
           A == Adding(v)
<1>1. world \in PartsType /\ v \in Nat
  BY DEF PartsInv
<1>2. e \in Seq(Ending)
  BY SigningIsEnding, MovingIsEnding, SeqMonotonic DEF Ending
<1>3. Head(todo) = Head(q) /\ todo' = r \o e /\ r \in Seq(A)
  <2> DEFINE S == A \cup Ending
  <2>1. q \in Seq(A) /\ q \in Seq(S) /\ e \in Seq(S)
    BY <1>2
  <2> HIDE DEF S, e, A
  <2>2. Head(q \o e) = Head(q) /\ Tail(q \o e) = Tail(q) \o e
    BY <2>1, ConcatHeadTail
  <2>3. r \in Seq(A)
    BY <2>1
  <2> QED
    BY <2>2, <2>3 DEF e
<1>4. Head(q).do # "error" /\ world' = PartsDone(Head(q), world)
  BY <1>3 DEF Able, Done
<1>5. Head(q).do = "write" => Usable(Head(q).arg, ShownTo(Head(q)))
  BY <1>3, PartsHead
<1>6. Adds(r, world', v)
  BY <1>1, <1>4, <1>5, AddingProceeds
<1>7. Adds(r, world, v)'
  BY <1>6 DEF Adds
<1>8. Signing' = Signing /\ Moving' = Moving
  BY DEF Signing, Moving
<1> HIDE DEF r
<1> QED
  BY <1>3, <1>6, <1>8 DEF BundleKnows

LEMMA SigningNext ==
    ASSUME Tooled, PartsInv, tool = "packager", status = "running", ~dry, todo # <<>>,
           Able(Head(todo)), world' = Done(Head(todo)), todo' = Tail(todo),
           flow' = flow, config' = config,
           NEW q \in Seq(Signs), todo = q \o Moving,
           Sealing(q, world), FilesAre(world, flow.version)
    PROVE  BundleKnows'
<1> DEFINE v == flow.version
           r == Tail(q)
           S == Ending
<1>1. world \in PartsType /\ v \in Nat
  BY DEF PartsInv
<1>2. Done(Head(todo)) = PartsDone(Head(todo), world) /\ Head(todo).do # "error"
  BY DEF Done, Able
<1>3. CASE q # <<>>
  <2>1. q \in Seq(S) /\ Moving \in Seq(S) /\ r \in Seq(Signs)
    BY <1>3, MovingIsEnding, SeqMonotonic DEF Ending
  <2>2. Head(todo) = Head(q) /\ todo' = r \o Moving
    <3> HIDE DEF S
    <3> QED
      BY <1>3, <2>1, ConcatHeadTail
  <2>3. Sealing(r, world') /\ world'.built.files = world.built.files
    BY <1>1, <1>2, <1>3, <2>2, SealingProceeds
  <2>4. FilesAre(world', v)
    BY <2>3 DEF FilesAre
  <2>5. Moving' = Moving
    BY DEF Moving
  <2> HIDE DEF r
  <2> QED
    BY <2>1, <2>2, <2>3, <2>4, <2>5 DEF BundleKnows
<1>4. CASE q = <<>>
  <2>1. todo = Moving
    <3> HIDE DEF S
    <3> QED
      BY <1>4, MovingIsEnding, ConcatEmptySeq
  <2>2. world.built.seals = Seals
    <3>1. ToSet(<<>>) = {}
      BY DEF ToSet
    <3>2. world.built.seals \subseteq Seals
      BY <1>1 DEF PartsType, BundleType
    <3> QED
      BY <1>4, <3>1, <3>2 DEF Sealing
  <2> DEFINE rs == Step("rsync", "dest", 0)
             li == Step("link", "dest", 0)
  <2>3. Moving # <<ErrorStep>>
    <3>1. ErrorStep.do = "error"
      BY DEF ErrorStep, Step
    <3>2. todo = <<ErrorStep>> => Head(todo) = ErrorStep
      OBVIOUS
    <3> QED
      BY <1>2, <2>1, <3>1, <3>2
  <2>4. \/ ~config.softlink /\ todo = <<rs>>
        \/ config.softlink /\ todo = <<rs, li>>
    BY <2>1, <2>3, MovingIs
  <2>5. Head(todo) = rs /\ (config.softlink => todo' = <<li>>) /\ (~config.softlink => todo' = <<>>)
    <3> HIDE DEF rs, li
    <3>1. todo = <<rs>> => Head(todo) = rs /\ Tail(todo) = <<>>
      OBVIOUS
    <3>2. todo = <<rs, li>> => Head(todo) = rs /\ Tail(todo) = <<li>>
      OBVIOUS
    <3> QED
      BY <2>4, <3>1, <3>2
  <2>6. rs.do = "rsync" /\ rs \in Moves
    BY DEF Step, Moves
  <2>7. world'.built = world.built /\ world'.dest = world.built
    BY <1>1, <1>2, <2>5, <2>6, MoveKeeps
  <2>8. Moved(world', v)
    BY <2>2, <2>7 DEF Moved, FilesAre
  <2> HIDE DEF rs
  <2> QED
    BY <2>5, <2>8 DEF BundleKnows
<1> QED
  BY <1>3, <1>4

LEMMA BundleProceeds ==
    ASSUME Tooled, PartsInv, tool = "packager", status = "running", ~dry, todo # <<>>,
           Able(Head(todo)), world' = Done(Head(todo)), todo' = Tail(todo),
           flow' = flow, config' = config, BundleKnows
    PROVE  BundleKnows'
<1> DEFINE v == flow.version
<1>1. CASE \E q \in Seq(Adding(v)) : todo = q \o (Signing \o Moving) /\ Adds(q, world, v)
  <2>1. PICK q \in Seq(Adding(v)) : todo = q \o (Signing \o Moving) /\ Adds(q, world, v)
    BY <1>1
  <2>2. CASE q # <<>>
    BY <2>1, <2>2, AddingNext
  <2>3. CASE q = <<>>
    <3>1. /\ todo = Signing \o Moving /\ Signing \in Seq(Signs)
          /\ Sealing(Signing, world) /\ FilesAre(world, v)
      BY <2>1, <2>3, AddedIsSigned
    <3> QED
      BY <3>1, SigningNext
  <2> QED
    BY <2>2, <2>3
<1>2. CASE \E q \in Seq(Signs) : todo = q \o Moving /\ Sealing(q, world) /\ FilesAre(world, v)
  BY <1>2, SigningNext
<1>3. CASE todo = <<Step("link", "dest", 0)>> /\ Moved(world, v)
  <2> DEFINE li == Step("link", "dest", 0)
  <2>1. Head(todo) = li /\ todo' = <<>>
    BY <1>3
  <2>2. li.do = "link" /\ li \in Moves
    BY DEF Step, Moves
  <2>3. world \in PartsType /\ world' = PartsDone(li, world)
    BY <2>1 DEF PartsInv, Done
  <2>4. world'.built = world.built /\ world'.dest = world.dest /\ world'.link
    BY <2>2, <2>3, MoveKeeps
  <2>5. Moved(world', v)
    BY <1>3, <2>4 DEF Moved, FilesAre
  <2> QED
    BY <2>1, <2>4, <2>5 DEF BundleKnows
<1>4. todo # <<>>
  OBVIOUS
<1> QED
  BY <1>1, <1>2, <1>3, <1>4 DEF BundleKnows

\* When no step is left, all of them were done.
LEMMA BundleIsDone ==
    ASSUME Tooled, PartsInv, tool = "packager", todo = <<>>, BundleKnows
    PROVE  Moved(world, flow.version) /\ (config.softlink => world.link)
<1>1. Signing # <<>> /\ Signing \in Seq(Ending) /\ Moving \in Seq(Ending) /\ Moving # <<>>
  <2>1. \A x, y : <<x>> # <<>> /\ <<x, y>> # <<>>
    OBVIOUS
  <2>2. Signing # <<>>
    BY DEF Signing
  <2>3. Moving # <<>>
    BY <2>1, MovingIs
  <2> QED
    BY <2>2, <2>3, SigningIsEnding, MovingIsEnding, SeqMonotonic DEF Ending
<1>2. ASSUME NEW S, NEW s \in Seq(S), NEW t \in Seq(S), t # <<>> PROVE s \o t # <<>>
  BY <1>2, ConcatEqualIffEmpty
<1>3. Signing \o Moving # <<>> /\ Signing \o Moving \in Seq(Ending)
  BY <1>1, <1>2
<1> DEFINE e == Signing \o Moving
           v == flow.version
           S == Adding(v) \cup Ending
<1>4. ASSUME NEW q \in Seq(Adding(v)) PROVE q \o e # <<>>
  <2>1. q \in Seq(S) /\ e \in Seq(S) /\ e # <<>>
    BY <1>3, SeqMonotonic
  <2> HIDE DEF S, e
  <2> QED
    BY <1>2, <2>1
<1>5. ASSUME NEW q \in Seq(Signs) PROVE q \o Moving # <<>>
  <2>1. q \in Seq(Ending)
    BY SeqMonotonic DEF Ending
  <2> QED
    BY <1>1, <1>2, <2>1
<1>6. todo # <<Step("link", "dest", 0)>>
  OBVIOUS
<1> QED
  BY <1>4, <1>5, <1>6 DEF BundleKnows

InstalledIs ==
    Success("install") => Moved(world, flow.version) /\ (config.softlink => world.link)
BundleInv == tool = "packager" => (Installing => BundleKnows) /\ InstalledIs

\* An installation that reports success has put every item in place, sealed
\* all of them from the inside out, and copied the whole.
THEOREM InstalledIsBuiltAlways == Spec => []InstalledIsBuilt
<1> DEFINE Inv == Tooled /\ PartsInv /\ BundleInv
<1>1. Init => Inv
  BY TooledStarts, PartsStart DEF Init, BundleInv, Installing, InstalledIs, Success
<1>2. Inv /\ [Next]_vars => Inv'
  <2> SUFFICES ASSUME Inv, [Next]_vars, tool = "packager" PROVE BundleInv'
    BY TooledKeeps, PartsKeep, ToolStays DEF BundleInv
  <2>0. (Installing => BundleKnows) /\ InstalledIs
    BY DEF BundleInv
  <2>1. ASSUME NEW name \in Flows(tool), NEW v \in Versions, Begin(name, v) PROVE BundleInv'
    <3>1. /\ flow' = [name |-> name, version |-> v] /\ todo' = Steps(tool, flow')
          /\ world' = world /\ config' = config /\ status' = "running"
      BY <2>1 DEF Begin
    <3>2. flow'.name = name /\ flow'.version = v
      BY <3>1
    <3>3. ASSUME name = "install" PROVE BundleKnows'
      <4> DEFINE c == BundleContents(config, v)
      <4>1. todo' = c \o (Signing \o Moving)
        BY <3>1, <3>2, <3>3, InstallIs
      <4>2. c \in Seq(Adding(v)) /\ AddsAll(c, v, ItemSet)
        BY ContentsAreGood, GoodsAreClosed
      <4>3. Adds(c, world', v)
        BY <4>2 DEF Adds, AddsAll
      <4>4. Signing' = Signing /\ Moving' = Moving
        BY <3>1 DEF Signing, Moving
      <4> HIDE DEF c
      <4> QED
        BY <3>2, <4>1, <4>2, <4>3, <4>4 DEF BundleKnows
    <3> QED
      BY <3>1, <3>2, <3>3 DEF BundleInv, Installing, InstalledIs, Success
  <2>2. CASE RunStep \/ RunStepIgnoringError
    <3>1. /\ status = "running" /\ todo # <<>> /\ todo' = Tail(todo) /\ log' = "nil"
          /\ tool' = tool /\ config' = config /\ flow' = flow /\ status' = status /\ dry' = dry
      BY <2>2 DEF RunStep, RunStepIgnoringError
    <3>2. Installing' => BundleKnows'
      <4> SUFFICES ASSUME Installing PROVE BundleKnows'
        BY <3>1 DEF Installing
      <4>1. Head(todo) \in PartSteps(flow.version)
        BY <3>1, PartsHead DEF Installing
      <4>2. ~ErrorIgnored(Head(todo))
        BY <4>1, PartErrorsCount
      <4>3. Able(Head(todo)) /\ world' = Done(Head(todo))
        BY <2>2, <4>2 DEF RunStep, RunStepIgnoringError, Executes, Installing
      <4> QED
        BY <2>0, <3>1, <4>3, BundleProceeds DEF Installing
    <3> QED
      BY <3>1, <3>2 DEF BundleInv, InstalledIs, Success
  <2>3. CASE Fail \/ Killed
    <3>1. \/ status' = "stopped" /\ log' = "error"
          \/ status' = "idle"
      BY <2>3 DEF Fail, Killed
    <3> QED
      BY <3>1 DEF BundleInv, Installing, InstalledIs, Success
  <2>4. CASE Return
    <3>1. /\ status = "running" /\ todo = <<>> /\ status' = "stopped"
          /\ UNCHANGED <<tool, config, flow, log, dry, world>>
      BY <2>4 DEF Return
    <3>2. Installing => Moved(world, flow.version) /\ (config.softlink => world.link)
      BY <2>0, <3>1, BundleIsDone
    <3>3. Installing => InstalledIs'
      BY <3>1, <3>2 DEF InstalledIs, Moved, FilesAre
    <3>4. ~Installing => ~Success("install")'
      BY <3>1 DEF Installing, Success
    <3>5. InstalledIs'
      BY <3>3, <3>4 DEF InstalledIs
    <3> QED
      BY <3>1, <3>5 DEF BundleInv, Installing
  <2>5. CASE Login
    BY <2>5 DEF Login
  <2>6. CASE Cancel \/ UNCHANGED vars
    <3>1. UNCHANGED <<tool, config, flow, status, todo, log, dry, world>>
      BY <2>6 DEF Cancel, vars
    <3>2. BundleKnows' = BundleKnows
      BY <3>1 DEF BundleKnows, Signing, Moving, Adds, Moved, Sealing, FilesAre
    <3> QED
      BY <2>0, <3>1, <3>2 DEF BundleInv, Installing, InstalledIs, Success
  <2> QED
    BY <2>1, <2>2, <2>3, <2>4, <2>5, <2>6 DEF Next
<1>3. Inv => InstalledIsBuilt
  <2> SUFFICES ASSUME Inv, tool = "packager", Success("install") PROVE InstalledIsBuilt
    BY DEF InstalledIsBuilt
  <2>1. Moved(world, flow.version) /\ (config.softlink => world.link)
    BY DEF BundleInv, InstalledIs
  <2> QED
    BY <2>1, CoversAre, ItemsAre DEF Moved, FilesAre, InstalledIsBuilt
<1> QED
  BY <1>1, <1>2, <1>3, PTL DEF Spec

-----------------------------------------------------------------------------
(* Dry runs.                                                               *)

\* A step that fails whatever there is in the world.
Refuses(st) ==
    \/ st.do = "error"
    \/ tool = "packager" /\ st.do = "validate" /\ ~ManifestIsValid(st.arg, st.what)

Impossible(f) == \E st \in ToSet(Steps(tool, f)) : Refuses(st)

LEMMA RefusesAlways ==
    ASSUME Tooled, NEW st
    PROVE  /\ st.do \in Checks /\ ~Able(st) => Refuses(st)
           /\ Refuses(st) => ~Able(st) /\ ~ErrorIgnored(st)
<1>1. st.do = "validate" =>
          AgentAble(st, world) /\ PackageAble(st, world)
          /\ PartsAble(st, world) = ManifestIsValid(st.arg, st.what)
  BY DEF AgentAble, PackageAble, PartsAble
<1> QED
  BY <1>1 DEF Tooled, Able, Checks, Refuses, ErrorIgnored

LEMMA StepsAreSteps ==
    ASSUME Tooled, NEW f, f.name \in Flows(tool), f.version \in Nat
    PROVE  Steps(tool, f) \in Seq(ToSet(Steps(tool, f)))
<1>1. ASSUME NEW S, NEW s \in Seq(S) PROVE s \in Seq(ToSet(s))
  <2>1. s \in [1..Len(s) -> ToSet(s)] /\ Len(s) \in Nat
    <3>1. DOMAIN s = 1..Len(s) /\ Len(s) \in Nat /\ s = [i \in DOMAIN s |-> s[i]]
      OBVIOUS
    <3>2. \A i \in DOMAIN s : s[i] \in ToSet(s)
      BY DEF ToSet
    <3> QED
      BY <3>1, <3>2
  <2> QED
    BY <2>1
<1>2. CASE tool = "packager"
  BY <1>1, <1>2, PackagerStepsAre
<1>3. CASE tool = "service"
  BY <1>1, <1>3, AgentStepsAre
<1>4. CASE tool = "product"
  BY <1>1, <1>4, ProductStepsAre
<1> QED
  BY <1>2, <1>3, <1>4 DEF Tooled

DryInv ==
    /\ \A f \in rejected : Impossible(f)
    /\ status = "running" =>
           /\ todo \in Seq(ToSet(Steps(tool, flow)))
           /\ ~dry /\ Impossible(flow) => \E st \in ToSet(todo) : Refuses(st)
    /\ DryRunIsRight

\* What is left of the steps, after one.
LEMMA TodoTail ==
    ASSUME DryInv, status = "running", todo # <<>>
    PROVE  /\ Head(todo) \in ToSet(Steps(tool, flow))
           /\ Tail(todo) \in Seq(ToSet(Steps(tool, flow)))
           /\ ToSet(todo) = {Head(todo)} \cup ToSet(Tail(todo))
<1> DEFINE S == ToSet(Steps(tool, flow))
<1>1. todo \in Seq(S)
  BY DEF DryInv
<1> HIDE DEF S
<1>2. Head(todo) \in S /\ Tail(todo) \in Seq(S)
  BY <1>1
<1>3. ToSet(todo) = {Head(todo)} \cup ToSet(Tail(todo))
  BY <1>1, ToSetTail
<1> QED
  BY <1>2, <1>3 DEF S

LEMMA ImpossibleStays ==
    ASSUME [Next]_vars
    PROVE  /\ Steps(tool, flow)' = Steps(tool, flow')
           /\ Impossible(flow)' <=> Impossible(flow')
           /\ \A f : Impossible(f)' <=> Impossible(f)
           /\ \A st : Refuses(st)' <=> Refuses(st)
<1>1. tool' = tool /\ config' = config
  BY ToolStays
<1>2. \A f : Steps(tool, f)' = Steps(tool, f)
  BY <1>1 DEF Steps
<1>3. Steps(tool, flow)' = Steps(tool, flow')
  BY <1>1 DEF Steps
<1>4. \A st : Refuses(st)' <=> Refuses(st)
  BY <1>1 DEF Refuses
<1>5. Impossible(flow)' <=> Impossible(flow')
  BY <1>3, <1>4 DEF Impossible
<1>6. \A f : Impossible(f)' <=> Impossible(f)
  BY <1>2, <1>4 DEF Impossible
<1> QED
  BY <1>3, <1>4, <1>5, <1>6

\* What DryInv comes to after a step.
LEMMA DryNext ==
    ASSUME [Next]_vars,
           \A f \in rejected' : Impossible(f),
           status' = "running" =>
               /\ todo' \in Seq(ToSet(Steps(tool, flow')))
               /\ ~dry' /\ Impossible(flow') => \E st \in ToSet(todo') : Refuses(st),
           DryRunIsRight'
    PROVE  DryInv'
<1>1. \A f \in rejected' : Impossible(f)'
  BY ImpossibleStays
<1>2. status' = "running" => todo' \in Seq(ToSet(Steps(tool, flow)'))
  BY ImpossibleStays
<1>3. status' = "running" /\ ~dry' /\ Impossible(flow)' => \E st \in ToSet(todo') : Refuses(st)'
  BY ImpossibleStays
<1> QED
  BY <1>1, <1>2, <1>3 DEF DryInv

\* A dry run fails only of a step that fails in any run of the flow, and a real
\* run gets past no such step.
THEOREM DryRunIsRightAlways == Spec => []DryRunIsRight
<1> DEFINE Inv == Tooled /\ DryInv
<1>1. Init => Inv
  BY TooledStarts DEF Init, DryInv, DryRunIsRight
<1>2. Inv /\ [Next]_vars => Inv'
  <2> SUFFICES ASSUME Inv, [Next]_vars PROVE DryInv'
    BY TooledKeeps
  <2>0. /\ \A f \in rejected : Impossible(f)
        /\ status = "running" =>
               /\ todo \in Seq(ToSet(Steps(tool, flow)))
               /\ ~dry /\ Impossible(flow) => \E st \in ToSet(todo) : Refuses(st)
        /\ DryRunIsRight
    BY DEF DryInv
  <2>1. ASSUME NEW name \in Flows(tool), NEW v \in Versions, Begin(name, v) PROVE DryInv'
    <3>1. /\ flow' = [name |-> name, version |-> v] /\ todo' = Steps(tool, flow')
          /\ status' = "running" /\ rejected' = rejected
      BY <2>1 DEF Begin
    <3>2. flow'.name \in Flows(tool) /\ flow'.version \in Nat
      BY <3>1, VersionsAssumption
    <3>3. todo' \in Seq(ToSet(Steps(tool, flow')))
      BY <3>1, <3>2, StepsAreSteps
    <3>4. Impossible(flow') => \E st \in ToSet(todo') : Refuses(st)
      BY <3>1 DEF Impossible
    <3>5. DryRunIsRight'
      BY <3>1 DEF DryRunIsRight
    <3> QED
      BY <2>0, <3>1, <3>3, <3>4, <3>5, DryNext
  <2>2. CASE RunStep \/ RunStepIgnoringError
    <3>1. /\ status = "running" /\ todo # <<>> /\ todo' = Tail(todo)
          /\ flow' = flow /\ dry' = dry /\ status' = status /\ rejected' = rejected
      BY <2>2 DEF RunStep, RunStepIgnoringError
    <3>2. ~dry => Able(Head(todo)) \/ ErrorIgnored(Head(todo))
      BY <2>2 DEF RunStep, RunStepIgnoringError, Executes
    <3>3. ~dry => ~Refuses(Head(todo))
      BY <3>2, RefusesAlways
    <3>4. todo' \in Seq(ToSet(Steps(tool, flow')))
      BY <3>1, TodoTail
    <3>5. ~dry /\ Impossible(flow) => \E st \in ToSet(todo') : Refuses(st)
      BY <2>0, <3>1, <3>3, TodoTail
    <3>6. DryRunIsRight'
      BY <3>1 DEF DryRunIsRight
    <3> QED
      BY <2>0, <3>1, <3>4, <3>5, <3>6, DryNext
  <2>3. CASE Fail
    <3>1. /\ status = "running" /\ todo # <<>> /\ status' = "stopped" /\ log' = "error"
          /\ rejected' = IF dry /\ ~done THEN rejected \cup {flow} ELSE rejected
      BY <2>3 DEF Fail
    <3>2. ASSUME dry, ~done PROVE Impossible(flow)
      <4>1. Head(todo).do \in Checks /\ ~Able(Head(todo))
        BY <2>3, <3>2 DEF Fail, Executes
      <4> QED
        BY <3>1, <4>1, RefusesAlways, TodoTail DEF Impossible
    <3>3. DryRunIsRight'
      BY <3>1 DEF DryRunIsRight
    <3> QED
      BY <2>0, <3>1, <3>2, <3>3, DryNext
  <2>4. CASE Return
    <3>1. /\ status = "running" /\ todo = <<>> /\ status' = "stopped"
          /\ UNCHANGED <<flow, dry, rejected>>
      BY <2>4 DEF Return
    <3>2. ~dry => ~Impossible(flow)
      <4>1. ToSet(<<>>) = {}
        BY DEF ToSet
      <4> QED
        BY <2>0, <3>1, <4>1
    <3>3. DryRunIsRight'
      BY <2>0, <3>1, <3>2 DEF DryRunIsRight
    <3> QED
      BY <2>0, <3>1, <3>3, DryNext
  <2>5. CASE Killed \/ Login
    <3>1. status' = "idle" /\ rejected' = rejected
      BY <2>5 DEF Killed, Login
    <3>2. DryRunIsRight'
      BY <3>1 DEF DryRunIsRight
    <3> QED
      BY <2>0, <3>1, <3>2, DryNext
  <2>6. CASE Cancel \/ UNCHANGED vars
    <3>1. UNCHANGED <<status, flow, todo, log, dry, rejected>>
      BY <2>6 DEF Cancel, vars
    <3>2. DryRunIsRight'
      BY <2>0, <3>1 DEF DryRunIsRight
    <3> QED
      BY <2>0, <3>1, <3>2, DryNext
  <2> QED
    BY <2>1, <2>2, <2>3, <2>4, <2>5, <2>6 DEF Next
<1> QED
  BY <1>1, <1>2, PTL DEF Spec, DryInv
=============================================================================
