------------------------------ MODULE GoBundle ------------------------------
(***************************************************************************)
(* cmd/gobundle: the go command, wrapped so that what it builds becomes a   *)
(* signed application bundle.  'build' and 'install' move the executable to *)
(* a bundle and leave a link to it in its place; 'run' has 'go run' execute *)
(* gobundle a second time, which makes the bundle in a temporary directory  *)
(* and runs it from there.  A command is run again and again on one disk,   *)
(* for one version of the source after the other; any step may fail, and    *)
(* the process may be killed.  What is built is known by its version; 0 is  *)
(* none.  Clean, copy and sign stand for the steps of a Bundle (see the     *)
(* module of that name).                                                    *)
(***************************************************************************)
EXTENDS Sequences, Naturals, FiniteSets, TLC

CONSTANTS
    Commands,   \* command lines: verb, args, config ("" or a file), bundle, notarize, credentials
    Versions,   \* of the source
    MaxRuns     \* bound: how often the command is run

ASSUME VersionsAssumption == Versions \subseteq Nat \ {0} /\ Versions # {} /\ MaxRuns \in Nat

VARIABLES
    cmd,        \* the command line
    through,    \* go writes through a link in the place of its output, instead of replacing it
    runs,       \* how often it was run
    version,    \* of the source, in this run
    pc,         \* the step that is next, "idle" if gobundle does not run
    exit,       \* the status it exited with: "none", "ok", "error"
    fault,      \* something went wrong in this run that is not gobundle's doing
    binary,     \* what is at the place gobundle takes to be that of the executable
    left,       \* the version at the place where go leaves it, if that is another one
    bundle,     \* the bundle of build and install
    tmp,        \* the bundle of run, in a temporary directory
    ran         \* what run executed last

vars == <<cmd, through, runs, version, pc, exit, fault, binary, left, bundle, tmp, ran>>
disk == <<binary, left, bundle, tmp, ran>>
-----------------------------------------------------------------------------
(* The command line.                                                       *)

\* buildArgs: how many arguments each flag of go build takes.
Takes == ("-race" :> 0) @@ ("-v" :> 0) @@ ("-tags" :> 1) @@ ("-cover" :> 1) @@ ("-o" :> 1)

\* What it is for go.
GoTakes == [Takes EXCEPT !["-cover"] = 0]

\* consumeBuildArgs: where the flags end.
FlagsEnd(args, takes) ==
    LET end[i \in 1..(Len(args) + 2)] ==
            IF i > Len(args) \/ args[i] \notin DOMAIN takes THEN i ELSE end[i + 1 + takes[args[i]]]
    IN  end[1]

\* The argument of the last -o.
Out(args, takes) ==
    LET at == {i \in 1..(Len(args) - 1) : i < FlagsEnd(args, takes) /\ args[i] = "-o"}
    IN  IF at = {} THEN "" ELSE args[1 + CHOOSE i \in at : \A j \in at : j <= i]

Packages(args, takes) == SubSeq(args, FlagsEnd(args, takes), Len(args))

\* isDir, and the directory that a path is, or is in.
IsDir(path) == path \in {"sub/", "/abs/"}
In(path) ==
    CASE path \in {"sub/", "sub/x"} -> "sub" [] path \in {"/abs/", "/abs/x"} -> "/abs" [] OTHER -> "cwd"

\* determineBuildBinary: -o with a file is the answer; without packages, or
\* with ".", the name is that of the working directory.
Named(out, rest) ==
    [in |-> In(out),
     name |-> IF out # "" /\ ~IsDir(out) THEN "x"
              ELSE IF rest \in {<<>>, <<".">>} THEN "cwd" ELSE Head(rest)]

\* getInstallBinaryAbs: in GOBIN, or bin in GOPATH, or go/bin in HOME.  Of
\* the arguments all are taken for packages.
InstallBinary(args) == [in |-> "/abs", name |-> Named("", args).name]

Binary(c) ==
    IF c.verb = "install" THEN InstallBinary(c.args)
    ELSE Named(Out(c.args, Takes), Packages(c.args, Takes))

GoBinary(c) ==
    IF c.verb = "install" THEN InstallBinary(Packages(c.args, GoTakes))
    ELSE Named(Out(c.args, GoTakes), Packages(c.args, GoTakes))

Guessed(c) == Binary(c) = GoBinary(c)

\* Where the bundle is: beside the executable for install and for -o with a
\* directory, as configured, or in the working directory.
BundleIn(c) ==
    IF c.verb = "install" THEN "/abs"
    ELSE IF IsDir(Out(c.args, Takes)) THEN In(Out(c.args, Takes))
    ELSE IF c.bundle # "" THEN c.bundle ELSE "cwd"

\* The link is given the path of the bundle as it is, relative to the working
\* directory, while a link is read relative to its own.
LinkLeads(c) == BundleIn(c) = "/abs" \/ Binary(c).in = "cwd"

\* Bundle.Steps refuses to notarize what it has no identity and credentials for.
Valid(c) == c.notarize => c.credentials

\* handleGoRun refuses -exec wherever it is, be it an argument of the program,
\* and runs go with nothing if there is nothing. The first argument is passed on
\* before the flags meant for the second gobundle: it has to be the package.
RunArgs(c) ==
    /\ c.args # <<>> /\ Head(c.args) \notin DOMAIN Takes
    /\ \A i \in DOMAIN c.args : c.args[i] # "-exec"

\* The second gobundle is not told which configuration to use.
RunConfig(c) == ""
-----------------------------------------------------------------------------
None == [kind |-> "none", v |-> 0]
File(v) == [kind |-> "file", v |-> v]
Link == [kind |-> "link", v |-> 0]
NoBundle == [dir |-> FALSE, exe |-> 0, sealed |-> FALSE, config |-> ""]

\* What is there to be read at the place of the executable.
Resolved == IF binary.kind = "link" THEN IF LinkLeads(cmd) THEN bundle.exe ELSE 0 ELSE binary.v

Init ==
    /\ cmd \in Commands /\ through \in BOOLEAN
    /\ runs = 0 /\ version = 0 /\ pc = "idle" /\ exit = "none" /\ fault = FALSE
    /\ binary \in {None, File(CHOOSE v \in Versions : TRUE)}
    /\ left = 0 /\ bundle = NoBundle /\ tmp = NoBundle /\ ran = NoBundle

Ends(status) == pc' = "idle" /\ exit' = status
Goes(next) == pc' = next /\ exit' = exit

\* main: the verb is dispatched.  Any other verb is dropped, go is run with
\* the arguments that follow it, and knows no command of that name.
Start(v) ==
    /\ pc = "idle" /\ runs < MaxRuns
    /\ runs' = runs + 1 /\ version' = v /\ fault' = FALSE
    /\ \/ cmd.verb \in {"build", "install"} /\ pc' = "first" /\ exit' = "none"
       \/ cmd.verb = "run" /\ RunArgs(cmd) /\ pc' = "mktemp" /\ exit' = "none"
       \/ cmd.verb = "run" /\ ~RunArgs(cmd) /\ Ends("error")
       \/ cmd.verb = "other" /\ Ends("error")
    /\ UNCHANGED <<cmd, through, binary, left, bundle, tmp, ran>>

\* Mutant: that there is nothing to remove is an error.
RemoveThere ==
    /\ pc = "first"
    /\ IF cmd.verb = "build"
       THEN bundle' = [bundle EXCEPT !.exe = 0, !.sealed = FALSE] /\ binary' = binary /\ Goes("go")
       ELSE IF binary = None THEN UNCHANGED <<binary, bundle>> /\ Ends("error")
            ELSE binary' = None /\ bundle' = bundle /\ Goes("go")
    /\ UNCHANGED <<cmd, through, runs, version, fault, left, tmp, ran>>

\* build removes the executable in the bundle, install the one in its place.
RemoveFirst ==
    /\ pc = "first"
    /\ IF cmd.verb = "build"
       THEN bundle' = [bundle EXCEPT !.exe = 0, !.sealed = FALSE] /\ binary' = binary
       ELSE binary' = None /\ bundle' = bundle
    /\ Goes("go")
    /\ UNCHANGED <<cmd, through, runs, version, fault, left, tmp, ran>>

\* go build or go install (external).
Go ==
    /\ pc = "go"
    /\ \/ ~Guessed(cmd) /\ left' = version /\ Goes("stat") /\ UNCHANGED <<binary, bundle>>
       \/ /\ Guessed(cmd) /\ ~(through /\ binary = Link)
          /\ binary' = File(version) /\ Goes("stat") /\ UNCHANGED <<left, bundle>>
       \/ /\ Guessed(cmd) /\ through /\ binary = Link /\ LinkLeads(cmd) /\ bundle.dir
          /\ bundle' = [bundle EXCEPT !.exe = version] /\ Goes("stat") /\ UNCHANGED <<binary, left>>
       \/ /\ Guessed(cmd) /\ through /\ binary = Link /\ ~(LinkLeads(cmd) /\ bundle.dir)
          /\ Ends("error") /\ UNCHANGED <<binary, left, bundle>>
    /\ UNCHANGED <<cmd, through, runs, version, fault, tmp, ran>>

\* The executable is looked for, and the steps of the bundle are made.
Check ==
    /\ pc = "stat"
    /\ IF Resolved # 0 /\ Valid(cmd) THEN Goes("clean") ELSE Ends("error")
    /\ UNCHANGED <<cmd, through, runs, version, fault, disk>>

\* createAndSign, step by step.
Clean ==
    /\ pc = "clean"
    /\ bundle' = NoBundle /\ Goes("copy")
    /\ UNCHANGED <<cmd, through, runs, version, fault, binary, left, tmp, ran>>

\* Mutant: the bundle is made with the defaults.
CopyDefault ==
    /\ pc = "copy"
    /\ bundle' = [dir |-> TRUE, exe |-> Resolved, sealed |-> FALSE, config |-> ""]
    /\ IF Resolved = 0 THEN Ends("error") ELSE Goes("sign")
    /\ UNCHANGED <<cmd, through, runs, version, fault, binary, left, tmp, ran>>

Copy ==
    /\ pc = "copy"
    /\ bundle' = [dir |-> TRUE, exe |-> Resolved, sealed |-> FALSE, config |-> cmd.config]
    /\ IF Resolved = 0 THEN Ends("error") ELSE Goes("sign")
    /\ UNCHANGED <<cmd, through, runs, version, fault, binary, left, tmp, ran>>

Sign ==
    /\ pc = "sign"
    /\ bundle' = [bundle EXCEPT !.sealed = TRUE] /\ Goes("unlink")
    /\ UNCHANGED <<cmd, through, runs, version, fault, binary, left, tmp, ran>>

Unlink ==
    /\ pc = "unlink"
    /\ binary' = None /\ Goes("link")
    /\ UNCHANGED <<cmd, through, runs, version, fault, left, bundle, tmp, ran>>

MakeLink ==
    /\ pc = "link"
    /\ binary' = Link /\ Ends("ok")
    /\ UNCHANGED <<cmd, through, runs, version, fault, left, bundle, tmp, ran>>
-----------------------------------------------------------------------------
(* handleGoRunExec, in the gobundle that go run executes.  Whatever happens *)
(* in it, the temporary directory is removed before it exits.               *)

MakeTemp ==
    /\ pc = "mktemp"
    /\ tmp' = [NoBundle EXCEPT !.dir = TRUE]
    /\ Goes(IF Valid(cmd) THEN "runcopy" ELSE "cleanup")
    /\ UNCHANGED <<cmd, through, runs, version, fault, binary, left, bundle, ran>>

RunCopy ==
    /\ pc = "runcopy"
    /\ tmp' = [tmp EXCEPT !.exe = version, !.config = RunConfig(cmd)] /\ Goes("runsign")
    /\ UNCHANGED <<cmd, through, runs, version, fault, binary, left, bundle, ran>>

RunSign ==
    /\ pc = "runsign"
    /\ tmp' = [tmp EXCEPT !.sealed = TRUE] /\ Goes("exec")
    /\ UNCHANGED <<cmd, through, runs, version, fault, binary, left, bundle, ran>>

\* Mutant: the program is run from where go built it.
ExecBuilt ==
    /\ pc = "exec"
    /\ ran' = [tmp EXCEPT !.sealed = FALSE] /\ Goes("cleanup")
    /\ UNCHANGED <<cmd, through, runs, version, fault, binary, left, bundle, tmp>>

Exec ==
    /\ pc = "exec"
    /\ ran' = tmp /\ Goes("cleanup")
    /\ UNCHANGED <<cmd, through, runs, version, fault, binary, left, bundle, tmp>>

Cleanup ==
    /\ pc = "cleanup"
    /\ tmp' = NoBundle /\ Ends(IF fault \/ ~Valid(cmd) THEN "error" ELSE "ok")
    /\ UNCHANGED <<cmd, through, runs, version, fault, binary, left, bundle, ran>>
-----------------------------------------------------------------------------
\* What is being done fails.  Part of a bundle may have been removed.
Fault ==
    /\ pc \notin {"idle", "cleanup"}
    /\ fault' = TRUE
    /\ IF pc \in {"runcopy", "runsign", "exec"} THEN Goes("cleanup") ELSE Ends("error")
    /\ bundle' \in {bundle} \cup (IF pc = "clean" THEN {[bundle EXCEPT !.exe = 0, !.sealed = FALSE]} ELSE {})
    /\ UNCHANGED <<cmd, through, runs, version, binary, left, tmp, ran>>

\* The temporary directory is left behind; no later run uses it.
Killed ==
    /\ pc # "idle"
    /\ fault' = TRUE /\ Ends("none") /\ tmp' = NoBundle
    /\ UNCHANGED <<cmd, through, runs, version, binary, left, bundle, ran>>

Next ==
    \/ \E v \in Versions : Start(v)
    \/ RemoveFirst \/ Go \/ Check \/ Clean \/ Copy \/ Sign \/ Unlink \/ MakeLink
    \/ MakeTemp \/ RunCopy \/ RunSign \/ Exec \/ Cleanup
    \/ Fault \/ Killed

Spec == Init /\ [][Next]_vars
-----------------------------------------------------------------------------
Built == exit = "ok" /\ cmd.verb \in {"build", "install"}

\* Where gobundle knows what go calls the executable, and that is where the
\* bundle is or is named by an absolute path: a build or install that reports
\* success has left a link, and what it leads to is the executable of this
\* version, signed, in a bundle made with the configuration that was asked for.
BuiltIsLinked ==
    Built /\ Guessed(cmd) /\ LinkLeads(cmd) =>
        /\ binary = Link /\ Resolved = version
        /\ bundle.sealed /\ bundle.config = cmd.config

\* A command line that gobundle accepts, and of which it knows where go leaves
\* its output, is only made to fail by a fault: whatever an earlier run left when
\* it failed or was killed between any two steps, the next one repairs.  Go
\* must replace a link in the place of its output, as it does when it can
\* rename a file to it.
OnlyFaultsFail ==
    exit = "error" /\ ~fault =>
        \/ ~Guessed(cmd) \/ ~Valid(cmd) \/ through
        \/ cmd.verb = "other" \/ (cmd.verb = "run" /\ ~RunArgs(cmd))

\* The program that run executes is the one just built, signed.
RunIsSigned == cmd.verb = "run" /\ exit = "ok" => ran.sealed /\ ran.exe = version

\* What the help says of build: executing the link that is left is equivalent
\* to executing the executable in the bundle.
LinkIsEquivalent == Built => Resolved = bundle.exe

=============================================================================
