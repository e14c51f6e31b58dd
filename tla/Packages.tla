------------------------------ MODULE Packages ------------------------------
(***************************************************************************)
(* buildtools.PkgBuild and ProductBuild: the steps that stage what goes     *)
(* into an installer package and build it, all within one build directory.  *)
(* Contents are known by the version they come from; 0 is none.             *)
(***************************************************************************)
EXTENDS ToolSteps, Naturals

\* Below the build directory: what is staged, and the package made of it.
Parts == {"root", "scripts", "component"}
Unstaged == [p \in Parts |-> 0]
NoPackage == [staged |-> Unstaged, dirs |-> {}, pkg |-> Unstaged, product |-> Unstaged, system |-> Unstaged]

PackageConfigs ==
    [buildDir : STRING, script : BOOLEAN, identified : BOOLEAN, gui : BOOLEAN, location : BOOLEAN]

PkgClean(p) == IF p.buildDir = "plain" THEN <<Step("rm", "buildDir", 0)>> ELSE <<ErrorStep>>

PkgCreate == <<Step("mkdir", "root", 0), Step("mkdir", "outputs", 0), Step("mkdir", "scripts", 0)>>

\* CopyApplication, WriteScript, WritePlist.
PkgStage(p, v) ==
    <<Step("rsync", "root", v)>>
    \o (IF p.script THEN <<Step("write", "scripts", v)>> ELSE <<>>)
    \o <<Step("plist", "component", v)>>

PkgBuildSteps(p) == IF p.identified THEN <<Step("pkgbuild", "outputs", 0)>> ELSE <<ErrorStep>>

\* Create, CopyResources and BuildDistribution; the archive is a file outside
\* of the build directory.
ProductSteps(p) ==
    IF p.gui THEN <<Step("mkdir", "resources", 0), Step("copy", "resources", 0),
                    Step("productbuild", "outputs", 0)>>
    ELSE <<>>

\* Mutant: what is staged is cleaned after the package is built.
PackageNoClean(p, v) == PkgCreate \o PkgStage(p, v) \o PkgBuildSteps(p) \o ProductSteps(p)

Package(p, v) == PkgClean(p) \o PkgCreate \o PkgStage(p, v) \o PkgBuildSteps(p) \o ProductSteps(p)

PackageInstall(p) == IF p.location THEN <<Step("installer", "system", 0)>> ELSE <<ErrorStep>>
-----------------------------------------------------------------------------
(* What the tools do (external).                                           *)

PackageDone(st, k) ==
    CASE st.do = "rm"           -> [k EXCEPT !.staged = Unstaged, !.dirs = {}, !.pkg = Unstaged]
      [] st.do = "mkdir"        -> [k EXCEPT !.dirs = @ \cup {st.what}]
      [] st.do \in {"rsync", "write", "plist"} -> [k EXCEPT !.staged[st.what] = st.arg]
      [] st.do = "pkgbuild"     -> [k EXCEPT !.pkg = k.staged]
      [] st.do = "productbuild" -> [k EXCEPT !.product = k.pkg]
      [] st.do = "installer"    -> [k EXCEPT !.system = k.pkg]
      [] OTHER                  -> k

\* rm may have removed some of the parts, the package or not.
Without(gone, f) == [q \in Parts |-> IF q \in gone THEN 0 ELSE f[q]]
Removed(k, gone, left) == [k EXCEPT !.staged = Without(gone, k.staged), !.pkg = left]
PartlyRemoved(k) == {Removed(k, gone, left) : gone \in SUBSET Parts, left \in {k.pkg, Unstaged}}

PackagePartly(st, k) ==
    {k, PackageDone(st, k)} \cup (IF st.do = "rm" THEN PartlyRemoved(k) ELSE {})

PackageAble(st, k) ==
    CASE st.do = "write"                   -> "scripts" \in k.dirs
      [] st.do \in {"rsync", "plist"}      -> "root" \in k.dirs
      [] st.do = "copy"                    -> "resources" \in k.dirs
      [] st.do = "pkgbuild"                -> "outputs" \in k.dirs /\ k.staged["root"] # 0
      [] st.do \in {"productbuild", "installer"} -> k.pkg # Unstaged
      [] OTHER                             -> TRUE
=============================================================================
