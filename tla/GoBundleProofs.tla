--------------------------- MODULE GoBundleProofs ---------------------------
(* Safety of gobundle, for any command lines and versions of the source,    *)
(* and however often a command is run, fails or is killed.  What is known   *)
(* of the disk depends on the step that is next.                            *)
EXTENDS GoBundle, TLAPS

BuildPcs == {"first", "go", "stat", "clean", "copy", "sign", "unlink", "link"}
RunPcs == {"mktemp", "runcopy", "runsign", "exec", "cleanup"}

ABinary == [kind : {"none", "file", "link"}, v : Nat]
ABundle == [dir : BOOLEAN, exe : Nat, sealed : BOOLEAN, config : {"", cmd.config}]

GoType ==
    /\ pc \in BuildPcs \cup RunPcs \cup {"idle"}
    /\ exit \in {"none", "ok", "error"} /\ (pc # "idle" => exit = "none")
    /\ fault \in BOOLEAN /\ through \in BOOLEAN
    /\ version \in Versions \cup {0} /\ (pc # "idle" => version \in Versions)
    /\ binary \in ABinary
    /\ bundle \in ABundle /\ tmp \in ABundle

\* The steps of build and install are not those of run.
Dispatched ==
    /\ pc \in BuildPcs => cmd.verb \in {"build", "install"}
    /\ pc \in RunPcs => cmd.verb = "run" /\ RunArgs(cmd)

\* What go has built is at the place of the executable, unless it has written
\* through a link, to the bundle that is then removed; after the copy it is
\* in the bundle.
BuildKnows ==
    /\ Guessed(cmd) /\ ~through /\ pc \in {"stat", "clean", "copy"} => binary = File(version)
    /\ Guessed(cmd) /\ LinkLeads(cmd) =>
          /\ pc \in {"stat", "clean"} => Resolved = version
          /\ pc = "copy" => Resolved \in {0, version}
          /\ pc \in {"sign", "unlink", "link"} => bundle.exe = version
    /\ pc \in {"sign", "unlink", "link"} => bundle.config = cmd.config
    /\ pc \in {"unlink", "link"} => bundle.sealed

\* What is in the temporary directory, and has been executed.
RunKnows ==
    /\ pc \in {"runsign", "exec"} => tmp.exe = version
    /\ pc = "exec" => tmp.sealed
    /\ pc = "cleanup" /\ ~fault /\ Valid(cmd) => ran.sealed /\ ran.exe = version

GoInv ==
    /\ GoType /\ Dispatched /\ BuildKnows /\ RunKnows
    /\ BuiltIsLinked /\ OnlyFaultsFail /\ RunIsSigned

-----------------------------------------------------------------------------
LEMMA VersionIsNat == GoInv => version \in Nat /\ (pc # "idle" => version # 0)
  BY VersionsAssumption DEF GoInv, GoType

LEMMA Places == None \in ABinary /\ Link \in ABinary /\ \A v \in Nat : File(v) \in ABinary
  BY DEF None, Link, File, ABinary

LEMMA Bundles ==
    /\ NoBundle \in ABundle /\ [NoBundle EXCEPT !.dir = TRUE] \in ABundle
    /\ \A b \in ABundle, v \in Nat :
         /\ [b EXCEPT !.exe = 0, !.sealed = FALSE] \in ABundle
         /\ [b EXCEPT !.exe = v] \in ABundle
         /\ [b EXCEPT !.exe = v, !.config = ""] \in ABundle
         /\ [b EXCEPT !.sealed = TRUE] \in ABundle
<1>1. NoBundle \in ABundle /\ [NoBundle EXCEPT !.dir = TRUE] \in ABundle
  BY DEF NoBundle, ABundle
<1>2. ASSUME NEW b \in ABundle, NEW v \in Nat
      PROVE  /\ [b EXCEPT !.exe = 0, !.sealed = FALSE] \in ABundle
             /\ [b EXCEPT !.exe = v] \in ABundle
             /\ [b EXCEPT !.exe = v, !.config = ""] \in ABundle
             /\ [b EXCEPT !.sealed = TRUE] \in ABundle
  BY DEF ABundle
<1> QED
  BY <1>1, <1>2

\* A run begins, or there is no such verb.
LEMMA StartKeeps == ASSUME GoInv, NEW v \in Versions, Start(v) PROVE GoInv'
<1>1. GoType' /\ cmd' = cmd
  BY DEF GoInv, GoType, Start, Ends, ABundle, BuildPcs, RunPcs
<1>2. Dispatched' /\ BuildKnows' /\ RunKnows'
  BY DEF GoInv, Start, Ends, Dispatched, BuildKnows, RunKnows, BuildPcs, RunPcs
<1>3. BuiltIsLinked' /\ OnlyFaultsFail' /\ RunIsSigned'
  BY DEF GoInv, Start, Ends, BuiltIsLinked, Built, OnlyFaultsFail, RunIsSigned
<1> QED
  BY <1>1, <1>2, <1>3 DEF GoInv

\* A step of build or install.
LEMMA BuildKeeps ==
    ASSUME GoInv, RemoveFirst \/ Go \/ Check \/ Clean \/ Copy \/ Sign \/ Unlink \/ MakeLink
    PROVE  GoInv'
<1> USE DEF Ends, Goes
<1>1. /\ cmd' = cmd /\ through' = through /\ version' = version /\ fault' = fault
      /\ tmp' = tmp /\ ran' = ran /\ pc \in BuildPcs /\ pc' \in BuildPcs \cup {"idle"}
  BY DEF RemoveFirst, Go, Check, Clean, Copy, Sign, Unlink, MakeLink, disk, BuildPcs
<1>2. version \in Nat /\ version # 0
  BY <1>1, VersionIsNat DEF BuildPcs
<1>3. /\ cmd.verb \in {"build", "install"} /\ exit = "none"
      /\ bundle \in ABundle /\ binary \in ABinary
  BY <1>1 DEF GoInv, GoType, Dispatched, BuildPcs
<1>4. Resolved \in Nat
  BY <1>3 DEF Resolved, ABundle, ABinary
<1>5. /\ bundle' \in ABundle /\ binary' \in ABinary
      /\ exit' \in {"none", "ok", "error"} /\ (pc' # "idle" => exit' = "none")
  <2>1. CASE RemoveFirst
    BY <1>3, <2>1, Places, Bundles DEF RemoveFirst
  <2>2. CASE Go
    BY <1>2, <1>3, <2>2, Places, Bundles DEF Go
  <2>3. CASE Check \/ Clean
    BY <1>3, <2>3, Bundles DEF Check, Clean, disk
  <2>4. CASE Copy
    BY <1>3, <1>4, <2>4 DEF Copy, ABundle
  <2>5. CASE Sign
    BY <1>3, <2>5, Bundles DEF Sign
  <2>6. CASE Unlink \/ MakeLink
    BY <1>3, <2>6, Places DEF Unlink, MakeLink
  <2> QED
    BY <2>1, <2>2, <2>3, <2>4, <2>5, <2>6
<1>6. GoType'
  BY <1>1, <1>5 DEF GoInv, GoType, ABundle, BuildPcs
<1>7. BuildKnows' /\ (exit' = "ok" => BuiltIsLinked') /\ (exit' = "error" => OnlyFaultsFail')
  <2> USE DEF GoInv, BuildKnows, OnlyFaultsFail
  <2>1. CASE RemoveFirst
    BY <1>1, <1>3, <2>1 DEF RemoveFirst
  <2>2. CASE Go
    <3>1. pc' \in {"stat", "idle"} /\ exit' # "ok"
      BY <1>3, <2>2 DEF Go
    <3>2. exit' = "error" => ~Guessed(cmd) \/ through
      BY <1>3, <2>2 DEF Go
    <3>3. ASSUME pc' = "stat", Guessed(cmd)
          PROVE  \/ binary' = File(version)
                 \/ through /\ binary' = Link /\ LinkLeads(cmd) /\ bundle'.exe = version
      BY <1>3, <2>2, <3>3 DEF Go, ABundle
    <3>4. pc' = "stat" /\ Guessed(cmd) => Resolved' = version
      BY <1>1, <3>3 DEF Resolved, File, Link
    <3> QED
      BY <1>1, <3>1, <3>2, <3>3, <3>4
  <2>3. CASE Check
    <3>1. binary' = binary /\ bundle' = bundle /\ Resolved' = Resolved
      BY <1>1, <2>3 DEF Check, disk, Resolved
    <3>2. exit' = "error" => Resolved = 0 \/ ~Valid(cmd)
      BY <1>3, <2>3 DEF Check
    <3>3. binary = File(version) => Resolved # 0
      BY <1>2 DEF Resolved, File
    <3> QED
      BY <1>1, <1>3, <2>3, <3>1, <3>2, <3>3 DEF Check
  <2>4. CASE Clean
    <3>1. pc = "clean" /\ pc' = "copy" /\ exit' = "none" /\ binary' = binary /\ bundle'.exe = 0
      BY <1>3, <2>4 DEF Clean, NoBundle
    <3>2. Resolved' \in {0, Resolved}
      BY <1>1, <3>1 DEF Resolved
    <3> QED
      BY <1>1, <3>1, <3>2
  <2>5. CASE Copy
    <3>1. binary = File(version) => Resolved # 0
      BY <1>2 DEF Resolved, File
    <3> QED
      BY <1>1, <1>3, <2>5, <3>1 DEF Copy
  <2>6. CASE Sign
    BY <1>1, <1>3, <2>6 DEF Sign, ABundle
  <2>7. CASE Unlink
    BY <1>1, <1>3, <2>7 DEF Unlink
  <2>8. CASE MakeLink
    BY <1>1, <1>3, <2>8 DEF MakeLink, BuiltIsLinked, Resolved, Link
  <2> QED
    BY <2>1, <2>2, <2>3, <2>4, <2>5, <2>6, <2>7, <2>8
<1>8. Dispatched' /\ RunKnows' /\ RunIsSigned'
  BY <1>1, <1>3 DEF Dispatched, RunKnows, RunIsSigned, BuildPcs, RunPcs
<1>9. BuiltIsLinked' /\ OnlyFaultsFail'
  BY <1>5, <1>7 DEF BuiltIsLinked, Built, OnlyFaultsFail
<1> QED
  BY <1>6, <1>7, <1>8, <1>9 DEF GoInv

\* A step of run.
LEMMA RunKeeps ==
    ASSUME GoInv, MakeTemp \/ RunCopy \/ RunSign \/ Exec \/ Cleanup
    PROVE  GoInv'
<1> USE DEF Ends, Goes
<1>1. /\ cmd' = cmd /\ through' = through /\ version' = version /\ fault' = fault
      /\ binary' = binary /\ bundle' = bundle /\ pc \in RunPcs /\ pc' \in RunPcs \cup {"idle"}
  BY DEF MakeTemp, RunCopy, RunSign, Exec, Cleanup, RunPcs
<1>2. version \in Nat /\ cmd.verb = "run" /\ RunArgs(cmd) /\ exit = "none" /\ tmp \in ABundle
  BY <1>1, VersionIsNat DEF GoInv, GoType, Dispatched, RunPcs
<1>3. tmp' \in ABundle /\ exit' \in {"none", "ok", "error"} /\ (pc' # "idle" => exit' = "none")
  BY <1>2, Bundles DEF MakeTemp, RunCopy, RunSign, Exec, Cleanup, RunConfig
<1>4. GoType'
  BY <1>1, <1>3 DEF GoInv, GoType, ABundle, RunPcs
<1>5. Dispatched' /\ BuildKnows' /\ BuiltIsLinked'
  BY <1>1, <1>2 DEF Dispatched, BuildKnows, BuiltIsLinked, Built, BuildPcs, RunPcs
<1>6. RunKnows'
  <2>1. CASE MakeTemp
    BY <1>1, <2>1 DEF MakeTemp, RunKnows
  <2>2. CASE RunCopy \/ RunSign
    BY <1>1, <1>2, <2>2 DEF RunCopy, RunSign, GoInv, RunKnows, ABundle
  <2>3. CASE Exec \/ Cleanup
    BY <1>1, <2>3 DEF Exec, Cleanup, GoInv, RunKnows
  <2> QED
    BY <2>1, <2>2, <2>3
<1>7. OnlyFaultsFail' /\ RunIsSigned'
  <2>1. CASE Cleanup
    BY <1>1, <1>2, <2>1 DEF Cleanup, GoInv, RunKnows, OnlyFaultsFail, RunIsSigned
  <2>2. CASE ~Cleanup
    BY <1>2, <2>2 DEF MakeTemp, RunCopy, RunSign, Exec, OnlyFaultsFail, RunIsSigned
  <2> QED
    BY <2>1, <2>2
<1> QED
  BY <1>4, <1>5, <1>6, <1>7 DEF GoInv

\* Something goes wrong.
LEMMA FaultKeeps == ASSUME GoInv, Fault \/ Killed PROVE GoInv'
<1> USE DEF Ends, Goes
<1>1. /\ cmd' = cmd /\ through' = through /\ version' = version /\ fault' = TRUE
      /\ binary' = binary /\ pc # "idle" /\ exit = "none" /\ exit' \in {"none", "error"}
      /\ \/ pc' = "idle"
         \/ pc' = "cleanup" /\ pc \in RunPcs /\ exit' = "none"
  BY DEF GoInv, GoType, Fault, Killed, RunPcs
<1>2. bundle' \in ABundle /\ tmp' \in ABundle
  BY Bundles DEF GoInv, GoType, Fault, Killed
<1>3. GoType'
  BY <1>1, <1>2 DEF GoInv, GoType, ABundle, RunPcs
<1> QED
  BY <1>1, <1>3 DEF GoInv, Dispatched, BuildKnows, RunKnows, BuiltIsLinked, Built, OnlyFaultsFail,
                    RunIsSigned, BuildPcs, RunPcs

\* What is known of the disk at each step, and of the outcome of a run.
THEOREM Invariance == Spec => []GoInv
<1>1. Init => GoInv
  <2> SUFFICES ASSUME Init PROVE GoInv
    OBVIOUS
  <2>1. binary \in ABinary
    <3>1. (CHOOSE v \in Versions : TRUE) \in Versions
      BY VersionsAssumption, Zenon
    <3> QED
      BY <3>1, Places, VersionsAssumption DEF Init
  <2> QED
    BY <2>1, Bundles DEF Init, GoInv, GoType, Dispatched, BuildKnows, RunKnows, BuiltIsLinked,
                         Built, OnlyFaultsFail, RunIsSigned, BuildPcs, RunPcs
<1>2. GoInv /\ [Next]_vars => GoInv'
  <2> SUFFICES ASSUME GoInv, [Next]_vars PROVE GoInv'
    OBVIOUS
  <2>1. CASE UNCHANGED vars
    <3>1. /\ cmd' = cmd /\ through' = through /\ version' = version /\ pc' = pc /\ exit' = exit
          /\ fault' = fault /\ binary' = binary /\ bundle' = bundle /\ tmp' = tmp /\ ran' = ran
      BY <2>1 DEF vars
    <3>2. ABundle' = ABundle
      BY <3>1 DEF ABundle
    <3>3. GoType'
      BY <3>1, <3>2 DEF GoInv, GoType
    <3>4. Dispatched'
      BY <3>1 DEF GoInv, Dispatched
    <3>5. RunKnows'
      BY <3>1 DEF GoInv, RunKnows
    <3>6. BuildKnows'
      BY <3>1 DEF GoInv, BuildKnows, Resolved
    <3>7. BuiltIsLinked' /\ OnlyFaultsFail' /\ RunIsSigned'
      BY <3>1 DEF GoInv, BuiltIsLinked, Built, OnlyFaultsFail, RunIsSigned, Resolved
    <3> QED
      BY <3>3, <3>4, <3>5, <3>6, <3>7 DEF GoInv
  <2> QED
    BY <2>1, StartKeeps, BuildKeeps, RunKeeps, FaultKeeps DEF Next
<1> QED
  BY <1>1, <1>2, PTL DEF Spec

\* A build or install that reports success has left a link to the signed
\* executable of its version, whatever earlier runs left.
THEOREM BuiltIsLinkedAlways == Spec => []BuiltIsLinked
<1>1. GoInv => BuiltIsLinked
  BY DEF GoInv
<1> QED
  BY <1>1, Invariance, PTL

\* A run repairs what earlier ones left: without a fault it does not fail.
THEOREM OnlyFaultsFailAlways == Spec => []OnlyFaultsFail
<1>1. GoInv => OnlyFaultsFail
  BY DEF GoInv
<1> QED
  BY <1>1, Invariance, PTL

\* What run executes is signed, and built in the same run.
THEOREM RunIsSignedAlways == Spec => []RunIsSigned
<1>1. GoInv => RunIsSigned
  BY DEF GoInv
<1> QED
  BY <1>1, Invariance, PTL
=============================================================================
