------------------------------- MODULE Bundle -------------------------------
(***************************************************************************)
(* src/buildtools: Bundle.Steps as a list of steps, and StepRunner.Run on   *)
(* the bundle on disk, where any step may fail half way and a later build   *)
(* starts from what an earlier one has left.                               *)
(*                                                                         *)
(* A configuration is a record: ext (the path ends in .app), creds (notary  *)
(* credentials are set) and specs, the bundles in an order in which each     *)
(* follows the one it is nested in (parent; 0 for the top-level one).  A     *)
(* path is a sequence of names, cleaned; identity is "none", "devID" or      *)
(* "development".                                                          *)
(***************************************************************************)
EXTENDS Naturals, SequencesExt

CONSTANTS
    Configs,
    MaxBundles  \* bound: bundles of one configuration

VARIABLES
    config, notarize,   \* what is being built
    status,             \* "idle", "running", "stopped"
    todo,               \* the steps that StepRunner.Run has still to run
    log,                \* RunResult: error of its last entry, "none" if empty
    disk,               \* the bundle
    archive, ticket     \* "none", "current", or "outdated": not what is on disk

vars == <<config, notarize, status, todo, log, disk, archive, ticket>>

-----------------------------------------------------------------------------
(* The bundles of configuration c.                                         *)

Names == STRING \cup {"Contents"}
BundleSpecs ==
    [parent : Nat, path : Seq(Names), dot : BOOLEAN, id : Seq(STRING),
     identity : {"none", "devID", "development"}, restricted : BOOLEAN, profile : BOOLEAN,
     binary : BOOLEAN, info : BOOLEAN, extra : BOOLEAN, icon : BOOLEAN, readOnly : BOOLEAN]

BundlesOf(c) == DOMAIN c.specs

\* A tree of bundles.
IsTree(c) ==
    /\ c \in [ext : BOOLEAN, creds : BOOLEAN, specs : Seq(BundleSpecs)]
    /\ c.specs # <<>> /\ c.specs[1].parent = 0
    /\ \A n \in BundlesOf(c) \ {1} : c.specs[n].parent \in 1..(n - 1)

\* The steps for the bundles directly in bundle n, one after the other.
Inner(c, n, steps) ==
    FlattenSeq([m \in BundlesOf(c) |-> IF c.specs[m].parent = n THEN steps[m] ELSE <<>>])

\* The key of each bundle: its location below the Contents of the top-level
\* one, and so a prefix of those of all that it contains.
Keys(c) ==
    LET key[n \in BundlesOf(c)] ==
            CASE c.specs[n].parent = 0 -> <<>>
              [] c.specs[n].parent = 1 -> c.specs[n].path
              [] OTHER -> key[c.specs[n].parent] \o <<"Contents">> \o c.specs[n].path
    IN  key

\* Identifiers as sequences: one that starts with a '.' (dot) extends that of
\* the bundle that contains it; <<>> if there is none.
Identifiers(c) ==
    LET id[n \in BundlesOf(c)] ==
            IF c.specs[n].dot THEN id[c.specs[n].parent] \o c.specs[n].id ELSE c.specs[n].id
    IN  id

\* The bundles with an identity, their own or that of the bundle they are in.
ToSign(c) ==
    LET signed[n \in BundlesOf(c)] ==
            c.specs[n].identity # "none" \/ (n # 1 /\ signed[c.specs[n].parent])
    IN  {n \in BundlesOf(c) : signed[n]}

\* Validate and validateBuild, but for the files.
Valid(c, notary) ==
    /\ ~c.specs[1].dot
    /\ \A n \in BundlesOf(c) \ {1} :
           /\ c.specs[n].path # <<>> /\ Head(c.specs[n].path) # ".."
           /\ c.specs[n].dot => Identifiers(c)[c.specs[n].parent] # <<>>
    /\ \A m, n \in BundlesOf(c) :
           m # n /\ Identifiers(c)[m] # <<>> => Identifiers(c)[m] # Identifiers(c)[n]
    /\ \A n \in ToSign(c) : c.specs[n].restricted => c.specs[n].profile
    /\ \A n \in BundlesOf(c) : c.specs[n].binary
    /\ notary => c.creds /\ c.specs[1].identity = "devID"

\* Each bundle with those that it is nested in.
Around(c) ==
    LET around[n \in BundlesOf(c)] ==
            {n} \cup (IF n = 1 THEN {} ELSE around[c.specs[n].parent])
    IN  around

\* Of two bundles in one list, nothing in the first contains anything in the
\* second: sub_bundles are listed "in the order that they are signed".
InOrder(c) ==
    \A x, y \in BundlesOf(c) : \A a \in Around(c)[x], b \in Around(c)[y] :
        c.specs[a].parent = c.specs[b].parent /\ a < b => ~IsPrefix(Keys(c)[x], Keys(c)[y])

ASSUME ConfigsAssumption ==
    /\ MaxBundles \in Nat
    /\ \A c \in Configs :
           IsTree(c) /\ Len(c.specs) <= MaxBundles /\ (Valid(c, FALSE) => InOrder(c))

-----------------------------------------------------------------------------
(* The steps: what is done, in the bundle with which key, to what.         *)

Step(do, k, what) == [do |-> do, key |-> k, what |-> what]

When(condition, step) == IF condition THEN <<step>> ELSE <<>>

Clean(c) ==
    <<Step(IF c.ext THEN "chmodAll" ELSE "error", <<>>, "bundle"),
      Step(IF c.ext THEN "rm" ELSE "error", <<>>, "bundle")>>

Create(k) == <<Step("mkdir", k, "bundle"), Step("mkdir", k, "MacOS"), Step("mkdir", k, "Resources")>>

\* What populate adds for one bundle.
Fill(k, s) ==
    Create(k)
    \o When(s.profile, Step("copy", k, "profile"))
    \o <<Step(IF s.info THEN "copy" ELSE "error", k, "plist"), Step("copy", k, "exe")>>
    \o When(s.extra, Step("copy", k, "extra"))
    \o When(s.icon, Step("copy", k, "icon"))
    \o <<Step("chmod", k, "exe"), Step("chmod", k, IF s.readOnly THEN "lock" ELSE "MacOS")>>

\* The outermost first.
Populate(c) ==
    LET populate[n \in BundlesOf(c)] ==
            Fill(Keys(c)[n], c.specs[n])
            \o Inner(c, n, populate)
    IN  populate[1]

\* Mutant: the outermost first.
SignOutermostFirst(c) ==
    LET sign[n \in BundlesOf(c)] ==
            (IF n \in ToSign(c)
             THEN <<Step("sign", Keys(c)[n], "exe"), Step("sign", Keys(c)[n], "bundle")>>
             ELSE <<>>)
            \o Inner(c, n, sign)
    IN  sign[1]

\* The innermost first: the executable of a bundle, then the bundle.
Sign(c) ==
    LET sign[n \in BundlesOf(c)] ==
            Inner(c, n, sign)
            \o (IF n \in ToSign(c)
                THEN <<Step("sign", Keys(c)[n], "exe"), Step("sign", Keys(c)[n], "bundle")>>
                ELSE <<>>)
    IN  sign[1]

Notarize == <<Step("zip", <<>>, "archive"), Step("submit", <<>>, "archive"),
              Step("staple", <<>>, "ticket")>>

-----------------------------------------------------------------------------
(* What the commands do to the bundle (external): files are pairs of a key   *)
(* and a name, stale are those of an earlier build, locked the keys whose     *)
(* MacOS directory is not writable, sealed the executables and bundles with   *)
(* a signature that covers their contents.                                  *)

Nothing == [files |-> {}, stale |-> {}, locked |-> {}, sealed |-> {}]

\* The signatures that a change of f breaks.
Broken(f, seals) == {s \in seals : s = f \/ (s[2] = "bundle" /\ IsPrefix(s[1], f[1]))}

Do(st, d) ==
    LET f == <<st.key, st.what>>
    IN  CASE st.do = "chmodAll" -> [d EXCEPT !.locked = {}]
          [] st.do = "rm"       -> Nothing
          [] st.do = "mkdir"    -> [d EXCEPT !.files = @ \cup {f}]
          [] st.do = "copy"     -> [d EXCEPT !.files = @ \cup {f}, !.stale = @ \ {f},
                                             !.sealed = @ \ Broken(f, @)]
          [] st.do = "chmod"    -> [d EXCEPT !.locked = IF st.what = "lock" THEN @ \cup {st.key} ELSE @]
          [] st.do = "sign"     -> [d EXCEPT !.sealed = (@ \ Broken(f, @)) \cup {f, <<st.key, "exe">>}]
          [] st.do = "staple"   -> [d EXCEPT !.files = @ \cup {f}]
          [] OTHER              -> d

\* Whether a command can work at all, in its place among the others.
Able(st) ==
    LET has(what) == <<st.key, what>> \in disk.files
    IN  CASE st.do = "rm"     -> disk.locked = {}
          [] st.do = "copy"   -> IF st.what = "exe" THEN has("MacOS") /\ st.key \notin disk.locked
                                 ELSE IF st.what \in {"icon", "extra"} THEN has("Resources")
                                 ELSE has("MacOS")
          [] st.do = "chmod"  -> has(IF st.what = "exe" THEN "exe" ELSE "MacOS")
          [] st.do = "sign"   -> has("exe") /\ (st.what = "bundle" => has("plist"))
          [] st.do = "submit" -> archive = "current"
          [] st.do = "staple" -> ticket = "current"
          [] OTHER            -> TRUE

\* An archive, or a ticket, of what was on disk before a step.
Aged(st, a) == IF st.do \in {"rm", "copy", "sign"} /\ a = "current" THEN "outdated" ELSE a

-----------------------------------------------------------------------------
Init ==
    /\ config \in Configs /\ notarize = FALSE
    /\ status = "idle" /\ todo = <<>> /\ log = "none"
    /\ disk = Nothing /\ archive = "none" /\ ticket = "none"

NotarizeIf(notary) == IF notary THEN Notarize ELSE <<>>

\* Mutant: an existing bundle is built upon.
StepsNoClean(c, notary) == Populate(c) \o Sign(c) \o NotarizeIf(notary)

\* Mutant: what is notarized is not signed yet.
StepsNotarizeFirst(c, notary) == Clean(c) \o Populate(c) \o NotarizeIf(notary) \o Sign(c)

\* Mutant: the profile is embedded last.
StepsProfileLast(c, notary) ==
    Clean(c) \o Populate(c) \o Sign(c) \o <<Step("copy", <<>>, "profile")>> \o NotarizeIf(notary)

Steps(c, notary) == Clean(c) \o Populate(c) \o Sign(c) \o NotarizeIf(notary)

\* Bundle.Steps is called, and its steps are run: if it returns an error,
\* because the bundle is not valid or because an icon or a profile is not
\* accessible, nothing changes.  Notarize, when it cannot create its archive,
\* returns a step that fails.
Build(c, notary) ==
    /\ status # "running" /\ Valid(c, notary)
    /\ config' = c /\ notarize' = notary
    /\ status' = "running" /\ log' = "none"
    /\ \/ todo' = Steps(c, notary)
       \/ notary /\ todo' = Steps(c, FALSE) \o <<Step("error", <<>>, "archive")>>
    /\ disk' = [disk EXCEPT !.stale = disk.files]
    /\ ticket' = "none" /\ archive' = "none"

\* StepRunner.Run: a step that succeeds.
RunStep ==
    /\ status = "running" /\ todo # <<>>
    /\ Able(Head(todo)) /\ Head(todo).do # "error"
    /\ disk' = Do(Head(todo), disk)
    /\ archive' = CASE Head(todo).do = "zip"    -> "current"
                    [] Head(todo).do = "submit" -> "none"
                    [] OTHER                    -> Aged(Head(todo), archive)
    /\ ticket' = IF Head(todo).do = "submit" THEN archive ELSE Aged(Head(todo), ticket)
    /\ todo' = Tail(todo) /\ log' = "nil"
    /\ UNCHANGED <<config, notarize, status>>

\* No step is left.
Return ==
    /\ status = "running" /\ todo = <<>>
    /\ status' = "stopped"
    /\ UNCHANGED <<config, notarize, todo, log, disk, archive, ticket>>

\* A step that fails, with or without effect, is logged and is the last one.
Fail ==
    /\ status = "running" /\ todo # <<>>
    /\ disk' \in {disk, Do(Head(todo), disk)}
    /\ archive' = IF Head(todo).do \in {"zip", "submit"} THEN "none" ELSE Aged(Head(todo), archive)
    /\ ticket' = Aged(Head(todo), ticket)
    /\ log' = "error"
    /\ status' = "stopped"
    /\ UNCHANGED <<config, notarize, todo>>

\* The tool is killed.
Killed ==
    /\ status = "running"
    /\ status' = "idle"
    /\ UNCHANGED <<config, notarize, todo, log, disk, archive, ticket>>

Next == RunStep \/ Return \/ Fail \/ Killed \/ \E c \in Configs, notary \in BOOLEAN : Build(c, notary)

Spec == Init /\ [][Next]_vars
-----------------------------------------------------------------------------
(* What the code must guarantee.                                           *)

\* RunResult.Error is nil.
Success == status = "stopped" /\ log # "error"

\* Nothing changes what a signature covers after it is made: a build that
\* reports success leaves every bundle and every executable that is to be
\* signed with a valid signature.
SignaturesAreFinal ==
    Success => \A n \in ToSign(config) : {Keys(config)[n]} \X {"exe", "bundle"} \subseteq disk.sealed

\* A build that reports success holds nothing of an earlier one, whatever that
\* one was and wherever it failed, and has all of its bundles.
OnlyThisBuild ==
    Success => /\ disk.stale = {}
               /\ {f[1] : f \in disk.files} = {Keys(config)[n] : n \in BundlesOf(config)}

\* A notarized build is stapled with the ticket of what is on disk, and leaves
\* no archive behind.
TicketIsCurrent ==
    Success /\ notarize =>
        <<<<>>, "ticket">> \in disk.files /\ ticket = "current" /\ archive = "none"

\* Seen from BundleBuild: a bundle is pending as long as a step that signs it
\* is to come.
AllBundles == 1..MaxBundles
Signs(n, what) == Step("sign", Keys(config)[n], what)
Coming(st) == \E i \in DOMAIN todo : todo[i] = st

stageBar ==
    CASE status = "idle"    -> "idle"
      [] status = "stopped" -> IF Success THEN "released" ELSE "idle"
      [] OTHER              -> IF \A n \in ToSign(config) : Coming(Signs(n, "exe"))
                               THEN "filling" ELSE "sealing"
insideBar ==
    [b \in AllBundles |-> IF b \in BundlesOf(config)
                          THEN {n \in BundlesOf(config) :
                                    IsStrictPrefix(Keys(config)[b], Keys(config)[n])}
                          ELSE {}]
toSignBar == ToSign(config)
pendingBar == {n \in ToSign(config) : Coming(Signs(n, "bundle"))}
sealedBar == {n \in BundlesOf(config) : <<Keys(config)[n], "bundle">> \in disk.sealed}

BuildOf ==
    INSTANCE BundleBuild WITH
        Bundles <- AllBundles, stage <- stageBar, inside <- insideBar, toSign <- toSignBar,
        pending <- pendingBar, sealed <- sealedBar

\* Signing works from the inside out: BundleBuild is implemented.
ImplementsBuild == BuildOf!Spec
=============================================================================
