----------------------------- MODULE ParentCheck -----------------------------
(***************************************************************************)
(* machutils.EnsureParentProcessSafe: a helper process, the keychain plugin, *)
(* asks the kernel who has started it and what it is running.  Each question *)
(* is a system call of its own: in between the parent may exit, and the      *)
(* helper be given to launchd, and an installation may replace the files.    *)
(***************************************************************************)
EXTENDS Naturals

CONSTANTS
    Users,      \* user IDs
    Root,       \* launchd's
    Paths,      \* of versions of the helper
    MaxReplaced \* bound: how often a file is replaced

ASSUME UsersAssumption == Root \in Users
ASSUME MaxReplacedAssumption == MaxReplaced \in Nat

VARIABLES
    orphaned,   \* whether the parent has exited
    starter,    \* its user ID
    self,       \* the user ID of the helper
    effective,  \* and its effective user ID
    files,      \* what is at each path, and for the how manieth time
    link,       \* the path that the symbolic link it is launched through names
    running,    \* the path and the file that the kernel runs
    at,         \* where the check is
    asked,      \* whose ID GetParentUID asks about: "starter", "launchd" or "another"
    parentUID,  \* the answer
    path,       \* ExecutablePath
    info,       \* os.Stat of it
    result      \* "none", "nil" or "error"

parentVars == <<orphaned, starter, self, effective, files, link, running, at,
                asked, parentUID, path, info, result>>
helper == <<starter, self, effective, running>>
read == <<at, asked, parentUID, path, info, result>>

\* "shared" stands for the write and execute permissions of group and others.
Modes == {"private", "shared", "setuid"}
Files == [there : BOOLEAN, copy : 0..MaxReplaced, owner : Users, mode : Modes]

ParentInit ==
    /\ orphaned = FALSE /\ starter \in Users /\ self \in Users
    /\ files \in [Paths -> {f \in Files : f.there /\ f.copy = 0}]
    /\ link \in Paths
    /\ running = [path |-> link, file |-> files[link]]
    /\ effective = IF running.file.mode = "setuid" THEN running.file.owner ELSE self
    /\ at = "orphan" /\ asked = "nobody" /\ parentUID = Root
    /\ path = link /\ info = files[link] /\ result = "none"
-----------------------------------------------------------------------------
(* The check.                                                              *)

Fails ==
    /\ result' = "error" /\ at' = "done"
    /\ UNCHANGED <<orphaned, helper, files, link, asked, parentUID, path, info>>

CheckOrphan ==
    /\ at = "orphan" /\ ~orphaned /\ at' = "parent"
    /\ UNCHANGED <<orphaned, helper, files, link, asked, parentUID, path, info, result>>

IsOrphan == at = "orphan" /\ orphaned /\ Fails

\* os.Getppid, once more.
GetParent ==
    /\ at = "parent" /\ at' = "uid"
    /\ asked' = IF orphaned THEN "launchd" ELSE "starter"
    /\ UNCHANGED <<orphaned, helper, files, link, parentUID, path, info, result>>

\* SysctlKinfoProc: the kernel knows the user of a process that has exited until
\* it is waited for. After that the ID may be that of a new process of any user.
GetParentUID ==
    /\ at = "uid" /\ at' = "path"
    /\ \/ asked' = asked /\ parentUID' = IF asked = "launchd" THEN Root ELSE starter
       \/ asked = "starter" /\ orphaned /\ asked' = "another" /\ parentUID' \in Users
    /\ UNCHANGED <<orphaned, helper, files, link, path, info, result>>

ParentUIDFails == at = "uid" /\ asked = "starter" /\ orphaned /\ Fails

\* Mutant: os.Executable is the path that the helper was launched through.
ExecutablePathLaunched ==
    /\ at = "path" /\ at' = "stat"
    /\ path' = link
    /\ UNCHANGED <<orphaned, helper, files, link, asked, parentUID, info, result>>

\* The kernel has a path as long as the file that it runs has one.
ExecutablePath ==
    /\ at = "path" /\ files[running.path] = running.file /\ at' = "stat"
    /\ path' = running.path
    /\ UNCHANGED <<orphaned, helper, files, link, asked, parentUID, info, result>>

ExecutablePathFails == at = "path" /\ files[running.path] # running.file /\ Fails

Stat ==
    /\ at = "stat" /\ files[path].there /\ at' = "compare"
    /\ info' = files[path]
    /\ UNCHANGED <<orphaned, helper, files, link, asked, parentUID, path, result>>

StatFails == at = "stat" /\ ~files[path].there /\ Fails

\* Mutant: the helper's own user is not compared with the owner.
IsSafeParent ==
    /\ info.mode = "private"
    /\ parentUID = info.owner
    /\ effective = self

IsSafe ==
    /\ info.mode = "private"
    /\ parentUID = info.owner /\ self = info.owner
    /\ effective = self

Compare ==
    /\ at = "compare" /\ at' = "done"
    /\ result' = IF IsSafe THEN "nil" ELSE "error"
    /\ UNCHANGED <<orphaned, helper, files, link, asked, parentUID, path, info>>
-----------------------------------------------------------------------------
(* The host.                                                               *)

ParentExits ==
    /\ ~orphaned /\ orphaned' = TRUE
    /\ UNCHANGED <<helper, files, link, read>>

Retarget ==
    /\ \E p \in Paths \ {link} : link' = p
    /\ UNCHANGED <<orphaned, helper, files, read>>

Install(p) ==
    /\ files[p].copy < MaxReplaced
    /\ \E o \in Users, m \in Modes :
         files' = [files EXCEPT ![p] = [there |-> TRUE, copy |-> @.copy + 1, owner |-> o, mode |-> m]]
    /\ UNCHANGED <<orphaned, helper, link, read>>

Uninstall(p) ==
    /\ files[p].there /\ files' = [files EXCEPT ![p].there = FALSE]
    /\ UNCHANGED <<orphaned, helper, link, read>>

EnsureParentProcessSafe ==
    \/ CheckOrphan \/ IsOrphan \/ GetParent \/ GetParentUID \/ ParentUIDFails
    \/ ExecutablePath \/ ExecutablePathFails \/ Stat \/ StatFails \/ Compare

ParentNext ==
    \/ EnsureParentProcessSafe
    \/ ParentExits \/ Retarget \/ \E p \in Paths : Install(p) \/ Uninstall(p)
-----------------------------------------------------------------------------
\* A helper that is told that its parent is safe runs as the user who has
\* started it, even if the parent exits during the check: for a parent that has
\* not, self is its starter, and of one that has, what is read in its place is
\* the user of launchd, which only a helper of root's own agrees with, or of a
\* process that has got its ID between Getppid and the lookup.
SafeMeansOneUser ==
    result = "nil" =>
        /\ effective = self
        /\ \/ self = starter
           \/ orphaned /\ (asked = "another" \/ (asked = "launchd" /\ self = Root))

\* What the comment promises of the checks: a helper that is told so is, unless
\* its file has been replaced since it was started, run by the owner of that
\* very file, who has started it, and nobody else can modify or run it, whatever
\* the link it was launched through leads to by now.
OwnerStartedIt ==
    result = "nil" /\ files[running.path] = running.file =>
        /\ running.file.owner = self /\ running.file.mode = "private"
        /\ asked = "starter" => running.file.owner = starter
=============================================================================
