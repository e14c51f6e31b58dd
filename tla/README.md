# A TLA+ model of go.macos

This directory holds the specification of the parts of `go.macos` whose
correctness depends on the order of events: what several goroutines,
processes, signals or failing commands can do to each other.  Line numbers are
those of the modelled commit; `PROJECT.json` maps every definition to them.

    tlc -workers 2 -config TartStrict.cfg MCTartInstance.tla
    tlapm TartInstanceProofs.tla

## 1. Inventory

| Part | Code | State | Operations | What is hard |
|---|---|---|---|---|
| Tart instance | `tartvm/tart.go` | `state`, `currentIP` under `stateMu`, `asyncWait` and the whole operation under `opMutex`; the VM and its `tart run` process, outside | Clone, Start, Stop, Suspend, Delete, Properties, Exec, State | every command can fail, time out or take effect although it failed; the guest can halt at any time; recovery from a failed Start; Properties bypasses `opMutex` |
| Tart provider | `tartvm/provider.go`, `tart_list.go` | none: the list of VMs belongs to tart | New, List, Get, Delete, Pull, SetResources | Delete works on a list that ages; one failure must not hide another |
| Launcher | `macosutils/launcher.go` | `launched`, `childCmd` under `mu`, `quitting` (atomic), signal channel of one | LaunchApp, TerminateLaunchedApp, RunApp | termination racing the start and the exit of the child; signals |
| Bundle lookup | `macosutils/bundle_util.go`, `bundle_info.go` | none | searches of the file system | - |
| Build steps | `buildtools/step.go`, `file.go`, `bundle.go`, `bundle_spec.go`, `sign.go`, `notary.go` | a list of steps; the bundle on disk; the channel of `WriteInfoPlistGitBuild` | Bundle.Steps, StepRunner.Run | signatures must follow every change of what they cover; failure at any step |
| Launch agent | `buildtools/launchd.go` | the plist on disk, the job in launchd | Install, Uninstall, Restart, Status | failure between bootout and bootstrap; a login in between |
| Packaging | `buildtools/pkgbuild.go`, `productbuild.go`, `install.go` | the build directory; the place of installation | staging, Build, Install, AppBundle.Install | what an earlier, failed run has left |
| Browser extensions | `buildtools/nativehelper.go`, `browser.go`, `safari.go` | helper, extension and manifests in the bundle; the directories that browsers search | AddNativeMessagingHelper, InstallNativeMessagingManifest, AddSafariWebExtension, SignSafariWebExtension | order of signing; manifests differ per browser |
| Configuration | rest of `buildtools` | none | formatting and validation of property lists, YAML, entitlements | dry runs |
| gobundle | `cmd/gobundle` | the binary, the bundle, the link between them; the temporary bundle of run | build, install, run | failure between two changes of the file system; the guess at where go leaves its output |
| Keychain | `keychain` | items in three keychains (external) | Read, Write, Update, Delete, SetProperties, Query | add-then-update and query-then-delete are not atomic; one keychain failing in a search |
| Keychain plugin | `keychain/plugin` | none: one process per request | ReadRequest, HandleRequest, SendResponse; FS, Query, SetProperties on the client | in-process fallback; a keychain only the plugin can see; errors that lose their kind on the way |
| Keychain commands | `cmd/cloudeng-keychain`, `cmd/cloudeng-aws-secrets` | one item that holds many keys | key-info set, delete and view; read, write, delete, query, set | read, change and write back is three steps |
| docker-entrypoint | `cmd/docker-entrypoint` | temporary seccomp profile; session keyring of a container | run, entrypoint, create-seccomp-profile | keys are written one by one; interrupts |
| machutils | `machutils` | the compiled Requirement and its finalizer | Verify, VerifyFile, EnsureParentProcessSafe, PeerPID, ... | every question is a system call of its own: processes exit and files are replaced in between |

What makes each part correct:

* **Instance** - no operation leaves an intermediate state behind; no VM keeps
  running behind a state that says it is down; Stop waits for the process that
  hosts the VM; an operation that returns nil did what it says (Stop and Suspend:
  or no VM is up); every operation returns; the address served is that of the current boot.
* **Provider** - nothing but its own VMs is touched; every listed VM is tried;
  the names returned are exactly those that its own commands have deleted.
* **Launcher** - one application at most; a requested shutdown is not a
  failure, any other failure is reported; a terminated or signalled application
  hears of it.
* **Build steps** - when the last step succeeds every signature covers the
  final contents; a failed build is reported as such and can be repeated.
* **Keychain** - each call takes effect once, as a whole, exactly if it says
  so; contents are only lost to those who delete or overwrite them; what is
  said not to exist did not; a query reports all that could be seen.
* **gobundle, launch agent, packages** - success means that the link, the job or
  the package is that of the new version; a repeated run repairs whatever a
  failed one left, and nothing of an earlier version passes for the new one; what a
  dry run rejects would have failed.
* **Commands and docker-entrypoint** - a key that was said to be set stays until
  someone asks for something else; a program starts with all of its keys or not at
  all; no temporary file is left without a word.
* **machutils** - a nil answer is about the process, the user and the file that
  it is meant to be about.

## 2. Modules

| Module | Role |
|---|---|
| `VMStates` | states, operations and the transition table of `cloudeng.io/vms`, as far as `tartvm` relies on them |
| `VMLifecycle` | abstract: what those who only see `State()` may rely on |
| `TartInstance` | detailed: one instance, its callers, tart and the VM |
| `MCTartInstance` | transition tables and symmetry for TLC |
| `TartInstanceProofs` | invariants of `TartInstance`, and that it implements `VMLifecycle`, proved |
| `TartProvider` | the machines of a host and the calls of `Provider.Delete` |
| `MCTartProvider` | a host for TLC |
| `TartProviderProofs` | safety of `TartProvider`, proved |
| `Launcher` | one `macosutils.Launcher`, its callers, the child and the signals |
| `BundleBuild` | abstract: what a build of nested bundles promises |
| `Bundle` | detailed: the steps of `Bundle.Steps`, run on a disk |
| `MCBundle` | configurations for TLC |
| `BundleProofs` | safety of `Bundle`, that it implements `BundleBuild`, and of that, proved |
| `ToolSteps` | what the steps of buildtools have in common: errors, dry runs, contexts |
| `BundleParts` | native messaging helper, manifests, Safari extension, installation |
| `LaunchAgent` | the steps of a launchd job and what they do |
| `Packages` | the steps that stage and build an installer package |
| `Toolchain` | composes the four: programs made of such steps, run again and again |
| `MCToolchain` | configurations for TLC |
| `ToolchainProofs` | safety of `Toolchain`, proved |
| `GoBundle` | `gobundle build`, `install` and `run` on one disk |
| `MCGoBundle` | command lines for TLC |
| `GoBundleProofs` | safety of `GoBundle`, proved |
| `KeychainItems` | items, requests, and what one does to the other |
| `Notes` | abstract: what a call of the keychain promises |
| `Keychain` | detailed: calls as sequences of system calls, with and without a plugin |
| `MCKeychain` | requests and keychains for TLC |
| `KeychainProofs` | `Keychain` implements `Notes`, what follows from `Notes`, and that what its answers say is true, proved |
| `Secrets` | the keys of one item, from `key-info` to the container's keyring |
| `MCSecrets` | constants for TLC |
| `SecretsProofs` | safety of `Secrets`, proved |
| `PeerCheck` | `Requirement`: its life, and the checks of peers and files |
| `ParentCheck` | `EnsureParentProcessSafe` |
| `MCIdentity` | composes the two for TLC; they share no state |
| `ProcessProofs` | safety of `Launcher`, `PeerCheck` and `ParentCheck`, proved |

### TartInstance

`state`, `currentIP`, `opMutex` and `asyncWait` are the fields of `Instance`.
A caller's `pc` names the step it is about to take; `op`, `prev`, `goal`,
`cmd`, `ip` and `err` are its locals (`goal` is the state that the deferred or
final `setState` will write, `err` says whether the error returned contains
one of the operation itself, of the run command, or both).  A critical section
of `stateMu` is one step and a tart command is another, so everything else
interleaves between them; `Enter`, `Settle`, `Publish`, `ClearIP` and `StoreIP`
are those sections.

`proc[b]` is the b-th `tart run` process (idle, launched, hosting the VM,
leaving after the VM went, exited without or with an error) and `disk` the VM
at rest.  Both are external and take steps of their own: a process boots the VM
some time after its launch (`Boot`), the guest halts (`GuestHalts`), a process
dies, crashing or killed by the cancellation of its context (`Dies`), or ends
(`Leaves`).  A wait with a backoff (`waitForTartState`, `verifyState`, the
address, the readiness probe) is one step that sees the wanted state or gives
up at any moment, which covers every timeout, cancellation and error of
`tart list`.  A command that fails may have taken effect, for its context may
kill it late.  Time is not modelled, nor are the texts of errors.

Properties is `NeedIP`, `FetchIP`, `StoreIP`; the cases in which it returns a
cached or empty address change nothing.  Exec and State change nothing either.

The table of allowed actions lives in another repository.  It is the constant
`Allowed`, of which `AllowedAssumption` states what the tests of `tartvm`
require, plus two facts the instance depends on: Start is not allowed while a
VM may be up (Running, ErrorUnknown), and nothing but Clone and Delete is in
Initial.

### VMLifecycle

Begin, Configure/Configuring (the `tart set` of a Clone), Settle, PowerUp and
PowerLoss.  The refinement mapping (`busyBar`, `fromBar`) takes an operation to
be in progress from the moment it wrote its intermediate state to the moment
it wrote the next one; `powered` is "a run process is live".  It thus says at
the same time which outcome each kind of operation has and that none of them
settles in a powered-down state while the VM is up.

### TartProvider

A Provider keeps nothing: `vms` is what tart knows of each name, and it is
external.  `pc`, `found` (the list that was read, with the state seen), `at`,
`names` and `errs` are the locals of a call of Delete; `failed` and `remover`
are history: whose command removed a machine, and for which names a command
failed.  `ReadList` is List (`tart list`, then the filter by prefix and source),
`NextVM` the head of the loop, and `StopVM`, `DeleteVM` the commands.  A command
that fails may have done its work before its context killed it: that machine is
gone and this call has removed it, but the code counts it as failed, and
`NamesAreExact` says so of exactly these.  Between any two steps `Host` acts:
instances start, stop and suspend their machines, `tart clone` (`New`, which stands
for an instance of `Provider.New` or anyone else) and Pull add some, others delete
some.  The names of machines are not reused:
it is up to the constructor that `Provider.New` calls to choose them, and with reuse "who
removed it" would have no meaning.

### Launcher

`launched`, `quitting` and `childCmd` are the fields of `Launcher`.  A call of
LaunchApp has its `pc` and its result `ret`, its signal channel (`notify`: it is
registered, `sigCh`: the one signal it holds) and its forwarding goroutine
(`fwd`, `inHand`).  A goroutine that terminates has `qpc`, the command it read
under `mu` (`target`) and its result (`found`).  A critical section of `mu` is
one step, so are the SIGTERM sent after it, the exit of the child seen by
`c.Wait` and the test of `quitting` that follows.  The deferred functions run in
the order of Go: `Clear`, then `Stop`.

`app[l]` (the child) and `got[l]` (the signals it was sent while it ran) are
external; `due[l]` remembers the signals received and not forwarded, which the
program does not.  The child ends by itself with or without an error, or is
killed by what it was sent.  A child that is killed because the context is done
is one that ends with an error.

### Bundle and BundleBuild

`Bundle` has the steps that `Bundle.Steps` makes of a configuration, as a
sequence of records, and the actions of those who run them: `Build` (Steps is
called, and is modelled whole, `Valid` included), `RunStep`, `Fail`, `Return`
(StepRunner.Run), `Killed`.  `log` is the error of the last entry of the
RunResult, so that `Success` is what callers conclude from it.  A build may
follow any other, on what that one has left.

Bundles are numbered and a nested one is found by its key, the sequence of names
that leads to it, as in the code; a key that extends another lies inside it.
`disk` is what the commands make of the bundle: its files, those that are
`stale` (of an earlier build), the directories that cannot be written (`locked`)
and the signatures that cover their contents (`sealed`).  `Do` is the effect of
a command, `Able` what it needs.  A command that fails has had its effect or
none.  What a file contains is not modelled, nor are modes other than "not
writable", arguments of codesign, or dry runs.

`ConfigsAssumption` says what configurations there may be: trees of at most
`MaxBundles` bundles, and, of those that `Valid` accepts, the ones that are `InOrder`:
of two bundles in one list, nothing in the first contains, or shares the place of,
anything in the second.  The code does not check that.  It is what `BundleSpec`
asks of its users (`bundle_spec.go:55`: `sub_bundles` are "in the order that they
are signed"): listed the other way, a bundle would be signed before what lies in it.
Bundles that `IsTree` describes are what the YAML of a `BundleSpec` can nest.

`BundleBuild` knows no steps: Begin, Fill, Prepare and Seal (a bundle's
executable, then the bundle, is signed), Release, Fail.  The refinement mapping
takes a bundle to be pending as long as a step that signs it is to come
(`pendingBar`), a build to be filling until the first executable has been signed
(`stageBar`), and what its key is a prefix of to be inside a bundle (`insideBar`).

### Toolchain

`ToolSteps` is what StepRunner and CommandRunner make of a step, whatever it
does: in a dry run only checks are executed (`Executes`), a context that is done
refuses what looks at it (`RefusedWhenDone`), `launchctlIgnoringError` drops an
error unless it is that of the context (`ErrorIgnored`).  `BundleParts`,
`LaunchAgent` and `Packages` each have the lists of steps that the code makes of
a configuration - an error step in place of what cannot be made, as in the code -
and what a step does (`...Done`), needs (`...Able`) and may leave when it fails
(`...Partly`).  These last three describe commands of macOS and are external.

`Toolchain` runs them.  `Begin` picks a flow of the tool, a version, and whether
it is a dry run; then `RunStep`, `RunStepIgnoringError`, `Fail`, `Return`, with
`Cancel`, `Killed` and `Login` at any time.  `world` is the disk and launchd and
survives from run to run.  `rejected` is history: the flows of which a dry run has
failed without being cancelled.  That a dry run changes nothing is a definition here
(`Executes`) and not a property; but it goes on to steps whose input is missing,
because the earlier ones did nothing, and each such step has to see that
(`install.go:86` asks for the bundle only if `!cmdRunner.DryRun()`).  `DryRunIsRight`
is about that.  The code leaves it to its callers to put steps in
order: `BuildSteps` follows the order that the comments of `buildtools` ask for
and that `example_test.go:95-166` shows.  `rsync` is taken to work through its
list in order.  Manifests are checked in dry runs too, for the step that
validates one runs no command.

Contents are known by the version they come from, a signature by the files it
covers: `Put` breaks every seal over the file, `Seal` every seal over the seal.

### GoBundle

One command line is run over and over (`cmd`), for one version of the source
after the other.  `pc` is the next step of `handleGoBuild`, `handleGoInstall` or
of the two processes of `run` (`handleGoRun`, `handleGoRunExec`); `binary`, `bundle` and `tmp` are what is on
disk, `left` what go left at a place where gobundle did not look.  The parsing of
arguments is modelled by what it does: `Named` and `FlagsEnd` with the tables
`Takes` (gobundle's) and `GoTakes` (go's), so that `Guessed` says whether
the two agree on the name of the output.  `RunArgs` is what `run` takes: at least one
argument, the first of them no flag, and `-exec` nowhere, not even among the
arguments of the program (`go_run.go:27`).  `through` covers what depends on
how go was built and on which file systems are involved: whether it replaces a
link in the place of its output or writes through it.  Clean, copy and sign are
the steps of `Bundle`, in three actions.

### Keychain, Notes and KeychainItems

Each client of `Keychain` makes one call after another: what it asks for is
`request[c]` (the operation, the service, and the `plugin.Config` that holds the
keychains, the account and the flags), how far the call is is `work[c]`.  `at` is the
system call that is next, `via` says whether a plugin process makes it, `list`
is what is left of the search list, `failed` and `found` are the keychains that
could not be searched and what was found, `err` the error to be returned.

| Operation | Code | Actions |
|---|---|---|
| any, until the first system call | `Config.FS`, `Query`, `SetProperties`, `locatePlugin`, refusals | `Start` |
| write | `WriteSecureNote` | `Add`, then `Update` if it is in place |
| update | `UpdateSecureNote` | `Update` |
| read | `ReadSecureNote` | `Look`, per keychain |
| delete | `DeleteSecureNote` | `Find`, `Remove` |
| set | `T.SetProperties` | `Alter` |
| query | `T.Query` | `Search`, per keychain |
| the answer | `handleWrite` to `SendResponse`, or a return | `Response`, `End` |

`items` is what the keychains hold.  They are external: a system call is atomic
and can fail (`Fail`, and in `Search` the keychain that is skipped), and other
clients run between two of them.  A program without the entitlement
`keychain-access-groups` has no access to the items of the data-protection and
iCloud keychains: `sight` is what the clients can see, and the plugin sees all.
`plugin` is what the search for it finds: nothing, a plugin, or something that
is not usable.  Neither changes, for both are installed software.  `End` stands
for the return and for a call that is killed at any point.

`steady` is a history variable: the attributes of the items a call is about
that have been there, unchanged, since it began.  With it the invariants say
what an answer that was put together from several moments may say: an item
reported as absent was not there all the time (`AbsenceIsReal`), a note is not
read from a keychain behind one that has had it all along (`FirstIsRead`), a
query misses only what came or went, or what is in a keychain that failed
(`QueryIsComplete`).

`Notes` knows no system calls.  A call is asked, takes effect in one step with
its answer (Create, Overwrite, Remove, Alter, Consult), or gets an error and
has no effect (Fail), and ends.  The refinement mapping `told` is what the caller
is told: nothing yet, success, one of the two errors a caller can recognise
(`fs.ErrExist`, `fs.ErrNotExist`), or another.  `Response` is where a plugin blurs
the errors: only those with a code of their own survive.  A call that is killed
gets no answer, and may have had its effect; nothing in the code tells.

Two assumptions say what the code relies on.  `RequestsAssumption`: those who
write name an account (the configurations default to the user's name), so that
an update is about one item.  `StoredAssumption`: the keychains start with no
two items under one key.  `TextAssumption` only names two strings.

`ReadSecureNote` gives up at the first keychain that fails, where `Query` skips
it.  The model has both.  What a read then says is an error, never that there
is no such note.

### Secrets

The middle of the module is `item`, the contents of one keychain item, which
`Notes` promises to read and write as a whole.  On one side are the commands
`key-info set` and `delete`: `ReadItem`, then `WriteItem`, which changes what was
read and not what is there.  The writing itself (`keyscmd.KeyWriter`) lives in
another repository and is modelled from how it is called: it reads, changes
one key and writes all, through a file system that refuses to overwrite an item
unless `--keychain-update-in-place` is given.  On the other side is
`docker-entrypoint`: on the host, `ReadKeys`, `WriteProfile`, `RunDocker`,
`DockerEnds`, `RemoveProfile`, which may fail (that is only printed: `warned`), and
`Interrupt`, which no deferred function survives; in the container, `ReadMessage`, `WriteKey` for one key after
the other in any order (the code ranges over a map), `Exec`.  The keyring is keyed by ID alone,
so that the keys of two owners with one ID collide: the model has that.

Two history variables say what may be relied on.  `acked` has the values of the keys
that commands have said they set, `late[c]` the keys set so since `c` read the item.
`AcknowledgedStay` says that such a value is in the item until the key is set or
deleted, the item is deleted, or a command writes in place what it had read before:
`Acknowledges` takes out of `acked` no more than that.  It rests on the moment at which
the keychain looks whether there is an item, which is that of the write: a command that
found none when it read must not replace the one that is there by then.

### PeerCheck, ParentCheck, MCIdentity

`PeerCheck` has one `Requirement` that goroutines share: `Compile`, `Close`, or
`Drop` and then, when nothing refers to it, `Finalize`.  `Refers` is what
`runtime.KeepAlive` makes of it.  A verification that is begun after `Close` is refused
(`Enter`); one that is in progress is not protected from `Close` by anything in the
code, so that `Close` waits for it here, as callers have to.  Each goroutine checks a
file, or accepts a connection and then asks for its audit token (`GetToken`) or, if
the kernel does not give one this time, its process ID (`GetPid`); without memory
for the attributes of a token the process ID is used after all (`FallBack`).  `by` is
what the code was looked up by in the end.  A process ID has a sequence of programs: it
exits and another process gets the ID, or it executes another program.  An audit token
names one of them, which is what Apple documents of it; with a process ID alone
`NilIsThePeer` claims nothing.

`ParentCheck` is `EnsureParentProcessSafe`, one action per system call, with
its failures.  The parent may exit at any time, its ID be given to a process of
any user before `GetParentUID` asks about it, the link that the helper was launched
through may be changed and the files replaced or removed.  `asked` says whose user was
read.  `OwnerStartedIt` is about a file that has not been replaced since the helper was
started; of one that has, the check reads the owner of what is there now.

`MCIdentity` runs one or the other.

## 3. Runs

| Run | Instance | Shows |
|---|---|---|
| `TartStrict` | 2 callers, 1 reader, 2 boots, the smallest table, `tart set` at Clone | no failure, timeout or guest exit leaves the instance half done, a VM running unseen or an operation waiting on the wrong process; nil means done; `VMLifecycle` is implemented |
| `TartLiveness` | the same with the largest table, the address obtained at start, fair, force stop reliable | every operation returns; the address served is that of the current boot |
| `TartStaleIP` | violation | Properties caches the address of an earlier boot |
| `TartProvider` | 2 machines with the prefix, 1 without, 2 calls of Delete, fair | the names returned are exactly those deleted; everyone is tried; nil means gone; Delete returns |
| `Launcher` | 2 launches, 2 quitters, 2 signals, fair | a shutdown is no failure, a failure is reported, a termination ends LaunchApp, a signal reaches the child |
| `Bundle` | 26 configurations of up to 3 bundles, any sequence of builds | success means signed, fresh and stapled; `BundleBuild` is implemented |
| `Toolchain` | 19 configurations, 3 runs of 2 versions, dry or not | success means built, signed and installed, a current agent, a current package; manifests are usable; a dry run rejects only what fails |
| `GoBundle` | 43 command lines, 3 runs of 2 versions | success means linked, current, signed and configured; only faults fail; run runs what is signed |
| `GoBundleLink` | violation | the link of a successful build may dangle |
| `Keychain` | 2 clients, 14 requests, 2 contents of the keychains, with a plugin, a broken one or none | what is said to be absent was; the first keychain wins; queries are complete; `Notes` is implemented |
| `Secrets` | 2 owners, 2 IDs, 2 tokens, 2 commands, 1 container | all keys or none; the profile is removed, or a message says that it is not; what was said to be set stays |
| `Identity` | 2 goroutines on 1 process ID; 2 users, 2 paths | a nil answer is about the peer, the parent and the executable meant; a Requirement in use is live |

**Bounds.** `MaxBoots`: the number of `tart run` processes of a behaviour.  Two
boots are enough to confuse a run with the one before it (`asyncWait`, the stale
address).  Two callers are enough for one to wait for the mutex while the
other works; more only queue.  When the boots are used up Start can only fail
at `cmd.Start`.  The proofs cover any number of both.

The launcher and the provider have no bound but the number of their callers: a
second is enough to race the first (`ProcessProofs` and `TartProviderProofs` cover
any number).  A name of the provider is made at most once and removed at most
once, and each caller may call Delete for ever.  Two machines make a list in
which the failure of one can hide the other.

Three bundles make every way in which two can lie in a third: nested, side by
side, one in the other but listed on its own (`MaxBundles` = 3; in `BundleProofs` any
number).  The number of builds is not
bounded: a build only remembers of earlier ones that what they left is stale.

`MaxRuns` = 3 in `Toolchain` and `GoBundle`: one run to leave something behind, one to
fail over it, one to repair.  Two versions are what it takes for the old one to
pass for the new.  The command lines of `MCGoBundle` have each flag that the
parsers treat differently, every kind of `-o`, `-exec` first and last, and configurations with and without
a path of the bundle and credentials.

Two clients of `Keychain` are what it takes for one to act between two steps of
the other.  The requests of `MCKeychain` cover every operation and refusals before
and by the plugin, with and without an account, the plugin and a type of "all";
the contents at first put items of one service into several keychains and
under several accounts, with a note, a document that is none, text, or nothing
in them.  Nothing else is bounded: clients call for ever.

A command of `Secrets` and a run each happen once, but the item may be deleted and
made any number of times in between.  `MaxVersion` = 2: a process ID that has a second and
a third owner; `MaxReplaced` = 1: a file that is replaced once, which is when
what is examined may not be what runs.

Deadlock is not checked in `Toolchain`, `GoBundle`, `Identity` and `Secrets`, which
stop when their bounds are used up.  It is in all other passing runs.

**Fairness.** In `TartInstance`, `Lock` is strongly fair: Go's mutex hands itself over to a
waiter that has starved for a millisecond.  The steps of a caller are weakly
fair: a goroutine that can run does run, a tart command returns, a backoff
expires.  `Leaves` is weakly fair: a `tart run` whose VM has gone ends.
Nothing makes a guest halt or a process boot.  Under these alone
`EveryCallReturns` does not hold: `runFailed` waits for the run command without
a bound (`tart.go:523`), so it needs `ForceStopReliable`, the assumption that the
`tart stop` of the recovery works.

For the launcher: goroutines that can run do run, and a child that was sent a
signal ends.  No call has to be made and no child has to start or end by
itself.  For the provider: the next step of a Delete that was begun is taken,
which is to say that every tart command ends; nothing on the host has to
happen, and nothing has to succeed.  `DeleteReturns` then says that no
sequence of failures and changes makes it loop.

**Violations.** Each one quotes, in `PROJECT.json`, the comment or help text that
the code contradicts.

## 4. Proofs

`TartInstanceProofs` proves for all `Callers`, `Readers`, `MaxBoots`, both
flags and any table that satisfies `AllowedAssumption`:

* `ControlInvariant`: `Control` - type correctness and the control skeleton:
  the caller whose `pc` is in `Locked` is the one that holds `opMutex`, and a
  `pc` determines which operations its caller may be running.  One lemma per
  action.  `TypeCorrect` is a corollary.
* `PowerInvariant`: `Power`, inductive together with `Control`.  `Calm`: with no
  operation begun, the state is not intermediate and a live process implies a
  powered state.  `PowerAt`: what is known at each step of the lock holder -
  for instance that from `awaitStopped` on no process is live if `goal` is
  powered down.  `Launching`: a process not yet hosting belongs to the Start
  in progress, which is what makes a late boot impossible after the operation
  is over.
* `SettledAlways`, `NoOrphanAlways`, `RunningIsWatchedAlways` follow.  None of the
  three is inductive: they say nothing of an operation in progress, and what
  makes them true at its end is what `PowerAt` says on the way.
* `NilMeansDoneAlways`, from `Earned`: whenever a step has gone wrong there is an
  error to return, and what is about to be written without one is the target or,
  for Stop and Suspend, what `tart list` has shown.  That no process is left then
  needs `Watched`: but for the one of a Start in progress, the process that
  `asyncWait` stands for is the only one there can be, so that once it has been
  waited for there is none.
* `AddressIsCurrentAlways`, from `AddressKnown`: with the address found at start
  no reader fetches one, and what Start publishes comes from the process that is
  about to be watched.
* `AtRestAlways`, from `Rest`: at each step of the lock holder the disk fits the
  state that the operation may go back to or is about to write.  It takes one
  hypothesis more, that the table does not allow Clone in Deleted: no table of the
  runs does, and that of `cloudeng.io/vms` is not part of this repository.  With a
  table that did, a clone that was killed after it took effect would go back to
  Deleted with the machine on the disk.

The last part adds `Ends` (where an operation may settle, given where
it started) and proves `Implementation`: the initial states map to initial
states and each step maps to a step of `VMLifecycle` or a stutter, one lemma
per group of actions.

`ProcessProofs` proves of `Launcher` `QuitIsNoFailure`, `ChildIsWaitedFor` and
`FailureIsReported`, and two that no run checks (`OneApp`: one application at
most; `QuittingNeedsApp`), for any callers and signals from
`Inv`: one call claims the launcher (`OneClaim`), the step it has reached says
what has become of its application (`AppFollowsCall`), a quit comes from a
goroutine that has set `quitting` (`QuitIsAsked`) and a nil result is that of an
application that ended well or was asked to end (`NilIsEarned`).  One lemma per
kind of actor.

`BundleProofs` proves `SignaturesAreFinal`, `OnlyThisBuild` and `TicketIsCurrent` of
`Bundle`, and `BuildRefinement`, that it implements `BundleBuild`, from
`ConfigsAssumption` alone: for trees of bundles of any size, with any paths.

The steps of a build are put together by recursion over the tree, and nothing can be
said of them before it is known that there are such functions.  The prover's library
has no induction that could be used here, but it has that `<` is well-founded:
`LeastNat` is that, and `DownTheTree` and `UpTheTree` are the two inductions over a
tree of bundles, stated with a set in the place of a predicate.  `Recursion` gives
the existence of any function whose value at a bundle depends on those at bundles
of a smaller measure, `StepsAreMade` applies it to `populate` and `sign`, and
`FlattenSeqIs` and `FlattenSeqHas` do the same for the concatenation of lists.

With that, `PopulateIs` says that populate makes every bundle and adds only to bundles of
the configuration, and `SignIs` that sign signs every bundle that is to be signed,
`InsideOut`: of two steps, the later one is no repetition, and not in a bundle that the
earlier one has signed.  It follows from `KeysGrow` (a bundle is deeper than what it
is nested in), `KeysDiffer` (no two are in one place) and `InOrder`.

The invariant `Inv` says at which phase (`AtPhase`) a running build is: the rest of
the removal, of populate, of sign or of the notarization.  `Filled` goes with populate:
nothing of an earlier build is left, and each bundle is there or made by a step to come.
`Signed` goes with sign: each bundle is signed by a step to come, or is signed now and
left alone by all of them.  The last is what makes it inductive; that
signatures are valid at the end says nothing of the steps that could still break one.
`PhaseActs` says what a step means for the signatures, and each of its four cases is an
action of `BundleBuild` or a stutter.

The last part proves `ReleasedIsSealed` of `BundleBuild`, for any bundles and any
relation `inside`.  `SealedInsideOut` is why: a bundle that has been signed contains
none that is still to be signed, so signing another breaks no signature already made.
It does not even take `inside` to be a partial order, for a bundle that contained
itself could never be signed.

`TartProviderProofs` proves `NamesAreExact`, `EveryoneIsTried` and `NilMeansGone`
for any names, any finite set with the prefix and any callers.  The invariant
has three parts.  `RemovedIsGone`: what has a remover is gone.  `OwnNames`: a
call's names were removed by it, each once.  `Progress`: the machines before
`at` are handled, those from `at` on are not, and the list has no name twice.
`EveryoneIsTried` and `NilMeansGone` follow at the end of the list; without
`OwnNames` the second could not know that a machine it once deleted stays away.
`NamesAreExact` needs one thing more, `Apart`: the list has no name twice, so that the
machine whose turn it is has been dealt with by no earlier turn, and is never both
among the names and among the failures.

`KeychainProofs` first proves of the abstract store that no two items ever get
the same key (`NotesInvariance`) and `OnlyAskedLosses`: contents disappear only at the
hand of a client that is deleting or overwriting that very item.  New properties lose
nothing, because two items that would get the same key stop the change.

It then proves `Refinement`, that `Keychain` implements `Notes`, for any
clients, requests, contents and plugins.  The invariant ties the step of a call
to its request (`WorkAt`): only a write in place reaches `Update` after `Add`, what
`Remove` is about to delete is what the request names, what `Alter` writes has
been validated for the keychain it is written to.  The facts about items that
the steps need - for instance that an account singles out one item - are the
lemmas it begins with.  `OnlyAskedLossesAlways` carries the promise of `Notes` over to
`Keychain`.  The assumptions are those named above; there
is none about which system calls succeed.

It also proves `AbsenceIsReal`, `FirstIsRead` and `QueryIsComplete`.  `Observed` is what
a call knows of the items in `steady` before it answers: those it has not come
to yet are in the keychains it has still to look in.  A list is what is left of
a search list (`Suffixes`), which is why a keychain that has been passed excludes
its items for good.  Other clients can only take items out of `steady` (`Waits`),
and what is said there holds of any smaller set.

`ToolchainProofs` proves the five properties of `Toolchain` for any configurations of
the three kinds of programs (`ConfigsAssumption` says only what types the fields have),
any versions and any number of runs.

* `DryRunIsRight`: a dry run fails only of a check, and what a check finds does not
  depend on the disk but on the configuration (`RefusesAlways`), so that the flow has
  on its list a step which is refused in any run (`Impossible`).  A real run that has
  not come to this step yet has it among the steps to come, and never gets past it.
* `AgentIsCurrent`: `InstallKnows` says, for each list of steps that an installation may
  have left, what is on disk and in launchd by then.  Nothing is known of what
  launchd has loaded before the old job is out of the way, which is why the order of
  the steps matters.
* `PackageIsCurrent`: `PackageKnows`.  While anything is staged there is no package
  (`StagedFirst`): the list of steps is one of staging followed by one of building,
  whatever the configuration.
* `ManifestsAreUsable`: `Checked` - every step that writes a manifest for a browser is
  preceded by one that fails unless that browser takes it - is closed under
  concatenation and under taking the tail, so it holds of all that is put together
  from such lists, for any list of browsers.  No manifest that a browser would refuse
  is ever written.
* `InstalledIsBuilt`: `BundleKnows` follows an installing build through three
  phases.  `Adds`: what is to be in the bundle is there in this version, or a step
  that puts it there is to come, or a step that fails.  `Sealing`: what is not signed
  is still to be signed, and `InsideOut`: after each signature come those of all that
  contains what it is on.  `Moved`: the copy is the original.

These lists are made by recursion (`FlattenSeq`).  `FlattenSeqClosed` is the induction
over them, on sets instead of operators: whatever set of sequences is closed under
concatenation contains what is put together from its members.  It is proved from
`LeastNat`.

`GoBundleProofs` proves `BuiltIsLinked`, `OnlyFaultsFail` and `RunIsSigned` for any
command lines, versions and number of runs; at least one version there must be.
`GoInv` says what is known at each step: what lies in the place of the output and
what it leads to (`BuildKnows`), and what is in the temporary directory (`RunKnows`).
That go has written to its output is only known where gobundle's guess agrees with
go's (`Guessed`), and that the link leads there only where `LinkLeads`.

`SecretsProofs` proves `AcknowledgedStay`, `AllKeysOrNone` and
`ProfileIsRemoved` for any owners, keys, commands and runs.  `SeenIsLate`: what a command
is about to write has every value in `acked` but those set since it has read the item;
a write that is not in place is the first of its item, of which nothing is known then.  `Filled`: the keyring holds
what has been written of the message so far, under names that several keys may share,
and the program starts when nothing is left.  `Order`: the message is complete before
the container is started, which is started once.

`ProcessProofs` also proves the four properties of machutils, for any processes,
goroutines, users and paths, without the bounds of the runs: `MaxVersion` and `MaxReplaced` are any
numbers.  `Held`: a Requirement that someone holds has not been released, and a verification
that uses it is one that `Refers` to it.  `Recorded`: the program that the kernel has
recorded for a connection ran under a version that is not used again, so that the
version determines the program.  `ParentUser` ties the UID that was read to whoever was
asked; `Examined` says that a path gets a file with a later number, or none, so that
what was examined is the file that runs if that has not been replaced (`OwnerStartedIt`).

`TypeOK` of `TartInstance`, `TartProvider`, `Launcher` and `KeychainItems` is proved with
these invariants and for that reason not part of the runs.

Every safety property of the runs is proved.  Model-checked only: liveness (`EveryCallReturns`
and the others of section 3 that assume fairness), which is out of the prover's reach.

## 5. What the code does that may surprise

Two of these are runs (`TartStaleIP`, `GoBundleLink`).  The models have the others
too, and no property denies them.

* Clone stays in Cloning until the resources are set, says the comment at
  `tart.go:375`; but `tart set` runs with Stopped as its intermediate state
  (`tart.go:391`), and that is what State() returns meanwhile.
* Suspend returns nil although the VM has ended in ErrorUnknown (`tart.go:608`).
* A failed resume goes back to Suspended (`tart.go:533`), though tart may have
  used up the snapshot.
* The recovery of a failed Start waits for the run command without a bound
  (`tart.go:523`): if the forced stop fails too, the instance is blocked.
* A child that has been started and not yet published is not found by
  TerminateLaunchedApp (`launcher.go:128`).
* LaunchAgent.Uninstall drops every error of bootout, not only that of a job
  that is not loaded (`launchd.go:195`).
* The second gobundle of `gobundle run` is not told about `--config`
  (`go_run.go:33`), and `gobundle run pkg -exec` is refused although that `-exec` is the
  program's (`go_run.go:27`); `gobundle install -tags t pkg` takes the flag's argument for a package.
* docker-entrypoint drops "run" and "-i" from the container's own arguments as
  well (`docker_host.go:53-59`), only prints that the temporary profile could not be
  removed (`docker_host.go:48`), leaves the temporary profile when its writing fails
  (`seccomp.go:38`), and puts keys of two owners with one ID under one name
  (`docker_linux_container.go:69`).
* Requirement.Verify falls back to the process ID, with all its reuse, whenever the
  token cannot be had or used (`peercodesign.go:83`, `:299`), and does not say so;
  Close during a verification is left to callers (`peercodesign.go:252`).
* GetParentUID asks about a process ID that may belong to someone else by then
  (`getpid.go:30`).
* Two `key-info set` with update-in-place at the same time lose one of the two
  changes.

## 6. Not modelled, or without a property

* What formats, parses or computes: property lists, YAML, entitlements, versions,
  manifests' texts, extension IDs, the seccomp document, the encoding of plugin
  messages.  They have no state, and no order of events to get wrong.
* What hands one command line to one of Apple's tools, or asks the system one
  question: swift, SIP, security, lipo, spctl, bundle lookup, Entitlements, IsSandboxed,
  SelfRequirementString.
* WriteInfoPlistGitBuild with the steps that callers may leave out or repeat:
  the channel between the hash step and the plist step is used in the one
  order that `Bundle.Steps` makes.
* Plugins older than their client, and where a plugin is looked for: `plugin`
  is the outcome of that search.
* A launcher whose start failed refuses a second attempt as already launched
  (`launcher.go:126`): the model has it, and no property speaks of it; nor of the
  archive that a build leaves behind when it fails before it is removed
  (`notary.go:78`), or of a caller of a plugin that is killed after it changed the
  keychain (`plugin_darwin.go:472`), whose error cannot tell.
* Exec of an instance: it reads the state, then runs a command in the guest,
  and changes nothing.
* How configuration files of gobundle are merged, and the quoting of arguments.
