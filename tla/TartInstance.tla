---------------------------- MODULE TartInstance ----------------------------
(***************************************************************************)
(* src/tartvm/tart.go: one tartvm.Instance, called by several goroutines.  *)
(*                                                                         *)
(* Callers run Clone, Start, Stop, Suspend and Delete, which opMutex       *)
(* serialises; Readers run Properties, which takes stateMu only.  A stateMu *)
(* section is one step, a tart command another, and the VM, the `tart run` *)
(* processes and `tart list` (external) take steps of their own between    *)
(* them.  `tart run` number b hosts the VM while proc[b] = "hosting"; the  *)
(* guest's address during that boot is b, and 0 is the empty address.      *)
(***************************************************************************)
EXTENDS VMStates, FiniteSets

CONSTANTS
    Callers, Readers,
    Nobody,             \* opMutex is free
    MaxBoots,           \* bound: `tart run` processes per behaviour
    IPAtStart,          \* WithObtainIPAtStart
    ForceStopReliable   \* the force stop of error recovery never fails

ASSUME CallersAssumption == Nobody \notin Callers
ASSUME BootsAssumption == MaxBoots \in Nat
ASSUME FlagsAssumption == IPAtStart \in BOOLEAN /\ ForceStopReliable \in BOOLEAN

VARIABLES
    state, currentIP,       \* guarded by stateMu
    opMutex, asyncWait,     \* asyncWait: the run command waited on, 0 = nil
    pc, op, prev, goal,     \* per caller: step, operation, saved/next state
    cmd, ip, err,           \* per caller: run command, address, errors
    rpc, rip,               \* per reader: step, fetched address
    proc, disk              \* external: run processes, VM at rest

callVars == <<op, prev, goal, cmd, ip, err>>
readVars == <<rpc, rip>>
tartVars == <<proc, disk>>
vars == <<state, currentIP, opMutex, asyncWait, pc, callVars, readVars, tartVars>>

Boots == 1..MaxBoots
Locked == {"check", "enter", "command", "launch", "awaitRunning", "address",
           "ready", "publish", "forceStop", "reap", "awaitStopped", "handle", "stopVM",
           "drain", "verify", "settle", "setFailed", "clearIP", "unlock"}

TypeOK ==
    /\ state \in States
    /\ currentIP \in {0} \cup Boots
    /\ opMutex \in Callers \cup {Nobody}
    /\ asyncWait \in {0} \cup Boots
    /\ pc \in [Callers -> {"idle", "lock"} \cup Locked]
    /\ op \in [Callers -> Ops \cup {"none"}]
    /\ prev \in [Callers -> States]
    /\ goal \in [Callers -> States]
    /\ cmd \in [Callers -> {0} \cup Boots]
    /\ ip \in [Callers -> {0} \cup Boots]
    /\ err \in [Callers -> SUBSET {"run", "op"}]
    /\ rpc \in [Readers -> {"idle", "fetch", "store"}]
    /\ rip \in [Readers -> {0} \cup Boots]
    /\ proc \in [Boots -> {"idle", "launched", "hosting", "leaving",
                       "exited", "failed"}]
    /\ disk \in {"absent", "stopped", "suspended"}

\* New.
Init ==
    /\ state = "Initial" /\ currentIP = 0
    /\ opMutex = Nobody /\ asyncWait = 0
    /\ pc = [c \in Callers |-> "idle"]
    /\ op = [c \in Callers |-> "none"]
    /\ prev = [c \in Callers |-> "Initial"]
    /\ goal = [c \in Callers |-> "Initial"]
    /\ cmd = [c \in Callers |-> 0]
    /\ ip = [c \in Callers |-> 0]
    /\ err = [c \in Callers |-> {}]
    /\ rpc = [r \in Readers |-> "idle"]
    /\ rip = [r \in Readers |-> 0]
    /\ proc = [b \in Boots |-> "idle"]
    /\ disk = "absent"

-----------------------------------------------------------------------------
(* tart, external: what `tart list` shows and what the commands do.        *)

Hosting == {b \in Boots : proc[b] = "hosting"}
Live    == {b \in Boots : proc[b] \in {"launched", "hosting"}}
Ended   == {"exited", "failed"}
RunErr(b) == IF proc[b] = "failed" THEN {"run"} ELSE {}

\* getStateUsingList: an absent VM is an error, never a match.
TartState == IF Hosting # {} THEN "running" ELSE disk

\* The hosting process, if any, loses its VM.
PowerOff == proc' = [b \in Boots |-> IF b \in Hosting THEN "leaving" ELSE proc[b]]

\* A launched `tart run` boots or resumes the VM, consuming any snapshot.
Boot(b) ==
    /\ proc[b] = "launched" /\ Hosting = {} /\ disk # "absent"
    /\ proc' = [proc EXCEPT ![b] = "hosting"]
    /\ disk' = "stopped"
    /\ UNCHANGED <<state, currentIP, opMutex, asyncWait, pc, callVars, readVars>>

\* The guest shuts itself down.
GuestHalts ==
    /\ Hosting # {}
    /\ PowerOff
    /\ UNCHANGED <<state, currentIP, opMutex, asyncWait, pc, callVars, readVars, disk>>

\* The run process fails: killed by the cancellation of Start's context, a
\* crash, or a refusal to run.
Dies(b) ==
    /\ b \in Live
    /\ proc' = [proc EXCEPT ![b] = "failed"]
    /\ UNCHANGED <<state, currentIP, opMutex, asyncWait, pc, callVars, readVars, disk>>

\* A run process whose VM has gone ends by itself, with or without an error.
Leaves(b) ==
    /\ proc[b] = "leaving"
    /\ \E s \in Ended : proc' = [proc EXCEPT ![b] = s]
    /\ UNCHANGED <<state, currentIP, opMutex, asyncWait, pc, callVars, readVars, disk>>

Tart == GuestHalts \/ \E b \in Boots : Boot(b) \/ Dies(b) \/ Leaves(b)

-----------------------------------------------------------------------------
(* Taking the lock, the action check and the intermediate state.           *)

Goto(c, step) == pc' = [pc EXCEPT ![c] = step]

Call(c, o) ==
    /\ pc[c] = "idle"
    /\ Goto(c, "lock")
    /\ op' = [op EXCEPT ![c] = o]
    /\ UNCHANGED <<state, currentIP, opMutex, asyncWait, prev, goal, cmd, ip, err,
                   readVars, tartVars>>

Lock(c) ==
    /\ pc[c] = "lock" /\ opMutex = Nobody
    /\ opMutex' = c
    /\ Goto(c, "check")
    /\ UNCHANGED <<state, currentIP, asyncWait, callVars, readVars, tartVars>>

\* Mutant: a refused operation returns without unlocking opMutex.
CheckKeepsLock(c) ==
    /\ pc[c] = "check"
    /\ \/ Action(op[c]) \in Allowed[state] /\ Goto(c, "enter")
       \/ Action(op[c]) \notin Allowed[state] /\ Goto(c, "idle")
    /\ UNCHANGED <<state, currentIP, opMutex, asyncWait, callVars, readVars, tartVars>>

\* isActionAllowed, with the caller's early return.
Check(c) ==
    /\ pc[c] = "check"
    /\ \/ /\ Action(op[c]) \in Allowed[state]
          /\ Goto(c, "enter")
          /\ UNCHANGED err
       \/ /\ Action(op[c]) \notin Allowed[state]
          /\ err' = [err EXCEPT ![c] = {"op"}]
          /\ Goto(c, CASE op[c] = "Stop" -> "clearIP"
                       [] op[c] = "Set"  -> "setFailed"
                       [] OTHER          -> "unlock")
    /\ UNCHANGED <<state, currentIP, opMutex, asyncWait, op, prev, goal, cmd, ip,
                   readVars, tartVars>>

\* prev := setState(intermediate)
Enter(c) ==
    /\ pc[c] = "enter"
    /\ prev' = [prev EXCEPT ![c] = state]
    /\ state' = Intermediate[op[c]]
    /\ goal' = [goal EXCEPT ![c] = Target[op[c]]]
    /\ \/ op[c] = "Start" /\ Goto(c, "launch")
       \/ op[c] \in {"Clone", "Set", "Delete"} /\ Goto(c, "command")
       \/ /\ op[c] \in {"Stop", "Suspend"}
          /\ Goto(c, IF state = Target[op[c]] THEN "settle" ELSE "handle")
    /\ UNCHANGED <<currentIP, opMutex, asyncWait, op, cmd, ip, err, readVars, tartVars>>

-----------------------------------------------------------------------------
(* runSyncExclusive: Clone, its `tart set`, and Delete.                    *)

\* The VM at rest after the command took effect.
Effect(o) == CASE o = "Clone" -> "stopped" [] o = "Delete" -> "absent" [] OTHER -> disk

\* `tart set` and `tart delete` need an existing VM, and none of the three
\* works on a running one.
CommandPossible(o) == Hosting = {} /\ (o # "Clone" => disk # "absent")

\* Mutant: the state after a failed command is that of a successful one.
CommandForgetsPrev(c) ==
    /\ pc[c] = "command"
    /\ \/ /\ CommandPossible(op[c])
          /\ disk' = Effect(op[c])
          /\ UNCHANGED err
       \/ /\ disk' \in {disk} \cup IF CommandPossible(op[c]) THEN {Effect(op[c])} ELSE {}
          /\ err' = [err EXCEPT ![c] = {"op"}]
    /\ Goto(c, "settle")
    /\ UNCHANGED <<state, currentIP, opMutex, asyncWait, op, prev, goal, cmd, ip, readVars, proc>>

\* A command that fails may still have taken effect (killed by its context).
Command(c) ==
    /\ pc[c] = "command"
    /\ \/ /\ CommandPossible(op[c])
          /\ disk' = Effect(op[c])
          /\ UNCHANGED <<goal, err>>
       \/ /\ disk' \in {disk} \cup IF CommandPossible(op[c]) THEN {Effect(op[c])} ELSE {}
          /\ goal' = [goal EXCEPT ![c] = prev[c]]
          /\ err' = [err EXCEPT ![c] = {"op"}]
    /\ Goto(c, "settle")
    /\ UNCHANGED <<state, currentIP, opMutex, asyncWait, op, prev, cmd, ip, readVars, proc>>

\* Mutant: a failed command leaves the intermediate state in place.
SettleNoRevert(c) ==
    /\ pc[c] = "settle"
    /\ state' = IF err[c] = {} THEN goal[c] ELSE state
    /\ Goto(c, IF op[c] = "Stop" THEN "clearIP" ELSE "unlock")
    /\ UNCHANGED <<currentIP, opMutex, asyncWait, callVars, readVars, tartVars>>

\* setState(prev), setState(target) or setState(StateErrorUnknown), and where
\* the operation goes next.
Settle(c) ==
    /\ pc[c] = "settle"
    /\ state' = goal[c]
    /\ IF op[c] = "Clone" /\ SetResources /\ err[c] = {}
       THEN op' = [op EXCEPT ![c] = "Set"] /\ Goto(c, "check")
       ELSE /\ UNCHANGED op
            /\ Goto(c, CASE op[c] = "Stop"                    -> "clearIP"
                         [] op[c] = "Set" /\ err[c] # {}      -> "setFailed"
                         [] OTHER                             -> "unlock")
    /\ UNCHANGED <<currentIP, opMutex, asyncWait, prev, goal, cmd, ip, err,
                   readVars, tartVars>>

\* Clone after a failed `tart set`.
SetFailed(c) ==
    /\ pc[c] = "setFailed"
    /\ state' = "Stopped"
    /\ Goto(c, "unlock")
    /\ UNCHANGED <<currentIP, opMutex, asyncWait, callVars, readVars, tartVars>>

-----------------------------------------------------------------------------
(* Start                                                                   *)

\* cmd.Start; a failure goes to cmdStartFailed.
Launch(c) ==
    /\ pc[c] = "launch"
    /\ \/ \E b \in Boots :
             /\ proc[b] = "idle" /\ \A a \in Boots : a < b => proc[a] # "idle"
             /\ proc' = [proc EXCEPT ![b] = "launched"]
             /\ cmd' = [cmd EXCEPT ![c] = b]
             /\ Goto(c, "awaitRunning")
             /\ UNCHANGED err
       \/ /\ err' = [err EXCEPT ![c] = {"op"}]
          /\ Goto(c, "awaitStopped")
          /\ UNCHANGED <<proc, cmd>>
    /\ UNCHANGED <<state, currentIP, opMutex, asyncWait, op, prev, goal, ip, readVars, disk>>

\* A step of Start that must succeed or else leads to runFailed.
OrRunFailed(c, success) ==
    /\ \/ success /\ UNCHANGED err
       \/ /\ err' = [err EXCEPT ![c] = {"op"}]
          /\ Goto(c, "forceStop")
          /\ UNCHANGED ip
    /\ UNCHANGED <<state, currentIP, opMutex, asyncWait, op, prev, goal, cmd,
                   readVars, tartVars>>

AwaitRunning(c) ==
    /\ pc[c] = "awaitRunning"
    /\ OrRunFailed(c, /\ TartState = "running"
                      /\ Goto(c, IF IPAtStart THEN "address" ELSE "ready")
                      /\ UNCHANGED ip)

\* runIPWait
Address(c) ==
    /\ pc[c] = "address"
    /\ OrRunFailed(c, \E b \in Hosting : /\ ip' = [ip EXCEPT ![c] = b]
                                         /\ Goto(c, "ready"))

\* waitForReadyUsingExec
Ready(c) ==
    /\ pc[c] = "ready"
    /\ OrRunFailed(c, /\ TartState = "running"
                      /\ Goto(c, "publish")
                      /\ UNCHANGED ip)

\* Mutant: asyncWait is only set when it is nil.
PublishKeepsWait(c) ==
    /\ pc[c] = "publish"
    /\ currentIP' = ip[c]
    /\ state' = "Running"
    /\ asyncWait' = IF asyncWait = 0 THEN cmd[c] ELSE asyncWait
    /\ Goto(c, "unlock")
    /\ UNCHANGED <<opMutex, callVars, readVars, tartVars>>

\* Mutant: the address obtained by Start is not recorded.
PublishNoAddress(c) ==
    /\ pc[c] = "publish"
    /\ state' = "Running"
    /\ asyncWait' = cmd[c]
    /\ Goto(c, "unlock")
    /\ UNCHANGED <<currentIP, opMutex, callVars, readVars, tartVars>>

\* The one stateMu section that makes the instance Running.
Publish(c) ==
    /\ pc[c] = "publish"
    /\ currentIP' = ip[c]
    /\ state' = "Running"
    /\ asyncWait' = cmd[c]
    /\ Goto(c, "unlock")
    /\ UNCHANGED <<opMutex, callVars, readVars, tartVars>>

\* runForceStop: the error is only recorded.  `tart stop` refuses a VM that
\* is not running, which counts as success, launched process or not.
ForceStop(c) ==
    /\ pc[c] = "forceStop"
    /\ IF ForceStopReliable
       THEN proc' = [b \in Boots |-> IF b \in Live THEN "leaving" ELSE proc[b]]
       ELSE PowerOff \/ UNCHANGED proc
    /\ Goto(c, "reap")
    /\ UNCHANGED <<state, currentIP, opMutex, asyncWait, callVars, readVars, disk>>

\* Mutant: runFailed does not wait for the run command.
ReapNoWait(c) ==
    /\ pc[c] = "reap"
    /\ Goto(c, "awaitStopped")
    /\ UNCHANGED <<state, currentIP, opMutex, asyncWait, callVars, readVars, tartVars>>

\* cmd.Wait: not bounded by any backoff.
Reap(c) ==
    /\ pc[c] = "reap"
    /\ proc[cmd[c]] \in Ended
    /\ Goto(c, "awaitStopped")
    /\ UNCHANGED <<state, currentIP, opMutex, asyncWait, callVars, readVars, tartVars>>

\* Mutant: a cleaned up failure of Start is reported as success.
AwaitStoppedNil(c) ==
    /\ pc[c] = "awaitStopped"
    /\ \/ /\ TartState = "stopped"
          /\ goal' = [goal EXCEPT ![c] = prev[c]]
          /\ err' = [err EXCEPT ![c] = {}]
       \/ goal' = [goal EXCEPT ![c] = "ErrorUnknown"] /\ UNCHANGED err
    /\ Goto(c, "settle")
    /\ UNCHANGED <<state, currentIP, opMutex, asyncWait, op, prev, cmd, ip,
                   readVars, tartVars>>

\* waitForTartState(ctx, "stopped") in cmdStartFailed and runFailed.
AwaitStopped(c) ==
    /\ pc[c] = "awaitStopped"
    /\ \/ /\ TartState = "stopped"
          /\ goal' = [goal EXCEPT ![c] = prev[c]]
       \/ goal' = [goal EXCEPT ![c] = "ErrorUnknown"]
    /\ Goto(c, "settle")
    /\ UNCHANGED <<state, currentIP, opMutex, asyncWait, op, prev, cmd, ip, err,
                   readVars, tartVars>>

-----------------------------------------------------------------------------
(* runSyncExclusiveStopSuspend                                             *)

Wanted(o) == IF o = "Stop" THEN "stopped" ELSE "suspended"

\* handleStopSuspend up to the end of its command.  WaitDone may lag behind
\* the exit of the process, so a finished run can still be sent a command.
Handle(c) ==
    /\ pc[c] = "handle"
    /\ \/ /\ asyncWait = 0
          /\ err' = [err EXCEPT ![c] = {"op"}]
          /\ Goto(c, "verify")
       \/ /\ asyncWait # 0 /\ proc[asyncWait] \in Ended
          /\ err' = [err EXCEPT ![c] = RunErr(asyncWait)]
          /\ Goto(c, "verify")
       \/ /\ asyncWait # 0
          /\ Goto(c, "stopVM")
          /\ UNCHANGED err
    /\ UNCHANGED <<state, currentIP, opMutex, asyncWait, op, prev, goal, cmd, ip,
                   readVars, tartVars>>

\* tart stop, tart suspend.  A VM that is not running is no error.
StopVM(c) ==
    /\ pc[c] = "stopVM"
    /\ \/ /\ Hosting # {}
          /\ PowerOff
          /\ disk' = Wanted(op[c])
          /\ \/ Goto(c, "drain") /\ UNCHANGED err
             \/ Goto(c, "verify") /\ err' = [err EXCEPT ![c] = {"op"}]
       \/ /\ Hosting = {} /\ disk # "absent"
          /\ Goto(c, "verify")
          /\ UNCHANGED <<err, proc, disk>>
       \/ /\ err' = [err EXCEPT ![c] = {"op"}]
          /\ Goto(c, "verify")
          /\ UNCHANGED <<proc, disk>>
    /\ UNCHANGED <<state, currentIP, opMutex, asyncWait, op, prev, goal, cmd, ip, readVars>>

\* asyncWait.Wait: the run command may report an error.
Drain(c) ==
    /\ pc[c] = "drain"
    /\ proc[asyncWait] \in Ended
    /\ err' = [err EXCEPT ![c] = RunErr(asyncWait)]
    /\ Goto(c, "verify")
    /\ UNCHANGED <<state, currentIP, opMutex, asyncWait, op, prev, goal, cmd, ip,
                   readVars, tartVars>>

\* Mutant: an unverified stop or suspend reverts to the previous state.
VerifyRevert(c) ==
    /\ pc[c] = "verify"
    /\ \/ TartState = Wanted(op[c]) /\ UNCHANGED goal
       \/ goal' = [goal EXCEPT ![c] = prev[c]]
    /\ Goto(c, "settle")
    /\ UNCHANGED <<state, currentIP, opMutex, asyncWait, op, prev, cmd, ip, err,
                   readVars, tartVars>>

\* verifyState: in the wanted state the error of the command is dropped.
Verify(c) ==
    /\ pc[c] = "verify"
    /\ \/ /\ TartState = Wanted(op[c])
          /\ err' = [err EXCEPT ![c] = @ \ {"op"}]
          /\ UNCHANGED goal
       \/ /\ goal' = [goal EXCEPT ![c] = "ErrorUnknown"]
          /\ UNCHANGED err
    /\ Goto(c, "settle")
    /\ UNCHANGED <<state, currentIP, opMutex, asyncWait, op, prev, cmd, ip,
                   readVars, tartVars>>

\* Stop clears the address whatever happened, a refusal included.
ClearIP(c) ==
    /\ pc[c] = "clearIP"
    /\ currentIP' = 0
    /\ Goto(c, "unlock")
    /\ UNCHANGED <<state, opMutex, asyncWait, callVars, readVars, tartVars>>

\* The deferred Unlock and the return; the caller's locals are forgotten.
Unlock(c) ==
    /\ pc[c] = "unlock"
    /\ opMutex' = Nobody
    /\ Goto(c, "idle")
    /\ op' = [op EXCEPT ![c] = "none"]
    /\ prev' = [prev EXCEPT ![c] = "Initial"]
    /\ goal' = [goal EXCEPT ![c] = "Initial"]
    /\ cmd' = [cmd EXCEPT ![c] = 0]
    /\ ip' = [ip EXCEPT ![c] = 0]
    /\ err' = [err EXCEPT ![c] = {}]
    /\ UNCHANGED <<state, currentIP, asyncWait, readVars, tartVars>>

-----------------------------------------------------------------------------
(* Properties, by way of getIP.                                            *)

\* needIP; a cached or refused answer changes nothing.
NeedIP(r) ==
    /\ rpc[r] = "idle"
    /\ ~IPAtStart /\ currentIP = 0 /\ state = "Running"
    /\ rpc' = [rpc EXCEPT ![r] = "fetch"]
    /\ UNCHANGED <<state, currentIP, opMutex, asyncWait, pc, callVars, rip, tartVars>>

\* runIPWait, without any lock; an error or an empty address is returned.
FetchIP(r) ==
    /\ rpc[r] = "fetch"
    /\ \/ \E b \in Hosting : /\ rip' = [rip EXCEPT ![r] = b]
                             /\ rpc' = [rpc EXCEPT ![r] = "store"]
       \/ rpc' = [rpc EXCEPT ![r] = "idle"] /\ UNCHANGED rip
    /\ UNCHANGED <<state, currentIP, opMutex, asyncWait, pc, callVars, tartVars>>

StoreIP(r) ==
    /\ rpc[r] = "store"
    /\ currentIP' = rip[r]
    /\ rpc' = [rpc EXCEPT ![r] = "idle"]
    /\ rip' = [rip EXCEPT ![r] = 0]
    /\ UNCHANGED <<state, opMutex, asyncWait, pc, callVars, tartVars>>

Reader(r) == NeedIP(r) \/ FetchIP(r) \/ StoreIP(r)

-----------------------------------------------------------------------------
\* The steps of a caller that holds opMutex.
Step(c) ==
    \/ Check(c) \/ Enter(c) \/ Command(c) \/ Settle(c) \/ SetFailed(c)
    \/ Launch(c) \/ AwaitRunning(c) \/ Address(c) \/ Ready(c) \/ Publish(c)
    \/ ForceStop(c) \/ Reap(c) \/ AwaitStopped(c)
    \/ Handle(c) \/ StopVM(c) \/ Drain(c) \/ Verify(c)
    \/ ClearIP(c) \/ Unlock(c)

Next ==
    \/ \E c \in Callers : Lock(c) \/ Step(c) \/ \E o \in Calls : Call(c, o)
    \/ \E r \in Readers : Reader(r)
    \/ Tart

Spec == Init /\ [][Next]_vars

\* Go schedules every runnable goroutine, its mutex hands itself to a starving
\* waiter, tart commands and backoffs come to an end, and a run process whose
\* VM has gone ends.  No guest ever has to halt.
Fairness ==
    /\ \A c \in Callers : SF_vars(Lock(c)) /\ WF_vars(Step(c))
    /\ \A b \in Boots : WF_vars(Leaves(b))

FairSpec == Spec /\ Fairness
-----------------------------------------------------------------------------
(* What the code must guarantee.                                           *)

Free == opMutex = Nobody

\* No operation is left half done: once opMutex is free again the instance is
\* in no intermediate state (every return path of tart.go restores one).
Settled == Free => state \notin Transient

\* No VM is left running behind a state that says otherwise, whatever failed
\* or timed out: while opMutex is free, a `tart run` that hosts a VM or could
\* still boot one exists only in Running or ErrorUnknown.  The cmd.Wait of
\* runFailed and the verifyState of Stop and Suspend are there for this.
NoOrphan == Free /\ Live # {} => state \in Powered

\* At rest the claimed state and tart's agree as far as the code can know: a
\* Deleted VM is gone and a Stopped one has no snapshot to resume from.
AtRest == Free => /\ state = "Deleted" => disk = "absent"
                  /\ state = "Stopped" => disk # "suspended"

\* A running VM is hosted by the very process Stop and Suspend will wait for:
\* with the asyncWait of an earlier run they would issue no command at all.
RunningIsWatched == state = "Running" => Hosting \subseteq {asyncWait}

\* A nil error of an operation means that the instance got there, but for Stop
\* and Suspend, which drop what tart list shows if the commands succeeded: they
\* may leave ErrorUnknown, but no `tart run' that hosts a VM or could boot one.
NilMeansDone ==
    \A c \in Callers :
        pc[c] = "unlock" /\ err[c] = {} =>
            IF op[c] \in {"Stop", "Suspend"}
            THEN state \in {Target[op[c]], "ErrorUnknown"} /\ Live = {}
            ELSE state = Target[op[c]]

\* With the address obtained by Start, the one Properties serves while the
\* instance is Running is the address of the current boot.
AddressIsCurrent ==
    IPAtStart /\ state = "Running" => currentIP = asyncWait

\* Every operation gets its turn at opMutex and returns.
EveryCallReturns == \A c \in Callers : pc[c] = "lock" ~> pc[c] = "idle"

-----------------------------------------------------------------------------
(* Refinement: State() as its users see it.                                *)

\* An operation has begun once it has set its intermediate state and is over
\* once it has set the next one, except that `tart set` prolongs Clone.
Begun(c) == \/ pc[c] \in Locked \ {"check", "enter", "clearIP", "unlock"}
            \/ pc[c] \in {"check", "enter"} /\ op[c] = "Set"

Busy == {c \in Callers : Begun(c)}

busyBar == IF opMutex \in Busy THEN op[opMutex] ELSE "none"
fromBar == IF opMutex \notin Busy THEN "Initial"
           ELSE IF op[opMutex] = "Set" THEN "Cloning" ELSE prev[opMutex]

Lifecycle == INSTANCE VMLifecycle
                 WITH busy <- busyBar, from <- fromBar, powered <- Live # {}

\* The instance implements VMLifecycle: every early return, failure and timeout
\* of tart.go ends an operation in an outcome of its kind, and no VM outlives
\* the operation that says it is down.
ImplementsLifecycle == Lifecycle!Spec

-----------------------------------------------------------------------------
(* What docs, comments and tests say, and the code does not do.            *)

\* Properties: "If the VM is running, it returns the IP address", of this
\* boot and not of an earlier one.
CachedAddressIsCurrent ==
    state = "Running" /\ currentIP # 0 /\ Hosting # {} => currentIP \in Hosting
=============================================================================
