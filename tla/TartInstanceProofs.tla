------------------------- MODULE TartInstanceProofs -------------------------
(***************************************************************************)
(* Proofs about TartInstance for any number of callers, readers and boots, *)
(* any transition table AllowedAssumption admits, with or without          *)
(* resources, an address at start or a reliable force stop.                *)
(*                                                                         *)
(* Control says which operation can be at which step and who holds         *)
(* opMutex; Power, on top of it, follows the `tart run` processes and the  *)
(* states an operation may leave behind; Earned, AddressKnown and Rest, on  *)
(* top of both, what an operation answers, serves and leaves on disk.      *)
(***************************************************************************)
EXTENDS TartInstance, TLAPS

StartSteps == {"launch", "awaitRunning", "address", "ready", "publish",
               "forceStop", "reap", "awaitStopped"}
StopSteps  == {"handle", "stopVM", "drain", "verify"}

\* The steps of the operations do not mix.
OwnSteps(c) ==
    /\ pc[c] \in StartSteps => op[c] = "Start"
    /\ pc[c] \in StopSteps => op[c] \in {"Stop", "Suspend"}
    /\ pc[c] = "command" => op[c] \in {"Clone", "Set", "Delete"}
    /\ pc[c] = "setFailed" => op[c] = "Set"
    /\ pc[c] = "clearIP" => op[c] = "Stop"

Control ==
    /\ TypeOK
    /\ \A c \in Callers :
        /\ pc[c] \in Locked <=> opMutex = c
        /\ pc[c] = "lock" => op[c] \in Calls
        /\ pc[c] \in Locked => op[c] \in Ops /\ OwnSteps(c)
        /\ pc[c] \in {"awaitRunning", "address", "ready", "publish", "forceStop", "reap"}
               => cmd[c] \in Boots
        /\ pc[c] \in {"stopVM", "drain"} => asyncWait # 0
    /\ \A r \in Readers : rpc[r] = "store" => rip[r] \in Boots

-----------------------------------------------------------------------------
\* The tables, one value at a time.
LEMMA Tables ==
    /\ \A o \in Ops : Intermediate[o] \in States /\ Target[o] \in States
    /\ Intermediate["Clone"] = "Cloning" /\ Intermediate["Set"] = "Stopped"
    /\ Intermediate["Start"] = "Starting" /\ Intermediate["Stop"] = "Stopping"
    /\ Intermediate["Delete"] = "Deleting" /\ Intermediate["Suspend"] = "Suspending"
    /\ Target["Clone"] = (IF SetResources THEN "Cloning" ELSE "Stopped")
    /\ Target["Set"] = "Stopped" /\ Target["Start"] = "Running"
    /\ Target["Stop"] = "Stopped" /\ Target["Suspend"] = "Suspended"
    /\ Target["Delete"] = "Deleted"
BY DEF Ops, Calls, Intermediate, Target, States

LEMMA InitControl == Init => Control
BY CallersAssumption DEF Init, Control, TypeOK, Locked, States, Ops, Calls

USE DEF Goto

LEMMA CallControl ==
    ASSUME Control, NEW c \in Callers, NEW o \in Calls, Call(c, o)
    PROVE  Control'
BY DEF Control, OwnSteps, TypeOK, Call, Ops, Calls, Locked, StartSteps, StopSteps,
   callVars, readVars, tartVars

LEMMA LockControl ==
    ASSUME Control, NEW c \in Callers, Lock(c)
    PROVE  Control'
BY CallersAssumption DEF Control, OwnSteps, TypeOK, Lock, Ops, Calls, Locked, StartSteps,
   StopSteps,
   callVars, readVars, tartVars

LEMMA CheckControl ==
    ASSUME Control, NEW c \in Callers, Check(c)
    PROVE  Control'
BY DEF Control, OwnSteps, TypeOK, Check, Ops, Calls, Locked, StartSteps, StopSteps,
   callVars, readVars, tartVars

LEMMA EnterControl ==
    ASSUME Control, NEW c \in Callers, Enter(c)
    PROVE  Control'
<1>1. op[c] \in Ops /\ state \in States /\ c \in Callers
  BY DEF Control, TypeOK, Enter, Locked
<1>2. Intermediate[op[c]] \in States /\ Target[op[c]] \in States
  BY <1>1, Tables
<1>3. PICK step \in {"launch", "command", "settle", "handle"} :
        /\ pc' = [pc EXCEPT ![c] = step]
        /\ step = "launch" => op[c] = "Start"
        /\ step = "command" => op[c] \in {"Clone", "Set", "Delete"}
        /\ step = "handle" => op[c] \in {"Stop", "Suspend"}
  BY DEF Enter
<1>4. TypeOK'
  BY <1>2, <1>3 DEF Control, TypeOK, Enter, Locked, readVars, tartVars
<1>5. QED
  BY <1>3, <1>4 DEF Control, OwnSteps, Enter, Locked, StartSteps, StopSteps, TypeOK,
     readVars, tartVars

LEMMA CommandControl ==
    ASSUME Control, NEW c \in Callers, Command(c)
    PROVE  Control'
BY DEF Control, OwnSteps, TypeOK, Command, Ops, Calls, Locked, StartSteps, StopSteps,
   callVars, readVars, tartVars, CommandPossible, Effect

LEMMA SettleControl ==
    ASSUME Control, NEW c \in Callers, Settle(c)
    PROVE  Control'
BY DEF Control, OwnSteps, TypeOK, Settle, Ops, Calls, Locked, StartSteps, StopSteps,
   callVars, readVars, tartVars

LEMMA SetFailedControl ==
    ASSUME Control, NEW c \in Callers, SetFailed(c)
    PROVE  Control'
BY DEF Control, OwnSteps, TypeOK, SetFailed, Ops, Calls, Locked, StartSteps, StopSteps,
   callVars, readVars, tartVars, States

LEMMA LaunchControl ==
    ASSUME Control, NEW c \in Callers, Launch(c)
    PROVE  Control'
BY DEF Control, OwnSteps, TypeOK, Launch, Ops, Calls, Locked, StartSteps, StopSteps,
   callVars, readVars, tartVars

LEMMA AwaitRunningControl ==
    ASSUME Control, NEW c \in Callers, AwaitRunning(c)
    PROVE  Control'
BY DEF Control, OwnSteps, TypeOK, AwaitRunning, Ops, Calls, Locked, StartSteps, StopSteps,
   callVars, readVars, tartVars, OrRunFailed

LEMMA AddressControl ==
    ASSUME Control, NEW c \in Callers, Address(c)
    PROVE  Control'
BY DEF Control, OwnSteps, TypeOK, Address, Ops, Calls, Locked, StartSteps, StopSteps,
   callVars, readVars, tartVars, OrRunFailed, Hosting

LEMMA ReadyControl ==
    ASSUME Control, NEW c \in Callers, Ready(c)
    PROVE  Control'
BY DEF Control, OwnSteps, TypeOK, Ready, Ops, Calls, Locked, StartSteps, StopSteps,
   callVars, readVars, tartVars, OrRunFailed

LEMMA PublishControl ==
    ASSUME Control, NEW c \in Callers, Publish(c)
    PROVE  Control'
BY DEF Control, OwnSteps, TypeOK, Publish, Ops, Calls, Locked, StartSteps, StopSteps,
   callVars, readVars, tartVars, States

LEMMA ForceStopControl ==
    ASSUME Control, NEW c \in Callers, ForceStop(c)
    PROVE  Control'
BY DEF Control, OwnSteps, TypeOK, ForceStop, Ops, Calls, Locked, StartSteps, StopSteps,
   callVars, readVars, tartVars, PowerOff, Hosting, Live

LEMMA ReapControl ==
    ASSUME Control, NEW c \in Callers, Reap(c)
    PROVE  Control'
BY DEF Control, OwnSteps, TypeOK, Reap, Ops, Calls, Locked, StartSteps, StopSteps,
   callVars, readVars, tartVars

LEMMA AwaitStoppedControl ==
    ASSUME Control, NEW c \in Callers, AwaitStopped(c)
    PROVE  Control'
BY DEF Control, OwnSteps, TypeOK, AwaitStopped, Ops, Calls, Locked, StartSteps, StopSteps,
   callVars, readVars, tartVars, States

LEMMA HandleControl ==
    ASSUME Control, NEW c \in Callers, Handle(c)
    PROVE  Control'
BY DEF Control, OwnSteps, TypeOK, Handle, Ops, Calls, Locked, StartSteps, StopSteps,
   callVars, readVars, tartVars, RunErr

LEMMA StopVMControl ==
    ASSUME Control, NEW c \in Callers, StopVM(c)
    PROVE  Control'
<1>1. PICK step \in {"drain", "verify"} :
        /\ pc' = [pc EXCEPT ![c] = step]
        /\ step = "drain" => Hosting # {}
  BY DEF StopVM
<1>2. /\ op[c] \in {"Stop", "Suspend"} /\ Wanted(op[c]) \in {"stopped", "suspended"}
      /\ proc' \in [Boots -> {"idle", "launched", "hosting", "leaving", "exited", "failed"}]
      /\ disk' \in {"absent", "stopped", "suspended"}
      /\ err' \in [Callers -> SUBSET {"run", "op"}]
  BY DEF Control, OwnSteps, TypeOK, StopVM, StopSteps, PowerOff, Hosting, Wanted
<1>3. TypeOK'
  BY <1>1, <1>2 DEF Control, TypeOK, StopVM, Locked, readVars
<1>4. QED
  BY <1>1, <1>3 DEF Control, OwnSteps, TypeOK, StopVM, Locked, StartSteps, StopSteps,
     readVars

LEMMA DrainControl ==
    ASSUME Control, NEW c \in Callers, Drain(c)
    PROVE  Control'
BY DEF Control, OwnSteps, TypeOK, Drain, Ops, Calls, Locked, StartSteps, StopSteps,
   callVars, readVars, tartVars, RunErr

LEMMA VerifyControl ==
    ASSUME Control, NEW c \in Callers, Verify(c)
    PROVE  Control'
BY DEF Control, OwnSteps, TypeOK, Verify, Ops, Calls, Locked, StartSteps, StopSteps,
   callVars, readVars, tartVars, States

LEMMA ClearIPControl ==
    ASSUME Control, NEW c \in Callers, ClearIP(c)
    PROVE  Control'
BY DEF Control, OwnSteps, TypeOK, ClearIP, Ops, Calls, Locked, StartSteps, StopSteps,
   callVars, readVars, tartVars

LEMMA UnlockControl ==
    ASSUME Control, NEW c \in Callers, Unlock(c)
    PROVE  Control'
BY CallersAssumption DEF Control, OwnSteps, TypeOK, Unlock, States, Ops, Calls, Locked,
   StartSteps, StopSteps, callVars, readVars, tartVars

LEMMA ReaderControl ==
    ASSUME Control, NEW r \in Readers, Reader(r)
    PROVE  Control'
BY DEF Control, OwnSteps, TypeOK, Reader, NeedIP, FetchIP, StoreIP, Hosting, callVars, tartVars

LEMMA TartControl ==
    ASSUME Control, Tart
    PROVE  Control'
<1>1. /\ UNCHANGED <<state, currentIP, opMutex, asyncWait, pc, callVars, readVars>>
      /\ proc' \in [Boots -> {"idle", "launched", "hosting", "leaving", "exited", "failed"}]
      /\ disk' \in {"absent", "stopped", "suspended"}
  BY DEF Control, TypeOK, Tart, GuestHalts, Boot, Dies, Leaves, PowerOff, Ended
<1>2. QED
  BY <1>1 DEF Control, OwnSteps, TypeOK, callVars, readVars

LEMMA StutterControl ==
    ASSUME Control, UNCHANGED vars
    PROVE  Control'
BY DEF Control, OwnSteps, TypeOK, vars, callVars, readVars, tartVars

\* Who is where: a caller past Lock, and only that caller, holds opMutex, the
\* steps of different operations do not mix, and every variable keeps its type.
THEOREM ControlInvariant == Spec => []Control
<1>1. Control /\ [Next]_vars => Control'
  <2> SUFFICES ASSUME Control, [Next]_vars PROVE Control'
    OBVIOUS
  <2>1. ASSUME NEW c \in Callers, Lock(c) \/ Step(c) \/ \E o \in Calls : Call(c, o)
        PROVE  Control'
    BY <2>1, CallControl, LockControl, CheckControl, EnterControl, CommandControl,
       SettleControl, SetFailedControl, LaunchControl, AwaitRunningControl,
       AddressControl, ReadyControl, PublishControl, ForceStopControl, ReapControl,
       AwaitStoppedControl, HandleControl, StopVMControl, DrainControl, VerifyControl,
       ClearIPControl, UnlockControl DEF Step
  <2>2. QED
    BY <2>1, ReaderControl, TartControl, StutterControl DEF Next
<1>2. QED
  BY <1>1, InitControl, PTL DEF Spec

\* Every variable keeps its type.
THEOREM TypeCorrect == Spec => []TypeOK
BY ControlInvariant, PTL DEF Control
-----------------------------------------------------------------------------
(* The processes and the states left behind.                               *)

\* What one caller's operation knows about the states and the run processes.
PowerAt(c) ==
    /\ pc[c] \in {"idle", "lock", "check", "enter", "command"} => err[c] = {}
    /\ pc[c] = "enter" => Action(op[c]) \in Allowed[state]
    /\ pc[c] \in {"check", "enter"} /\ op[c] = "Set" => state = "Cloning" /\ Live = {}
    /\ pc[c] = "setFailed" => Live = {}
    /\ pc[c] = "command" =>
        /\ goal[c] = Target[op[c]]
        /\ op[c] = "Set" => prev[c] = "Cloning" /\ Live = {}
        /\ op[c] # "Set" => prev[c] \notin Transient \cup {"Running"}
        /\ Live # {} => prev[c] \in Powered
    /\ pc[c] \in StartSteps => state = "Starting" /\ prev[c] \notin Transient \cup {"Running"}
    /\ pc[c] \in {"launch", "awaitStopped"} => Live = {}
    /\ pc[c] \in {"awaitRunning", "address", "ready", "publish", "forceStop", "reap"}
           => Live \subseteq {cmd[c]}
    /\ pc[c] \in StopSteps => goal[c] = Target[op[c]]
    /\ pc[c] = "settle" =>
        /\ goal[c] # "Running"
        /\ Live # {} => goal[c] \in Powered
        /\ op[c] = "Clone" /\ SetResources /\ err[c] = {} => goal[c] = "Cloning"
        /\ op[c] = "Set" /\ err[c] # {} => goal[c] = "Cloning"
        /\ goal[c] \in Transient => /\ goal[c] = "Cloning"
                                    /\ \/ op[c] = "Clone" /\ SetResources /\ err[c] = {}
                                       \/ op[c] = "Set" /\ err[c] # {}

\* No operation in progress: the state is final and accounts for any VM.
Calm == (\A c \in Callers : ~Begun(c)) => /\ state \notin Transient
                                          /\ Live # {} => state \in Powered

\* Only a Start in progress has a process that may yet boot the VM.
Launching == \A b \in Boots : proc[b] = "launched" =>
                 \E c \in Callers : /\ pc[c] \in {"awaitRunning", "forceStop", "reap"}
                                    /\ cmd[c] = b

Power == Calm /\ Launching /\ RunningIsWatched /\ \A c \in Callers : PowerAt(c)

LEMMA InitPower == Init => Power
BY DEF Init, Power, PowerAt, Calm, Launching, RunningIsWatched, Live, Hosting, Transient,
   StartSteps, StopSteps

\* opMutex keeps everybody else out.
LEMMA Alone ==
    ASSUME Control, NEW c \in Callers, NEW d \in Callers, pc[c] \in Locked, pc[d] \in Locked
    PROVE  c = d
BY DEF Control

\* A caller that is at no step of an operation knows nothing.
LEMMA Outside ==
    ASSUME NEW c \in Callers, pc[c] \in {"idle", "lock"}, err[c] = {}
    PROVE  PowerAt(c) /\ ~Begun(c)
BY DEF PowerAt, Begun, Locked, StartSteps, StopSteps
\* A step of the caller that holds opMutex has to account for itself only.
LEMMA OwnerStep ==
    ASSUME Control, Power, NEW c \in Callers, pc[c] \in Locked,
           \A d \in Callers \ {c} : pc'[d] = pc[d] /\ err'[d] = err[d],
           PowerAt(c)',
           Begun(c)' \/ (state' \notin Transient /\ (Live' # {} => state' \in Powered)),
           Launching', RunningIsWatched'
    PROVE  Power'
<1>1. ASSUME NEW d \in Callers \ {c}
      PROVE  pc'[d] \in {"idle", "lock"} /\ err'[d] = {}
  <2>1. pc[d] \in {"idle", "lock"}
    BY Alone DEF Control, TypeOK
  <2>2. QED
    BY <2>1 DEF Power, PowerAt
<1>2. \A d \in Callers \ {c} : PowerAt(d)'
  BY <1>1 DEF PowerAt, StartSteps, StopSteps
<1>3. Calm'
  BY DEF Calm
<1>4. QED
  BY <1>2, <1>3 DEF Power

\* The same for a step that starts no process and ends at most its own.
LEMMA QuietStep ==
    ASSUME Control, Power, NEW c \in Callers, pc[c] \in Locked,
           \A d \in Callers \ {c} : pc'[d] = pc[d] /\ err'[d] = err[d],
           UNCHANGED <<cmd, proc, asyncWait>>,
           PowerAt(c)',
           Begun(c)' \/ (state' \notin Transient /\ (Live # {} => state' \in Powered)),
           state' = "Running" => state = "Running",
           pc[c] \in {"awaitRunning", "forceStop", "reap"} =>
               \/ pc'[c] \in {"awaitRunning", "forceStop", "reap"}
               \/ \A b \in Boots : proc[b] # "launched"
    PROVE  Power'
<1>1. Live' = Live /\ Hosting' = Hosting
  BY DEF Live, Hosting
<1>2. RunningIsWatched'
  BY <1>1 DEF Power, RunningIsWatched
<1>3. Launching'
  BY Alone DEF Power, Launching, Control, Locked
<1>4. QED
  BY <1>1, <1>2, <1>3, OwnerStep

\* A caller whose operation has not begun, or is over, sees a calm instance.
LEMMA CalmOwner ==
    ASSUME Control, Power, NEW c \in Callers, pc[c] \in Locked, ~Begun(c)
    PROVE  state \notin Transient /\ (Live # {} => state \in Powered)
<1>1. ASSUME NEW d \in Callers PROVE ~Begun(d)
  <2>1. CASE pc[d] \in Locked
    BY <2>1, Alone
  <2>2. CASE pc[d] \notin Locked
    BY <2>2 DEF Begun, Locked
  <2>3. QED
    BY <2>1, <2>2
<1>2. QED
  BY <1>1 DEF Power, Calm

LEMMA CheckPower ==
    ASSUME Control, Power, NEW c \in Callers, Check(c)
    PROVE  Power'
<1>1. Live' = Live
  BY DEF Check, Live, tartVars
<1>8. PowerAt(c)'
  BY <1>1, AllowedAssumption, Alone DEF Control, TypeOK, OwnSteps, Power, PowerAt, Check,
     Action, Locked, StartSteps, StopSteps, tartVars
<1>9. QED
  BY <1>1, <1>8, QuietStep, AllowedAssumption, Alone DEF Control, TypeOK, OwnSteps, Power, Calm,
     PowerAt, Begun, Check, Action, Locked, StartSteps, StopSteps, tartVars

LEMMA AwaitRunningPower ==
    ASSUME Control, Power, NEW c \in Callers, AwaitRunning(c)
    PROVE  Power'
<1>1. Live' = Live
  BY DEF AwaitRunning, Live, OrRunFailed, tartVars
<1>2. pc'[c] = "forceStop" \/ \A b \in Boots : proc[b] # "launched"
  BY DEF AwaitRunning, OrRunFailed, Control, TypeOK, Power, PowerAt, Live, Hosting, TartState
<1>8. PowerAt(c)'
  BY <1>1, <1>2 DEF Control, TypeOK, OwnSteps, Power, PowerAt, AwaitRunning, OrRunFailed,
     Locked, StartSteps, StopSteps, tartVars
<1>9. QED
  BY <1>1, <1>8, QuietStep, <1>2 DEF Control, TypeOK, OwnSteps, Power, Calm, PowerAt, Begun,
     AwaitRunning, OrRunFailed, Locked, StartSteps, StopSteps, tartVars

LEMMA AddressPower ==
    ASSUME Control, Power, NEW c \in Callers, Address(c)
    PROVE  Power'
<1>1. Live' = Live
  BY DEF Address, Live, OrRunFailed, tartVars
<1>8. PowerAt(c)'
  BY <1>1 DEF Control, TypeOK, OwnSteps, Power, PowerAt, Address, OrRunFailed, Locked,
     StartSteps, StopSteps, tartVars
<1>9. QED
  BY <1>1, <1>8, QuietStep DEF Control, TypeOK, OwnSteps, Power, Calm, PowerAt, Begun, Address,
     OrRunFailed, Locked, StartSteps, StopSteps, tartVars

LEMMA ReadyPower ==
    ASSUME Control, Power, NEW c \in Callers, Ready(c)
    PROVE  Power'
<1>1. Live' = Live
  BY DEF Ready, Live, OrRunFailed, tartVars
<1>8. PowerAt(c)'
  BY <1>1 DEF Control, TypeOK, OwnSteps, Power, PowerAt, Ready, OrRunFailed, Locked, StartSteps,
     StopSteps, tartVars
<1>9. QED
  BY <1>1, <1>8, QuietStep DEF Control, TypeOK, OwnSteps, Power, Calm, PowerAt, Begun, Ready,
     OrRunFailed, Locked, StartSteps, StopSteps, tartVars

LEMMA AwaitStoppedPower ==
    ASSUME Control, Power, NEW c \in Callers, AwaitStopped(c)
    PROVE  Power'
<1>1. Live' = Live
  BY DEF AwaitStopped, Live, tartVars
<1>8. PowerAt(c)'
  BY <1>1 DEF Control, TypeOK, OwnSteps, Power, PowerAt, AwaitStopped, Locked, StartSteps,
     StopSteps, tartVars, Transient, Powered, States
<1>9. QED
  BY <1>1, <1>8, QuietStep DEF Control, TypeOK, OwnSteps, Power, Calm, PowerAt, Begun,
     AwaitStopped, Locked, StartSteps, StopSteps, tartVars, Transient, Powered, States

LEMMA HandlePower ==
    ASSUME Control, Power, NEW c \in Callers, Handle(c)
    PROVE  Power'
<1>1. Live' = Live
  BY DEF Handle, Live, tartVars
<1>8. PowerAt(c)'
  BY <1>1 DEF Control, TypeOK, OwnSteps, Power, PowerAt, Handle, Locked, StartSteps, StopSteps,
     tartVars
<1>9. QED
  BY <1>1, <1>8, QuietStep DEF Control, TypeOK, OwnSteps, Power, Calm, PowerAt, Begun, Handle,
     Locked, StartSteps, StopSteps, tartVars

LEMMA DrainPower ==
    ASSUME Control, Power, NEW c \in Callers, Drain(c)
    PROVE  Power'
<1>1. Live' = Live
  BY DEF Drain, Live, tartVars
<1>8. PowerAt(c)'
  BY <1>1 DEF Control, TypeOK, OwnSteps, Power, PowerAt, Drain, Locked, StartSteps, StopSteps,
     tartVars
<1>9. QED
  BY <1>1, <1>8, QuietStep DEF Control, TypeOK, OwnSteps, Power, Calm, PowerAt, Begun, Drain,
     Locked, StartSteps, StopSteps, tartVars

LEMMA ClearIPPower ==
    ASSUME Control, Power, NEW c \in Callers, ClearIP(c)
    PROVE  Power'
<1>1. Live' = Live
  BY DEF ClearIP, Live, tartVars
<1>8. PowerAt(c)'
  BY <1>1 DEF Control, TypeOK, OwnSteps, Power, PowerAt, ClearIP, Locked, StartSteps, StopSteps,
     tartVars, callVars
<1>9. QED
  BY <1>1, <1>8, QuietStep DEF Control, TypeOK, OwnSteps, Power, Calm, PowerAt, Begun, ClearIP,
     Locked, StartSteps, StopSteps, tartVars, callVars

LEMMA SetFailedPower ==
    ASSUME Control, Power, NEW c \in Callers, SetFailed(c)
    PROVE  Power'
<1>1. Live' = Live
  BY DEF SetFailed, Live, tartVars
<1>8. PowerAt(c)'
  BY <1>1 DEF Control, TypeOK, OwnSteps, Power, PowerAt, SetFailed, Locked, StartSteps,
     StopSteps, tartVars, callVars, Transient
<1>9. QED
  BY <1>1, <1>8, QuietStep DEF Control, TypeOK, OwnSteps, Power, Calm, PowerAt, Begun,
     SetFailed, Locked, StartSteps, StopSteps, tartVars, callVars, Transient

LEMMA SettlePower ==
    ASSUME Control, Power, NEW c \in Callers, Settle(c)
    PROVE  Power'
<1>1. Live' = Live
  BY DEF Settle, Live, tartVars
<1>8. PowerAt(c)'
  BY <1>1 DEF Control, TypeOK, OwnSteps, Power, PowerAt, Settle, Locked, StartSteps, StopSteps,
     tartVars, Transient, Powered
<1>2. /\ pc[c] = "settle" /\ pc[c] \in Locked
      /\ \A d \in Callers \ {c} : pc'[d] = pc[d] /\ err'[d] = err[d]
      /\ UNCHANGED <<cmd, proc, asyncWait>>
      /\ state' = goal[c] /\ goal[c] # "Running"
  BY DEF Control, TypeOK, Power, PowerAt, Settle, Locked, tartVars
<1>3. Begun(c)' \/ (state' \notin Transient /\ (Live # {} => state' \in Powered))
  <2>1. CASE goal[c] \in Transient
    BY <1>2, <2>1 DEF Control, TypeOK, Power, PowerAt, Settle, Begun, Locked
  <2>2. CASE goal[c] \notin Transient
    BY <1>2, <2>2 DEF Power, PowerAt
  <2>3. QED
    BY <2>1, <2>2
<1>9. QED
  BY <1>2, <1>3, <1>8, QuietStep

LEMMA EnterPower ==
    ASSUME Control, Power, NEW c \in Callers, Enter(c)
    PROVE  Power'
<1>1. Live' = Live
  BY DEF Enter, Live, tartVars
<1>2. pc[c] \in Locked /\ op[c] \in Ops /\ state \in States
  BY DEF Control, TypeOK, Enter, Locked
<1>3. ASSUME op[c] # "Set"
      PROVE  /\ state \notin Transient
             /\ Live # {} => state \in Powered
             /\ op[c] \in {"Start", "Clone", "Delete"} => state # "Running"
             /\ op[c] = "Start" => state \notin Powered
  <2>1. ~Begun(c)
    BY <1>3 DEF Begun, Enter
  <2>2. op[c] \in Allowed[state]
    BY <1>3 DEF Power, PowerAt, Enter, Action
  <2>3. QED
    BY <1>2, <2>1, <2>2, CalmOwner, AllowedAssumption DEF Powered
<1>4. /\ Intermediate[op[c]] # "Running"
      /\ op[c] = "Start" => Intermediate[op[c]] = "Starting"
      /\ op[c] \in {"Stop", "Suspend"} =>
             Target[op[c]] \in {"Stopped", "Suspended"}
  BY <1>2, Tables DEF Ops, Calls
<1>5. PowerAt(c)'
  <2>1. CASE op[c] \in {"Stop", "Suspend"}
    BY <1>1, <1>3, <1>4, <2>1 DEF Control, TypeOK, Power, PowerAt, Enter, Transient, Powered,
       StartSteps, StopSteps
  <2>2. CASE op[c] \notin {"Stop", "Suspend"}
    BY <1>1, <1>2, <1>3, <1>4, <2>2 DEF Control, TypeOK, Power, PowerAt, Enter, Transient,
       StartSteps, StopSteps
  <2>3. QED
    BY <2>1, <2>2
<1>6. Begun(c)' /\ pc[c] \notin {"awaitRunning", "forceStop", "reap"}
  BY DEF Control, TypeOK, Enter, Begun, Locked
<1>7. /\ \A d \in Callers \ {c} : pc'[d] = pc[d] /\ err'[d] = err[d]
      /\ UNCHANGED <<cmd, proc, asyncWait>>
      /\ state' # "Running"
  BY <1>4 DEF Control, TypeOK, Enter, tartVars
<1>8. QED
  BY <1>2, <1>5, <1>6, <1>7, QuietStep

LEMMA UnlockPower ==
    ASSUME Control, Power, NEW c \in Callers, Unlock(c)
    PROVE  Power'
<1>1. pc[c] \in Locked /\ ~Begun(c)
  BY DEF Unlock, Locked, Begun
<1>2. state \notin Transient /\ (Live # {} => state \in Powered)
  BY <1>1, CalmOwner
<1>3. PowerAt(c)'
  BY DEF Control, TypeOK, Unlock, PowerAt, StartSteps, StopSteps
<1>4. /\ \A d \in Callers \ {c} : pc'[d] = pc[d] /\ err'[d] = err[d]
      /\ UNCHANGED <<proc, asyncWait, state>>
      /\ pc[c] = "unlock"
  BY DEF Control, TypeOK, Unlock, tartVars
<1>5. Live' = Live /\ Hosting' = Hosting
  BY <1>4 DEF Live, Hosting
<1>6. Launching'
  BY <1>1, <1>4, Alone DEF Power, Launching, Locked, Unlock, Control, TypeOK
<1>7. QED
  BY <1>1, <1>2, <1>3, <1>4, <1>5, <1>6, OwnerStep DEF Power, RunningIsWatched

\* Outside Start nothing is about to boot.
LEMMA NoLaunch ==
    ASSUME Control, Power, NEW c \in Callers, pc[c] \in Locked,
           pc[c] \notin {"awaitRunning", "forceStop", "reap"}
    PROVE  (\A b \in Boots : proc[b] # "launched") /\ Live = Hosting
<1>1. \A b \in Boots : proc[b] # "launched"
  BY Alone DEF Power, Launching, Locked
<1>2. QED
  BY <1>1 DEF Live, Hosting

LEMMA CommandPower ==
    ASSUME Control, Power, NEW c \in Callers, Command(c)
    PROVE  Power'
<1>1. /\ pc[c] = "command" /\ pc[c] \in Locked
      /\ op[c] \in {"Clone", "Set", "Delete"}
      /\ Live' = Live /\ UNCHANGED <<cmd, proc, asyncWait, state, op>>
      /\ pc' = [pc EXCEPT ![c] = "settle"]
      /\ \A d \in Callers \ {c} : pc'[d] = pc[d] /\ err'[d] = err[d]
      /\ Begun(c)'
  BY DEF Control, TypeOK, Command, OwnSteps, Locked, Live, Begun
<1>2. /\ op[c] = "Set" => prev[c] = "Cloning" /\ Live = {}
      /\ op[c] # "Set" => prev[c] \notin Transient \cup {"Running"}
      /\ Live # {} => prev[c] \in Powered
      /\ goal[c] = Target[op[c]] /\ err[c] = {}
  BY <1>1 DEF Power, PowerAt
<1>3. PowerAt(c)'
  <2>1. CASE err'[c] = {}
    <3>0. ASSUME err' = [err EXCEPT ![c] = {"op"}] PROVE FALSE
      <4>1. err'[c] = {"op"}
        BY <3>0 DEF Control, TypeOK
      <4>2. QED
        BY <2>1, <4>1
    <3>1. Hosting = {} /\ goal'[c] = Target[op[c]]
      BY <1>1, <1>2, <3>0 DEF Command, CommandPossible
    <3>2. Live = {}
      BY <1>1, <3>1, NoLaunch
    <3>3. QED
      BY <1>1, <2>1, <3>1, <3>2, Tables DEF PowerAt, Control, TypeOK, StartSteps, StopSteps,
         Transient
  <2>2. CASE err'[c] # {}
    <3>1. goal'[c] = prev[c]
      BY <1>1, <1>2, <2>2 DEF Command, Control, TypeOK
    <3>2. QED
      BY <1>1, <1>2, <2>2, <3>1 DEF PowerAt, Control, TypeOK, StartSteps, StopSteps
  <2>3. QED
    BY <2>1, <2>2
<1>4. QED
  BY <1>1, <1>3, QuietStep

LEMMA ReapPower ==
    ASSUME Control, Power, NEW c \in Callers, Reap(c)
    PROVE  Power'
<1>1. /\ pc[c] \in Locked /\ Live' = Live /\ UNCHANGED <<cmd, proc, asyncWait, state>>
      /\ pc' = [pc EXCEPT ![c] = "awaitStopped"]
      /\ \A d \in Callers \ {c} : pc'[d] = pc[d] /\ err'[d] = err[d]
      /\ Begun(c)'
  BY DEF Control, TypeOK, Reap, Locked, Live, Begun, tartVars, callVars
<1>2. Live = {} /\ \A b \in Boots : proc[b] # "launched"
  BY DEF Reap, Power, PowerAt, Live, Ended
<1>3. PowerAt(c)'
  BY <1>1, <1>2 DEF Control, TypeOK, Power, PowerAt, Reap, StartSteps, StopSteps, callVars
<1>4. QED
  BY <1>1, <1>2, <1>3, QuietStep

LEMMA VerifyPower ==
    ASSUME Control, Power, NEW c \in Callers, Verify(c)
    PROVE  Power'
<1>1. /\ pc[c] = "verify" /\ pc[c] \in Locked /\ op[c] \in {"Stop", "Suspend"}
      /\ Live' = Live /\ UNCHANGED <<cmd, proc, asyncWait, state, op>>
      /\ pc' = [pc EXCEPT ![c] = "settle"]
      /\ \A d \in Callers \ {c} : pc'[d] = pc[d] /\ err'[d] = err[d]
      /\ Begun(c)'
  BY DEF Control, TypeOK, OwnSteps, Verify, Locked, StopSteps, Live, Begun, tartVars
<1>2. goal'[c] = "ErrorUnknown" \/ (goal'[c] \in {"Stopped", "Suspended"} /\ Live = {})
  <2>1. Live = Hosting /\ goal[c] \in {"Stopped", "Suspended"}
    BY <1>1, NoLaunch, Tables DEF Power, PowerAt, StopSteps
  <2>2. CASE TartState = Wanted(op[c]) /\ UNCHANGED goal
    BY <1>1, <2>1, <2>2 DEF TartState, Wanted
  <2>3. CASE goal' = [goal EXCEPT ![c] = "ErrorUnknown"]
    BY <2>3 DEF Control, TypeOK
  <2>4. QED
    BY <2>2, <2>3 DEF Verify
<1>3. PowerAt(c)'
  BY <1>1, <1>2 DEF Control, TypeOK, PowerAt, StartSteps, StopSteps, Transient, Powered
<1>4. QED
  BY <1>1, <1>3, QuietStep

LEMMA LaunchPower ==
    ASSUME Control, Power, NEW c \in Callers, Launch(c)
    PROVE  Power'
<1>1. /\ pc[c] = "launch" /\ pc[c] \in Locked /\ state = "Starting" /\ Live = {}
      /\ prev[c] \notin Transient \cup {"Running"}
      /\ UNCHANGED <<state, asyncWait, prev>>
      /\ \A d \in Callers \ {c} : pc'[d] = pc[d] /\ err'[d] = err[d]
  BY DEF Control, TypeOK, Launch, Power, PowerAt, Locked, StartSteps
<1>2. RunningIsWatched'
  BY <1>1 DEF RunningIsWatched
<1>3. CASE \E b \in Boots : /\ proc' = [proc EXCEPT ![b] = "launched"]
                           /\ cmd' = [cmd EXCEPT ![c] = b]
                           /\ Goto(c, "awaitRunning")
  <2>1. PICK b \in Boots : /\ proc' = [proc EXCEPT ![b] = "launched"]
                           /\ cmd'[c] = b /\ pc'[c] = "awaitRunning"
    BY <1>3 DEF Control, TypeOK
  <2>2. Live' \subseteq {b}
    BY <1>1, <2>1 DEF Live, Control, TypeOK
  <2>3. Launching'
    BY <2>1, <2>2 DEF Launching, Live
  <2>4. PowerAt(c)'
    BY <1>1, <2>1, <2>2 DEF PowerAt, StartSteps, StopSteps
  <2>5. QED
    BY <1>1, <1>2, <2>1, <2>3, <2>4, OwnerStep DEF Begun, Locked
<1>4. CASE UNCHANGED <<proc, cmd>> /\ Goto(c, "awaitStopped")
  <2>1. Live' = Live /\ pc'[c] = "awaitStopped"
    BY <1>4 DEF Live, Control, TypeOK
  <2>2. PowerAt(c)'
    BY <1>1, <2>1 DEF PowerAt, StartSteps, StopSteps
  <2>3. QED
    BY <1>1, <1>4, <2>1, <2>2, QuietStep DEF Begun, Locked
<1>5. QED
  BY <1>3, <1>4 DEF Launch

LEMMA PublishPower ==
    ASSUME Control, Power, NEW c \in Callers, Publish(c)
    PROVE  Power'
<1>1. /\ pc[c] = "publish" /\ pc[c] \in Locked /\ UNCHANGED proc
      /\ asyncWait' = cmd[c] /\ state' = "Running"
      /\ pc' = [pc EXCEPT ![c] = "unlock"] /\ pc'[c] = "unlock"
      /\ \A d \in Callers \ {c} : pc'[d] = pc[d] /\ err'[d] = err[d]
  BY DEF Control, TypeOK, Publish, Locked, tartVars, callVars
<1>2. Live' = Live /\ Hosting' = Hosting
  BY <1>1 DEF Live, Hosting
<1>3. \A b \in Boots : proc'[b] # "launched"
  BY <1>1, NoLaunch
<1>4. RunningIsWatched'
  BY <1>1, <1>2, NoLaunch DEF RunningIsWatched, Power, PowerAt
<1>5. PowerAt(c)'
  BY <1>1 DEF PowerAt, StartSteps, StopSteps
<1>6. QED
  BY <1>1, <1>3, <1>4, <1>5, OwnerStep DEF Launching, Transient, Powered

LEMMA ForceStopPower ==
    ASSUME Control, Power, NEW c \in Callers, ForceStop(c)
    PROVE  Power'
<1>1. /\ pc[c] = "forceStop" /\ pc[c] \in Locked /\ state = "Starting"
      /\ UNCHANGED <<state, asyncWait, cmd, prev, op, goal, err>>
      /\ pc' = [pc EXCEPT ![c] = "reap"] /\ pc'[c] = "reap"
      /\ \A d \in Callers \ {c} : pc'[d] = pc[d] /\ err'[d] = err[d]
  BY DEF Control, TypeOK, ForceStop, Power, PowerAt, Locked, StartSteps, callVars
<1>2. \A b \in Boots : proc'[b] = proc[b] \/ proc'[b] = "leaving"
  BY DEF ForceStop, PowerOff
<1>3. Live' \subseteq Live /\ Live \subseteq {cmd[c]}
  BY <1>1, <1>2 DEF Live, Power, PowerAt
<1>4. Launching'
  BY <1>1, <1>2, <1>3 DEF Launching, Live
<1>5. PowerAt(c)'
  BY <1>1, <1>3 DEF Power, PowerAt, StartSteps, StopSteps
<1>6. QED
  BY <1>1, <1>4, <1>5, OwnerStep DEF RunningIsWatched, Begun, Locked

LEMMA StopVMPower ==
    ASSUME Control, Power, NEW c \in Callers, StopVM(c)
    PROVE  Power'
<1>1. /\ pc[c] = "stopVM" /\ pc[c] \in Locked
      /\ UNCHANGED <<state, asyncWait, cmd, prev, op, goal>>
      /\ pc'[c] \in {"drain", "verify"}
      /\ \A d \in Callers \ {c} : pc'[d] = pc[d] /\ err'[d] = err[d]
  BY DEF Control, TypeOK, StopVM, Locked
<1>2. \A b \in Boots : proc'[b] = proc[b] \/ proc'[b] = "leaving"
  BY DEF StopVM, PowerOff
<1>3. Hosting' \subseteq Hosting /\ \A b \in Boots : proc'[b] # "launched"
  BY <1>1, <1>2, NoLaunch DEF Hosting
<1>4. Launching' /\ RunningIsWatched'
  BY <1>1, <1>3 DEF Launching, Power, RunningIsWatched
<1>5. PowerAt(c)'
  BY <1>1 DEF Power, PowerAt, StartSteps, StopSteps
<1>6. QED
  BY <1>1, <1>4, <1>5, OwnerStep DEF Begun, Locked

LEMMA CallPower ==
    ASSUME Control, Power, NEW c \in Callers, NEW o \in Calls, Call(c, o)
    PROVE  Power'
<1>1. /\ pc[c] = "idle" /\ pc'[c] = "lock" /\ UNCHANGED <<state, asyncWait, cmd, prev, goal, err, proc>>
      /\ \A d \in Callers \ {c} : pc'[d] = pc[d] /\ op'[d] = op[d]
  BY DEF Control, TypeOK, Call, tartVars
<1>2. Live' = Live /\ Hosting' = Hosting
  BY <1>1 DEF Live, Hosting
<1>3. PowerAt(c)' /\ ~Begun(c)' /\ ~Begun(c)
  BY <1>1 DEF Power, PowerAt, Begun, Locked, StartSteps, StopSteps
<1>4. \A d \in Callers \ {c} : PowerAt(d)' /\ (Begun(d)' <=> Begun(d))
  BY <1>1, <1>2 DEF Power, PowerAt, Begun
<1>5. Calm' /\ Launching' /\ RunningIsWatched'
  BY <1>1, <1>2, <1>3, <1>4 DEF Power, Calm, Launching, RunningIsWatched
<1>6. QED
  BY <1>3, <1>4, <1>5 DEF Power

LEMMA LockPower ==
    ASSUME Control, Power, NEW c \in Callers, Lock(c)
    PROVE  Power'
<1>1. /\ pc[c] = "lock" /\ pc'[c] = "check" /\ op[c] \in Calls
      /\ UNCHANGED <<state, asyncWait, cmd, prev, goal, err, proc, op>>
      /\ \A d \in Callers \ {c} : pc'[d] = pc[d]
  BY DEF Control, TypeOK, Lock, tartVars, callVars
<1>2. Live' = Live /\ Hosting' = Hosting
  BY <1>1 DEF Live, Hosting
<1>3. PowerAt(c)' /\ ~Begun(c)' /\ ~Begun(c)
  BY <1>1 DEF Power, PowerAt, Begun, Locked, StartSteps, StopSteps, Calls
<1>4. \A d \in Callers \ {c} : PowerAt(d)' /\ (Begun(d)' <=> Begun(d))
  BY <1>1, <1>2 DEF Power, PowerAt, Begun
<1>5. Calm' /\ Launching' /\ RunningIsWatched'
  BY <1>1, <1>2, <1>3, <1>4 DEF Power, Calm, Launching, RunningIsWatched
<1>6. QED
  BY <1>3, <1>4, <1>5 DEF Power

\* What tart does by itself takes processes down, or boots one that a Start
\* in progress is waiting for.
LEMMA TartPower ==
    ASSUME Control, Power, Tart
    PROVE  Power'
<1>1. UNCHANGED <<state, asyncWait, pc, op, prev, goal, cmd, err>>
  BY DEF Tart, GuestHalts, Boot, Dies, Leaves, callVars
<1>2. Live' \subseteq Live /\ \A b \in Boots : proc'[b] = "launched" => proc[b] = "launched"
  BY DEF Control, TypeOK, Tart, GuestHalts, Boot, Dies, Leaves, PowerOff, Ended, Live
<1>3. RunningIsWatched'
  <2>1. CASE Hosting' \subseteq Hosting
    BY <1>1, <2>1 DEF Power, RunningIsWatched
  <2>2. CASE \E b \in Boots : Boot(b)
    BY <1>1, <2>2 DEF Power, PowerAt, Launching, RunningIsWatched, Boot, StartSteps
  <2>3. QED
    BY <2>1, <2>2 DEF Control, TypeOK, Tart, GuestHalts, Dies, Leaves, PowerOff, Ended, Hosting
<1>4. \A c \in Callers : PowerAt(c)' /\ (Begun(c)' <=> Begun(c))
  BY <1>1, <1>2 DEF Power, PowerAt, Begun
<1>5. Calm' /\ Launching'
  BY <1>1, <1>2, <1>4 DEF Power, Calm, Launching
<1>6. QED
  BY <1>3, <1>4, <1>5 DEF Power

\* Readers write currentIP only.
LEMMA ReaderPower ==
    ASSUME Power, UNCHANGED <<state, asyncWait, pc, callVars, proc>>
    PROVE  Power'
<1>1. Live' = Live /\ Hosting' = Hosting /\ UNCHANGED <<op, prev, goal, cmd, err>>
  BY DEF Live, Hosting, callVars
<1>2. \A c \in Callers : PowerAt(c)' /\ (Begun(c)' <=> Begun(c))
  BY <1>1 DEF Power, PowerAt, Begun
<1>3. QED
  BY <1>1, <1>2 DEF Power, Calm, Launching, RunningIsWatched

\* Control and Power together are inductive.
THEOREM PowerInvariant == Spec => [](Control /\ Power)
<1>1. Control /\ Power /\ [Next]_vars => Power'
  <2> SUFFICES ASSUME Control, Power, [Next]_vars PROVE Power'
    OBVIOUS
  <2>1. ASSUME NEW c \in Callers, Lock(c) \/ Step(c) \/ \E o \in Calls : Call(c, o)
        PROVE  Power'
    BY <2>1, CallPower, LockPower, CheckPower, EnterPower, CommandPower,
       SettlePower, SetFailedPower, LaunchPower, AwaitRunningPower,
       AddressPower, ReadyPower, PublishPower, ForceStopPower, ReapPower,
       AwaitStoppedPower, HandlePower, StopVMPower, DrainPower, VerifyPower,
       ClearIPPower, UnlockPower DEF Step
  <2>2. ASSUME NEW r \in Readers, Reader(r) PROVE Power'
    BY <2>2, ReaderPower DEF Reader, NeedIP, FetchIP, StoreIP, tartVars
  <2>3. CASE UNCHANGED vars
    BY <2>3, ReaderPower DEF vars, tartVars
  <2>4. QED
    BY <2>1, <2>2, <2>3, TartPower DEF Next
<1>2. QED
  BY <1>1, InitPower, ControlInvariant, PTL DEF Spec

LEMMA FreeIsCalm ==
    ASSUME Control, Power, Free
    PROVE  state \notin Transient /\ (Live # {} => state \in Powered)
BY CallersAssumption DEF Control, Power, Calm, Free, Begun, Locked

\* No operation is left half done: with opMutex free the instance is in no
\* intermediate state, on whichever path the last operation returned.
THEOREM SettledAlways == Spec => []Settled
<1>1. Control /\ Power => Settled
  BY FreeIsCalm DEF Settled
<1>2. QED
  BY <1>1, PowerInvariant, PTL

\* No VM is left running, or about to boot, behind a state other than Running
\* or ErrorUnknown.
THEOREM NoOrphanAlways == Spec => []NoOrphan
<1>1. Control /\ Power => NoOrphan
  BY FreeIsCalm DEF NoOrphan
<1>2. QED
  BY <1>1, PowerInvariant, PTL

\* A running VM is hosted by the process Stop and Suspend wait for.
THEOREM RunningIsWatchedAlways == Spec => []RunningIsWatched
<1>1. Power => RunningIsWatched
  BY DEF Power
<1>2. QED
  BY <1>1, PowerInvariant, PTL
-----------------------------------------------------------------------------
(* What an operation answers, and the address.                             *)

\* What a caller that returns nil has to show for it when the state is s.
Done(c, s) ==
    IF op[c] \in {"Stop", "Suspend"}
    THEN s \in {Target[op[c]], "ErrorUnknown"} /\ Live = {}
    ELSE s = Target[op[c]]

\* A step that has gone wrong has an error to return, and what is about to be
\* written without one is earned.
EarnedAt(c) ==
    /\ pc[c] \in {"forceStop", "reap", "awaitStopped", "setFailed"} => err[c] # {}
    /\ pc[c] = "verify" /\ err[c] = {} => Live = {}
    /\ pc[c] = "settle" /\ err[c] = {} => Done(c, goal[c])
    /\ pc[c] \in {"clearIP", "unlock"} /\ err[c] = {} => Done(c, state)

\* But for the process of a Start in progress, the one Stop and Suspend wait
\* for is the only one that hosts or may boot the VM.
Booting == {"awaitRunning", "address", "ready", "publish", "forceStop", "reap"}
Watched == (\A c \in Callers : pc[c] \notin Booting) => Live \subseteq {asyncWait}

Earned == Watched /\ \A c \in Callers : EarnedAt(c)

\* Those who do not hold opMutex have nothing to account for.
LEMMA EarnedByOwner ==
    ASSUME Control, NEW c \in Callers, pc[c] \in Locked,
           \A d \in Callers \ {c} : pc'[d] = pc[d],
           Watched', EarnedAt(c)'
    PROVE  Earned'
<1>1. ASSUME NEW d \in Callers \ {c} PROVE EarnedAt(d)'
  <2>1. pc[d] \notin Locked
    BY Alone
  <2> QED
    BY <2>1 DEF EarnedAt, Locked
<1> QED
  BY <1>1 DEF Earned

\* The only process an operation starts is that of Start.
LEMMA FewerLive ==
    ASSUME Control, NEW c \in Callers, Step(c), ~Launch(c)
    PROVE  Live' \subseteq Live
<1>1. CASE ForceStop(c) \/ StopVM(c)
  <2>1. \A b \in Boots : proc'[b] = proc[b] \/ proc'[b] = "leaving"
    BY <1>1 DEF ForceStop, StopVM, PowerOff
  <2> QED
    BY <2>1 DEF Live
<1>2. CASE UNCHANGED proc
  BY <1>2 DEF Live
<1> QED
  BY <1>1, <1>2 DEF Step, Check, Enter, Command, Settle, SetFailed, AwaitRunning, Address, Ready,
     OrRunFailed, Publish, Reap, AwaitStopped, Handle, Drain, Verify, ClearIP, Unlock, tartVars

\* A step of an operation is taken by the caller that holds opMutex, and moves
\* no other.
LEMMA HolderSteps ==
    ASSUME Control, NEW c \in Callers, Step(c)
    PROVE  pc[c] \in Locked /\ \A d \in Callers \ {c} : pc'[d] = pc[d]
<1>1. pc[c] \in Locked
  BY DEF Step, Check, Enter, Command, Settle, SetFailed, Launch, AwaitRunning, Address, Ready,
     Publish, ForceStop, Reap, AwaitStopped, Handle, StopVM, Drain, Verify, ClearIP, Unlock, Locked
<1>2. \A d \in Callers \ {c} : pc'[d] = pc[d]
  BY DEF Control, TypeOK, Step, Check, Enter, Command, Settle, SetFailed, Launch, AwaitRunning,
     Address, Ready, OrRunFailed, Publish, ForceStop, Reap, AwaitStopped, Handle, StopVM, Drain,
     Verify, ClearIP, Unlock
<1> QED
  BY <1>1, <1>2

LEMMA StepKeepsWatched ==
    ASSUME Control, Power, Watched, NEW c \in Callers, Step(c)
    PROVE  Watched'
<1> SUFFICES ASSUME \A d \in Callers : pc'[d] \notin Booting PROVE Live' \subseteq {asyncWait'}
  BY DEF Watched
<1>1. pc[c] \in Locked /\ \A d \in Callers \ {c} : pc'[d] = pc[d] /\ pc[d] \notin Locked
  BY HolderSteps, Alone
<1>2. pc \in [Callers -> {"idle", "lock"} \cup Locked] /\ pc'[c] \notin Booting /\ PowerAt(c)
  BY DEF Control, TypeOK, Power
<1>3. \A d \in Callers \ {c} : pc[d] \notin Booting
  BY <1>1 DEF Booting, Locked
<1>4. CASE Publish(c)
  BY <1>2, <1>4, FewerLive DEF Publish, Launch, PowerAt
<1>5. CASE Reap(c)
  BY <1>2, <1>5 DEF Reap, PowerAt, Ended, Live, tartVars
<1>6. CASE Launch(c)
  <2>1. UNCHANGED <<proc, asyncWait>> /\ Live = {}
    BY <1>2, <1>6 DEF Launch, PowerAt, Booting
  <2> QED
    BY <2>1 DEF Live
<1>7. CASE ~Publish(c) /\ ~Reap(c) /\ ~Launch(c)
  <2>1. asyncWait' = asyncWait
    BY <1>7 DEF Step, Check, Enter, Command, Settle, SetFailed, AwaitRunning, Address, Ready,
       OrRunFailed, ForceStop, AwaitStopped, Handle, StopVM, Drain, Verify, ClearIP, Unlock
  <2>2. pc[c] \notin Booting
    BY <1>2, <1>7 DEF Step, Check, Enter, Command, Settle, SetFailed, AwaitRunning, Address, Ready,
       OrRunFailed, ForceStop, AwaitStopped, Handle, StopVM, Drain, Verify, ClearIP, Unlock, Booting
  <2> QED
    BY <1>3, <1>7, <2>1, <2>2, FewerLive DEF Watched
<1> QED
  BY <1>4, <1>5, <1>6, <1>7

\* The steps of an operation that leave the processes alone and do not judge.
LEMMA PlainKeepsEarned ==
    ASSUME Control, Power, Earned, NEW c \in Callers,
           \/ Check(c) \/ Enter(c) \/ Command(c) \/ Launch(c) \/ AwaitRunning(c)
           \/ Address(c) \/ Ready(c) \/ Reap(c) \/ AwaitStopped(c)
    PROVE  EarnedAt(c)'
<1>1. /\ pc \in [Callers -> {"idle", "lock"} \cup Locked] /\ op \in [Callers -> Ops \cup {"none"}]
      /\ goal \in [Callers -> States] /\ err \in [Callers -> SUBSET {"run", "op"}]
  BY DEF Control, TypeOK
<1>2. OwnSteps(c) /\ PowerAt(c) /\ EarnedAt(c)
  <2>1. pc[c] \in Locked
    BY HolderSteps DEF Step
  <2> QED
    BY <2>1 DEF Control, Power, Earned
<1>3. CASE Check(c)
  BY <1>1, <1>3 DEF Check, EarnedAt
<1>4. CASE Enter(c)
  <2>1. pc'[c] \in {"launch", "command", "handle"} \/
        (pc'[c] = "settle" /\ op[c] \in {"Stop", "Suspend"} /\ state = Target[op[c]])
    BY <1>1, <1>4 DEF Enter
  <2>2. CASE pc'[c] = "settle" /\ op[c] \in {"Stop", "Suspend"} /\ state = Target[op[c]]
    <3>1. goal'[c] = Target[op[c]] /\ op'[c] = op[c] /\ Live' = Live
      BY <1>1, <1>4, <2>2 DEF Enter, Live, tartVars, Control, TypeOK
    <3>2. pc[c] = "enter" /\ op[c] # "Set"
      BY <1>4, <2>2 DEF Enter
    <3>3. Live = {}
      BY <1>4, <2>2, <3>2, Tables, CalmOwner DEF Begun, Powered, Locked
    <3> QED
      BY <2>2, <3>1, <3>3 DEF EarnedAt, Done
  <2> QED
    BY <2>1, <2>2 DEF EarnedAt
<1>5. CASE Command(c)
  BY <1>1, <1>2, <1>5 DEF Command, EarnedAt, Done, OwnSteps, PowerAt
<1>6. CASE Launch(c) \/ Reap(c) \/ AwaitStopped(c)
  BY <1>1, <1>2, <1>6 DEF Launch, Reap, AwaitStopped, EarnedAt, callVars
<1>7. CASE AwaitRunning(c) \/ Address(c) \/ Ready(c)
  BY <1>1, <1>7 DEF AwaitRunning, Address, Ready, OrRunFailed, EarnedAt
<1> QED
  BY <1>3, <1>4, <1>5, <1>6, <1>7

\* The steps that end an operation.
LEMMA EndKeepsEarned ==
    ASSUME Control, Power, Earned, NEW c \in Callers,
           Settle(c) \/ SetFailed(c) \/ Publish(c) \/ ForceStop(c) \/ ClearIP(c) \/ Unlock(c)
    PROVE  EarnedAt(c)'
<1>1. /\ pc \in [Callers -> {"idle", "lock"} \cup Locked] /\ op \in [Callers -> Ops \cup {"none"}]
      /\ goal \in [Callers -> States] /\ err \in [Callers -> SUBSET {"run", "op"}]
  BY DEF Control, TypeOK
<1>2. OwnSteps(c) /\ PowerAt(c) /\ EarnedAt(c)
  <2>1. pc[c] \in Locked
    BY HolderSteps DEF Step
  <2> QED
    BY <2>1 DEF Control, Power, Earned
<1>3. Settle(c) \/ SetFailed(c) \/ Publish(c) \/ ClearIP(c) \/ Unlock(c) => Live' = Live
  BY DEF Settle, SetFailed, Publish, ClearIP, Unlock, Live, tartVars
<1>4. CASE Settle(c)
  BY <1>1, <1>2, <1>3, <1>4 DEF Settle, EarnedAt, Done
<1>5. CASE SetFailed(c)
  BY <1>1, <1>2, <1>5 DEF SetFailed, EarnedAt, callVars
<1>6. CASE Publish(c)
  BY <1>1, <1>2, <1>6, Tables DEF Publish, EarnedAt, Done, OwnSteps, StartSteps, callVars
<1>7. CASE ForceStop(c)
  BY <1>1, <1>2, <1>7 DEF ForceStop, EarnedAt, callVars
<1>8. CASE ClearIP(c)
  BY <1>1, <1>2, <1>3, <1>8 DEF ClearIP, EarnedAt, Done, callVars
<1>9. CASE Unlock(c)
  BY <1>1, <1>9 DEF Unlock, EarnedAt
<1> QED
  BY <1>4, <1>5, <1>6, <1>7, <1>8, <1>9

\* Stop and Suspend: no error is left only when no process is.
LEMMA StopKeepsEarned ==
    ASSUME Control, Power, Earned, NEW c \in Callers,
           Handle(c) \/ StopVM(c) \/ Drain(c) \/ Verify(c)
    PROVE  EarnedAt(c)'
<1>1. /\ pc \in [Callers -> {"idle", "lock"} \cup Locked] /\ op \in [Callers -> Ops \cup {"none"}]
      /\ goal \in [Callers -> States] /\ err \in [Callers -> SUBSET {"run", "op"}]
  BY DEF Control, TypeOK
<1>2. /\ pc[c] \in StopSteps /\ pc[c] \in Locked /\ op[c] \in {"Stop", "Suspend"}
      /\ goal[c] = Target[op[c]] /\ EarnedAt(c)
  BY DEF Handle, StopVM, Drain, Verify, StopSteps, Locked, Control, OwnSteps, Power, PowerAt, Earned
<1>3. Live = Hosting /\ Live \subseteq {asyncWait}
  <2>1. \A d \in Callers : pc[d] \notin Booting
    BY <1>2, Alone DEF Booting, StopSteps, Locked
  <2> QED
    BY <1>2, <2>1, NoLaunch DEF StopSteps, Earned, Watched
<1>4. proc[asyncWait] \in Ended => Live = {}
  BY <1>3 DEF Live, Ended
<1>5. CASE Handle(c) \/ Drain(c)
  <2>1. Live' = Live /\ pc'[c] \in {"stopVM", "verify"}
    BY <1>1, <1>5 DEF Handle, Drain, Live, tartVars
  <2>2. pc'[c] = "verify" /\ err'[c] = {} => Live = {}
    BY <1>1, <1>4, <1>5 DEF Handle, Drain
  <2> QED
    BY <2>1, <2>2 DEF EarnedAt
<1>6. CASE StopVM(c)
  <2>1. pc'[c] \in {"drain", "verify"}
    BY <1>1, <1>6 DEF StopVM
  <2>2. \/ pc'[c] = "drain"
        \/ err'[c] = {"op"}
        \/ Hosting = {} /\ proc' = proc
    BY <1>1, <1>6 DEF StopVM
  <2> QED
    BY <1>3, <2>1, <2>2 DEF EarnedAt, Live
<1>7. CASE Verify(c)
  <2>1. Live' = Live /\ pc'[c] = "settle" /\ op' = op
    BY <1>1, <1>7 DEF Verify, Live, tartVars
  <2>2. CASE TartState = Wanted(op[c]) /\ UNCHANGED goal
    BY <1>2, <1>3, <2>1, <2>2 DEF TartState, Wanted, EarnedAt, Done
  <2>3. CASE goal' = [goal EXCEPT ![c] = "ErrorUnknown"] /\ UNCHANGED err
    <3>1. pc[c] = "verify" /\ goal'[c] = "ErrorUnknown" /\ err'[c] = err[c]
      BY <1>1, <1>7, <2>3 DEF Verify
    <3> QED
      BY <1>2, <2>1, <3>1 DEF EarnedAt, Done
  <2> QED
    BY <1>7, <2>2, <2>3 DEF Verify
<1> QED
  BY <1>5, <1>6, <1>7

LEMMA StepKeepsEarned ==
    ASSUME Control, Power, Earned, NEW c \in Callers, Step(c)
    PROVE  Earned'
<1>1. EarnedAt(c)'
  BY PlainKeepsEarned, EndKeepsEarned, StopKeepsEarned DEF Step
<1>2. Watched'
  BY StepKeepsWatched DEF Earned
<1> QED
  BY <1>1, <1>2, HolderSteps, EarnedByOwner

\* What happens outside the operations takes processes away only.
LEMMA OutsideKeepsEarned ==
    ASSUME Earned, Live' \subseteq Live, UNCHANGED <<state, asyncWait, pc, callVars>>
    PROVE  Earned'
<1>1. Watched'
  BY DEF Earned, Watched
<1>2. ASSUME NEW c \in Callers PROVE EarnedAt(c)'
  BY DEF Earned, EarnedAt, Done, callVars
<1> QED
  BY <1>1, <1>2 DEF Earned

\* A nil error means that the instance got there; of Stop and Suspend, that no
\* process that hosts the VM, or may boot it, is left.
THEOREM NilMeansDoneAlways == Spec => []NilMeansDone
<1>1. Init => Earned
  BY DEF Init, Earned, EarnedAt, Watched, Live
<1>2. Control /\ Power /\ Earned /\ [Next]_vars => Earned'
  <2> SUFFICES ASSUME Control, Power, Earned, [Next]_vars PROVE Earned'
    OBVIOUS
  <2>1. ASSUME NEW c \in Callers, Lock(c) \/ \E o \in Calls : Call(c, o) PROVE Earned'
    <3>1. /\ pc \in [Callers -> {"idle", "lock"} \cup Locked]
          /\ op \in [Callers -> Ops \cup {"none"}]
          /\ pc'[c] \in {"lock", "check"} /\ pc[c] \in {"idle", "lock"}
          /\ Live' = Live /\ UNCHANGED <<state, asyncWait, goal, err>>
          /\ \A d \in Callers \ {c} : pc'[d] = pc[d] /\ op'[d] = op[d]
      BY <2>1 DEF Control, TypeOK, Lock, Call, Live, callVars, tartVars
    <3>2. Watched'
      BY <3>1 DEF Earned, Watched, Booting
    <3>3. EarnedAt(c)'
      BY <3>1 DEF EarnedAt
    <3>4. ASSUME NEW d \in Callers \ {c} PROVE EarnedAt(d)'
      BY <3>1 DEF Earned, EarnedAt, Done
    <3> QED
      BY <3>2, <3>3, <3>4 DEF Earned
  <2>2. CASE (\E r \in Readers : Reader(r)) \/ UNCHANGED vars
    <3>1. UNCHANGED <<state, asyncWait, pc, callVars, proc>>
      BY <2>2 DEF Reader, NeedIP, FetchIP, StoreIP, vars, tartVars
    <3> QED
      BY <3>1, OutsideKeepsEarned DEF Live
  <2>3. CASE Tart
    <3>1. UNCHANGED <<state, asyncWait, pc, callVars>>
      BY <2>3 DEF Tart, GuestHalts, Boot, Dies, Leaves
    <3>2. Live' \subseteq Live
      BY <2>3 DEF Control, TypeOK, Tart, GuestHalts, Boot, Dies, Leaves, PowerOff, Ended, Live
    <3> QED
      BY <3>1, <3>2, OutsideKeepsEarned
  <2> QED
    BY <2>1, <2>2, <2>3, StepKeepsEarned DEF Next
<1>3. Earned => NilMeansDone
  BY DEF Earned, EarnedAt, Done, NilMeansDone
<1> QED
  BY <1>1, <1>2, <1>3, PowerInvariant, PTL DEF Spec

\* With the address obtained by Start no reader fetches one, and the one about
\* to be published comes from the process about to be watched.
AddressAt(c) ==
    /\ pc[c] \in {"ready", "publish"} => ip[c] = cmd[c]
    /\ pc[c] = "clearIP" => state # "Running"

AddressKnown ==
    /\ AddressIsCurrent
    /\ IPAtStart => \A r \in Readers : rpc[r] = "idle"
    /\ IPAtStart => \A c \in Callers : AddressAt(c)

LEMMA StepKeepsAddress ==
    ASSUME Control, Power, AddressKnown, IPAtStart, NEW c \in Callers, Step(c)
    PROVE  AddressKnown'
<1>1. pc[c] \in Locked
  BY HolderSteps
<1>2. \A d \in Callers \ {c} : pc'[d] = pc[d]
  BY HolderSteps
<1>3. /\ pc \in [Callers -> {"idle", "lock"} \cup Locked] /\ op \in [Callers -> Ops \cup {"none"}]
      /\ ip \in [Callers -> {0} \cup Boots] /\ cmd \in [Callers -> {0} \cup Boots]
      /\ goal \in [Callers -> States] /\ state \in States
  BY DEF Control, TypeOK
<1>4. OwnSteps(c) /\ PowerAt(c) /\ AddressAt(c) /\ (state = "Running" => currentIP = asyncWait)
  BY <1>1 DEF Control, Power, AddressKnown, AddressIsCurrent
<1>5. rpc' = rpc
  BY DEF Step, Check, Enter, Command, Settle, SetFailed, Launch, AwaitRunning, Address, Ready,
     OrRunFailed, Publish, ForceStop, Reap, AwaitStopped, Handle, StopVM, Drain, Verify, ClearIP,
     Unlock, readVars
<1>6. ASSUME NEW d \in Callers \ {c} PROVE AddressAt(d)'
  BY <1>1, <1>2, Alone DEF AddressAt, Locked
<1> SUFFICES AddressAt(c)' /\ (state' = "Running" => currentIP' = asyncWait')
  BY <1>5, <1>6 DEF AddressKnown, AddressIsCurrent
<1>7. CASE Check(c)
  BY <1>3, <1>4, <1>7, AllowedAssumption DEF Check, AddressAt, OwnSteps, PowerAt, StartSteps,
     StopSteps, callVars, Action
<1>8. CASE Enter(c)
  BY <1>3, <1>4, <1>8, Tables DEF Enter, AddressAt, OwnSteps, PowerAt, StartSteps, StopSteps,
     callVars
<1>9. CASE Command(c)
  BY <1>3, <1>4, <1>9 DEF Command, AddressAt, OwnSteps, PowerAt, StartSteps, StopSteps, callVars
<1>10. CASE Settle(c)
  BY <1>3, <1>4, <1>10 DEF Settle, AddressAt, OwnSteps, PowerAt, StartSteps, StopSteps, callVars
<1>11. CASE SetFailed(c)
  BY <1>3, <1>4, <1>11 DEF SetFailed, AddressAt, OwnSteps, PowerAt, StartSteps, StopSteps,
     callVars
<1>12. CASE Launch(c)
  BY <1>3, <1>4, <1>12 DEF Launch, AddressAt, OwnSteps, PowerAt, StartSteps, StopSteps, callVars
<1>13. CASE AwaitRunning(c)
  BY <1>3, <1>4, <1>13 DEF AwaitRunning, OrRunFailed, AddressAt, OwnSteps, PowerAt, StartSteps,
     StopSteps, callVars
<1>14. CASE Address(c)
  BY <1>3, <1>4, <1>14 DEF Address, OrRunFailed, AddressAt, OwnSteps, PowerAt, StartSteps,
     StopSteps, callVars, Hosting, Live
<1>15. CASE Ready(c)
  BY <1>3, <1>4, <1>15 DEF Ready, OrRunFailed, AddressAt, OwnSteps, PowerAt, StartSteps,
     StopSteps, callVars
<1>16. CASE Publish(c)
  BY <1>3, <1>4, <1>16 DEF Publish, AddressAt, OwnSteps, PowerAt, StartSteps, StopSteps, callVars
<1>17. CASE ForceStop(c)
  BY <1>3, <1>4, <1>17 DEF ForceStop, AddressAt, OwnSteps, PowerAt, StartSteps, StopSteps,
     callVars
<1>18. CASE Reap(c)
  BY <1>3, <1>4, <1>18 DEF Reap, AddressAt, OwnSteps, PowerAt, StartSteps, StopSteps, callVars
<1>19. CASE AwaitStopped(c)
  BY <1>3, <1>4, <1>19 DEF AwaitStopped, AddressAt, OwnSteps, PowerAt, StartSteps, StopSteps,
     callVars
<1>20. CASE Handle(c)
  BY <1>3, <1>4, <1>20 DEF Handle, AddressAt, OwnSteps, PowerAt, StartSteps, StopSteps, callVars
<1>21. CASE StopVM(c)
  BY <1>3, <1>4, <1>21 DEF StopVM, AddressAt, OwnSteps, PowerAt, StartSteps, StopSteps, callVars
<1>22. CASE Drain(c)
  BY <1>3, <1>4, <1>22 DEF Drain, AddressAt, OwnSteps, PowerAt, StartSteps, StopSteps, callVars
<1>23. CASE Verify(c)
  BY <1>3, <1>4, <1>23 DEF Verify, AddressAt, OwnSteps, PowerAt, StartSteps, StopSteps, callVars
<1>24. CASE ClearIP(c)
  BY <1>3, <1>4, <1>24 DEF ClearIP, AddressAt, OwnSteps, PowerAt, StartSteps, StopSteps, callVars
<1>25. CASE Unlock(c)
  BY <1>3, <1>4, <1>25 DEF Unlock, AddressAt, OwnSteps, PowerAt, StartSteps, StopSteps, callVars
<1> QED
  BY <1>7, <1>8, <1>9, <1>10, <1>11, <1>12, <1>13, <1>14, <1>15, <1>16, <1>17, <1>18, <1>19,
     <1>20, <1>21, <1>22, <1>23, <1>24, <1>25 DEF Step

\* With the address obtained by Start, the one that is served while the
\* instance is Running is that of the current boot.
THEOREM AddressIsCurrentAlways == Spec => []AddressIsCurrent
<1>1. Init => AddressKnown
  BY DEF Init, AddressKnown, AddressIsCurrent, AddressAt
<1>2. Control /\ Power /\ AddressKnown /\ [Next]_vars => AddressKnown'
  <2> SUFFICES ASSUME Control, Power, AddressKnown, [Next]_vars, IPAtStart PROVE AddressKnown'
    BY DEF AddressKnown, AddressIsCurrent
  <2>1. ASSUME NEW c \in Callers, Lock(c) \/ \E o \in Calls : Call(c, o) PROVE AddressKnown'
    BY <2>1 DEF Control, TypeOK, AddressKnown, AddressIsCurrent, AddressAt, Lock, Call,
       callVars, readVars
  <2>2. ASSUME NEW r \in Readers, Reader(r) PROVE AddressKnown'
    BY <2>2 DEF AddressKnown, Reader, NeedIP, FetchIP, StoreIP
  <2>3. CASE UNCHANGED <<state, currentIP, asyncWait, pc, callVars, readVars>>
    BY <2>3 DEF AddressKnown, AddressIsCurrent, AddressAt, callVars, readVars
  <2>4. Tart \/ UNCHANGED vars => UNCHANGED <<state, currentIP, asyncWait, pc, callVars, readVars>>
    BY DEF Tart, GuestHalts, Boot, Dies, Leaves, vars
  <2> QED
    BY <2>1, <2>2, <2>3, <2>4, StepKeepsAddress DEF Next
<1>3. AddressKnown => AddressIsCurrent
  BY DEF AddressKnown
<1> QED
  BY <1>1, <1>2, <1>3, PowerInvariant, PTL DEF Spec
-----------------------------------------------------------------------------
\* The VM at rest is as a state has it.
Fits(s) ==
    /\ s = "Deleted" => disk = "absent"
    /\ s \in {"Stopped", "Cloning"} => disk # "suspended"

\* It is, or will be, as the state has it that the operation may go back to,
\* is about to write, or has written.
RestAt(c) ==
    /\ pc[c] \in {"check", "enter", "clearIP", "unlock"} => Fits(state)
    /\ pc[c] \in {"command"} \cup StartSteps => Fits(prev[c])
    /\ pc[c] = "command" /\ op[c] = "Clone" => prev[c] # "Deleted"
    /\ pc[c] = "settle" => Fits(goal[c])
    /\ pc[c] = "setFailed" => disk # "suspended"

Rest == (Free => Fits(state)) /\ \A c \in Callers : RestAt(c)

LEMMA StepKeepsRest ==
    ASSUME Control, Power, Rest, NEW c \in Callers, Step(c), "Clone" \notin Allowed["Deleted"]
    PROVE  Rest'
<1>1. pc[c] \in Locked
  BY HolderSteps
<1>2. \A d \in Callers \ {c} : pc'[d] = pc[d]
  BY HolderSteps
<1>3. /\ pc \in [Callers -> {"idle", "lock"} \cup Locked] /\ op \in [Callers -> Ops \cup {"none"}]
      /\ prev \in [Callers -> States] /\ goal \in [Callers -> States] /\ state \in States
      /\ disk \in {"absent", "stopped", "suspended"}
  BY DEF Control, TypeOK
<1>4. OwnSteps(c) /\ PowerAt(c) /\ RestAt(c)
  BY <1>1 DEF Control, Power, Rest
<1>5. opMutex = c /\ c # Nobody
  BY <1>1, CallersAssumption DEF Control
<1>6. ASSUME NEW d \in Callers \ {c} PROVE RestAt(d)'
  BY <1>1, <1>2, Alone DEF RestAt, Locked, StartSteps
<1> SUFFICES RestAt(c)' /\ (Free' => Fits(state)')
  BY <1>6 DEF Rest
<1>7. CASE Check(c)
  BY <1>3, <1>4, <1>5, <1>7, Tables DEF Check, Fits, RestAt, Free, OwnSteps, PowerAt,
     StartSteps, StopSteps, callVars, tartVars, Action
<1>8. CASE Enter(c)
  BY <1>3, <1>4, <1>5, <1>8, Tables, AllowedAssumption DEF Enter, Fits, RestAt, Free, OwnSteps,
     PowerAt, StartSteps, StopSteps, callVars, tartVars, Action
<1>9. CASE Command(c)
  BY <1>3, <1>4, <1>5, <1>9, Tables DEF Command, Fits, RestAt, Free, OwnSteps, PowerAt,
     StartSteps, StopSteps, callVars, tartVars, Effect, CommandPossible
<1>10. CASE Settle(c)
  BY <1>3, <1>4, <1>5, <1>10 DEF Settle, Fits, RestAt, Free, OwnSteps, PowerAt, StartSteps,
     StopSteps, callVars, tartVars
<1>11. CASE SetFailed(c)
  BY <1>3, <1>4, <1>5, <1>11 DEF SetFailed, Fits, RestAt, Free, OwnSteps, PowerAt, StartSteps,
     StopSteps, callVars, tartVars
<1>12. CASE Launch(c)
  BY <1>3, <1>4, <1>5, <1>12 DEF Launch, Fits, RestAt, Free, OwnSteps, PowerAt, StartSteps,
     StopSteps, callVars, tartVars
<1>13. CASE AwaitRunning(c)
  BY <1>3, <1>4, <1>5, <1>13 DEF AwaitRunning, OrRunFailed, Fits, RestAt, Free, OwnSteps,
     PowerAt, StartSteps, StopSteps, callVars, tartVars
<1>14. CASE Address(c)
  BY <1>3, <1>4, <1>5, <1>14 DEF Address, OrRunFailed, Fits, RestAt, Free, OwnSteps, PowerAt,
     StartSteps, StopSteps, callVars, tartVars
<1>15. CASE Ready(c)
  BY <1>3, <1>4, <1>5, <1>15 DEF Ready, OrRunFailed, Fits, RestAt, Free, OwnSteps, PowerAt,
     StartSteps, StopSteps, callVars, tartVars
<1>16. CASE Publish(c)
  BY <1>3, <1>4, <1>5, <1>16 DEF Publish, Fits, RestAt, Free, OwnSteps, PowerAt, StartSteps,
     StopSteps, callVars, tartVars
<1>17. CASE ForceStop(c)
  BY <1>3, <1>4, <1>5, <1>17 DEF ForceStop, Fits, RestAt, Free, OwnSteps, PowerAt, StartSteps,
     StopSteps, callVars, tartVars
<1>18. CASE Reap(c)
  BY <1>3, <1>4, <1>5, <1>18 DEF Reap, Fits, RestAt, Free, OwnSteps, PowerAt, StartSteps,
     StopSteps, callVars, tartVars
<1>19. CASE AwaitStopped(c)
  BY <1>3, <1>4, <1>5, <1>19 DEF AwaitStopped, Fits, RestAt, Free, OwnSteps, PowerAt,
     StartSteps, StopSteps, callVars, tartVars, TartState
<1>20. CASE Handle(c)
  BY <1>3, <1>4, <1>5, <1>20 DEF Handle, Fits, RestAt, Free, OwnSteps, PowerAt, StartSteps,
     StopSteps, callVars, tartVars
<1>21. CASE StopVM(c)
  BY <1>3, <1>4, <1>5, <1>21 DEF StopVM, Fits, RestAt, Free, OwnSteps, PowerAt, StartSteps,
     StopSteps, callVars, tartVars
<1>22. CASE Drain(c)
  BY <1>3, <1>4, <1>5, <1>22 DEF Drain, Fits, RestAt, Free, OwnSteps, PowerAt, StartSteps,
     StopSteps, callVars, tartVars
<1>23. CASE Verify(c)
  BY <1>3, <1>4, <1>5, <1>23, Tables DEF Verify, Fits, RestAt, Free, OwnSteps, PowerAt,
     StartSteps, StopSteps, callVars, tartVars, TartState, Wanted
<1>24. CASE ClearIP(c)
  BY <1>3, <1>4, <1>5, <1>24 DEF ClearIP, Fits, RestAt, Free, OwnSteps, PowerAt, StartSteps,
     StopSteps, callVars, tartVars
<1>25. CASE Unlock(c)
  BY <1>3, <1>4, <1>5, <1>25 DEF Unlock, Fits, RestAt, Free, OwnSteps, PowerAt, StartSteps,
     StopSteps, callVars, tartVars
<1> QED
  BY <1>7, <1>8, <1>9, <1>10, <1>11, <1>12, <1>13, <1>14, <1>15, <1>16, <1>17, <1>18, <1>19,
     <1>20, <1>21, <1>22, <1>23, <1>24, <1>25 DEF Step

\* Where a machine that was deleted cannot be cloned again, a Deleted one is gone
\* and a Stopped one has no snapshot to resume from, whatever failed half way.
THEOREM AtRestAlways ==
    ASSUME "Clone" \notin Allowed["Deleted"]
    PROVE  Spec => []AtRest
<1>1. Init => Rest
  BY DEF Init, Rest, RestAt, Fits, StartSteps
<1>2. Control /\ Power /\ Rest /\ [Next]_vars => Rest'
  <2> SUFFICES ASSUME Control, Power, Rest, [Next]_vars PROVE Rest'
    OBVIOUS
  <2>1. ASSUME NEW c \in Callers, Lock(c) \/ \E o \in Calls : Call(c, o) PROVE Rest'
    BY <2>1, CallersAssumption DEF Control, TypeOK, Rest, RestAt, Fits, Free, StartSteps, Lock,
       Call, callVars, tartVars
  <2>2. CASE UNCHANGED <<state, opMutex, pc, callVars>> /\ (disk' = disk \/ (disk # "absent" /\ disk' = "stopped"))
    BY <2>2 DEF Rest, RestAt, Fits, Free, StartSteps, callVars
  <2>3. (\E r \in Readers : Reader(r)) \/ Tart \/ UNCHANGED vars =>
            UNCHANGED <<state, opMutex, pc, callVars>> /\ (disk' = disk \/ (disk # "absent" /\ disk' = "stopped"))
    BY DEF Reader, NeedIP, FetchIP, StoreIP, Tart, GuestHalts, Boot, Dies, Leaves, vars, tartVars
  <2> QED
    BY <2>1, <2>2, <2>3, StepKeepsRest DEF Next
<1>3. Rest => AtRest
  BY DEF Rest, Fits, AtRest
<1> QED
  BY <1>1, <1>2, <1>3, PowerInvariant, PTL DEF Spec

-----------------------------------------------------------------------------
(* TartInstance implements VMLifecycle.  What Control and Power leave out   *)
(* is where an operation may end, which Ends adds.                         *)


USE DEF Goto

\* The states the operation of a caller may settle in, given the one it
\* started in.
EndsOf(o, from) ==
    CASE o = "Clone"   -> {from, IF SetResources THEN "Cloning" ELSE "Stopped"}
      [] o = "Set"     -> {"Cloning", "Stopped"}
      [] o = "Start"   -> {from, "ErrorUnknown"}
      [] o = "Stop"    -> {"Stopped", "ErrorUnknown"}
      [] o = "Suspend" -> {"Suspended", "ErrorUnknown"}
      [] o = "Delete"  -> {from, "Deleted"}

EndsAt(c) == pc[c] = "settle" => goal[c] \in EndsOf(op[c], prev[c])
Ends == \A c \in Callers : EndsAt(c)

LEMMA InitEnds == Init => Ends
BY DEF Init, Ends, EndsAt

\* The steps of a caller that lead to "settle".
LEMMA OwnEnds ==
    ASSUME Control, Power, NEW c \in Callers,
           Enter(c) \/ Command(c) \/ AwaitStopped(c) \/ Verify(c)
    PROVE  EndsAt(c)'
<1>1. CASE Enter(c)
  <2>1. op[c] \in Ops
    BY <1>1 DEF Control, Enter, Locked
  <2>2. pc'[c] = "settle" => op[c] \in {"Stop", "Suspend"} /\ goal'[c] = Target[op[c]]
    BY <1>1 DEF Control, TypeOK, Enter
  <2>3. op'[c] = op[c]
    BY <1>1 DEF Enter
  <2>4. QED
    BY <2>2, <2>3, Tables DEF EndsAt, EndsOf
<1>2. CASE Command(c)
  <2>1. /\ op[c] \in {"Clone", "Set", "Delete"} /\ op'[c] = op[c] /\ prev'[c] = prev[c]
        /\ goal[c] = Target[op[c]] /\ (op[c] = "Set" => prev[c] = "Cloning")
    BY <1>2 DEF Control, OwnSteps, Power, PowerAt, Command, Locked
  <2>2. goal'[c] \in {Target[op[c]], prev[c]}
    BY <1>2, <2>1 DEF Control, TypeOK, Command
  <2>3. QED
    BY <2>1, <2>2, Tables DEF EndsAt, EndsOf
<1>3. CASE AwaitStopped(c)
  <2>1. /\ op[c] = "Start" /\ op'[c] = op[c] /\ prev'[c] = prev[c]
        /\ goal'[c] \in {prev[c], "ErrorUnknown"}
    BY <1>3 DEF Control, TypeOK, OwnSteps, AwaitStopped, Locked, StartSteps
  <2>2. QED
    BY <2>1 DEF EndsAt, EndsOf
<1>4. CASE Verify(c)
  <2>1. /\ op[c] \in {"Stop", "Suspend"} /\ op'[c] = op[c]
        /\ goal'[c] \in {Target[op[c]], "ErrorUnknown"}
    BY <1>4 DEF Control, TypeOK, OwnSteps, Power, PowerAt, Verify, Locked, StopSteps
  <2>2. QED
    BY <2>1, Tables DEF EndsAt, EndsOf
<1>5. QED
  BY <1>1, <1>2, <1>3, <1>4

\* All the others lead elsewhere.
LEMMA ElsewhereEnds ==
    ASSUME Control, NEW c \in Callers, Lock(c) \/ Step(c) \/ \E o \in Calls : Call(c, o),
           ~(Enter(c) \/ Command(c) \/ AwaitStopped(c) \/ Verify(c))
    PROVE  pc'[c] # "settle"
<1>1. CASE Lock(c) \/ \E o \in Calls : Call(c, o)
  BY <1>1 DEF Control, TypeOK, Lock, Call
<1>2. CASE Check(c) \/ Settle(c) \/ SetFailed(c) \/ ClearIP(c) \/ Unlock(c)
  BY <1>2 DEF Control, TypeOK, Check, Settle, SetFailed, ClearIP, Unlock
<1>3. CASE Launch(c) \/ AwaitRunning(c) \/ Address(c) \/ Ready(c) \/ Publish(c)
  BY <1>3 DEF Control, TypeOK, Launch, AwaitRunning, Address, Ready, Publish, OrRunFailed
<1>4. CASE ForceStop(c) \/ Reap(c) \/ Handle(c) \/ StopVM(c) \/ Drain(c)
  BY <1>4 DEF Control, TypeOK, ForceStop, Reap, Handle, StopVM, Drain
<1>5. QED
  BY <1>1, <1>2, <1>3, <1>4 DEF Step

\* No step touches another caller.
LEMMA OthersAside ==
    ASSUME Control, NEW c \in Callers, Lock(c) \/ Step(c) \/ \E o \in Calls : Call(c, o),
           NEW d \in Callers \ {c}
    PROVE  UNCHANGED <<pc[d], op[d], prev[d], goal[d]>>
<1>1. CASE Lock(c) \/ \E o \in Calls : Call(c, o)
  BY <1>1 DEF Control, TypeOK, Lock, Call, callVars
<1>2. CASE Check(c) \/ Settle(c) \/ SetFailed(c) \/ ClearIP(c) \/ Unlock(c)
  BY <1>2 DEF Control, TypeOK, Check, Settle, SetFailed, ClearIP, Unlock, callVars
<1>3. CASE Launch(c) \/ AwaitRunning(c) \/ Address(c) \/ Ready(c) \/ Publish(c)
  BY <1>3 DEF Control, TypeOK, Launch, AwaitRunning, Address, Ready, Publish, OrRunFailed, callVars
<1>4. CASE ForceStop(c) \/ Reap(c) \/ Handle(c) \/ StopVM(c) \/ Drain(c)
  BY <1>4 DEF Control, TypeOK, ForceStop, Reap, Handle, StopVM, Drain, callVars
<1>5. CASE Enter(c) \/ Command(c) \/ AwaitStopped(c) \/ Verify(c)
  BY <1>5 DEF Control, TypeOK, Enter, Command, AwaitStopped, Verify
<1>6. QED
  BY <1>1, <1>2, <1>3, <1>4, <1>5 DEF Step

LEMMA NextEnds ==
    ASSUME Control, Power, Ends, [Next]_vars
    PROVE  Ends'
<1>1. ASSUME NEW c \in Callers, Lock(c) \/ Step(c) \/ \E o \in Calls : Call(c, o)
      PROVE  Ends'
  <2>1. EndsAt(c)'
    BY <1>1, OwnEnds, ElsewhereEnds DEF EndsAt
  <2>2. ASSUME NEW d \in Callers \ {c} PROVE EndsAt(d)'
    BY <1>1, OthersAside DEF Ends, EndsAt
  <2>3. QED
    BY <2>1, <2>2 DEF Ends
<1>2. CASE UNCHANGED <<pc, callVars>>
  BY <1>2 DEF Ends, EndsAt, callVars
<1>3. QED
  BY <1>1, <1>2 DEF Next, vars, Reader, NeedIP, FetchIP, StoreIP,
     Tart, GuestHalts, Boot, Dies, Leaves

\* An operation ends in one of its outcomes.
THEOREM EndsInvariant == Spec => []Ends
<1>1. Control /\ Power /\ Ends /\ [Next]_vars => Ends'
  BY NextEnds
<1>2. QED
  BY <1>1, InitEnds, PowerInvariant, PTL DEF Spec

-----------------------------------------------------------------------------
(* The refinement.                                                         *)

\* While c holds opMutex the mapping is about c.
LEMMA BarOwner ==
    ASSUME NEW c \in Callers, opMutex = c
    PROVE  /\ busyBar = IF Begun(c) THEN op[c] ELSE "none"
           /\ fromBar = IF ~Begun(c) THEN "Initial"
                        ELSE IF op[c] = "Set" THEN "Cloning" ELSE prev[c]
BY DEF busyBar, fromBar, Busy

LEMMA BarFree ==
    ASSUME opMutex = Nobody
    PROVE  busyBar = "none" /\ fromBar = "Initial"
BY CallersAssumption DEF busyBar, fromBar, Busy

LEMMA InitMaps == Init => Lifecycle!Init
<1> SUFFICES ASSUME Init PROVE Lifecycle!Init
  OBVIOUS
<1>1. busyBar = "none" /\ fromBar = "Initial"
  BY BarFree DEF Init
<1>2. Live = {}
  BY DEF Init, Live
<1>3. QED
  BY <1>1, <1>2 DEF Init, Lifecycle!Init

\* A step that shows nothing but, perhaps, the loss of the VM.
LEMMA Unseen ==
    ASSUME state' = state, busyBar' = busyBar, fromBar' = fromBar,
           Live' = Live \/ Live' = {}
    PROVE  [Lifecycle!Next]_Lifecycle!vars
BY DEF Lifecycle!Next, Lifecycle!PowerLoss, Lifecycle!vars

LEMMA OwnerUnseen ==
    ASSUME Control, NEW c \in Callers, pc[c] \in Locked, opMutex' = opMutex,
           op'[c] = op[c], prev'[c] = prev[c], Begun(c)' <=> Begun(c),
           state' = state, (Live' # {}) => (Live # {})
    PROVE  [Lifecycle!Next]_Lifecycle!vars
<1>1. opMutex = c /\ opMutex' = c
  BY DEF Control
<1>2. busyBar' = busyBar /\ fromBar' = fromBar
  BY <1>1 DEF busyBar, fromBar, Busy
<1>3. QED
  BY <1>2 DEF Lifecycle!Next, Lifecycle!PowerLoss, Lifecycle!vars

\* The end of an operation.
LEMMA OwnerSettles ==
    ASSUME Control, NEW c \in Callers, pc[c] \in Locked, opMutex' = opMutex,
           Begun(c), ~Begun(c)', Live' = Live, Live # {} => state' \in Powered,
           op[c] = "Clone"   => state' = prev[c] \/ (~SetResources /\ state' = "Stopped"),
           op[c] = "Set"     => state' = "Stopped",
           op[c] = "Start"   => state' \in {"Running", "ErrorUnknown", prev[c]},
           op[c] = "Stop"    => state' \in {"Stopped", "ErrorUnknown"},
           op[c] = "Suspend" => state' \in {"Suspended", "ErrorUnknown"},
           op[c] = "Delete"  => state' \in {"Deleted", prev[c]}
    PROVE  Lifecycle!Settle
<1>1. opMutex = c /\ opMutex' = c /\ op[c] \in Ops
  BY DEF Control
<1>2. busyBar = op[c] /\ busyBar' = "none" /\ fromBar' = "Initial"
      /\ (op[c] # "Set" => fromBar = prev[c])
  BY <1>1 DEF busyBar, fromBar, Busy
<1>3. state' \in Lifecycle!Outcomes[op[c]]
  BY <1>1, <1>2 DEF Lifecycle!Outcomes, Ops, Calls
<1>4. op[c] # "none"
  BY <1>1 DEF Ops, Calls
<1>5. QED
  BY <1>2, <1>3, <1>4 DEF Lifecycle!Settle, Lifecycle!Powered, Powered

\* Enter: an operation begins, or `tart set` turns Cloning into Stopped.
LEMMA EnterMaps ==
    ASSUME Control, Power, NEW c \in Callers, Enter(c)
    PROVE  Lifecycle!Next
<1>1. /\ opMutex = c /\ opMutex' = c /\ op[c] \in Ops /\ op'[c] = op[c]
      /\ prev'[c] = state /\ state' = Intermediate[op[c]]
      /\ Begun(c)' /\ (Begun(c) <=> op[c] = "Set")
  BY DEF Control, TypeOK, Enter, Locked, Begun
<1>2. Live' = Live
  BY DEF Enter, Live, tartVars
<1>3. busyBar' = op[c] /\ fromBar' = (IF op[c] = "Set" THEN "Cloning" ELSE state)
  BY <1>1 DEF busyBar, fromBar, Busy
<1>4. CASE op[c] = "Set"
  <2>1. busyBar = "Set" /\ fromBar = "Cloning"
    BY <1>1, <1>4 DEF busyBar, fromBar, Busy
  <2>2. state' = "Stopped"
    BY <1>1, <1>4, Tables
  <2>3. QED
    BY <1>2, <1>3, <1>4, <2>1, <2>2 DEF Lifecycle!Next, Lifecycle!Configuring
<1>5. CASE op[c] # "Set"
  <2>1. busyBar = "none" /\ op[c] \in Lifecycle!Calls
    BY <1>1, <1>5 DEF busyBar, Busy, Ops, Calls, Lifecycle!Calls
  <2>2. op[c] \in Allowed[state]
    BY <1>5 DEF Power, PowerAt, Enter, Action
  <2>3. Intermediate[op[c]] = Lifecycle!Intermediate[op[c]]
    BY DEF Intermediate, Lifecycle!Intermediate
  <2>4. Lifecycle!Begin(op[c])
    BY <1>1, <1>2, <1>3, <1>5, <2>1, <2>2, <2>3 DEF Lifecycle!Begin
  <2>5. QED
    BY <2>1, <2>4 DEF Lifecycle!Next
<1>6. QED
  BY <1>4, <1>5

\* Settle: the end of an operation, or the middle of a Clone with resources.
LEMMA SettleMaps ==
    ASSUME Control, Power, Ends, NEW c \in Callers, Settle(c)
    PROVE  Lifecycle!Next
<1>1. /\ opMutex = c /\ opMutex' = c /\ op[c] \in Ops /\ state' = goal[c]
      /\ pc[c] = "settle" /\ pc[c] \in Locked /\ Begun(c) /\ Live' = Live
      /\ prev'[c] = prev[c]
  BY DEF Control, TypeOK, Settle, Locked, Begun, Live, tartVars
<1>2. /\ Live # {} => goal[c] \in Powered
      /\ goal[c] # "Running"
      /\ goal[c] \in EndsOf(op[c], prev[c])
      /\ op[c] = "Clone" /\ SetResources /\ err[c] = {} => goal[c] = "Cloning"
      /\ op[c] = "Set" /\ err[c] # {} => goal[c] = "Cloning"
      /\ goal[c] \in Transient => /\ goal[c] = "Cloning"
                                  /\ \/ op[c] = "Clone" /\ SetResources /\ err[c] = {}
                                     \/ op[c] = "Set" /\ err[c] # {}
  BY <1>1 DEF Power, PowerAt, Ends, EndsAt
<1>3. CASE op[c] = "Clone" /\ SetResources /\ err[c] = {}
  <2>1. op'[c] = "Set" /\ pc'[c] = "check" /\ goal[c] = "Cloning"
    BY <1>2, <1>3 DEF Settle, Control, TypeOK
  <2>2. busyBar = "Clone" /\ busyBar' = "Set" /\ fromBar' = "Cloning"
    BY <1>1, <1>3, <2>1 DEF busyBar, fromBar, Busy, Begun
  <2>3. QED
    BY <1>1, <1>3, <2>1, <2>2 DEF Lifecycle!Next, Lifecycle!Configure
<1>4. CASE op[c] = "Set" /\ err[c] # {}
  <2>1. op'[c] = "Set" /\ pc'[c] = "setFailed" /\ goal[c] = "Cloning"
    BY <1>2, <1>4 DEF Settle, Control, TypeOK
  <2>2. /\ busyBar = "Set" /\ busyBar' = "Set"
        /\ fromBar = "Cloning" /\ fromBar' = "Cloning"
    BY <1>1, <1>4, <2>1 DEF busyBar, fromBar, Busy, Begun, Locked
  <2>3. QED
    BY <1>1, <2>1, <2>2 DEF Lifecycle!Next, Lifecycle!Configuring
<1>5. CASE ~(op[c] = "Clone" /\ SetResources /\ err[c] = {}) /\ ~(op[c] = "Set" /\ err[c] # {})
  <2>1. op'[c] = op[c] /\ pc'[c] \in {"clearIP", "unlock"}
    BY <1>5 DEF Settle, Control, TypeOK
  <2>2. ~Begun(c)'
    BY <2>1 DEF Begun
  <2>3. goal[c] # "Cloning"
    BY <1>2, <1>5 DEF Transient
  <2>4. Lifecycle!Settle
    BY <1>1, <1>2, <2>2, <2>3, OwnerSettles DEF EndsOf, Ops, Calls
  <2>5. QED
    BY <2>4 DEF Lifecycle!Next
<1>6. QED
  BY <1>3, <1>4, <1>5

LEMMA SetFailedMaps ==
    ASSUME Control, Power, NEW c \in Callers, SetFailed(c)
    PROVE  Lifecycle!Next
<1>1. /\ pc[c] \in Locked /\ op[c] = "Set" /\ opMutex' = opMutex
      /\ Begun(c) /\ ~Begun(c)' /\ Live' = Live /\ Live = {} /\ state' = "Stopped"
  BY DEF Control, TypeOK, OwnSteps, Power, PowerAt, SetFailed, Begun, Locked, Live, tartVars
<1>2. Lifecycle!Settle
  BY <1>1, OwnerSettles
<1>3. QED
  BY <1>2 DEF Lifecycle!Next

LEMMA PublishMaps ==
    ASSUME Control, NEW c \in Callers, Publish(c)
    PROVE  Lifecycle!Next
<1>1. /\ pc[c] \in Locked /\ op[c] = "Start" /\ opMutex' = opMutex
      /\ Begun(c) /\ ~Begun(c)' /\ Live' = Live /\ state' = "Running"
  BY DEF Control, TypeOK, OwnSteps, Publish, Begun, Locked, Live, StartSteps, tartVars
<1>2. Lifecycle!Settle
  BY <1>1, OwnerSettles DEF Powered
<1>3. QED
  BY <1>2 DEF Lifecycle!Next

\* Launch: a Start may bring a VM up.
LEMMA LaunchMaps ==
    ASSUME Control, NEW c \in Callers, Launch(c)
    PROVE  [Lifecycle!Next]_Lifecycle!vars
<1>1. /\ opMutex = c /\ opMutex' = c /\ op[c] = "Start" /\ UNCHANGED <<state, op, prev>>
      /\ Begun(c) /\ Begun(c)'
  BY DEF Control, TypeOK, OwnSteps, Launch, Begun, Locked, StartSteps
<1>2. busyBar = "Start" /\ busyBar' = busyBar /\ fromBar' = fromBar
  BY <1>1 DEF busyBar, fromBar, Busy
<1>3. CASE Live' # {}
  BY <1>1, <1>2, <1>3 DEF Lifecycle!Next, Lifecycle!PowerUp
<1>4. CASE Live' = {}
  BY <1>1, <1>2, <1>4 DEF Lifecycle!Next, Lifecycle!PowerLoss
<1>5. QED
  BY <1>3, <1>4

\* The steps of an operation that change no state.
LEMMA OwnerMaps ==
    ASSUME Control, NEW c \in Callers,
           \/ Check(c) \/ Command(c) \/ AwaitRunning(c) \/ Address(c) \/ Ready(c)
           \/ Reap(c) \/ AwaitStopped(c) \/ Handle(c) \/ Drain(c) \/ Verify(c) \/ ClearIP(c)
    PROVE  [Lifecycle!Next]_Lifecycle!vars
<1>1. CASE Check(c) \/ Handle(c) \/ Drain(c) \/ Verify(c) \/ ClearIP(c)
  <2>1. /\ pc[c] \in Locked /\ UNCHANGED <<opMutex, op, prev, state, proc>>
        /\ Begun(c)' <=> Begun(c)
    BY <1>1 DEF Control, TypeOK, OwnSteps, Check, Handle, Drain, Verify, ClearIP, Begun, Locked,
       StopSteps, callVars, tartVars
  <2>2. QED
    BY <2>1, OwnerUnseen DEF Live
<1>2. CASE AwaitRunning(c) \/ Address(c) \/ Ready(c)
  <2>1. /\ pc[c] \in Locked /\ UNCHANGED <<opMutex, op, prev, state, proc>>
        /\ Begun(c)' <=> Begun(c)
    BY <1>2 DEF Control, TypeOK, AwaitRunning, Address, Ready, OrRunFailed, Begun, Locked, tartVars
  <2>2. QED
    BY <2>1, OwnerUnseen DEF Live
<1>3. CASE Command(c) \/ Reap(c) \/ AwaitStopped(c)
  <2>1. /\ pc[c] \in Locked /\ UNCHANGED <<opMutex, op, prev, state, proc>>
        /\ Begun(c)' <=> Begun(c)
    BY <1>3 DEF Control, TypeOK, Command, Reap, AwaitStopped, Begun, Locked, callVars, tartVars
  <2>2. QED
    BY <2>1, OwnerUnseen DEF Live
<1>4. QED
  BY <1>1, <1>2, <1>3

\* The steps of an operation that take the VM down.
LEMMA StopMaps ==
    ASSUME Control, NEW c \in Callers, ForceStop(c) \/ StopVM(c)
    PROVE  [Lifecycle!Next]_Lifecycle!vars
<1>1. /\ pc[c] \in Locked /\ UNCHANGED <<opMutex, op, prev, state>>
      /\ Begun(c)' <=> Begun(c)
  BY DEF Control, TypeOK, ForceStop, StopVM, Begun, Locked, callVars
<1>2. \A b \in Boots : proc'[b] = proc[b] \/ proc'[b] = "leaving"
  BY DEF ForceStop, StopVM, PowerOff
<1>3. (Live' # {}) => (Live # {})
  BY <1>2 DEF Live
<1>4. QED
  BY <1>1, <1>3, OwnerUnseen

\* Taking and releasing opMutex.
LEMMA MutexMaps ==
    ASSUME Control, Control', NEW c \in Callers,
           Lock(c) \/ Unlock(c) \/ \E o \in Calls : Call(c, o)
    PROVE  [Lifecycle!Next]_Lifecycle!vars
<1>1. Live' = Live /\ state' = state
  BY DEF Lock, Unlock, Call, Live, tartVars
<1>2. busyBar' = busyBar /\ fromBar' = fromBar
  <2>1. CASE Lock(c)
    <3>1. opMutex = Nobody /\ opMutex' = c /\ ~Begun(c)'
      BY <2>1 DEF Lock, Control, TypeOK, Begun, Locked, Calls, callVars
    <3>2. QED
      BY <3>1, BarFree DEF busyBar, fromBar, Busy
  <2>2. CASE Unlock(c)
    <3>1. opMutex = c /\ opMutex' = Nobody /\ ~Begun(c)
      BY <2>2 DEF Unlock, Control, TypeOK, Begun, Locked
    <3>2. busyBar = "none" /\ fromBar = "Initial"
      BY <3>1 DEF busyBar, fromBar, Busy
    <3>3. busyBar' = "none" /\ fromBar' = "Initial"
      BY <3>1, CallersAssumption DEF busyBar, fromBar, Busy
    <3>4. QED
      BY <3>2, <3>3
  <2>3. CASE \E o \in Calls : Call(c, o)
    <3>1. /\ opMutex' = opMutex /\ opMutex # c /\ UNCHANGED prev
          /\ \A d \in Callers \ {c} : pc'[d] = pc[d] /\ op'[d] = op[d]
      BY <2>3 DEF Call, Control, TypeOK, Locked
    <3>2. QED
      BY <3>1 DEF busyBar, fromBar, Busy, Begun
  <2>4. QED
    BY <2>1, <2>2, <2>3
<1>3. QED
  BY <1>1, <1>2, Unseen

\* What happens outside the operations.
LEMMA OutsideMaps ==
    ASSUME Control, Tart \/ (\E r \in Readers : Reader(r)) \/ UNCHANGED vars
    PROVE  [Lifecycle!Next]_Lifecycle!vars
<1>1. UNCHANGED <<state, opMutex, pc, op, prev>>
  BY DEF Tart, GuestHalts, Boot, Dies, Leaves, Reader, NeedIP, FetchIP, StoreIP, vars, callVars
<1>2. busyBar' = busyBar /\ fromBar' = fromBar
  BY <1>1 DEF busyBar, fromBar, Busy, Begun
<1>3. (Live' # {}) => (Live # {})
  <2>1. CASE Tart
    BY <2>1 DEF Control, TypeOK, Tart, GuestHalts, Boot, Dies, Leaves, PowerOff, Ended, Live
  <2>2. CASE (\E r \in Readers : Reader(r)) \/ UNCHANGED vars
    BY <2>2 DEF Reader, NeedIP, FetchIP, StoreIP, vars, tartVars, Live
  <2>3. QED
    BY <2>1, <2>2
<1>4. QED
  BY <1>1, <1>2, <1>3 DEF Lifecycle!Next, Lifecycle!PowerLoss, Lifecycle!vars

\* Every step of the instance is a step of VMLifecycle, or shows nothing.
LEMMA NextMaps ==
    ASSUME Control, Control', Power, Ends, [Next]_vars
    PROVE  [Lifecycle!Next]_Lifecycle!vars
BY EnterMaps, SettleMaps, SetFailedMaps, PublishMaps, LaunchMaps, OwnerMaps, StopMaps,
   MutexMaps, OutsideMaps DEF Next, Step

\* The instance implements VMLifecycle: every return path of tart.go ends an
\* operation in an outcome of its kind, and only Start brings a VM up.
THEOREM Implementation == Spec => ImplementsLifecycle
<1>1. Control /\ Control' /\ Power /\ Ends /\ [Next]_vars => [Lifecycle!Next]_Lifecycle!vars
  BY NextMaps
<1>2. QED
  BY <1>1, InitMaps, ControlInvariant, PowerInvariant, EndsInvariant, PTL
     DEF Spec, ImplementsLifecycle, Lifecycle!Spec
=============================================================================
