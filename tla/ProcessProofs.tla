---------------------------- MODULE ProcessProofs ----------------------------
(***************************************************************************)
(* Safety of what the programs do with other processes: launching          *)
(* applications, for any number of callers of LaunchApp and of             *)
(* TerminateLaunchedApp and any set of signals, and checking who is at the *)
(* other end of a socket or is the parent, for any processes, goroutines,  *)
(* users and paths, and however long each process goes on.                 *)
(***************************************************************************)
EXTENDS Launcher, PeerCheck, ParentCheck, TLAPS


\* l is the call that found launched unset.
Claimed(l) == pc[l] # "idle" /\ ret[l] # "already"

\* The first section of mu lets one call through.
OneClaim ==
    \A l \in Launches : Claimed(l) => launched /\ \A m \in Launches : Claimed(m) => l = m

\* How far the call is says what has become of its application.
AppFollowsCall ==
    \A l \in Launches :
        /\ ret[l] = "already" => pc[l] = "done" /\ app[l] = "none"
        /\ pc[l] \in {"idle", "notify", "start"} => app[l] = "none"
        /\ pc[l] \in {"setChild", "wait"} => app[l] # "none"
        /\ pc[l] \in {"judge", "clear"} => app[l] \in Exited
        /\ pc[l] \in {"stop", "done"} => app[l] # "running"

\* Where a quit can come from: a TerminateLaunchedApp that has set quitting.
QuitIsAsked ==
    /\ \A q \in Quitters : qpc[q] = "signal" => quitting
    /\ \A l \in Launches : "quit" \in got[l] \/ app[l] = "quit" => quitting

\* A nil result is that of an application that ended well, or was asked to.
NilIsEarned ==
    \A l \in Launches :
        pc[l] \in {"clear", "stop", "done"} /\ ret[l] = "nil" /\ app[l] # "ok" =>
            quitting /\ app[l] \in Exited

\* The inductive invariant, next to TypeOK.
Inv == /\ OneClaim /\ AppFollowsCall /\ QuitIsAsked /\ NilIsEarned
       /\ ChildIsWaitedFor /\ QuittingNeedsApp /\ QuitIsNoFailure

\* Every variable stays in its type.
THEOREM TypeCorrect == Spec => []TypeOK
<1>1. Init => TypeOK
  <2> SUFFICES ASSUME Init PROVE TypeOK
    OBVIOUS
  <2>1. /\ launched \in BOOLEAN /\ quitting \in BOOLEAN /\ childCmd \in Launches \cup {Nil}
        /\ qpc \in [Quitters -> {"idle", "signal", "done"}]
        /\ target \in [Quitters -> Launches \cup {Nil}] /\ found \in [Quitters -> BOOLEAN]
    BY DEF Init
  <2>2. /\ pc \in [Launches -> {"idle", "notify", "start", "setChild", "wait",
                                "judge", "clear", "stop", "done"}]
        /\ ret \in [Launches -> {"none", "nil", "already", "notStarted", "failed"}]
        /\ app \in [Launches -> {"none", "running"} \cup Exited]
        /\ got \in [Launches -> SUBSET {"quit", "signal"}]
    BY DEF Init
  <2>3. /\ notify \in [Launches -> BOOLEAN] /\ sigCh \in [Launches -> Signals \cup {Nil}]
        /\ fwd \in [Launches -> {"none", "select", "forward", "gone"}]
        /\ inHand \in [Launches -> Signals \cup {Nil}] /\ due \in [Launches -> SUBSET Signals]
    BY DEF Init
  <2> QED
    BY <2>1, <2>2, <2>3 DEF TypeOK
<1>2. TypeOK /\ [Next]_vars => TypeOK'
  <2> SUFFICES ASSUME TypeOK, [Next]_vars PROVE TypeOK'
    OBVIOUS
  <2> USE NilAssumption DEF TypeOK
  <2>1. ASSUME NEW l \in Launches, LaunchApp(l) PROVE TypeOK'
    <3>1. CASE Claim(l)
      BY <3>1 DEF Claim, Return, Goto, launcher, channel, forwarder, quitters, child
    <3>2. CASE Notify(l)
      BY <3>2 DEF Notify, Goto, launcher, forwarder, quitters, child
    <3>3. CASE Start(l)
      BY <3>3 DEF Start, Return, Goto, launcher, channel, forwarder, quitters
    <3>4. CASE SetChild(l)
      BY <3>4 DEF SetChild, Goto, channel, quitters, child
    <3>5. CASE Wait(l)
      BY <3>5 DEF Wait, Return, Goto, launcher, channel, forwarder, quitters, child
    <3>6. CASE Judge(l)
      BY <3>6 DEF Judge, Return, Goto, launcher, channel, forwarder, quitters, child
    <3>7. CASE Clear(l)
      BY <3>7 DEF Clear, Goto, channel, forwarder, quitters, child
    <3>8. CASE Stop(l)
      BY <3>8 DEF Stop, Goto, launcher, forwarder, quitters, child
    <3> QED
      BY <2>1, <3>1, <3>2, <3>3, <3>4, <3>5, <3>6, <3>7, <3>8 DEF LaunchApp
  <2>2. ASSUME NEW l \in Launches, Forwarder(l) PROVE TypeOK'
    <3>1. CASE TakeSignal(l)
      BY <3>1 DEF TakeSignal, launcher, launches, quitters, child
    <3>2. CASE Forward(l)
      BY <3>2 DEF Forward, SentTo, launcher, launches, quitters
    <3>3. CASE Quit(l)
      BY <3>3 DEF Quit, launcher, launches, channel, quitters, child
    <3> QED
      BY <2>2, <3>1, <3>2, <3>3 DEF Forwarder
  <2>3. ASSUME NEW l \in Launches, AppExits(l) \/ AppKilled(l) PROVE TypeOK'
    BY <2>3 DEF AppExits, AppKilled, Exited, launcher, launches, channel, forwarder, quitters
  <2>4. ASSUME NEW l \in Launches, NEW s \in Signals, Receive(l, s) PROVE TypeOK'
    BY <2>4 DEF Receive, launcher, launches, forwarder, quitters, child
  <2>5. ASSUME NEW q \in Quitters, Quitter(q) PROVE TypeOK'
    <3>1. CASE Terminate(q)
      BY <3>1 DEF Terminate, launches, channel, forwarder, child
    <3>2. CASE Sigterm(q)
      BY <3>2 DEF Sigterm, SentTo, launcher, launches, channel, forwarder
    <3>3. CASE CallAgain(q)
      BY <3>3 DEF CallAgain, launcher, launches, channel, forwarder, child
    <3> QED
      BY <2>5, <3>1, <3>2, <3>3 DEF Quitter
  <2>6. CASE UNCHANGED vars
    BY <2>6 DEF vars, launcher, launches, channel, forwarder, quitters, child
  <2> QED
    BY <2>1, <2>2, <2>3, <2>4, <2>5, <2>6 DEF Next
<1> QED
  BY <1>1, <1>2, PTL DEF Spec
LEMMA InvInit == Init => Inv
<1> SUFFICES ASSUME Init PROVE Inv
  OBVIOUS
<1>1. /\ ~quitting /\ childCmd = Nil
      /\ \A l \in Launches : pc[l] = "idle" /\ ret[l] = "none" /\ app[l] = "none" /\ got[l] = {}
      /\ \A q \in Quitters : qpc[q] = "idle"
  BY DEF Init
<1> QED
  BY <1>1 DEF Inv, OneClaim, Claimed, AppFollowsCall, QuitIsAsked, NilIsEarned,
              ChildIsWaitedFor, QuittingNeedsApp, QuitIsNoFailure

\* A step of a caller of LaunchApp: the ones before Wait need to know that no
\* other call got as far, the ones after it why the application ended.
LEMMA LaunchInv ==
    ASSUME TypeOK, TypeOK', Inv, NEW l \in Launches, LaunchApp(l)
    PROVE  Inv'
<1> USE NilAssumption DEF TypeOK, Inv
<1>1. UNCHANGED <<quitting, qpc, got>>
  BY DEF LaunchApp, Claim, Notify, Start, SetChild, Wait, Judge, Clear, Stop,
         launcher, quitters, child
<1>2. \A m \in Launches : m # l => UNCHANGED <<pc[m], ret[m], app[m]>>
  BY DEF LaunchApp, Claim, Notify, Start, SetChild, Wait, Judge, Clear, Stop,
         Return, Goto, launcher, launches, quitters, child
<1>3. CASE Claim(l)
  <2>1. pc[l] = "idle" /\ UNCHANGED <<childCmd, app>> /\ launched'
    BY <1>3 DEF Claim, child
  <2>2. IF launched THEN pc'[l] = "done" /\ ret'[l] = "already"
                    ELSE pc'[l] = "notify" /\ ret'[l] = ret[l]
    BY <1>3 DEF Claim, Return, Goto
  <2>3. OneClaim'
    BY <1>2, <2>1, <2>2 DEF OneClaim, Claimed
  <2> QED
    BY <1>1, <1>2, <2>1, <2>2, <2>3
       DEF AppFollowsCall, QuitIsAsked, NilIsEarned, ChildIsWaitedFor, QuittingNeedsApp,
           QuitIsNoFailure
<1>4. ASSUME ~Claim(l) PROVE Inv'
  <2>1. Claimed(l) /\ launched' = launched /\ Claimed(l)'
    BY <1>4 DEF LaunchApp, Claim, Notify, Start, SetChild, Wait, Judge, Clear, Stop, Return, Goto,
             launcher, Claimed, AppFollowsCall
  <2>2. OneClaim'
    BY <1>2, <2>1 DEF OneClaim, Claimed
  <2>3. CASE Notify(l) \/ Start(l)
    <3>1. /\ pc[l] \in {"notify", "start"} /\ UNCHANGED childCmd
          /\ \/ pc'[l] = "start" /\ pc[l] = "notify" /\ app'[l] = app[l] /\ ret'[l] = ret[l]
             \/ pc'[l] = "setChild" /\ app'[l] = "running" /\ ret'[l] = ret[l]
             \/ pc'[l] = "stop" /\ ret'[l] = "notStarted" /\ app'[l] = app[l]
      BY <2>3 DEF Notify, Start, Return, Goto, launcher, child
    <3> QED
      BY <1>1, <1>2, <2>1, <2>2, <3>1
         DEF AppFollowsCall, QuitIsAsked, NilIsEarned, ChildIsWaitedFor, QuittingNeedsApp,
             QuitIsNoFailure, Claimed, Exited
  <2>4. CASE SetChild(l)
    <3>1. pc[l] = "setChild" /\ pc'[l] = "wait" /\ childCmd' = l /\ UNCHANGED <<app, ret>>
      BY <2>4 DEF SetChild, Goto, child
    <3> QED
      BY <1>1, <1>2, <2>1, <2>2, <3>1
         DEF AppFollowsCall, QuitIsAsked, NilIsEarned, ChildIsWaitedFor, QuittingNeedsApp,
             QuitIsNoFailure, Claimed
  <2>5. CASE Wait(l) \/ Judge(l)
    <3>1. /\ pc[l] \in {"wait", "judge"} /\ app[l] \in Exited /\ UNCHANGED <<childCmd, app>>
          /\ \/ pc'[l] = "judge" /\ ret'[l] = ret[l]
             \/ pc'[l] = "clear" /\ ret'[l] = "nil" /\ (app[l] = "ok" \/ quitting)
             \/ pc'[l] = "clear" /\ ret'[l] = "failed" /\ ~quitting
      BY <2>5 DEF Wait, Judge, Return, Goto, launcher, child, AppFollowsCall
    <3> QED
      BY <1>1, <1>2, <2>1, <2>2, <3>1
         DEF AppFollowsCall, QuitIsAsked, NilIsEarned, ChildIsWaitedFor, QuittingNeedsApp,
             QuitIsNoFailure, Claimed, Exited
  <2>6. CASE Clear(l) \/ Stop(l)
    <3>1. /\ UNCHANGED <<app, ret>>
          /\ \/ pc[l] = "clear" /\ pc'[l] = "stop" /\ childCmd' = Nil
             \/ pc[l] = "stop" /\ pc'[l] = "done" /\ childCmd' = childCmd
      BY <2>6 DEF Clear, Stop, Goto, launcher, child
    <3>2. AppFollowsCall'
      BY <1>2, <3>1 DEF AppFollowsCall, Exited
    <3>3. QuitIsAsked' /\ NilIsEarned' /\ QuitIsNoFailure'
      BY <1>1, <1>2, <3>1 DEF QuitIsAsked, NilIsEarned, QuitIsNoFailure
    <3>4. ChildIsWaitedFor'
      BY <1>2, <3>1 DEF ChildIsWaitedFor
    <3>5. QuittingNeedsApp'
      BY <1>1, <1>2, <3>1 DEF QuittingNeedsApp
    <3> QED
      BY <2>2, <3>2, <3>3, <3>4, <3>5
  <2> QED
    BY <1>4, <2>3, <2>4, <2>5, <2>6 DEF LaunchApp
<1> QED
  BY <1>3, <1>4

\* A step of the application, of a forwarding goroutine or of the system.
LEMMA ChildInv ==
    ASSUME TypeOK, TypeOK', Inv, NEW l \in Launches,
           \/ Forwarder(l) \/ AppExits(l) \/ AppKilled(l)
           \/ \E s \in Signals : Receive(l, s)
    PROVE  Inv'
<1> USE DEF TypeOK, Inv
<1>1. UNCHANGED <<launched, quitting, childCmd, pc, ret, qpc>>
  BY DEF Forwarder, TakeSignal, Forward, Quit, AppExits, AppKilled, Receive,
         launcher, launches, quitters
<1>2. \A m \in Launches :
          /\ "quit" \in got'[m] => "quit" \in got[m]
          /\ \/ app'[m] = app[m]
             \/ app[m] = "running" /\ app'[m] \in Exited /\ (app'[m] = "quit" => "quit" \in got[m])
  BY DEF Forwarder, TakeSignal, Forward, Quit, AppExits, AppKilled, Receive, SentTo, Exited, child
<1>3. OneClaim' /\ AppFollowsCall'
  BY <1>1, <1>2 DEF OneClaim, Claimed, AppFollowsCall, Exited
<1>4. ChildIsWaitedFor' /\ QuittingNeedsApp'
  BY <1>1, <1>2 DEF ChildIsWaitedFor, QuittingNeedsApp, Exited
<1>5. QuitIsAsked'
  BY <1>1, <1>2 DEF QuitIsAsked
<1>6. NilIsEarned'
  BY <1>1, <1>2 DEF NilIsEarned, Exited
<1>7. QuitIsNoFailure'
  <2> SUFFICES ASSUME NEW m \in Launches, app'[m] = "quit", pc[m] \in {"clear", "stop", "done"}
               PROVE  ret[m] = "nil"
    BY <1>1 DEF QuitIsNoFailure
  <2>1. app[m] # "running"
    BY DEF AppFollowsCall, Exited
  <2> QED
    BY <1>2, <2>1 DEF QuitIsNoFailure
<1> QED
  BY <1>3, <1>4, <1>5, <1>6, <1>7

\* A step of a goroutine that calls TerminateLaunchedApp.
LEMMA QuitterInv ==
    ASSUME TypeOK, TypeOK', Inv, NEW q \in Quitters, Quitter(q)
    PROVE  Inv'
<1> USE DEF TypeOK, Inv
<1>1. UNCHANGED <<launched, childCmd, pc, ret, app>>
  BY DEF Quitter, Terminate, Sigterm, CallAgain, launcher, launches, child
<1>2. OneClaim' /\ AppFollowsCall' /\ ChildIsWaitedFor'
  BY <1>1 DEF OneClaim, Claimed, AppFollowsCall, ChildIsWaitedFor
<1>3. CASE Terminate(q)
  <2>1. /\ quitting' = (quitting \/ childCmd # Nil) /\ UNCHANGED got
        /\ qpc' = [qpc EXCEPT ![q] = IF childCmd # Nil THEN "signal" ELSE "done"]
    BY <1>3 DEF Terminate, child
  <2>2. QuittingNeedsApp'
    BY <1>1, <2>1 DEF QuittingNeedsApp, ChildIsWaitedFor
  <2>3. QuitIsAsked'
    <3>1. \A r \in Quitters : qpc'[r] = "signal" => quitting'
      <4> SUFFICES ASSUME NEW r \in Quitters, qpc'[r] = "signal" PROVE quitting'
        OBVIOUS
      <4>1. CASE r = q
        <5>1. qpc'[q] = IF childCmd # Nil THEN "signal" ELSE "done"
          BY <2>1
        <5>2. childCmd # Nil
          BY <4>1, <5>1
        <5> QED
          BY <2>1, <5>2
      <4>2. CASE r # q
        BY <2>1, <4>2 DEF QuitIsAsked
      <4> QED
        BY <4>1, <4>2
    <3>2. \A l \in Launches : "quit" \in got'[l] \/ app'[l] = "quit" => quitting'
      BY <1>1, <2>1 DEF QuitIsAsked
    <3> QED
      BY <3>1, <3>2 DEF QuitIsAsked
  <2>4. NilIsEarned' /\ QuitIsNoFailure'
    BY <1>1, <2>1 DEF NilIsEarned, QuitIsNoFailure
  <2> QED
    BY <1>2, <2>2, <2>3, <2>4
<1>4. CASE Sigterm(q)
  <2>1. /\ qpc[q] = "signal" /\ UNCHANGED quitting
        /\ qpc' = [qpc EXCEPT ![q] = "done"]
    BY <1>4 DEF Sigterm, launcher
  <2>2. quitting
    BY <2>1 DEF QuitIsAsked
  <2>3. QuitIsAsked'
    BY <2>1, <2>2 DEF QuitIsAsked
  <2>4. NilIsEarned' /\ QuitIsNoFailure'
    BY <1>1, <2>1 DEF NilIsEarned, QuitIsNoFailure
  <2>5. QuittingNeedsApp'
    BY <1>1, <2>1 DEF QuittingNeedsApp
  <2> QED
    BY <1>2, <2>3, <2>4, <2>5
<1>5. CASE CallAgain(q)
  <2>1. UNCHANGED <<quitting, got>> /\ qpc' = [qpc EXCEPT ![q] = "idle"]
    BY <1>5 DEF CallAgain, launcher, child
  <2>2. QuitIsAsked'
    BY <1>1, <2>1 DEF QuitIsAsked
  <2>3. NilIsEarned' /\ QuitIsNoFailure' /\ QuittingNeedsApp'
    BY <1>1, <2>1 DEF NilIsEarned, QuitIsNoFailure, QuittingNeedsApp
  <2> QED
    BY <1>2, <2>2, <2>3
<1> QED
  BY <1>3, <1>4, <1>5 DEF Quitter

\* What a launcher knows of its application is true of it, whoever calls.
THEOREM Invariance == Spec => []Inv
<1>1. TypeOK /\ TypeOK' /\ Inv /\ [Next]_vars => Inv'
  <2> SUFFICES ASSUME TypeOK, TypeOK', Inv, [Next]_vars PROVE Inv'
    OBVIOUS
  <2>1. CASE UNCHANGED vars
    BY <2>1 DEF vars, launcher, launches, channel, forwarder, quitters, child, Inv, OneClaim,
                Claimed, AppFollowsCall, QuitIsAsked, NilIsEarned, ChildIsWaitedFor,
                QuittingNeedsApp, QuitIsNoFailure
  <2>2. CASE Next
    BY <2>2, LaunchInv, ChildInv, QuitterInv DEF Next
  <2> QED
    BY <2>1, <2>2
<1> QED
  BY <1>1, InvInit, TypeCorrect, PTL DEF Spec

\* A Launcher launches one application at most: LaunchApp claims it under mu.
THEOREM OneAppAlways == Spec => []OneApp
<1>1. TypeOK /\ Inv => OneApp
  BY DEF Inv, TypeOK, OneApp, OneClaim, Claimed, AppFollowsCall
<1> QED
  BY <1>1, TypeCorrect, Invariance, PTL

\* A shutdown asked for with TerminateLaunchedApp is never returned as a
\* failure by LaunchApp.
THEOREM QuitIsNoFailureAlways == Spec => []QuitIsNoFailure
<1>1. Inv => QuitIsNoFailure
  BY DEF Inv
<1> QED
  BY <1>1, Invariance, PTL

\* quitting, which suppresses failures, is set only for an application that
\* LaunchApp waits, or waited, for.
THEOREM QuittingNeedsAppAlways == Spec => []QuittingNeedsApp
<1>1. Inv => QuittingNeedsApp
  BY DEF Inv
<1> QED
  BY <1>1, Invariance, PTL

\* TerminateLaunchedApp only answers for an application LaunchApp waits for.
THEOREM ChildIsWaitedForAlways == Spec => []ChildIsWaitedFor
<1>1. Inv => ChildIsWaitedFor
  BY DEF Inv
<1> QED
  BY <1>1, Invariance, PTL

\* LaunchApp returns nil for a failed application only if a
\* TerminateLaunchedApp has found it.
THEOREM FailureIsReportedAlways == Spec => []FailureIsReported
<1>1. Inv => FailureIsReported
  BY DEF Inv, NilIsEarned, FailureIsReported
<1> QED
  BY <1>1, Invariance, PTL

-----------------------------------------------------------------------------
(* The checks of machutils.                                                *)

PeerSpec == PeerInit /\ [][PeerNext]_peerVars
ParentSpec == ParentInit /\ [][ParentNext]_parentVars

-----------------------------------------------------------------------------
(* The Requirement.                                                        *)

Stages == {"begin", "file", "accept", "connected", "token", "guest", "validity", "done"}

\* No verification begins before the Requirement is compiled.
Held ==
    /\ stage \in [Verifiers -> Stages]
    /\ owner = "compiling" => req = "none"
    /\ owner = "compiling" => \A v \in Verifiers : stage[v] = "begin"
    /\ UsedIsLive

\* Neither Close nor the finalizer takes the requirement from a verification.
THEOREM UsedIsLiveAlways == PeerSpec => []UsedIsLive
<1>1. PeerInit => Held
  BY DEF PeerInit, Held, UsedIsLive, Stages
<1>2. Held /\ [PeerNext]_peerVars => Held'
  <2> SUFFICES ASSUME Held, [PeerNext]_peerVars PROVE Held'
    OBVIOUS
  <2> USE DEF Held, UsedIsLive
  <2>1. CASE Compile
    BY <2>1 DEF Compile
  <2>2. CASE Drop
    BY <2>2 DEF Drop
  <2>3. CASE Finalize
    BY <2>3 DEF Finalize, Refers
  <2>4. CASE Close
    <3>1. stage' = stage /\ owner' = "holds"
      BY <2>4 DEF Close
    <3>2. \A v \in Verifiers : stage[v] \notin {"token", "guest", "validity", "file"}
      BY <2>4 DEF Close, Refers
    <3> QED
      BY <3>1, <3>2
  <2>5. ASSUME NEW v \in Verifiers, Verify(v) PROVE Held'
    <3>1. /\ req' = req /\ owner' = owner
          /\ \A w \in Verifiers \ {v} : stage'[w] = stage[w]
          /\ stage' \in [Verifiers -> Stages]
      BY <2>5 DEF Verify, Begin, BeginPeer, Enter, CheckFile, Accept, GetToken, GetPid, FallBack,
         LookUpBy, FindCode, CheckCode, Answers, Stages
    <3>2. owner # "compiling"
      BY <2>5 DEF Verify, Begin, BeginPeer, CheckFile, Accept, GetToken, GetPid, FallBack,
         FindCode, CheckCode
    <3>3. stage'[v] \in {"token", "guest", "validity", "file"} => req = "live"
      BY <2>5 DEF Verify, Begin, BeginPeer, Enter, CheckFile, Accept, GetToken, GetPid, FallBack,
         LookUpBy, FindCode, CheckCode, Answers
    <3> QED
      BY <3>1, <3>2, <3>3
  <2>6. ASSUME UNCHANGED <<req, owner, stage>> PROVE Held'
    BY <2>6
  <2> QED
    BY <2>1, <2>2, <2>3, <2>4, <2>5, <2>6 DEF PeerNext, Replace, Exit, Run, peerVars
<1>3. Held => UsedIsLive
  BY DEF Held
<1> QED
  BY <1>1, <1>2, <1>3, PTL DEF PeerSpec

-----------------------------------------------------------------------------
(* The peer.                                                               *)

Connection == [pid : Pids, version : 0..MaxVersion, program : Programs]

PeerType ==
    /\ procs \in [Pids -> Process]
    /\ stage \in [Verifiers -> Stages]
    /\ conn \in [Verifiers -> Connection] /\ code \in [Verifiers -> Connection]
    /\ by \in [Verifiers -> {"none", "audit", "pid"}]
    /\ answer \in [Verifiers -> {"none", "nil", "error"}]

\* No process goes back to a program that it ran before: the version that the
\* kernel has recorded is that of one program.
Recorded(v) ==
    LET p == procs[conn[v].pid]
    IN  /\ conn[v].version <= p.version
        /\ conn[v].version = p.version => conn[v].program = p.program

\* What a verification knows of its peer.
Peer(v) ==
    /\ Recorded(v)
    /\ answer[v] = "nil" => stage[v] = "done"
    /\ by[v] = "audit" /\ stage[v] = "validity" => code[v].program = conn[v].program
    /\ by[v] = "audit" /\ answer[v] = "nil" => conn[v].program = "satisfies"

PeerInv == PeerType /\ \A v \in Verifiers : Peer(v)

LEMMA PeerStarts == PeerInit => PeerInv
<1> SUFFICES ASSUME PeerInit PROVE PeerInv
  OBVIOUS
<1>1. procs \in [Pids -> Process] /\ \A p \in Pids : procs[p].version = 0
  BY DEF PeerInit
<1>2. ASSUME NEW v \in Verifiers
      PROVE  /\ conn[v] \in Connection
             /\ conn[v].version = 0 /\ conn[v].program = procs[conn[v].pid].program
  <2>1. PICK p \in Pids : conn[v] = [pid |-> p, version |-> 0, program |-> procs[p].program]
    BY DEF PeerInit
  <2>2. procs[p].program \in Programs /\ 0 \in 0..MaxVersion
    BY <1>1, MaxVersionAssumption DEF Process
  <2> QED
    BY <2>1, <2>2 DEF Connection
<1>3. PeerType
  <2>1. conn \in [Verifiers -> Connection]
    BY <1>2 DEF PeerInit
  <2> QED
    BY <1>1, <2>1 DEF PeerInit, PeerType, Stages
<1>4. ASSUME NEW v \in Verifiers PROVE Peer(v)
  BY <1>1, <1>2 DEF PeerInit, Peer, Recorded, Connection
<1> QED
  BY <1>3, <1>4 DEF PeerInv

\* A step of one verification.
LEMMA VerifyKeeps ==
    ASSUME PeerInv, NEW v \in Verifiers, Verify(v)
    PROVE  PeerInv'
<1> USE DEF PeerInv, PeerType
<1>1. /\ procs' = procs
      /\ \A w \in Verifiers \ {v} : /\ stage'[w] = stage[w] /\ conn'[w] = conn[w] /\ by'[w] = by[w]
                                    /\ code'[w] = code[w] /\ answer'[w] = answer[w]
  BY DEF Verify, Begin, BeginPeer, Enter, CheckFile, Accept, GetToken, GetPid, FallBack, LookUpBy,
     FindCode, CheckCode, Answers, host
<1>2. \A w \in Verifiers \ {v} : Peer(w)'
  BY <1>1 DEF Peer, Recorded
<1>3. ASSUME Accept(v) PROVE PeerType' /\ Peer(v)'
  <2>1. PICK p \in Pids :
            conn' = [conn EXCEPT ![v] =
                       [pid |-> p, version |-> procs[p].version, program |-> procs[p].program]]
    BY <1>3 DEF Accept
  <2>2. procs[p] \in Process
    OBVIOUS
  <2>3. [pid |-> p, version |-> procs[p].version, program |-> procs[p].program] \in Connection
    BY <2>2 DEF Process, Connection
  <2>4. PeerType'
    BY <1>3, <2>1, <2>3 DEF Accept, Stages, host
  <2>5. Recorded(v)'
    BY <1>1, <2>1, <2>2 DEF Recorded, Process
  <2> QED
    BY <1>3, <2>1, <2>4, <2>5 DEF Accept, Peer
<1>4. ASSUME FindCode(v) PROVE PeerType' /\ Peer(v)'
  <2>1. CASE Answers(v, "error") /\ UNCHANGED code
    BY <1>4, <2>1 DEF FindCode, Answers, Stages, Peer, Recorded, host
  <2>2. ASSUME NEW p \in Pids, Matches(p, v),
               code' = [code EXCEPT ![v] = [pid |-> p, version |-> procs[p].version,
                                            program |-> procs[p].program]],
               stage' = [stage EXCEPT ![v] = "validity"], answer' = answer
        PROVE  PeerType' /\ Peer(v)'
    <3>1. procs[p] \in Process
      OBVIOUS
    <3>2. [pid |-> p, version |-> procs[p].version, program |-> procs[p].program] \in Connection
      BY <3>1 DEF Process, Connection
    <3>3. PeerType'
      BY <1>4, <2>2, <3>2 DEF FindCode, Stages, host
    <3>4. by[v] = "audit" => code'[v].program = conn[v].program
      BY <2>2 DEF Matches, Named, Peer, Recorded
    <3> QED
      BY <1>4, <2>2, <3>3, <3>4 DEF FindCode, Peer, Recorded, host
  <2> QED
    BY <1>4, <2>1, <2>2 DEF FindCode
<1>5. ASSUME CheckCode(v) PROVE PeerType' /\ Peer(v)'
  BY <1>5 DEF CheckCode, CodeIsValid, Answers, Stages, Peer, Recorded, host
<1>6. ASSUME Begin(v) \/ BeginPeer(v) \/ CheckFile(v) PROVE PeerType' /\ Peer(v)'
  BY <1>6 DEF Begin, BeginPeer, Enter, CheckFile, Answers, Stages, Peer, Recorded, host
<1>7. ASSUME GetToken(v) \/ GetPid(v) \/ FallBack(v) PROVE PeerType' /\ Peer(v)'
  BY <1>7 DEF GetToken, GetPid, FallBack, LookUpBy, Answers, Stages, Peer, Recorded, host
<1> QED
  BY <1>2, <1>3, <1>4, <1>5, <1>6, <1>7 DEF Verify

\* A process gets a new version with a new program.
LEMMA RunKeeps ==
    ASSUME PeerInv, NEW p \in Pids, Run(p)
    PROVE  PeerInv'
<1> USE DEF PeerInv, PeerType
<1>1. PICK g \in Programs :
          procs' = [procs EXCEPT ![p] = [alive |-> TRUE, version |-> @.version + 1, program |-> g]]
  BY DEF Run
<1>2. procs[p] \in Process /\ procs[p].version < MaxVersion
  BY DEF Run
<1>3. [alive |-> TRUE, version |-> procs[p].version + 1, program |-> g] \in Process
  BY <1>2, MaxVersionAssumption DEF Process
<1>4. PeerType'
  BY <1>1, <1>3 DEF Run
<1>5. ASSUME NEW v \in Verifiers PROVE Peer(v)'
  <2>1. conn[v] \in Connection /\ conn[v].version <= procs[conn[v].pid].version
    BY DEF Peer, Recorded
  <2>2. Recorded(v)'
    BY <1>1, <1>2, <2>1 DEF Run, Peer, Recorded, Connection, Process
  <2> QED
    BY <2>2 DEF Run, Peer
<1> QED
  BY <1>4, <1>5

\* With an audit token nil is an answer about the program that has connected,
\* though processes exit, execute other programs and pass their ID on.
THEOREM NilIsThePeerAlways == PeerSpec => []NilIsThePeer
<1>1. PeerInv /\ [PeerNext]_peerVars => PeerInv'
  <2> SUFFICES ASSUME PeerInv, [PeerNext]_peerVars PROVE PeerInv'
    OBVIOUS
  <2>1. ASSUME NEW p \in Pids, Exit(p) PROVE PeerInv'
    <3>1. procs[p] \in Process /\ procs' = [procs EXCEPT ![p].alive = FALSE]
      BY <2>1 DEF Exit, PeerInv, PeerType
    <3>2. /\ procs' \in [Pids -> Process]
          /\ \A q \in Pids : /\ procs'[q].version = procs[q].version
                             /\ procs'[q].program = procs[q].program
      BY <3>1 DEF PeerInv, PeerType, Process
    <3> QED
      BY <2>1, <3>2 DEF Exit, PeerInv, PeerType, Peer, Recorded, Connection
  <2>2. ASSUME UNCHANGED <<procs, stage, conn, by, code, answer>> PROVE PeerInv'
    BY <2>2 DEF PeerInv, PeerType, Peer, Recorded
  <2> QED
    BY <2>1, <2>2, VerifyKeeps, RunKeeps
    DEF PeerNext, Compile, Drop, Finalize, Close, Replace, host, peerVars
<1>2. PeerInv => NilIsThePeer
  BY DEF PeerInv, Peer, NilIsThePeer
<1> QED
  BY <1>1, <1>2, PeerStarts, PTL DEF PeerSpec

-----------------------------------------------------------------------------
(* The parent.                                                             *)

\* What the check knows of the user of its parent once it has asked.
ParentUser ==
    /\ at = "uid" => asked = "starter" \/ (asked = "launchd" /\ orphaned)
    /\ at \in {"path", "stat", "compare"} =>
          \/ asked = "starter" /\ parentUID = starter
          \/ orphaned /\ (asked = "another" \/ (asked = "launchd" /\ parentUID = Root))
    /\ result = "nil" => at = "done"
    /\ SafeMeansOneUser

LEMMA ParentUserAlways == ParentSpec => []ParentUser
<1>1. ParentInit => ParentUser
  BY DEF ParentInit, ParentUser, SafeMeansOneUser
<1>2. ParentUser /\ [ParentNext]_parentVars => ParentUser'
  <2> SUFFICES ASSUME ParentUser, [ParentNext]_parentVars PROVE ParentUser'
    OBVIOUS
  <2> USE DEF ParentUser, SafeMeansOneUser, helper, read
  <2>1. CASE Compare
    <3>1. at = "compare" /\ at' = "done"
      BY <2>1 DEF Compare
    <3>2. UNCHANGED <<orphaned, effective, self, starter, asked>>
      BY <2>1 DEF Compare
    <3>3. result' = "nil" => effective = self /\ self = parentUID
      BY <2>1 DEF Compare, IsSafe
    <3> QED
      BY <3>1, <3>2, <3>3
  <2>2. CASE CheckOrphan \/ IsOrphan
    BY <2>2 DEF CheckOrphan, IsOrphan, Fails
  <2>3. CASE GetParent
    BY <2>3 DEF GetParent
  <2>4. CASE GetParentUID \/ ParentUIDFails
    BY <2>4 DEF GetParentUID, ParentUIDFails, Fails
  <2>5. CASE ExecutablePath \/ ExecutablePathFails
    BY <2>5 DEF ExecutablePath, ExecutablePathFails, Fails
  <2>6. CASE Stat \/ StatFails
    BY <2>6 DEF Stat, StatFails, Fails
  <2>7. CASE ParentExits
    BY <2>7 DEF ParentExits
  <2>8. ASSUME UNCHANGED <<orphaned, starter, self, effective, at, asked, parentUID, result>>
        PROVE  ParentUser'
    BY <2>8
  <2> QED
    BY <2>1, <2>2, <2>3, <2>4, <2>5, <2>6, <2>7, <2>8
    DEF ParentNext, EnsureParentProcessSafe, Retarget, Install, Uninstall, parentVars
<1> QED
  BY <1>1, <1>2, PTL DEF ParentSpec

\* The answer is about one user whoever exits during the check, but for a
\* process that gets the ID of the parent meanwhile.
THEOREM SafeMeansOneUserAlways == ParentSpec => []SafeMeansOneUser
<1>1. ParentUser => SafeMeansOneUser
  BY DEF ParentUser
<1> QED
  BY <1>1, ParentUserAlways, PTL

\* A file that is read after the one that runs was found at its path: that
\* one, or one installed over it since.
Since(f) == f = running.file \/ f.copy > running.file.copy

\* What has been read of the path of the program: what was there then.
Read(f) == f \in Files /\ Since(f) /\ f.copy <= files[running.path].copy

\* A path gets a file with a later number, or none; what is compared is what
\* was at the path of the program that runs.
Examined ==
    /\ files \in [Paths -> Files]
    /\ running.path \in Paths /\ running.file \in Files
    /\ files[running.path].copy >= running.file.copy
    /\ files[running.path].there => Since(files[running.path])
    /\ at \in {"stat", "compare"} => path = running.path
    /\ at = "compare" => Read(info)
    /\ result = "nil" =>
         /\ at = "done" /\ Read(info)
         /\ info.owner = self /\ info.mode = "private"
         /\ asked = "starter" => self = starter

\* An installation changes nothing that the check has read.
LEMMA InstallKeeps ==
    ASSUME Examined, NEW p \in Paths, Install(p) \/ Uninstall(p)
    PROVE  Examined'
<1> DEFINE r == running.path
<1> USE DEF Examined, Since, Read, helper, read
<1>1. UNCHANGED <<running, at, path, info, result, self, starter, asked>>
  BY DEF Install, Uninstall
<1>2. files[p] \in Files /\ files[r] \in Files
  OBVIOUS
<1>3. CASE Install(p)
  <2>1. PICK o \in Users, m \in Modes :
            files' = [files EXCEPT ![p] =
                        [there |-> TRUE, copy |-> @.copy + 1, owner |-> o, mode |-> m]]
    BY <1>3 DEF Install
  <2>2. [there |-> TRUE, copy |-> files[p].copy + 1, owner |-> o, mode |-> m] \in Files
    BY <1>2, <1>3, MaxReplacedAssumption DEF Install, Files
  <2>3. files' \in [Paths -> Files]
    BY <2>1, <2>2
  <2>4. p = r => files'[r].copy = files[r].copy + 1
    BY <2>1
  <2>5. p # r => files'[r] = files[r]
    BY <2>1
  <2> QED
    BY <1>1, <1>2, <2>3, <2>4, <2>5, MaxReplacedAssumption DEF Files
<1>4. CASE Uninstall(p)
  <2>1. files' = [files EXCEPT ![p].there = FALSE]
    BY <1>4 DEF Uninstall
  <2>2. files' \in [Paths -> Files]
    BY <1>2, <2>1 DEF Files
  <2>3. files'[r].copy = files[r].copy /\ (files'[r].there => files'[r] = files[r])
    BY <1>2, <2>1 DEF Files
  <2> QED
    BY <1>1, <2>2, <2>3
<1> QED
  BY <1>3, <1>4

LEMMA ExaminedAlways == ParentSpec => []Examined
<1>1. ParentInit => Examined
  <2> SUFFICES ASSUME ParentInit PROVE Examined
    OBVIOUS
  <2>1. /\ files \in [Paths -> Files] /\ running = [path |-> link, file |-> files[link]]
        /\ link \in Paths /\ at = "orphan" /\ result = "none"
    BY DEF ParentInit
  <2>2. files[link] \in Files
    BY <2>1
  <2>3. files[running.path].copy >= running.file.copy
    BY <2>1, <2>2, MaxReplacedAssumption DEF Files
  <2> QED
    BY <2>1, <2>2, <2>3 DEF Examined, Since
<1>2. ParentUser /\ Examined /\ [ParentNext]_parentVars => Examined'
  <2> SUFFICES ASSUME ParentUser, Examined, [ParentNext]_parentVars PROVE Examined'
    OBVIOUS
  <2> USE DEF Examined, Since, Read, helper, read
  <2>1. CASE CheckOrphan \/ IsOrphan \/ GetParent \/ GetParentUID \/ ParentUIDFails
    BY <2>1 DEF CheckOrphan, IsOrphan, GetParent, GetParentUID, ParentUIDFails, Fails
  <2>2. CASE ExecutablePath \/ ExecutablePathFails
    BY <2>2 DEF ExecutablePath, ExecutablePathFails, Fails
  <2>3. CASE Stat
    <3>1. files[running.path] \in Files /\ files[running.path].copy <= files[running.path].copy
      BY MaxReplacedAssumption DEF Files
    <3> QED
      BY <2>3, <3>1 DEF Stat
  <2>4. CASE Compare
    BY <2>4 DEF Compare, IsSafe, ParentUser
  <2>5. CASE StatFails
    BY <2>5 DEF StatFails, Fails
  <2>6. ASSUME UNCHANGED <<files, running, at, path, info, result, self, starter, asked>>
        PROVE  Examined'
    BY <2>6
  <2> QED
    BY <2>1, <2>2, <2>3, <2>4, <2>5, <2>6, InstallKeeps
    DEF ParentNext, EnsureParentProcessSafe, ParentExits, Retarget, parentVars
<1> QED
  BY <1>1, <1>2, ParentUserAlways, PTL DEF ParentSpec

\* A helper that is told that its parent is safe is its owner's, has been
\* started by its owner and is nobody else's to modify or run, whatever has
\* become of the link it was launched through and of the other versions.
THEOREM OwnerStartedItAlways == ParentSpec => []OwnerStartedIt
<1>1. Examined => OwnerStartedIt
  <2> SUFFICES ASSUME Examined, result = "nil", files[running.path] = running.file
               PROVE  info = running.file
    BY DEF Examined, OwnerStartedIt
  <2>1. info \in Files /\ running.file \in Files /\ info.copy <= running.file.copy
    BY DEF Examined, Read
  <2>2. ~(info.copy > running.file.copy)
    BY <2>1, MaxReplacedAssumption DEF Files
  <2> QED
    BY <2>2 DEF Examined, Read, Since
<1> QED
  BY <1>1, ExaminedAlways, PTL
=============================================================================
