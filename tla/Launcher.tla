------------------------------ MODULE Launcher ------------------------------
(***************************************************************************)
(* src/macosutils/launcher.go: one Launcher, with the calls of LaunchApp    *)
(* (Launches) and the goroutines that call TerminateLaunchedApp (Quitters). *)
(* A section of mu is one step.  Every call of LaunchApp has its own        *)
(* channel, its own forwarding goroutine and its own child process.         *)
(* The child, and the signals the program receives, are external.           *)
(***************************************************************************)

CONSTANTS
    Launches, Quitters,
    Nil,                \* no command
    Signals             \* the signals forwarded: os.Interrupt, SIGTERM

ASSUME NilAssumption == Nil \notin Launches \cup Signals

VARIABLES
    launched, quitting, childCmd,   \* the fields of the Launcher
    pc, ret,            \* per launch: next step, result
    notify, sigCh,      \* per launch: channel registered, its content
    fwd, inHand,        \* per launch: forwarding goroutine, signal it holds
    qpc, target, found, \* per quitter: next step, c, result
    app, got,           \* external, per launch: child, signals sent to it
    due                 \* per launch: signals received and not yet forwarded

launcher == <<launched, quitting, childCmd>>
launches == <<pc, ret>>
channel  == <<notify, sigCh, due>>
forwarder == <<fwd, inHand>>
quitters == <<qpc, target, found>>
child    == <<app, got>>
vars == <<launcher, launches, channel, forwarder, quitters, child>>

Exited == {"ok", "error", "quit", "signalled"}

TypeOK ==
    /\ launched \in BOOLEAN /\ quitting \in BOOLEAN
    /\ childCmd \in Launches \cup {Nil}
    /\ pc \in [Launches -> {"idle", "notify", "start", "setChild", "wait",
                            "judge", "clear", "stop", "done"}]
    /\ ret \in [Launches -> {"none", "nil", "already", "notStarted", "failed"}]
    /\ notify \in [Launches -> BOOLEAN]
    /\ sigCh \in [Launches -> Signals \cup {Nil}]
    /\ fwd \in [Launches -> {"none", "select", "forward", "gone"}]
    /\ inHand \in [Launches -> Signals \cup {Nil}]
    /\ qpc \in [Quitters -> {"idle", "signal", "done"}]
    /\ target \in [Quitters -> Launches \cup {Nil}]
    /\ found \in [Quitters -> BOOLEAN]
    /\ app \in [Launches -> {"none", "running"} \cup Exited]
    /\ got \in [Launches -> SUBSET {"quit", "signal"}]
    /\ due \in [Launches -> SUBSET Signals]

\* NewLauncher.
Init ==
    /\ launched = FALSE /\ quitting = FALSE /\ childCmd = Nil
    /\ pc = [l \in Launches |-> "idle"]
    /\ ret = [l \in Launches |-> "none"]
    /\ notify = [l \in Launches |-> FALSE]
    /\ sigCh = [l \in Launches |-> Nil]
    /\ fwd = [l \in Launches |-> "none"]
    /\ inHand = [l \in Launches |-> Nil]
    /\ qpc = [q \in Quitters |-> "idle"]
    /\ target = [q \in Quitters |-> Nil]
    /\ found = [q \in Quitters |-> FALSE]
    /\ app = [l \in Launches |-> "none"]
    /\ got = [l \in Launches |-> {}]
    /\ due = [l \in Launches |-> {}]

-----------------------------------------------------------------------------
(* The child process and the operating system (external).                  *)

\* The application ends by itself, with or without an error; so does one
\* that is killed because the context of LaunchApp is done.
AppExits(l) ==
    /\ app[l] = "running"
    /\ \E s \in {"ok", "error"} : app' = [app EXCEPT ![l] = s]
    /\ UNCHANGED <<launcher, launches, channel, forwarder, quitters, got>>

\* A signal sent to the application kills it.
AppKilled(l) ==
    /\ app[l] = "running"
    /\ \/ "quit" \in got[l] /\ app' = [app EXCEPT ![l] = "quit"]
       \/ "signal" \in got[l] /\ app' = [app EXCEPT ![l] = "signalled"]
    /\ UNCHANGED <<launcher, launches, channel, forwarder, quitters, got>>

\* The program receives a signal: os/signal does not wait for room in the
\* channel.
Receive(l, s) ==
    /\ notify[l] /\ due[l] \cup {s} # due[l]
    /\ sigCh' = [sigCh EXCEPT ![l] = IF @ = Nil THEN s ELSE @]
    /\ due' = [due EXCEPT ![l] = @ \cup {s}]
    /\ UNCHANGED <<launcher, launches, notify, forwarder, quitters, child>>

-----------------------------------------------------------------------------
(* LaunchApp                                                               *)

Goto(l, step) == pc' = [pc EXCEPT ![l] = step]
Return(l, r, step) == ret' = [ret EXCEPT ![l] = r] /\ Goto(l, step)

\* The first section of mu.
Claim(l) ==
    /\ pc[l] = "idle"
    /\ IF launched
       THEN Return(l, "already", "done")
       ELSE Goto(l, "notify") /\ UNCHANGED ret
    /\ launched' = TRUE
    /\ UNCHANGED <<quitting, childCmd, channel, forwarder, quitters, child>>

\* signal.Notify
Notify(l) ==
    /\ pc[l] = "notify"
    /\ notify' = [notify EXCEPT ![l] = TRUE]
    /\ Goto(l, "start")
    /\ UNCHANGED <<launcher, ret, sigCh, due, forwarder, quitters, child>>

\* c.Start; a failure runs the deferred function and returns.
Start(l) ==
    /\ pc[l] = "start"
    /\ \/ app' = [app EXCEPT ![l] = "running"] /\ Goto(l, "setChild") /\ UNCHANGED ret
       \/ Return(l, "notStarted", "stop") /\ UNCHANGED app
    /\ UNCHANGED <<launcher, channel, forwarder, quitters, got>>

\* setChild(c) and the go statement.
SetChild(l) ==
    /\ pc[l] = "setChild"
    /\ childCmd' = l
    /\ fwd' = [fwd EXCEPT ![l] = "select"]
    /\ Goto(l, "wait")
    /\ UNCHANGED <<launched, quitting, ret, channel, inHand, quitters, child>>

\* Mutant: the error of c.Wait is dropped.
WaitIgnores(l) ==
    /\ pc[l] = "wait" /\ app[l] \in Exited
    /\ Return(l, "nil", "clear")
    /\ UNCHANGED <<launcher, channel, forwarder, quitters, child>>

\* c.Wait
Wait(l) ==
    /\ pc[l] = "wait" /\ app[l] \in Exited
    /\ IF app[l] = "ok" THEN Return(l, "nil", "clear") ELSE Goto(l, "judge") /\ UNCHANGED ret
    /\ UNCHANGED <<launcher, channel, forwarder, quitters, child>>

\* !l.quitting.Load()
Judge(l) ==
    /\ pc[l] = "judge"
    /\ Return(l, IF quitting THEN "nil" ELSE "failed", "clear")
    /\ UNCHANGED <<launcher, channel, forwarder, quitters, child>>

\* Mutant: the child is not forgotten.
ClearForgets(l) ==
    /\ pc[l] = "clear"
    /\ Goto(l, "stop")
    /\ UNCHANGED <<launcher, ret, channel, forwarder, quitters, child>>

\* The deferred setChild(nil).
Clear(l) ==
    /\ pc[l] = "clear"
    /\ childCmd' = Nil
    /\ Goto(l, "stop")
    /\ UNCHANGED <<launched, quitting, ret, channel, forwarder, quitters, child>>

\* The deferred signal.Stop and close(done), and the return.
Stop(l) ==
    /\ pc[l] = "stop"
    /\ notify' = [notify EXCEPT ![l] = FALSE]
    /\ Goto(l, "done")
    /\ UNCHANGED <<launcher, ret, sigCh, due, forwarder, quitters, child>>

LaunchApp(l) == Claim(l) \/ Notify(l) \/ Start(l) \/ SetChild(l) \/ Wait(l)
                    \/ Judge(l) \/ Clear(l) \/ Stop(l)

-----------------------------------------------------------------------------
(* The goroutine that forwards signals.  A select with both cases ready     *)
(* takes either.                                                           *)

TakeSignal(l) ==
    /\ fwd[l] = "select" /\ sigCh[l] # Nil
    /\ inHand' = [inHand EXCEPT ![l] = sigCh[l]]
    /\ sigCh' = [sigCh EXCEPT ![l] = Nil]
    /\ fwd' = [fwd EXCEPT ![l] = "forward"]
    /\ UNCHANGED <<launcher, launches, notify, due, quitters, child>>

\* A process that has exited ignores the signal.
SentTo(l, how) == got' = [got EXCEPT ![l] = IF app[l] = "running" THEN @ \cup {how} ELSE @]

\* Mutant: the signal is taken and not passed on.
ForwardDrops(l) ==
    /\ fwd[l] = "forward"
    /\ inHand' = [inHand EXCEPT ![l] = Nil]
    /\ due' = [due EXCEPT ![l] = @ \ {inHand[l]}]
    /\ fwd' = [fwd EXCEPT ![l] = "select"]
    /\ UNCHANGED <<launcher, launches, notify, sigCh, quitters, child>>

\* c.Process.Signal(s)
Forward(l) ==
    /\ fwd[l] = "forward"
    /\ SentTo(l, "signal")
    /\ due' = [due EXCEPT ![l] = @ \ {inHand[l]}]
    /\ inHand' = [inHand EXCEPT ![l] = Nil]
    /\ fwd' = [fwd EXCEPT ![l] = "select"]
    /\ UNCHANGED <<launcher, launches, notify, sigCh, quitters, app>>

\* <-done
Quit(l) ==
    /\ fwd[l] = "select" /\ pc[l] = "done"
    /\ fwd' = [fwd EXCEPT ![l] = "gone"]
    /\ UNCHANGED <<launcher, launches, channel, inHand, quitters, child>>

Forwarder(l) == TakeSignal(l) \/ Forward(l) \/ Quit(l)

-----------------------------------------------------------------------------
(* TerminateLaunchedApp                                                    *)

\* Mutant: quitting is not set.
TerminateQuietly(q) ==
    /\ qpc[q] = "idle"
    /\ target' = [target EXCEPT ![q] = childCmd]
    /\ found' = [found EXCEPT ![q] = childCmd # Nil]
    /\ qpc' = [qpc EXCEPT ![q] = IF childCmd # Nil THEN "signal" ELSE "done"]
    /\ UNCHANGED <<launcher, launches, channel, forwarder, child>>

\* The section of mu.
Terminate(q) ==
    /\ qpc[q] = "idle"
    /\ target' = [target EXCEPT ![q] = childCmd]
    /\ found' = [found EXCEPT ![q] = childCmd # Nil]
    /\ quitting' = (quitting \/ childCmd # Nil)
    /\ qpc' = [qpc EXCEPT ![q] = IF childCmd # Nil THEN "signal" ELSE "done"]
    /\ UNCHANGED <<launched, childCmd, launches, channel, forwarder, child>>

\* Mutant: the application is found, and not signalled.
SigtermLost(q) ==
    /\ qpc[q] = "signal"
    /\ qpc' = [qpc EXCEPT ![q] = "done"]
    /\ UNCHANGED <<launcher, launches, channel, forwarder, target, found, child>>

\* c.Process.Signal(syscall.SIGTERM), without mu.
Sigterm(q) ==
    /\ qpc[q] = "signal"
    /\ SentTo(target[q], "quit")
    /\ qpc' = [qpc EXCEPT ![q] = "done"]
    /\ UNCHANGED <<launcher, launches, channel, forwarder, target, found, app>>

\* The goroutine may call TerminateLaunchedApp again.
CallAgain(q) ==
    /\ qpc[q] = "done"
    /\ qpc' = [qpc EXCEPT ![q] = "idle"]
    /\ UNCHANGED <<launcher, launches, channel, forwarder, target, found, child>>

Quitter(q) == Terminate(q) \/ Sigterm(q) \/ CallAgain(q)

-----------------------------------------------------------------------------
Next ==
    \/ \E l \in Launches : \/ LaunchApp(l) \/ Forwarder(l)
                           \/ AppExits(l) \/ AppKilled(l)
                           \/ \E s \in Signals : Receive(l, s)
    \/ \E q \in Quitters : Quitter(q)

Spec == Init /\ [][Next]_vars

\* Goroutines that can run do run, and an application that has been sent
\* SIGTERM or another signal ends: none of them has to be launched, nor to
\* end by itself, and no call of LaunchApp or TerminateLaunchedApp has to be
\* made.
Fairness ==
    /\ \A l \in Launches : /\ WF_vars(pc[l] # "idle" /\ LaunchApp(l))
                           /\ WF_vars(TakeSignal(l) \/ Forward(l)) /\ WF_vars(Quit(l))
                           /\ WF_vars(AppKilled(l))
    /\ \A q \in Quitters : WF_vars(Sigterm(q))

FairSpec == Spec /\ Fairness
-----------------------------------------------------------------------------
(* What the code must guarantee.                                           *)

\* A Launcher launches one application at most, however many goroutines call
\* LaunchApp at the same time.
OneApp == \A l, m \in Launches : app[l] # "none" /\ app[m] # "none" => l = m

\* A shutdown that was asked for is no failure: a child killed by the SIGTERM
\* of TerminateLaunchedApp makes LaunchApp return nil.  quitting is set before
\* the signal is sent, and read after the child has exited.
QuitIsNoFailure ==
    \A l \in Launches : app[l] = "quit" /\ pc[l] \in {"clear", "stop", "done"}
                            => ret[l] = "nil"

\* A TerminateLaunchedApp that found nothing to terminate suppresses no later
\* failure: quitting is only set for an application that LaunchApp waits, or
\* waited, for.
QuittingNeedsApp ==
    quitting => \E l \in Launches : /\ app[l] # "none"
                                    /\ pc[l] \notin {"idle", "notify", "start", "setChild"}

\* TerminateLaunchedApp never answers for an application whose LaunchApp has
\* returned, nor for one that has not been started.
ChildIsWaitedFor ==
    childCmd # Nil => pc[childCmd] \in {"wait", "judge", "clear"} /\ app[childCmd] # "none"

\* No failure goes unreported: LaunchApp returns nil for an application that
\* did not end well only if some TerminateLaunchedApp has found it.
FailureIsReported ==
    \A l \in Launches :
        pc[l] = "done" /\ ret[l] = "nil" /\ app[l] # "ok" =>
            quitting /\ app[l] \in Exited

\* Once TerminateLaunchedApp has found the application, LaunchApp returns.
TerminationEnds ==
    \A q \in Quitters, l \in Launches :
        qpc[q] = "signal" /\ target[q] = l ~> pc[l] = "done"

\* A signal the channel has room for reaches the application or comes too late.
SignalArrives ==
    \A l \in Launches : sigCh[l] # Nil /\ app[l] = "running" ~>
                            "signal" \in got[l] \/ app[l] # "running"
=============================================================================
