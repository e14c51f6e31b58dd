---------------------------- MODULE TartProvider ----------------------------
(***************************************************************************)
(* tartvm.Provider: the virtual machines of a host as a pool manages them,  *)
(* by their names and through the tart command only.  Delete works through  *)
(* a list that it has read once, while the machines are started, stopped,   *)
(* removed and made by others: by their instances, by people, by a second   *)
(* call of Delete.                                                          *)
(***************************************************************************)
EXTENDS Naturals, Sequences, FiniteSets, Functions

CONSTANTS
    Names,      \* of virtual machines and images
    Prefixed,   \* those that have the prefix of this Provider, "" if it has none
    Callers     \* of Delete

\* A host has finitely many machines, and a call of Delete is none of those
\* that are not told apart.
ASSUME NamesAssumption == Prefixed \subseteq Names /\ IsFiniteSet(Prefixed)
ASSUME CallersAssumption == {"nobody", "other"} \cap Callers = {}

VARIABLES
    vms,        \* what tart knows of each name
    remover,    \* who has removed it: "nobody", "other" or one of Callers
    pc,         \* where each call of Delete is
    found,      \* the list that it has read
    at,         \* how far it is in the list
    names,      \* the names that it will return
    failed,     \* the names for which tart delete has failed
    errs        \* whether it will return an error

call == <<pc, found, at, names, failed, errs>>
vars == <<vms, remover, call>>

\* What tart list tells of a machine: source, and state; Running is state =
\* "running".  "deleted" is also what a machine is before it is made.
States == {"stopped", "running", "suspended", "deleted"}
Entries == [source : {"local", "OCI"}, state : States]

\* VMDetail, as far as Delete looks at it.
Details == [name : Prefixed, running : BOOLEAN]

There(n) == vms[n].state # "deleted"

\* List: local machines with the prefix.
Listed == {n \in Prefixed : There(n) /\ vms[n].source = "local"}

Init ==
    /\ vms \in [Names -> Entries]
    /\ \A n \in Names : vms[n].source = "OCI" => vms[n].state \in {"stopped", "deleted"}
    /\ \A n \in Names \ Prefixed : vms[n] = [source |-> "local", state |-> "stopped"]
    /\ remover = [n \in Names |-> "nobody"]
    /\ pc = [c \in Callers |-> "idle"]
    /\ found = [c \in Callers |-> <<>>] /\ at = [c \in Callers |-> 1]
    /\ names = [c \in Callers |-> <<>>]
    /\ failed = [c \in Callers |-> {}] /\ errs = [c \in Callers |-> FALSE]
-----------------------------------------------------------------------------
(* Delete.                                                                 *)

\* The lists of the machines of S, in every order.
Orders(S) == Injection(1..Cardinality(S), S)

ReadList(c) ==
    /\ pc[c] = "idle"
    /\ \E order \in Orders(Listed) :
           found' = [found EXCEPT ![c] =
               [i \in DOMAIN order |-> [name |-> order[i], running |-> vms[order[i]].state = "running"]]]
    /\ pc' = [pc EXCEPT ![c] = "next"]
    /\ UNCHANGED <<vms, remover, at, names, failed, errs>>

\* tart list fails, or prints what cannot be parsed: nothing has been done.
ReadListFails(c) ==
    /\ pc[c] = "idle"
    /\ errs' = [errs EXCEPT ![c] = TRUE] /\ pc' = [pc EXCEPT ![c] = "returned"]
    /\ UNCHANGED <<vms, remover, found, at, names, failed>>

NextVM(c) ==
    /\ pc[c] = "next"
    /\ pc' = [pc EXCEPT ![c] = IF at[c] > Len(found[c]) THEN "returned"
                               ELSE IF found[c][at[c]].running THEN "stop" ELSE "delete"]
    /\ UNCHANGED <<vms, remover, found, at, names, failed, errs>>

\* The machine that the loop is at.
Current(c) == found[c][at[c]].name

\* tart stop: there must be something to stop.
StopVM(c) ==
    /\ pc[c] = "stop" /\ vms[Current(c)].state = "running"
    /\ vms' = [vms EXCEPT ![Current(c)].state = "stopped"]
    /\ pc' = [pc EXCEPT ![c] = "delete"]
    /\ UNCHANGED <<remover, found, at, names, failed, errs>>

\* Mutant: a machine that could not be stopped is left alone.
StopVMFailsSkips(c) ==
    /\ pc[c] = "stop"
    /\ errs' = [errs EXCEPT ![c] = TRUE]
    /\ at' = [at EXCEPT ![c] = @ + 1] /\ pc' = [pc EXCEPT ![c] = "next"]
    /\ UNCHANGED <<vms, remover, found, names, failed>>

\* The error is kept, and the machine is to be deleted all the same.  It may
\* have been stopped even so, when the command is killed with its context.
StopVMFails(c) ==
    /\ pc[c] = "stop"
    /\ errs' = [errs EXCEPT ![c] = TRUE]
    /\ \/ UNCHANGED vms
       \/ vms[Current(c)].state = "running" /\ vms' = [vms EXCEPT ![Current(c)].state = "stopped"]
    /\ pc' = [pc EXCEPT ![c] = "delete"]
    /\ UNCHANGED <<remover, found, at, names, failed>>

Removable(n) == There(n) /\ vms[n].state # "running"

\* tart delete: there must be something to delete, and it must not be running.
DeleteVM(c) ==
    /\ pc[c] = "delete" /\ Removable(Current(c))
    /\ vms' = [vms EXCEPT ![Current(c)].state = "deleted"]
    /\ remover' = [remover EXCEPT ![Current(c)] = c]
    /\ names' = [names EXCEPT ![c] = Append(@, Current(c))]
    /\ at' = [at EXCEPT ![c] = @ + 1] /\ pc' = [pc EXCEPT ![c] = "next"]
    /\ UNCHANGED <<found, failed, errs>>

\* The command is killed after it has deleted the machine, or before.
MaybeDeleted(c) ==
    \/ UNCHANGED <<vms, remover>>
    \/ /\ Removable(Current(c))
       /\ vms' = [vms EXCEPT ![Current(c)].state = "deleted"]
       /\ remover' = [remover EXCEPT ![Current(c)] = c]

\* Mutant: that the machine is gone is as good as having deleted it.
DeleteVMFailsGone(c) ==
    /\ pc[c] = "delete" /\ MaybeDeleted(c)
    /\ errs' = [errs EXCEPT ![c] = TRUE]
    /\ IF There(Current(c))
       THEN failed' = [failed EXCEPT ![c] = @ \cup {Current(c)}] /\ UNCHANGED names
       ELSE names' = [names EXCEPT ![c] = Append(@, Current(c))] /\ UNCHANGED failed
    /\ at' = [at EXCEPT ![c] = @ + 1] /\ pc' = [pc EXCEPT ![c] = "next"]
    /\ UNCHANGED found

\* Mutant: the error is only logged.
DeleteVMFailsQuietly(c) ==
    /\ pc[c] = "delete" /\ MaybeDeleted(c)
    /\ failed' = [failed EXCEPT ![c] = @ \cup {Current(c)}]
    /\ at' = [at EXCEPT ![c] = @ + 1] /\ pc' = [pc EXCEPT ![c] = "next"]
    /\ UNCHANGED <<found, names, errs>>

\* Mutant: a machine is tried until it is deleted.
DeleteVMFailsRetries(c) ==
    /\ pc[c] = "delete" /\ MaybeDeleted(c)
    /\ errs' = [errs EXCEPT ![c] = TRUE]
    /\ UNCHANGED <<found, at, names, failed, pc>>

DeleteVMFails(c) ==
    /\ pc[c] = "delete" /\ MaybeDeleted(c)
    /\ errs' = [errs EXCEPT ![c] = TRUE]
    /\ failed' = [failed EXCEPT ![c] = @ \cup {Current(c)}]
    /\ at' = [at EXCEPT ![c] = @ + 1] /\ pc' = [pc EXCEPT ![c] = "next"]
    /\ UNCHANGED <<found, names>>

\* The caller calls Delete again.
Again(c) ==
    /\ pc[c] = "returned"
    /\ found' = [found EXCEPT ![c] = <<>>] /\ at' = [at EXCEPT ![c] = 1]
    /\ names' = [names EXCEPT ![c] = <<>>] /\ failed' = [failed EXCEPT ![c] = {}]
    /\ errs' = [errs EXCEPT ![c] = FALSE] /\ pc' = [pc EXCEPT ![c] = "idle"]
    /\ UNCHANGED <<vms, remover>>
-----------------------------------------------------------------------------
(* What else happens on the host.                                          *)

\* tart clone, by the instance that New constructs or by hand, makes a machine,
\* under a name that was never used before.
New(n) ==
    /\ ~There(n) /\ remover[n] = "nobody"
    /\ vms' = [vms EXCEPT ![n] = [source |-> "local", state |-> "stopped"]]
    /\ UNCHANGED <<remover, call>>

\* Pull adds an image.
Pull(n) ==
    /\ ~There(n) /\ remover[n] = "nobody"
    /\ vms' = [vms EXCEPT ![n] = [source |-> "OCI", state |-> "stopped"]]
    /\ UNCHANGED <<remover, call>>

\* A machine is started, shuts down, is suspended, by its instance or itself.
Changes(n) ==
    /\ There(n) /\ vms[n].source = "local"
    /\ \E s \in {"stopped", "running", "suspended"} \ {vms[n].state} : vms' = [vms EXCEPT ![n].state = s]
    /\ UNCHANGED <<remover, call>>

RemovedByOther(n) ==
    /\ There(n) /\ vms[n].state # "running"
    /\ vms' = [vms EXCEPT ![n].state = "deleted"] /\ remover' = [remover EXCEPT ![n] = "other"]
    /\ UNCHANGED call

Delete(c) ==
    \/ ReadList(c) \/ ReadListFails(c) \/ NextVM(c) \/ StopVM(c) \/ StopVMFails(c)
    \/ DeleteVM(c) \/ DeleteVMFails(c) \/ Again(c)

\* Of the others' machines only what Delete does to them matters.
Host == \E n \in Prefixed : New(n) \/ Pull(n) \/ Changes(n) \/ RemovedByOther(n)

Next == (\E c \in Callers : Delete(c)) \/ Host

Spec == Init /\ [][Next]_vars

\* Every tart command ends: tart stop has a timeout of its own.
FairSpec == Spec /\ \A c \in Callers : WF_vars(Delete(c) /\ pc[c] # "idle")
-----------------------------------------------------------------------------
TypeOK ==
    /\ vms \in [Names -> Entries]
    /\ remover \in [Names -> {"nobody", "other"} \cup Callers]
    /\ pc \in [Callers -> {"idle", "next", "stop", "delete", "returned"}]
    /\ found \in [Callers -> Seq(Details)]
    /\ at \in [Callers -> Nat \ {0}]
    /\ \A c \in Callers : at[c] <= Len(found[c]) + (IF pc[c] \in {"stop", "delete"} THEN 0 ELSE 1)
    /\ \A c \in Callers : pc[c] = "idle" => at[c] = 1
    /\ names \in [Callers -> Seq(Prefixed)]
    /\ failed \in [Callers -> SUBSET Prefixed]
    /\ errs \in [Callers -> BOOLEAN]

\* The machines of the list that Delete has got past.
Tried(c) == {found[c][i].name : i \in 1..(at[c] - 1)}

\* The names that Delete returns are exactly those of the machines that its
\* own commands have deleted, and said so, each once: not what others have
\* deleted, another call at the same time among them, though it is in the list;
\* nor what a command has deleted that then failed.
NamesAreExact ==
    \A c \in Callers :
        /\ {names[c][i] : i \in DOMAIN names[c]} = {n \in Tried(c) : remover[n] = c} \ failed[c]
        /\ \A i, j \in DOMAIN names[c] : names[c][i] = names[c][j] => i = j

\* When Delete returns, each machine of the list has been tried, whatever
\* failed before it: it is among the names, or its deletion has failed.
EveryoneIsTried ==
    \A c \in Callers : pc[c] = "returned" =>
        {found[c][i].name : i \in DOMAIN found[c]} = {names[c][i] : i \in DOMAIN names[c]} \cup failed[c]

\* Delete returns no error only if all that it has listed is gone, though the
\* list was old when it was used.
NilMeansGone ==
    \A c \in Callers : pc[c] = "returned" /\ ~errs[c] =>
        \A i \in DOMAIN found[c] : ~There(found[c][i].name)

\* A Delete that was begun returns, however many of its commands fail and
\* whatever becomes of the machines meanwhile.
DeleteReturns == \A c \in Callers : pc[c] # "idle" ~> pc[c] = "returned"
=============================================================================
