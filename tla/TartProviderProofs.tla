------------------------- MODULE TartProviderProofs -------------------------
(***************************************************************************)
(* What Delete of a Provider answers is true, for any machines and callers, *)
(* and whatever happens on the host meanwhile.  The argument: a name that   *)
(* somebody has removed is gone for good, so a machine that is there to be  *)
(* deleted is among the names of no call; and each call has dealt with the  *)
(* part of its list that is behind it, and with nothing else.               *)
(***************************************************************************)
EXTENDS TartProvider, FiniteSetTheorems, TLAPS

\* Names are not used again.
RemovedIsGone == \A n \in Names : remover[n] # "nobody" => vms[n].state = "deleted"

\* The names of a call are those of machines that it has removed, each once.
OwnNames ==
    \A c \in Callers :
        /\ \A i \in DOMAIN names[c] : remover[names[c][i]] = c
        /\ \A i, j \in DOMAIN names[c] : names[c][i] = names[c][j] => i = j

Handled(c, n) == n \in failed[c] \/ \E i \in DOMAIN names[c] : names[c][i] = n

\* What a call has dealt with is what it has in its list before `at'.
Progress ==
    \A c \in Callers :
        /\ \A n \in Prefixed :
               Handled(c, n) <=> \E i \in 1..(at[c] - 1) : found[c][i].name = n
        /\ pc[c] = "returned" => at[c] = Len(found[c]) + 1
        /\ failed[c] # {} => errs[c] = TRUE
        /\ pc[c] = "idle" => /\ found[c] = <<>> /\ at[c] = 1
                             /\ names[c] = <<>> /\ failed[c] = {}

Inv == RemovedIsGone /\ OwnNames /\ Progress

-----------------------------------------------------------------------------
\* A list of some machines is a sequence of them.
LEMMA OrdersAreLists ==
    ASSUME NEW S \in SUBSET Prefixed, NEW order \in Orders(S)
    PROVE  order \in Seq(S)
<1>1. Cardinality(S) \in Nat
  BY NamesAssumption, FS_Subset, FS_CardinalityType
<1>2. order \in [1..Cardinality(S) -> S]
  BY DEF Orders, Injection
<1> QED
  BY <1>1, <1>2

\* The machine that the loop is at is one of the list, and has the prefix.
LEMMA CurrentIsListed ==
    ASSUME TypeOK, NEW c \in Callers, pc[c] \in {"stop", "delete"}
    PROVE  /\ at[c] \in 1..Len(found[c])
           /\ Current(c) \in Prefixed
           /\ Current(c) \in Names
<1>1. at[c] \in 1..Len(found[c])
  BY DEF TypeOK
<1>2. found[c] \in Seq(Details)
  BY DEF TypeOK
<1>3. found[c][at[c]] \in Details
  BY <1>1, <1>2
<1>4. Current(c) \in Prefixed
  BY <1>3 DEF Current, Details
<1> QED
  BY <1>1, <1>4, NamesAssumption

\* A machine that changes its state is still an entry of the list.
LEMMA StateChanges ==
    ASSUME NEW f \in [Names -> Entries], NEW n \in Names, NEW s \in States
    PROVE  [f EXCEPT ![n].state = s] \in [Names -> Entries]
<1>1. f[n] \in Entries
  OBVIOUS
<1>2. [f[n] EXCEPT !.state = s] \in Entries
  BY <1>1 DEF Entries
<1> QED
  BY <1>2

\* The variables keep their types: the list and the names of Delete are of
\* machines with the prefix, and the loop never leaves the list.
THEOREM TypeCorrect == Spec => []TypeOK
<1>1. Init => TypeOK
  BY DEF Init, TypeOK
<1>2. TypeOK /\ [Next]_vars => TypeOK'
  <2> SUFFICES ASSUME TypeOK, [Next]_vars PROVE TypeOK'
    OBVIOUS
  <2>1. ASSUME NEW c \in Callers, ReadList(c) PROVE TypeOK'
    <3>1. PICK order \in Orders(Listed) :
              found' = [found EXCEPT ![c] =
                  [i \in DOMAIN order |-> [name |-> order[i], running |-> vms[order[i]].state = "running"]]]
      BY <2>1 DEF ReadList
    <3>2. Listed \in SUBSET Prefixed
      BY DEF Listed
    <3>3. order \in Seq(Prefixed)
      BY <3>2, OrdersAreLists
    <3> DEFINE list == [i \in DOMAIN order |-> [name |-> order[i], running |-> vms[order[i]].state = "running"]]
    <3>4. list \in Seq(Details)
      <4>1. \A i \in 1..Len(order) :
                [name |-> order[i], running |-> vms[order[i]].state = "running"] \in Details
        BY <3>3 DEF Details
      <4> QED
        BY <3>3, <4>1
    <3>5. found' = [found EXCEPT ![c] = list]
      BY <3>1
    <3> HIDE DEF list
    <3>6. found' \in [Callers -> Seq(Details)]
      BY <3>4, <3>5 DEF TypeOK
    <3>7. \A d \in Callers : Len(found'[d]) \in Nat
      BY <3>6
    <3>8. \A d \in Callers \ {c} : found'[d] = found[d]
      BY <3>5 DEF TypeOK
    <3>9. \A d \in Callers :
              /\ at'[d] <= Len(found'[d]) + (IF pc'[d] \in {"stop", "delete"} THEN 0 ELSE 1)
              /\ pc'[d] = "idle" => at'[d] = 1
      <4> SUFFICES ASSUME NEW d \in Callers
                   PROVE  /\ at'[d] <= Len(found'[d]) + (IF pc'[d] \in {"stop", "delete"} THEN 0 ELSE 1)
                          /\ pc'[d] = "idle" => at'[d] = 1
        OBVIOUS
      <4>1. CASE d = c
        BY <2>1, <3>7, <4>1 DEF ReadList, TypeOK
      <4>2. CASE d # c
        BY <2>1, <3>8, <4>2 DEF ReadList, TypeOK
      <4> QED
        BY <4>1, <4>2
    <3> QED
      BY <2>1, <3>6, <3>9 DEF ReadList, TypeOK
  <2>2. ASSUME NEW c \in Callers, ReadListFails(c) PROVE TypeOK'
    BY <2>2 DEF ReadListFails, TypeOK
  <2>3. ASSUME NEW c \in Callers, NextVM(c) PROVE TypeOK'
    BY <2>3 DEF NextVM, TypeOK
  <2>4. ASSUME NEW c \in Callers, StopVM(c) \/ StopVMFails(c) PROVE TypeOK'
    <3>1. Current(c) \in Names
      BY <2>4, CurrentIsListed DEF StopVM, StopVMFails
    <3>2. [vms EXCEPT ![Current(c)].state = "stopped"] \in [Names -> Entries]
      BY <3>1, StateChanges DEF TypeOK, States
    <3>3. vms' \in [Names -> Entries]
      BY <2>4, <3>2 DEF StopVM, StopVMFails, TypeOK
    <3> QED
      BY <2>4, <3>3 DEF StopVM, StopVMFails, TypeOK
  <2>5. ASSUME NEW c \in Callers, DeleteVM(c) \/ DeleteVMFails(c) PROVE TypeOK'
    <3>1. Current(c) \in Prefixed /\ Current(c) \in Names /\ at[c] \in 1..Len(found[c])
      BY <2>5, CurrentIsListed DEF DeleteVM, DeleteVMFails
    <3>2. [vms EXCEPT ![Current(c)].state = "deleted"] \in [Names -> Entries]
      BY <3>1, StateChanges DEF TypeOK, States
    <3>3. [remover EXCEPT ![Current(c)] = c] \in [Names -> {"nobody", "other"} \cup Callers]
      BY <3>1 DEF TypeOK
    <3>4. vms' \in [Names -> Entries] /\ remover' \in [Names -> {"nobody", "other"} \cup Callers]
      <4>1. CASE DeleteVM(c)
        BY <4>1, <3>2, <3>3 DEF DeleteVM
      <4>2. CASE DeleteVMFails(c)
        BY <4>2, <3>2, <3>3 DEF DeleteVMFails, MaybeDeleted, TypeOK
      <4> QED
        BY <2>5, <4>1, <4>2
    <3>5. names' \in [Callers -> Seq(Prefixed)]
      <4>1. Append(names[c], Current(c)) \in Seq(Prefixed)
        BY <3>1 DEF TypeOK
      <4>2. names' = [names EXCEPT ![c] = Append(names[c], Current(c))] \/ names' = names
        BY <2>5 DEF DeleteVM, DeleteVMFails
      <4> QED
        BY <4>1, <4>2 DEF TypeOK
    <3>6. failed' \in [Callers -> SUBSET Prefixed] /\ errs' \in [Callers -> BOOLEAN]
      <4>1. failed[c] \cup {Current(c)} \in SUBSET Prefixed
        BY <3>1 DEF TypeOK
      <4>2. failed' = [failed EXCEPT ![c] = failed[c] \cup {Current(c)}] \/ failed' = failed
        BY <2>5 DEF DeleteVM, DeleteVMFails
      <4>3. errs' = [errs EXCEPT ![c] = TRUE] \/ errs' = errs
        BY <2>5 DEF DeleteVM, DeleteVMFails
      <4>4. failed' \in [Callers -> SUBSET Prefixed]
        BY <4>1, <4>2 DEF TypeOK
      <4>5. errs' \in [Callers -> BOOLEAN]
        BY <4>3 DEF TypeOK
      <4> QED
        BY <4>4, <4>5
    <3>7. /\ at' = [at EXCEPT ![c] = at[c] + 1] /\ pc' = [pc EXCEPT ![c] = "next"]
          /\ found' = found
      BY <2>5 DEF DeleteVM, DeleteVMFails
    <3>8. at[c] + 1 \in Nat \ {0}
      BY DEF TypeOK
    <3>9. at' \in [Callers -> Nat \ {0}] /\ pc' \in [Callers -> {"idle", "next", "stop", "delete", "returned"}]
      BY <3>7, <3>8 DEF TypeOK
    <3>10. \A d \in Callers :
              /\ at'[d] <= Len(found'[d]) + (IF pc'[d] \in {"stop", "delete"} THEN 0 ELSE 1)
              /\ pc'[d] = "idle" => at'[d] = 1
      <4> SUFFICES ASSUME NEW d \in Callers
                   PROVE  /\ at'[d] <= Len(found'[d]) + (IF pc'[d] \in {"stop", "delete"} THEN 0 ELSE 1)
                          /\ pc'[d] = "idle" => at'[d] = 1
        OBVIOUS
      <4>1. CASE d = c
        <5>1. at'[c] = at[c] + 1 /\ pc'[c] = "next" /\ found'[c] = found[c]
          BY <3>7 DEF TypeOK
        <5>2. at[c] + 1 <= Len(found[c]) + 1
          BY <3>1
        <5> QED
          BY <4>1, <5>1, <5>2
      <4>2. CASE d # c
        <5>1. at'[d] = at[d] /\ pc'[d] = pc[d] /\ found'[d] = found[d]
          BY <3>7, <4>2 DEF TypeOK
        <5> QED
          BY <5>1 DEF TypeOK
      <4> QED
        BY <4>1, <4>2
    <3>11. found' \in [Callers -> Seq(Details)]
      BY <3>7 DEF TypeOK
    <3> QED
      BY <3>4, <3>5, <3>6, <3>9, <3>10, <3>11 DEF TypeOK
  <2>6. ASSUME NEW c \in Callers, Again(c) PROVE TypeOK'
    <3>1. <<>> \in Seq(Details) /\ <<>> \in Seq(Prefixed) /\ Len(<<>>) = 0
      OBVIOUS
    <3>2. /\ found' = [found EXCEPT ![c] = <<>>] /\ at' = [at EXCEPT ![c] = 1]
          /\ pc' = [pc EXCEPT ![c] = "idle"]
      BY <2>6 DEF Again
    <3>3. found' \in [Callers -> Seq(Details)] /\ names' \in [Callers -> Seq(Prefixed)]
      BY <2>6, <3>1 DEF Again, TypeOK
    <3>4. at' \in [Callers -> Nat \ {0}] /\ pc' \in [Callers -> {"idle", "next", "stop", "delete", "returned"}]
      BY <3>2 DEF TypeOK
    <3>5. failed' \in [Callers -> SUBSET Prefixed] /\ errs' \in [Callers -> BOOLEAN]
      BY <2>6 DEF Again, TypeOK
    <3>6. \A d \in Callers :
              /\ at'[d] <= Len(found'[d]) + (IF pc'[d] \in {"stop", "delete"} THEN 0 ELSE 1)
              /\ pc'[d] = "idle" => at'[d] = 1
      <4> SUFFICES ASSUME NEW d \in Callers
                   PROVE  /\ at'[d] <= Len(found'[d]) + (IF pc'[d] \in {"stop", "delete"} THEN 0 ELSE 1)
                          /\ pc'[d] = "idle" => at'[d] = 1
        OBVIOUS
      <4>1. CASE d = c
        <5>1. at'[c] = 1 /\ pc'[c] = "idle" /\ found'[c] = <<>>
          BY <3>2 DEF TypeOK
        <5> QED
          BY <4>1, <5>1, <3>1
      <4>2. CASE d # c
        <5>1. at'[d] = at[d] /\ pc'[d] = pc[d] /\ found'[d] = found[d]
          BY <3>2, <4>2 DEF TypeOK
        <5> QED
          BY <5>1 DEF TypeOK
      <4> QED
        BY <4>1, <4>2
    <3> QED
      BY <2>6, <3>3, <3>4, <3>5, <3>6 DEF Again, TypeOK
  <2>7. ASSUME Host PROVE TypeOK'
    <3>1. PICK n \in Prefixed : New(n) \/ Pull(n) \/ Changes(n) \/ RemovedByOther(n)
      BY <2>7 DEF Host
    <3>2. n \in Names
      BY NamesAssumption
    <3>3. \A s \in States : [vms EXCEPT ![n].state = s] \in [Names -> Entries]
      BY <3>2, StateChanges DEF TypeOK
    <3>4. CASE New(n) \/ Pull(n)
      <4>1. vms' \in [Names -> Entries]
        <5>1. \A s \in {"local", "OCI"} : [source |-> s, state |-> "stopped"] \in Entries
          BY DEF Entries, States
        <5>2. \E s \in {"local", "OCI"} : vms' = [vms EXCEPT ![n] = [source |-> s, state |-> "stopped"]]
          BY <3>4 DEF New, Pull
        <5> QED
          BY <3>2, <5>1, <5>2 DEF TypeOK
      <4>2. UNCHANGED <<remover, pc, found, at, names, failed, errs>>
        BY <3>4 DEF New, Pull, call
      <4> QED
        BY <4>1, <4>2 DEF TypeOK
    <3>5. CASE Changes(n) \/ RemovedByOther(n)
      <4>1. vms' \in [Names -> Entries]
        BY <3>3, <3>5 DEF Changes, RemovedByOther, States
      <4>2. remover' \in [Names -> {"nobody", "other"} \cup Callers]
        BY <3>5 DEF Changes, RemovedByOther, TypeOK
      <4>3. UNCHANGED <<pc, found, at, names, failed, errs>>
        BY <3>5 DEF Changes, RemovedByOther, call
      <4> QED
        BY <4>1, <4>2, <4>3 DEF TypeOK
    <3> QED
      BY <3>1, <3>4, <3>5
  <2>8. CASE UNCHANGED vars
    BY <2>8 DEF TypeOK, vars, call
  <2> QED
    BY <2>1, <2>2, <2>3, <2>4, <2>5, <2>6, <2>7, <2>8 DEF Next, Delete
<1> QED
  BY <1>1, <1>2, PTL DEF Spec

-----------------------------------------------------------------------------
\* Nothing that has been removed is there to be deleted, renamed or changed.
LEMMA HostKeepsInv ==
    ASSUME TypeOK, Inv, NEW n \in Prefixed,
           New(n) \/ Pull(n) \/ Changes(n) \/ RemovedByOther(n)
    PROVE  Inv'
<1>1. n \in Names
  BY NamesAssumption
<1>2. UNCHANGED <<pc, found, at, names, failed, errs>>
  BY DEF New, Pull, Changes, RemovedByOther, call
<1>3. \A m \in Names \ {n} : vms'[m] = vms[m] /\ remover'[m] = remover[m]
  BY <1>1 DEF New, Pull, Changes, RemovedByOther, TypeOK
<1>4. CASE New(n) \/ Pull(n) \/ Changes(n)
  <2>1. remover' = remover /\ remover[n] = "nobody"
    BY <1>1, <1>4 DEF New, Pull, Changes, Inv, RemovedIsGone, There
  <2>2. RemovedIsGone'
    BY <1>3, <2>1 DEF Inv, RemovedIsGone
  <2> QED
    BY <1>2, <2>1, <2>2 DEF Inv, OwnNames, Progress, Handled
<1>5. CASE RemovedByOther(n)
  <2>1. remover[n] = "nobody" /\ remover'[n] = "other" /\ vms'[n].state = "deleted"
    <3>1. vms[n] \in Entries
      BY <1>1 DEF TypeOK
    <3> QED
      BY <1>1, <1>5, <3>1 DEF RemovedByOther, Inv, RemovedIsGone, There, TypeOK, Entries
  <2>2. RemovedIsGone'
    BY <1>3, <2>1 DEF Inv, RemovedIsGone
  <2>3. OwnNames'
    <3> SUFFICES ASSUME NEW c \in Callers
                 PROVE  /\ \A i \in DOMAIN names[c] : remover'[names[c][i]] = c
                        /\ \A i, j \in DOMAIN names[c] : names[c][i] = names[c][j] => i = j
      BY <1>2 DEF OwnNames
    <3>1. c # "nobody"
      BY CallersAssumption
    <3>2. ASSUME NEW i \in DOMAIN names[c] PROVE remover'[names[c][i]] = c
      <4>1. names[c][i] \in Names /\ remover[names[c][i]] = c
        BY NamesAssumption DEF TypeOK, Inv, OwnNames
      <4>2. names[c][i] # n
        BY <2>1, <3>1, <4>1
      <4> QED
        BY <1>3, <4>1, <4>2
    <3> QED
      BY <3>2 DEF Inv, OwnNames
  <2>4. Progress'
    BY <1>2 DEF Inv, Progress, Handled
  <2> QED
    BY <2>2, <2>3, <2>4 DEF Inv
<1> QED
  BY <1>4, <1>5

\* The machine that a call deletes was there, so it is nobody's yet.
LEMMA DeletingKeepsInv ==
    ASSUME TypeOK, TypeOK', Inv, NEW c \in Callers, DeleteVM(c)
    PROVE  Inv'
<1> DEFINE n == Current(c)
<1>1. n \in Prefixed /\ n \in Names /\ at[c] \in 1..Len(found[c])
  BY CurrentIsListed DEF DeleteVM
<1>2. /\ vms' = [vms EXCEPT ![n].state = "deleted"] /\ remover' = [remover EXCEPT ![n] = c]
      /\ names' = [names EXCEPT ![c] = Append(names[c], n)]
      /\ at' = [at EXCEPT ![c] = at[c] + 1] /\ pc' = [pc EXCEPT ![c] = "next"]
      /\ found' = found /\ failed' = failed /\ errs' = errs
  BY DEF DeleteVM
<1>3. remover[n] = "nobody"
  BY <1>1 DEF DeleteVM, Removable, There, Inv, RemovedIsGone
<1>4. n = found[c][at[c]].name
  BY DEF Current
<1> HIDE DEF n
<1>5. /\ Len(names[c]) \in Nat /\ names[c] \in Seq(Prefixed) /\ names'[c] = Append(names[c], n)
      /\ \A d \in Callers \ {c} : names'[d] = names[d] /\ at'[d] = at[d] /\ pc'[d] = pc[d]
      /\ at'[c] = at[c] + 1 /\ pc'[c] = "next" /\ at[c] \in Nat
  BY <1>2 DEF TypeOK
<1>6. /\ DOMAIN names'[c] = 1..(Len(names[c]) + 1) /\ DOMAIN names[c] = 1..Len(names[c])
      /\ names'[c][Len(names[c]) + 1] = n
      /\ \A i \in 1..Len(names[c]) : names'[c][i] = names[c][i]
  BY <1>1, <1>5
<1>7. RemovedIsGone'
  <2>1. vms'[n].state = "deleted" /\ \A m \in Names \ {n} : vms'[m] = vms[m] /\ remover'[m] = remover[m]
    <3>1. vms[n] \in Entries
      BY <1>1 DEF TypeOK
    <3> QED
      BY <1>1, <1>2, <3>1 DEF TypeOK, Entries
  <2> QED
    BY <2>1 DEF Inv, RemovedIsGone
<1>8. OwnNames'
  <2> SUFFICES ASSUME NEW d \in Callers
               PROVE  /\ \A i \in DOMAIN names'[d] : remover'[names'[d][i]] = d
                      /\ \A i, j \in DOMAIN names'[d] : names'[d][i] = names'[d][j] => i = j
    BY DEF OwnNames
  <2>1. \A i \in DOMAIN names[d] : /\ names[d][i] \in Names /\ remover[names[d][i]] = d
                                   /\ names[d][i] # n /\ remover'[names[d][i]] = d
    <3> SUFFICES ASSUME NEW i \in DOMAIN names[d]
                 PROVE  /\ names[d][i] \in Names /\ remover[names[d][i]] = d
                        /\ names[d][i] # n /\ remover'[names[d][i]] = d
      OBVIOUS
    <3>1. names[d][i] \in Names /\ remover[names[d][i]] = d
      BY NamesAssumption DEF TypeOK, Inv, OwnNames
    <3>2. names[d][i] # n
      BY <1>3, <3>1, CallersAssumption
    <3> QED
      BY <1>1, <1>2, <3>1, <3>2 DEF TypeOK
  <2>2. CASE d = c
    <3>1. remover'[n] = c
      BY <1>1, <1>2 DEF TypeOK
    <3>2. \A i \in DOMAIN names'[c] :
              \/ i = Len(names[c]) + 1 /\ names'[c][i] = n
              \/ i \in DOMAIN names[c] /\ names'[c][i] = names[c][i]
      BY <1>5, <1>6
    <3>3. \A i \in DOMAIN names'[c] : remover'[names'[c][i]] = c
      BY <2>1, <2>2, <3>1, <3>2
    <3>4. \A i, j \in DOMAIN names[c] : names[c][i] = names[c][j] => i = j
      BY DEF Inv, OwnNames
    <3>5. \A i, j \in DOMAIN names'[c] : names'[c][i] = names'[c][j] => i = j
      BY <2>1, <2>2, <3>2, <3>4
    <3> QED
      BY <2>2, <3>3, <3>5
  <2>3. CASE d # c
    BY <1>5, <2>1, <2>3 DEF Inv, OwnNames
  <2> QED
    BY <2>2, <2>3
<1>9. Progress'
  <2>1. \A m : Handled(c, m)' <=> Handled(c, m) \/ m = n
    BY <1>2, <1>5, <1>6 DEF Handled
  <2>2. \A m \in Prefixed : (\E i \in 1..(at'[c] - 1) : found[c][i].name = m)
                  <=> (\E i \in 1..(at[c] - 1) : found[c][i].name = m) \/ m = n
    BY <1>1, <1>4, <1>5
  <2>3. \A d \in Callers \ {c} : \A m : Handled(d, m)' <=> Handled(d, m)
    BY <1>2, <1>5 DEF Handled
  <2> SUFFICES ASSUME NEW d \in Callers
               PROVE  /\ \A m \in Prefixed :
                             Handled(d, m)' <=> \E i \in 1..(at'[d] - 1) : found'[d][i].name = m
                      /\ pc'[d] = "returned" => at'[d] = Len(found'[d]) + 1
                      /\ failed'[d] # {} => errs'[d] = TRUE
                      /\ pc'[d] = "idle" => /\ found'[d] = <<>> /\ at'[d] = 1
                                            /\ names'[d] = <<>> /\ failed'[d] = {}
    BY DEF Progress, Handled
  <2>4. CASE d = c
    <3>1. \A m \in Prefixed : Handled(c, m)' <=> \E i \in 1..(at'[c] - 1) : found'[c][i].name = m
      BY <1>2, <2>1, <2>2 DEF Inv, Progress
    <3> QED
      BY <1>2, <1>5, <2>4, <3>1 DEF Inv, Progress
  <2>5. CASE d # c
    BY <1>2, <1>5, <2>3, <2>5 DEF Inv, Progress
  <2> QED
    BY <2>4, <2>5
<1> QED
  BY <1>7, <1>8, <1>9 DEF Inv

\* A command that fails may have deleted the machine: then nobody names it.
LEMMA FailingKeepsInv ==
    ASSUME TypeOK, TypeOK', Inv, NEW c \in Callers, DeleteVMFails(c)
    PROVE  Inv'
<1> DEFINE n == Current(c)
<1>1. n \in Prefixed /\ n \in Names /\ at[c] \in 1..Len(found[c])
  BY CurrentIsListed DEF DeleteVMFails
<1>2. /\ UNCHANGED <<vms, remover>>
         \/ /\ Removable(n) /\ vms' = [vms EXCEPT ![n].state = "deleted"]
            /\ remover' = [remover EXCEPT ![n] = c]
      /\ names' = names /\ found' = found
      /\ at' = [at EXCEPT ![c] = at[c] + 1] /\ pc' = [pc EXCEPT ![c] = "next"]
      /\ failed' = [failed EXCEPT ![c] = failed[c] \cup {n}] /\ errs' = [errs EXCEPT ![c] = TRUE]
  BY DEF DeleteVMFails, MaybeDeleted
<1>3. n = found[c][at[c]].name
  BY DEF Current
<1>4. Removable(n) => remover[n] = "nobody"
  BY <1>1 DEF Removable, There, Inv, RemovedIsGone
<1> HIDE DEF n
<1>5. /\ \A d \in Callers \ {c} : /\ at'[d] = at[d] /\ pc'[d] = pc[d]
                                  /\ failed'[d] = failed[d] /\ errs'[d] = errs[d]
      /\ at'[c] = at[c] + 1 /\ pc'[c] = "next" /\ at[c] \in Nat
      /\ failed'[c] = failed[c] \cup {n} /\ errs'[c] = TRUE
  BY <1>2 DEF TypeOK
<1>6. RemovedIsGone'
  <2>1. CASE UNCHANGED <<vms, remover>>
    BY <2>1 DEF Inv, RemovedIsGone
  <2>2. CASE vms' = [vms EXCEPT ![n].state = "deleted"] /\ remover' = [remover EXCEPT ![n] = c]
    <3>1. vms[n] \in Entries
      BY <1>1 DEF TypeOK
    <3>2. vms'[n].state = "deleted" /\ \A m \in Names \ {n} : vms'[m] = vms[m] /\ remover'[m] = remover[m]
      BY <1>1, <2>2, <3>1 DEF TypeOK, Entries
    <3> QED
      BY <3>2 DEF Inv, RemovedIsGone
  <2> QED
    BY <1>2, <2>1, <2>2
<1>7. OwnNames'
  <2>1. ASSUME NEW d \in Callers, NEW i \in DOMAIN names[d] PROVE remover'[names[d][i]] = d
    <3>1. names[d][i] \in Names /\ remover[names[d][i]] = d
      BY NamesAssumption DEF TypeOK, Inv, OwnNames
    <3>2. CASE remover' = remover
      BY <3>1, <3>2
    <3>3. CASE Removable(n) /\ remover' = [remover EXCEPT ![n] = c]
      <4>1. names[d][i] # n
        BY <1>4, <3>1, <3>3, CallersAssumption
      <4> QED
        BY <1>1, <3>1, <3>3, <4>1 DEF TypeOK
    <3> QED
      BY <1>2, <3>2, <3>3
  <2> QED
    BY <1>2, <2>1 DEF Inv, OwnNames
<1>8. Progress'
  <2>1. \A m : Handled(c, m)' <=> Handled(c, m) \/ m = n
    BY <1>2, <1>5 DEF Handled
  <2>2. \A m \in Prefixed : (\E i \in 1..(at'[c] - 1) : found[c][i].name = m)
                  <=> (\E i \in 1..(at[c] - 1) : found[c][i].name = m) \/ m = n
    BY <1>1, <1>3, <1>5
  <2>3. \A d \in Callers \ {c} : \A m : Handled(d, m)' <=> Handled(d, m)
    BY <1>2, <1>5 DEF Handled
  <2> SUFFICES ASSUME NEW d \in Callers
               PROVE  /\ \A m \in Prefixed :
                             Handled(d, m)' <=> \E i \in 1..(at'[d] - 1) : found'[d][i].name = m
                      /\ pc'[d] = "returned" => at'[d] = Len(found'[d]) + 1
                      /\ failed'[d] # {} => errs'[d] = TRUE
                      /\ pc'[d] = "idle" => /\ found'[d] = <<>> /\ at'[d] = 1
                                            /\ names'[d] = <<>> /\ failed'[d] = {}
    BY DEF Progress, Handled
  <2>4. CASE d = c
    <3>1. \A m \in Prefixed : Handled(c, m)' <=> \E i \in 1..(at'[c] - 1) : found'[c][i].name = m
      BY <1>2, <2>1, <2>2 DEF Inv, Progress
    <3> QED
      BY <1>2, <1>5, <2>4, <3>1
  <2>5. CASE d # c
    BY <1>2, <1>5, <2>3, <2>5 DEF Inv, Progress
  <2> QED
    BY <2>4, <2>5
<1> QED
  BY <1>6, <1>7, <1>8 DEF Inv

\* The steps that neither add to what a call has dealt with nor take from it,
\* apart from the call that begins anew.
LEMMA OthersKeepInv ==
    ASSUME TypeOK, TypeOK', Inv, NEW c \in Callers,
           \/ ReadList(c) \/ ReadListFails(c) \/ NextVM(c)
           \/ StopVM(c) \/ StopVMFails(c) \/ Again(c)
    PROVE  Inv'
<1>1. /\ remover' = remover
      /\ \A d \in Callers \ {c} : /\ at'[d] = at[d] /\ pc'[d] = pc[d] /\ failed'[d] = failed[d]
                                  /\ errs'[d] = errs[d] /\ found'[d] = found[d] /\ names'[d] = names[d]
  BY DEF ReadList, ReadListFails, NextVM, StopVM, StopVMFails, Again, TypeOK
<1>2. RemovedIsGone'
  <2>1. CASE vms' = vms
    BY <1>1, <2>1 DEF Inv, RemovedIsGone
  <2>2. CASE StopVM(c) \/ StopVMFails(c)
    <3>1. Current(c) \in Names
      BY <2>2, CurrentIsListed DEF StopVM, StopVMFails
    <3>2. \/ vms' = vms
          \/ vms[Current(c)].state = "running" /\ vms' = [vms EXCEPT ![Current(c)].state = "stopped"]
      BY <2>2 DEF StopVM, StopVMFails
    <3>3. \A m \in Names : vms'[m] = vms[m] \/ vms[m].state = "running"
      BY <3>1, <3>2 DEF TypeOK
    <3> QED
      BY <1>1, <3>3 DEF Inv, RemovedIsGone
  <2> QED
    BY <2>1, <2>2 DEF ReadList, ReadListFails, NextVM, Again
<1>3. names'[c] \in {names[c], <<>>}
  BY DEF ReadList, ReadListFails, NextVM, StopVM, StopVMFails, Again, TypeOK
<1>4. OwnNames'
  <2> SUFFICES ASSUME NEW d \in Callers
               PROVE  /\ \A i \in DOMAIN names'[d] : remover[names'[d][i]] = d
                      /\ \A i, j \in DOMAIN names'[d] : names'[d][i] = names'[d][j] => i = j
    BY <1>1 DEF OwnNames
  <2>1. CASE names'[d] = names[d]
    BY <2>1 DEF Inv, OwnNames
  <2>2. CASE names'[d] = <<>>
    BY <2>2
  <2> QED
    BY <1>1, <1>3, <2>1, <2>2
<1>5. Progress'
  <2> SUFFICES ASSUME NEW d \in Callers
               PROVE  /\ \A m \in Prefixed :
                             Handled(d, m)' <=> \E i \in 1..(at'[d] - 1) : found'[d][i].name = m
                      /\ pc'[d] = "returned" => at'[d] = Len(found'[d]) + 1
                      /\ failed'[d] # {} => errs'[d] = TRUE
                      /\ pc'[d] = "idle" => /\ found'[d] = <<>> /\ at'[d] = 1
                                            /\ names'[d] = <<>> /\ failed'[d] = {}
    BY DEF Progress, Handled
  <2>1. CASE d # c
    BY <1>1, <2>1 DEF Inv, Progress, Handled
  <2>2. CASE d = c /\ (ReadList(c) \/ ReadListFails(c) \/ Again(c))
    <3>1. at'[c] = 1 /\ names'[c] = <<>> /\ failed'[c] = {}
      BY <2>2 DEF ReadList, ReadListFails, Again, Inv, Progress, TypeOK
    <3>2. \A m : ~Handled(c, m)'
      BY <3>1 DEF Handled
    <3>3. ~ \E i \in 1..(at'[c] - 1) : TRUE
      BY <3>1
    <3>4. pc'[c] = "returned" => found'[c] = <<>>
      BY <2>2 DEF ReadList, ReadListFails, Again, Inv, Progress, TypeOK
    <3>5. pc'[c] = "idle" => found'[c] = <<>>
      BY <2>2 DEF ReadList, ReadListFails, Again, TypeOK
    <3>6. Len(<<>>) = 0
      OBVIOUS
    <3> QED
      BY <2>2, <3>1, <3>2, <3>3, <3>4, <3>5, <3>6
  <2>3. CASE d = c /\ (NextVM(c) \/ StopVM(c) \/ StopVMFails(c))
    <3>1. /\ at'[c] = at[c] /\ names'[c] = names[c] /\ failed'[c] = failed[c] /\ found'[c] = found[c]
          /\ pc'[c] # "idle" /\ (errs'[c] = errs[c] \/ errs'[c] = TRUE)
      BY <2>3 DEF NextVM, StopVM, StopVMFails, TypeOK
    <3>2. pc'[c] = "returned" => at[c] > Len(found[c])
      BY <2>3 DEF NextVM, StopVM, StopVMFails, TypeOK
    <3>3. Len(found[c]) \in Nat /\ at[c] \in Nat /\ at[c] <= Len(found[c]) + 1
      BY DEF TypeOK
    <3>4. \A m : Handled(c, m)' <=> Handled(c, m)
      BY <3>1 DEF Handled
    <3> QED
      BY <2>3, <3>1, <3>2, <3>3, <3>4 DEF Inv, Progress
  <2> QED
    BY <2>1, <2>2, <2>3
<1> QED
  BY <1>2, <1>4, <1>5 DEF Inv

\* The invariant, from which what Delete promises follows.
THEOREM Invariance == Spec => []Inv
<1>1. Init => Inv
  BY DEF Init, Inv, RemovedIsGone, OwnNames, Progress, Handled
<1>2. TypeOK /\ TypeOK' /\ Inv /\ [Next]_vars => Inv'
  <2> SUFFICES ASSUME TypeOK, TypeOK', Inv, [Next]_vars PROVE Inv'
    OBVIOUS
  <2>1. CASE Host
    BY <2>1, HostKeepsInv DEF Host
  <2>2. ASSUME NEW c \in Callers, Delete(c) PROVE Inv'
    BY <2>2, DeletingKeepsInv, FailingKeepsInv, OthersKeepInv DEF Delete
  <2>3. CASE UNCHANGED vars
    BY <2>3 DEF vars, call, Inv, RemovedIsGone, OwnNames, Progress, Handled
  <2> QED
    BY <2>1, <2>2, <2>3 DEF Next
<1> QED
  BY <1>1, <1>2, TypeCorrect, PTL DEF Spec

\* The list has each machine once, so none has been dealt with before its turn,
\* and none is dealt with in both ways.
Apart ==
    \A c \in Callers :
        /\ \A i, j \in DOMAIN found[c] : found[c][i].name = found[c][j].name => i = j
        /\ \A i \in DOMAIN names[c] : names[c][i] \notin failed[c]

LEMMA CurrentIsNew ==
    ASSUME TypeOK, Inv, Apart, NEW c \in Callers, pc[c] = "delete"
    PROVE  ~Handled(c, Current(c))
<1>1. at[c] \in 1..Len(found[c]) /\ Current(c) \in Prefixed
  BY CurrentIsListed
<1>2. found[c] \in Seq(Details)
  BY DEF TypeOK
<1>3. \A i \in 1..(at[c] - 1) : i \in DOMAIN found[c] /\ at[c] \in DOMAIN found[c] /\ i # at[c]
  BY <1>1, <1>2
<1>4. \A i \in 1..(at[c] - 1) : found[c][i].name # Current(c)
  BY <1>3 DEF Apart, Current
<1> QED
  BY <1>1, <1>4 DEF Inv, Progress

THEOREM ApartAlways == Spec => []Apart
<1>1. Init => Apart
  BY DEF Init, Apart
<1>2. TypeOK /\ Inv /\ Apart /\ [Next]_vars => Apart'
  <2> SUFFICES ASSUME TypeOK, Inv, Apart, [Next]_vars PROVE Apart'
    OBVIOUS
  <2>1. ASSUME NEW c \in Callers, ReadList(c) PROVE Apart'
    <3>1. PICK order \in Orders(Listed) :
              found' = [found EXCEPT ![c] =
                  [i \in DOMAIN order |-> [name |-> order[i], running |-> vms[order[i]].state = "running"]]]
      BY <2>1 DEF ReadList
    <3>2. \A i, j \in DOMAIN order : order[i] = order[j] => i = j
      BY DEF Orders, Injection, IsInjective
    <3>3. /\ DOMAIN found'[c] = DOMAIN order
          /\ \A i \in DOMAIN order : found'[c][i].name = order[i]
          /\ \A d \in Callers \ {c} : found'[d] = found[d]
      BY <3>1 DEF TypeOK
    <3>4. names' = names /\ failed' = failed
      BY <2>1 DEF ReadList
    <3> QED
      BY <3>2, <3>3, <3>4 DEF Apart
  <2>2. ASSUME NEW c \in Callers, DeleteVM(c) PROVE Apart'
    <3> DEFINE n == Current(c)
    <3>1. ~Handled(c, n) /\ names[c] \in Seq(Prefixed) /\ n \in Prefixed
      BY <2>2, CurrentIsNew, CurrentIsListed DEF DeleteVM, TypeOK
    <3>2. /\ names' = [names EXCEPT ![c] = Append(names[c], n)]
          /\ found' = found /\ failed' = failed
      BY <2>2 DEF DeleteVM
    <3> HIDE DEF n
    <3>3. /\ names'[c] = Append(names[c], n)
          /\ \A d \in Callers \ {c} : names'[d] = names[d]
      BY <3>2 DEF TypeOK
    <3>4. \A i \in DOMAIN names'[c] : names'[c][i] = n \/ \E j \in DOMAIN names[c] : names'[c][i] = names[c][j]
      BY <3>1, <3>3
    <3>5. n \notin failed[c]
      BY <3>1 DEF Handled
    <3>6. \A i \in DOMAIN names'[c] : names'[c][i] \notin failed[c]
      BY <3>4, <3>5 DEF Apart
    <3> QED
      BY <3>2, <3>3, <3>6 DEF Apart
  <2>3. ASSUME NEW c \in Callers, DeleteVMFails(c) PROVE Apart'
    <3> DEFINE n == Current(c)
    <3>1. ~Handled(c, n)
      BY <2>3, CurrentIsNew DEF DeleteVMFails
    <3>2. /\ failed' = [failed EXCEPT ![c] = failed[c] \cup {n}]
          /\ found' = found /\ names' = names
      BY <2>3 DEF DeleteVMFails
    <3> HIDE DEF n
    <3>3. \A d \in Callers : failed'[d] = failed[d] \/ (d = c /\ failed'[d] = failed[c] \cup {n})
      BY <3>2 DEF TypeOK
    <3> QED
      BY <3>1, <3>2, <3>3 DEF Apart, Handled
  <2>4. ASSUME NEW c \in Callers, Again(c) PROVE Apart'
    <3>1. found'[c] = <<>> /\ names'[c] = <<>> /\ failed'[c] = {}
      BY <2>4 DEF Again, TypeOK
    <3>2. \A d \in Callers \ {c} :
              found'[d] = found[d] /\ names'[d] = names[d] /\ failed'[d] = failed[d]
      BY <2>4 DEF Again, TypeOK
    <3>3. DOMAIN found'[c] = {} /\ DOMAIN names'[c] = {}
      BY <3>1
    <3> QED
      BY <3>2, <3>3 DEF Apart
  <2>5. ASSUME NEW c \in Callers,
               ReadListFails(c) \/ NextVM(c) \/ StopVM(c) \/ StopVMFails(c)
        PROVE  Apart'
    BY <2>5 DEF ReadListFails, NextVM, StopVM, StopVMFails, Apart
  <2>6. CASE Host \/ UNCHANGED vars
    <3>1. UNCHANGED <<found, names, failed>>
      BY <2>6 DEF Host, New, Pull, Changes, RemovedByOther, call, vars
    <3> QED
      BY <3>1 DEF Apart
  <2> QED
    BY <2>1, <2>2, <2>3, <2>4, <2>5, <2>6 DEF Next, Delete
<1> QED
  BY <1>1, <1>2, TypeCorrect, Invariance, PTL DEF Spec

\* The names that Delete returns are exactly those of the machines that its own
\* commands have deleted and said so, each once, whoever else deletes machines.
THEOREM NamesAreExactAlways == Spec => []NamesAreExact
<1>1. TypeOK /\ Inv /\ Apart => NamesAreExact
  <2> SUFFICES ASSUME TypeOK, Inv, Apart, NEW c \in Callers
               PROVE  {names[c][i] : i \in DOMAIN names[c]}
                          = {n \in Tried(c) : remover[n] = c} \ failed[c]
    BY DEF NamesAreExact, Inv, OwnNames
  <2>1. Tried(c) \subseteq Prefixed
    <3>1. found[c] \in Seq(Details) /\ at[c] \in Nat /\ at[c] - 1 <= Len(found[c])
      <4>1. found[c] \in Seq(Details) /\ at[c] \in Nat
        BY DEF TypeOK
      <4>2. at[c] <= Len(found[c]) \/ at[c] <= Len(found[c]) + 1
        BY <4>1 DEF TypeOK
      <4> QED
        BY <4>1, <4>2
    <3>2. \A i \in 1..(at[c] - 1) : found[c][i] \in Details
      BY <3>1
    <3> QED
      BY <3>2 DEF Tried, Details
  <2>2. \A n \in Prefixed : n \in Tried(c) <=> Handled(c, n)
    BY DEF Tried, Inv, Progress
  <2>3. \A i \in DOMAIN names[c] :
            names[c][i] \in Prefixed /\ remover[names[c][i]] = c /\ names[c][i] \notin failed[c]
    BY DEF TypeOK, Inv, OwnNames, Apart
  <2> QED
    BY <2>1, <2>2, <2>3 DEF Handled
<1> QED
  BY <1>1, TypeCorrect, Invariance, ApartAlways, PTL

\* When Delete returns, each machine of its list is among the names, or its
\* deletion has failed: a failure stops it from trying no other.
THEOREM EveryoneIsTriedAlways == Spec => []EveryoneIsTried
<1>1. TypeOK /\ Inv => EveryoneIsTried
  <2> SUFFICES ASSUME TypeOK, Inv, NEW c \in Callers, pc[c] = "returned"
               PROVE  {found[c][i].name : i \in DOMAIN found[c]}
                          = {names[c][i] : i \in DOMAIN names[c]} \cup failed[c]
    BY DEF EveryoneIsTried
  <2>1. DOMAIN found[c] = 1..(at[c] - 1)
    BY DEF TypeOK, Inv, Progress
  <2>2. \A i \in DOMAIN found[c] : found[c][i].name \in Prefixed
    <3>1. \A i \in DOMAIN found[c] : found[c][i] \in Details
      BY DEF TypeOK
    <3> QED
      BY <3>1 DEF Details
  <2>3. \A i \in DOMAIN names[c] : names[c][i] \in Prefixed
    BY DEF TypeOK
  <2>4. failed[c] \subseteq Prefixed
    BY DEF TypeOK
  <2>5. \A n \in Prefixed : Handled(c, n) <=> \E i \in DOMAIN found[c] : found[c][i].name = n
    BY <2>1 DEF Inv, Progress
  <2> QED
    BY <2>2, <2>3, <2>4, <2>5 DEF Handled
<1> QED
  BY <1>1, TypeCorrect, Invariance, PTL

\* Delete returns no error only if all that it has listed is gone.
THEOREM NilMeansGoneAlways == Spec => []NilMeansGone
<1>1. TypeOK /\ Inv => NilMeansGone
  <2> SUFFICES ASSUME TypeOK, Inv, NEW c \in Callers, pc[c] = "returned", ~errs[c],
                      NEW i \in DOMAIN found[c]
               PROVE  ~There(found[c][i].name)
    BY DEF NilMeansGone
  <2> DEFINE n == found[c][i].name
  <2>1. i \in 1..(at[c] - 1)
    BY DEF TypeOK, Inv, Progress
  <2>2. n \in Prefixed
    <3>1. found[c][i] \in Details
      BY DEF TypeOK
    <3> QED
      BY <3>1 DEF Details
  <2>3. Handled(c, n)
    BY <2>1, <2>2 DEF Inv, Progress
  <2>4. failed[c] = {}
    BY DEF Inv, Progress
  <2>5. remover[n] = c
    BY <2>3, <2>4 DEF Handled, Inv, OwnNames
  <2>6. remover[n] # "nobody"
    BY <2>5, CallersAssumption
  <2> QED
    BY <2>2, <2>6, NamesAssumption DEF Inv, RemovedIsGone, There
<1> QED
  BY <1>1, TypeCorrect, Invariance, PTL
=============================================================================
