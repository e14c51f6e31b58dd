---------------------------- MODULE SecretsProofs ----------------------------
(* Safety of Secrets, for any owners, keys, commands and containers.       *)
EXTENDS Secrets, TLAPS

(* The item and the commands that change it.                               *)

CommandType ==
    /\ item \in Contents \cup {NoItem}
    /\ pc \in [Commands -> {"idle", "read", "write", "nil", "error"}]
    /\ seen \in [Commands -> Contents]
    /\ DOMAIN req = Commands /\ DOMAIN late = Commands
    /\ \A c \in Commands : pc[c] # "idle" => req[c] \in Requests

\* What a command is about to write has the keys as they have been set, but for
\* those set since it has read the item.
SeenIsLate ==
    \A c \in Commands : pc[c] = "write" =>
        \A k \in DOMAIN acked \ late[c] : k \in DOMAIN seen[c] /\ seen[c][k] = acked[k]

CommandInv == CommandType /\ AcknowledgedStay /\ SeenIsLate

\* A command changes its own key and no other.
LEMMA OneKeyChanges ==
    ASSUME NEW r \in Requests, NEW contents \in Contents
    PROVE  /\ Changed(r, contents) \in Contents
           /\ \A k \in DOMAIN contents : k # r.key =>
                  k \in DOMAIN Changed(r, contents) /\ Changed(r, contents)[k] = contents[k]
           /\ r.op = "set" =>
                  r.key \in DOMAIN Changed(r, contents) /\ Changed(r, contents)[r.key] = r.token
<1>1. PICK K \in SUBSET Keys : contents \in [K -> Tokens]
  BY DEF Contents
<1>2. CASE r.op = "delete"
  <2>1. Changed(r, contents) = [k \in K \ {r.key} |-> contents[k]]
    BY <1>1, <1>2 DEF Changed, Restrict
  <2>2. Changed(r, contents) \in [K \ {r.key} -> Tokens]
    BY <1>1, <2>1
  <2> QED
    BY <1>1, <1>2, <2>1, <2>2 DEF Contents
<1>3. CASE r.op = "set"
  <2>1. r.key \in Keys /\ r.token \in Tokens
    BY <1>3 DEF Requests
  <2>2. Changed(r, contents) =
            [k \in K \cup {r.key} |-> IF k = r.key THEN r.token ELSE contents[k]]
    BY <1>1, <1>3 DEF Changed
  <2>3. Changed(r, contents) \in [K \cup {r.key} -> Tokens]
    BY <1>1, <2>1, <2>2
  <2> QED
    BY <1>1, <2>1, <2>2, <2>3 DEF Contents
<1> QED
  BY <1>2, <1>3 DEF Requests

LEMMA EmptyIsContents == Empty \in Contents
<1>1. Empty \in [{} -> Tokens]
  BY DEF Empty
<1> QED
  BY <1>1 DEF Contents

\* A write keeps what was set before its command read the item.  If it is not
\* in place it is the first of the item, of which nothing is then known.
LEMMA WriteKeeps ==
    ASSUME CommandInv, NEW c \in Commands, pc[c] = "write",
           item = NoItem \/ req[c].update, NEW ok \in BOOLEAN, Writes(c, ok),
           \E end \in {"nil", "error"} : GoesTo(c, end), UNCHANGED <<req, seen>>
    PROVE  CommandInv'
<1> DEFINE set == IF ok /\ req[c].op = "set" THEN {req[c].key} ELSE {}
<1> DEFINE kept == DOMAIN acked \ (IF req[c].update THEN late[c] ELSE {})
<1>1. req[c] \in Requests /\ seen[c] \in Contents
  BY DEF CommandInv, CommandType
<1>2. /\ item' = Changed(req[c], seen[c])
      /\ DOMAIN acked' = (kept \ {req[c].key}) \cup set
      /\ \A k \in DOMAIN acked' : acked'[k] = IF k \in set THEN req[c].token ELSE acked[k]
      /\ late' = [d \in Commands |->
                     IF d # c /\ pc[d] = "write" THEN late[d] \cup set ELSE {}]
  BY DEF Writes, Acknowledges
<1>3. item' \in Contents
  BY <1>1, <1>2, OneKeyChanges
<1>4. \A k \in kept : k \in DOMAIN seen[c] /\ seen[c][k] = acked[k]
  BY DEF CommandInv, AcknowledgedStay, SeenIsLate
<1>5. AcknowledgedStay'
  <2> SUFFICES ASSUME NEW k \in DOMAIN acked'
               PROVE  item' # NoItem /\ k \in DOMAIN item' /\ item'[k] = acked'[k]
    BY DEF AcknowledgedStay
  <2>1. item' # NoItem
    BY <1>3, NoItemIsNone
  <2>2. CASE k \in set
    BY <1>1, <1>2, <2>1, <2>2, OneKeyChanges
  <2>3. CASE k \notin set
    <3>1. k \in kept /\ k # req[c].key /\ acked'[k] = acked[k]
      BY <1>2, <2>3
    <3> QED
      BY <1>1, <1>2, <1>4, <2>1, <3>1, OneKeyChanges
  <2> QED
    BY <2>2, <2>3
<1>6. CommandType'
  BY <1>2, <1>3 DEF CommandInv, CommandType, GoesTo
<1>7. SeenIsLate'
  <2> SUFFICES ASSUME NEW d \in Commands, pc'[d] = "write", NEW k \in DOMAIN acked' \ late'[d]
               PROVE  k \in DOMAIN seen'[d] /\ seen'[d][k] = acked'[k]
    BY DEF SeenIsLate
  <2>1. d # c /\ pc[d] = "write"
    BY DEF CommandInv, CommandType, GoesTo
  <2>2. k \notin set /\ k \in DOMAIN acked \ late[d] /\ acked'[k] = acked[k]
    BY <1>2, <2>1
  <2> QED
    BY <2>1, <2>2 DEF CommandInv, SeenIsLate
<1> QED
  BY <1>5, <1>6, <1>7 DEF CommandInv

THEOREM CommandInvariance == Spec => []CommandInv
<1>1. Init => CommandInv
  <2> SUFFICES ASSUME Init PROVE CommandInv
    OBVIOUS
  <2>1. CommandType
    BY EmptyIsContents DEF Init, CommandType
  <2>2. AcknowledgedStay /\ SeenIsLate
    BY DEF Init, AcknowledgedStay, SeenIsLate, Empty
  <2> QED
    BY <2>1, <2>2 DEF CommandInv
<1>2. CommandInv /\ [Next]_vars => CommandInv'
  <2> SUFFICES ASSUME CommandInv, [Next]_vars PROVE CommandInv'
    OBVIOUS
  <2>1. ASSUME NEW c \in Commands, Start(c) PROVE CommandInv'
    BY <2>1 DEF CommandInv, CommandType, AcknowledgedStay, SeenIsLate, Start, GoesTo, historyVars
  <2>2. ASSUME NEW c \in Commands, ReadItem(c) PROVE CommandInv'
    <3>1. /\ UNCHANGED <<item, req, acked, late>>
          /\ Found \in Contents /\ seen' = [seen EXCEPT ![c] = Found]
          /\ \E where \in {"write", "error"} : GoesTo(c, where)
          /\ pc[c] = "read"
      <4>1. Found \in Contents
        BY EmptyIsContents DEF CommandInv, CommandType, Found
      <4> QED
        BY <2>2, <4>1 DEF ReadItem, historyVars
    <3>2. \A k \in DOMAIN acked : k \in DOMAIN Found /\ Found[k] = acked[k]
      BY DEF CommandInv, AcknowledgedStay, Found
    <3>3. CommandType' /\ AcknowledgedStay'
      BY <3>1 DEF CommandInv, CommandType, AcknowledgedStay, GoesTo
    <3>4. SeenIsLate'
      BY <3>1, <3>2 DEF CommandInv, CommandType, SeenIsLate, GoesTo
    <3> QED
      BY <3>3, <3>4 DEF CommandInv
  <2>3. ASSUME NEW c \in Commands, pc[c] \in {"read", "write"}, GoesTo(c, "error"),
               UNCHANGED <<item, req, seen, historyVars>>
        PROVE  CommandInv'
    <3>1. CommandType'
      BY <2>3 DEF CommandInv, CommandType, GoesTo, historyVars
    <3>2. AcknowledgedStay'
      BY <2>3 DEF CommandInv, AcknowledgedStay, historyVars
    <3>3. SeenIsLate'
      BY <2>3 DEF CommandInv, CommandType, SeenIsLate, GoesTo, historyVars
    <3> QED
      BY <2>3, <3>1, <3>2, <3>3 DEF CommandInv
  <2>4. ASSUME NEW c \in Commands, WriteItem(c) PROVE CommandInv'
    BY <2>3, <2>4, WriteKeeps DEF WriteItem
  <2>5. ASSUME NEW c \in Commands, CommandFails(c) PROVE CommandInv'
    BY <2>3, <2>5, WriteKeeps DEF CommandFails
  <2>6. ASSUME DeleteItem PROVE CommandInv'
    BY <2>6 DEF CommandInv, CommandType, AcknowledgedStay, SeenIsLate, DeleteItem, Empty
  <2>7. ASSUME UNCHANGED <<item, commandVars>> PROVE CommandInv'
    BY <2>7 DEF CommandInv, CommandType, AcknowledgedStay, SeenIsLate, commandVars, historyVars
  <2>8. ASSUME NEW r \in Runs, Run(r) PROVE UNCHANGED <<item, commandVars>>
    BY <2>8 DEF Run, ReadKeys, WriteProfile, RunDocker, RunDockerFails, DockerEnds,
       RemoveProfile, Interrupt, ReadMessage, WriteKey, WriteKeyFails, Exec
  <2> QED
    BY <2>1, <2>2, <2>4, <2>5, <2>6, <2>7, <2>8 DEF Next, Command, vars
<1> QED
  BY <1>1, <1>2, PTL DEF Spec

\* What a command has said it set is there until a command that had read the item
\* before replaces it in place, or the key or the item is changed or deleted, for
\* any number of commands that overlap and fail.
THEOREM AcknowledgedStayAlways == Spec => []AcknowledgedStay
<1>1. CommandInv => AcknowledgedStay
  BY DEF CommandInv
<1> QED
  BY <1>1, CommandInvariance, PTL

-----------------------------------------------------------------------------
(* A run, its container and its profile.                                   *)

\* Where the message comes from is over when the container is started, which
\* is started once.
Order(r) ==
    /\ host[r] \in {"idle", "profile", "docker"} => entry[r] = "none"
    /\ entry[r] \in {"none", "message"} => DOMAIN ring[r] = {}

\* What has been written of the message so far.
Written(r) == DOMAIN message[r] \ left[r]

\* The keyring holds the names of the keys written, each with the value of
\* one of those that have it.
Filled(r) ==
    /\ entry[r] \in {"keys", "running"} =>
           /\ left[r] \subseteq DOMAIN message[r]
           /\ DOMAIN ring[r] = {k.id : k \in Written(r)}
           /\ \A i \in DOMAIN ring[r] :
                  \E k \in Written(r) : k.id = i /\ ring[r][i] = message[r][k]
    /\ entry[r] = "running" => left[r] = {}

\* The profile is there as long as docker may read it.
ProfileAt(r) ==
    /\ host[r] \in {"idle", "profile"} => profile[r] = "none"
    /\ host[r] \in {"docker", "wait"} => profile[r] = "complete"
    /\ host[r] = "returned" /\ profile[r] = "complete" => warned[r]

RunType ==
    /\ DOMAIN host = Runs /\ DOMAIN message = Runs /\ DOMAIN profile = Runs /\ DOMAIN warned = Runs
    /\ DOMAIN entry = Runs /\ DOMAIN left = Runs /\ DOMAIN ring = Runs

IInv == RunType /\ \A r \in Runs : Order(r) /\ Filled(r) /\ ProfileAt(r)

\* Runs and their containers have nothing in common.
LEMMA OthersStay ==
    ASSUME IInv, NEW r \in Runs, Run(r)
    PROVE  /\ RunType'
           /\ \A s \in Runs \ {r} : Order(s)' /\ Filled(s)' /\ ProfileAt(s)'
<1>1. /\ RunType'
      /\ \A s \in Runs \ {r} : /\ host'[s] = host[s] /\ message'[s] = message[s]
                               /\ profile'[s] = profile[s] /\ warned'[s] = warned[s]
                               /\ entry'[s] = entry[s] /\ left'[s] = left[s] /\ ring'[s] = ring[s]
  BY DEF IInv, RunType, Run, ReadKeys, WriteProfile, RunDocker, RunDockerFails, DockerEnds,
     RemoveProfile, Interrupt, ReadMessage, WriteKey, WriteKeyFails, Exec, IsAt, MovesTo,
     ReachesEntry
<1> QED
  BY <1>1 DEF IInv, Order, Filled, Written, ProfileAt

\* The host: it neither fills a keyring nor changes a message that is sent.
LEMMA HostSteps ==
    ASSUME IInv, NEW r \in Runs,
           \/ ReadKeys(r) \/ WriteProfile(r) \/ RunDocker(r) \/ RunDockerFails(r)
           \/ DockerEnds(r) \/ RemoveProfile(r) \/ Interrupt(r)
    PROVE  Order(r)' /\ Filled(r)' /\ ProfileAt(r)'
<1>1. Order(r)' /\ ProfileAt(r)'
  BY DEF IInv, RunType, Order, ProfileAt, ReadKeys, WriteProfile, RunDocker, RunDockerFails,
     DockerEnds, RemoveProfile, Interrupt, IsAt, MovesTo, ReachesEntry
<1>2. Filled(r)'
  <2>1. /\ left' = left /\ ring' = ring
        /\ entry[r] = "none" \/ message'[r] = message[r]
        /\ entry'[r] = entry[r] \/ entry'[r] \in {"message", "failed"}
    BY DEF IInv, RunType, Order, ReadKeys, WriteProfile, RunDocker, RunDockerFails,
       DockerEnds, RemoveProfile, Interrupt, IsAt, MovesTo, ReachesEntry
  <2> QED
    BY <2>1 DEF IInv, Filled, Written
<1> QED
  BY <1>1, <1>2

\* One key more is in the keyring.
LEMMA KeyWritten ==
    ASSUME IInv, NEW r \in Runs, WriteKey(r)
    PROVE  Filled(r)'
<1>1. PICK k \in left[r] :
        /\ left' = [left EXCEPT ![r] = @ \ {k}]
        /\ ring' = [ring EXCEPT ![r] =
               [i \in DOMAIN @ \cup {k.id} |-> IF i = k.id THEN message[r][k] ELSE @[i]]]
        /\ message' = message /\ entry' = entry /\ entry[r] = "keys"
  BY DEF WriteKey
<1>2. /\ left[r] \subseteq DOMAIN message[r]
      /\ DOMAIN ring[r] = {l.id : l \in Written(r)}
      /\ \A i \in DOMAIN ring[r] :
             \E l \in Written(r) : l.id = i /\ ring[r][i] = message[r][l]
  BY <1>1 DEF IInv, Filled
<1>3. /\ left'[r] = left[r] \ {k}
      /\ DOMAIN ring'[r] = DOMAIN ring[r] \cup {k.id}
      /\ \A i \in DOMAIN ring'[r] :
             ring'[r][i] = IF i = k.id THEN message[r][k] ELSE ring[r][i]
  BY <1>1 DEF IInv, RunType
<1>4. Written(r)' = Written(r) \cup {k}
  BY <1>1, <1>2, <1>3 DEF Written
<1>5. left'[r] \subseteq DOMAIN message'[r]
  BY <1>1, <1>2, <1>3
<1>6. DOMAIN ring'[r] = {l.id : l \in Written(r)'}
  BY <1>2, <1>3, <1>4
<1>7. ASSUME NEW i \in DOMAIN ring'[r]
      PROVE  \E l \in Written(r)' : l.id = i /\ ring'[r][i] = message'[r][l]
  BY <1>1, <1>2, <1>3, <1>4
<1> QED
  BY <1>1, <1>5, <1>6, <1>7 DEF Filled

\* The container: it touches neither the host nor its profile.
LEMMA ContainerSteps ==
    ASSUME IInv, NEW r \in Runs,
           ReadMessage(r) \/ WriteKey(r) \/ WriteKeyFails(r) \/ Exec(r)
    PROVE  Order(r)' /\ Filled(r)' /\ ProfileAt(r)'
<1>1. /\ host' = host /\ profile' = profile /\ warned' = warned /\ message' = message
      /\ entry[r] \in {"message", "keys"}
      /\ entry'[r] \in {"keys", "failed", "running"}
  BY DEF IInv, RunType, ReadMessage, WriteKey, WriteKeyFails, Exec, ReachesEntry
<1>2. Order(r)' /\ ProfileAt(r)'
  BY <1>1 DEF IInv, Order, ProfileAt
<1>3. ASSUME ReadMessage(r) PROVE Filled(r)'
  <2>1. CASE entry'[r] = "keys"
    <3>1. left'[r] = DOMAIN message[r] /\ DOMAIN ring'[r] = {}
      BY <1>3, <2>1 DEF IInv, RunType, Order, ReadMessage, ReachesEntry
    <3>2. Written(r)' = {}
      BY <1>1, <3>1 DEF Written
    <3> QED
      BY <1>1, <2>1, <3>1, <3>2 DEF Filled
  <2>2. CASE entry'[r] = "failed"
    BY <2>2 DEF Filled
  <2> QED
    BY <1>3, <2>1, <2>2 DEF IInv, RunType, ReadMessage, ReachesEntry
<1>4. ASSUME WriteKeyFails(r) PROVE Filled(r)'
  BY <1>4 DEF IInv, RunType, WriteKeyFails, ReachesEntry, Filled
<1>5. ASSUME Exec(r) PROVE Filled(r)'
  <2>1. /\ entry[r] = "keys" /\ left[r] = {} /\ left' = left /\ ring' = ring
        /\ entry'[r] \in {"running", "failed"}
    BY <1>5 DEF IInv, RunType, Exec, ReachesEntry
  <2> QED
    BY <1>1, <2>1 DEF IInv, Filled, Written
<1> QED
  BY <1>2, <1>3, <1>4, <1>5, KeyWritten

\* The inductive invariant: how much of the message is in the keyring is known
\* at each step, and the profile follows the host.
THEOREM Invariance == Spec => []IInv
<1>1. Init => IInv
  BY DEF Init, IInv, RunType, Order, Filled, ProfileAt, Empty
<1>2. IInv /\ [Next]_vars => IInv'
  <2> SUFFICES ASSUME IInv, [Next]_vars PROVE IInv'
    OBVIOUS
  <2>1. ASSUME NEW r \in Runs, Run(r) PROVE IInv'
    <3>1. Order(r)' /\ Filled(r)' /\ ProfileAt(r)'
      BY <2>1, HostSteps, ContainerSteps DEF Run
    <3> QED
      BY <2>1, <3>1, OthersStay DEF IInv
  <2>2. ASSUME UNCHANGED runVars PROVE IInv'
    BY <2>2 DEF runVars, IInv, RunType, Order, Filled, Written, ProfileAt
  <2>3. ASSUME NEW c \in Commands, Command(c) PROVE UNCHANGED runVars
    BY <2>3 DEF Command, Start, ReadItem, WriteItem, CommandFails
  <2> QED
    BY <2>1, <2>2, <2>3 DEF Next, DeleteItem, vars
<1> QED
  BY <1>1, <1>2, PTL DEF Spec

\* A program runs only with all the keys that docker-entrypoint has read at one
\* time, however many commands change the item and however many keys there are.
THEOREM AllKeysOrNoneAlways == Spec => []AllKeysOrNone
<1>1. IInv => AllKeysOrNone
  BY DEF IInv, Filled, Written, AllKeysOrNone
<1> QED
  BY <1>1, Invariance, PTL

\* The profile outlives docker's reading of it, and not the run, unless it could
\* not be removed and that has been printed.
THEOREM ProfileIsRemovedAlways == Spec => []ProfileIsRemoved
<1>1. IInv => ProfileIsRemoved
  BY DEF IInv, ProfileAt, ProfileIsRemoved
<1> QED
  BY <1>1, Invariance, PTL
=============================================================================
