------------------------------- MODULE Secrets -------------------------------
(***************************************************************************)
(* The keys of one keychain item, from the key-info commands of             *)
(* cloudeng-keychain, which read the item, change one key and write it       *)
(* back, to the programs that docker-entrypoint starts in containers with    *)
(* these keys in their session keyring.                                     *)
(* The item is read and written as a whole, as Notes has it; the keychain    *)
(* refuses to write an item that exists unless it is to be updated in place. *)
(***************************************************************************)
EXTENDS Naturals, FiniteSets, Functions

CONSTANTS
    Owners,     \* the users that keys belong to
    Ids,        \* of keys
    Tokens,     \* their values
    Commands,   \* processes of cloudeng-keychain key-info
    Runs,       \* processes of docker-entrypoint run, and their containers
    NoItem      \* in place of the contents of the item

Keys == [owner : Owners, id : Ids]
Contents == UNION {[K -> Tokens] : K \in SUBSET Keys}
Empty == [k \in {} |-> k]

ASSUME NoItemIsNone == NoItem \notin Contents

VARIABLES
    item,       \* the contents of the keychain item, or NoItem
    req,        \* what each command is to do
    pc,         \* where it is: "idle", "read", "write", "nil" or "error"
    seen,       \* what it has read
    acked,      \* history: the values of the keys that commands said they set
    late,       \* history: the keys set so since each command read the item
    host,       \* where each docker-entrypoint run is
    message,    \* the keys that it has read, and sends
    profile,    \* its temporary file: "none", "partial", "complete"
    warned,     \* whether it has printed that the file could not be removed
    entry,      \* where the entrypoint in its container is
    left,       \* the keys not yet in the keyring
    ring        \* the session keyring of the container

historyVars == <<acked, late>>
commandVars == <<req, pc, seen, historyVars>>
runVars == <<host, message, profile, warned, entry, left, ring>>
vars == <<item, commandVars, runVars>>

Requests ==
    [op : {"set"}, key : Keys, token : Tokens, update : BOOLEAN]
        \cup [op : {"delete"}, key : Keys, update : BOOLEAN]

Init ==
    /\ item = NoItem
    /\ req = [c \in Commands |-> CHOOSE r \in Requests : TRUE]
    /\ pc = [c \in Commands |-> "idle"] /\ seen = [c \in Commands |-> Empty]
    /\ acked = Empty /\ late = [c \in Commands |-> {}]
    /\ host = [r \in Runs |-> "idle"] /\ message = [r \in Runs |-> Empty]
    /\ profile = [r \in Runs |-> "none"] /\ warned = [r \in Runs |-> FALSE]
    /\ entry = [r \in Runs |-> "none"] /\ left = [r \in Runs |-> {}]
    /\ ring = [r \in Runs |-> Empty]
-----------------------------------------------------------------------------
(* cloudeng-keychain key-info set, delete.                                 *)

GoesTo(c, where) == pc' = [pc EXCEPT ![c] = where]

Start(c) ==
    /\ pc[c] = "idle" /\ GoesTo(c, "read")
    /\ \E r \in Requests : req' = [req EXCEPT ![c] = r]
    /\ UNCHANGED <<item, seen, historyVars, runVars>>

\* A key that is there is set only if --keychain-update-in-place is, and only
\* one that is there can be deleted.
Allowed(r, contents) ==
    IF r.op = "set" THEN r.key \in DOMAIN contents => r.update
    ELSE r.key \in DOMAIN contents

Found == IF item = NoItem THEN Empty ELSE item

ReadItem(c) ==
    /\ pc[c] = "read"
    /\ seen' = [seen EXCEPT ![c] = Found]
    /\ GoesTo(c, IF Allowed(req[c], Found) THEN "write" ELSE "error")
    /\ UNCHANGED <<item, req, historyVars, runVars>>

Changed(r, contents) ==
    IF r.op = "delete" THEN Restrict(contents, DOMAIN contents \ {r.key})
    ELSE [k \in DOMAIN contents \cup {r.key} |-> IF k = r.key THEN r.token ELSE contents[k]]

\* History: c, which has changed the item, says so, or says that it has failed.
\* An update in place may take with it what was set since c read the item.
Acknowledges(c, ok) ==
    LET kept == DOMAIN acked \ (IF req[c].update THEN late[c] ELSE {})
        set == IF ok /\ req[c].op = "set" THEN {req[c].key} ELSE {}
    IN  /\ acked' = [k \in (kept \ {req[c].key}) \cup set |->
                        IF k \in set THEN req[c].token ELSE acked[k]]
        /\ late' = [d \in Commands |->
                        IF d # c /\ pc[d] = "write" THEN late[d] \cup set ELSE {}]

Writes(c, ok) == item' = Changed(req[c], seen[c]) /\ Acknowledges(c, ok)

\* Mutant: that the item is not there is known from having read it.
WriteItemSeen(c) ==
    /\ pc[c] = "write"
    /\ IF seen[c] = Empty \/ req[c].update
       THEN Writes(c, TRUE) /\ GoesTo(c, "nil")
       ELSE GoesTo(c, "error") /\ UNCHANGED <<item, historyVars>>
    /\ UNCHANGED <<req, seen, runVars>>

\* The keychain adds an item that is not there; one that is, which is known
\* only now, it replaces in place or refuses.
WriteItem(c) ==
    /\ pc[c] = "write"
    /\ IF item = NoItem \/ req[c].update
       THEN Writes(c, TRUE) /\ GoesTo(c, "nil")
       ELSE GoesTo(c, "error") /\ UNCHANGED <<item, historyVars>>
    /\ UNCHANGED <<req, seen, runVars>>

\* The keychain, or its plugin, fails, before or after it has written.
CommandFails(c) ==
    /\ pc[c] \in {"read", "write"} /\ GoesTo(c, "error")
    /\ \/ UNCHANGED <<item, historyVars>>
       \/ pc[c] = "write" /\ (item = NoItem \/ req[c].update) /\ Writes(c, FALSE)
    /\ UNCHANGED <<req, seen, runVars>>

Command(c) == Start(c) \/ ReadItem(c) \/ WriteItem(c) \/ CommandFails(c)

\* The item is deleted as a whole, by the plugin's delete or by a person.
DeleteItem ==
    /\ item # NoItem /\ item' = NoItem
    /\ acked' = Empty
    /\ UNCHANGED <<req, pc, seen, late, runVars>>
-----------------------------------------------------------------------------
(* docker-entrypoint run, on the host.                                     *)

IsAt(r, where) == host[r] = where
MovesTo(r, where) == host' = [host EXCEPT ![r] = where]

\* Without --keychain-item the store is empty.
ReadKeys(r) ==
    /\ IsAt(r, "idle")
    /\ \/ /\ item # NoItem /\ message' = [message EXCEPT ![r] = item] /\ MovesTo(r, "profile")
       \/ UNCHANGED message /\ MovesTo(r, "profile")
       \/ UNCHANGED message /\ MovesTo(r, "returned")
    /\ UNCHANGED <<item, commandVars, profile, warned, entry, left, ring>>

WriteProfile(r) ==
    /\ IsAt(r, "profile")
    /\ \/ profile' = [profile EXCEPT ![r] = "complete"] /\ MovesTo(r, "docker")
       \/ \E p \in {"none", "partial"} :
            profile' = [profile EXCEPT ![r] = p] /\ MovesTo(r, "returned")
    /\ UNCHANGED <<item, commandVars, message, warned, entry, left, ring>>

\* docker reads the profile and starts the container, or fails.
RunDocker(r) ==
    /\ IsAt(r, "docker") /\ MovesTo(r, "wait")
    /\ entry' = [entry EXCEPT ![r] = IF profile[r] = "complete" THEN "message" ELSE "failed"]
    /\ UNCHANGED <<item, commandVars, message, profile, warned, left, ring>>

RunDockerFails(r) ==
    /\ IsAt(r, "docker") /\ MovesTo(r, "remove")
    /\ UNCHANGED <<item, commandVars, message, profile, warned, entry, left, ring>>

\* docker run ends with the container, or is killed with the context and the
\* container goes on.
DockerEnds(r) ==
    /\ IsAt(r, "wait") /\ MovesTo(r, "remove")
    /\ UNCHANGED <<item, commandVars, message, profile, warned, entry, left, ring>>

\* Mutant: the profile is removed only if docker has succeeded.
RemoveProfileOnSuccess(r) ==
    /\ IsAt(r, "remove") /\ MovesTo(r, "returned")
    /\ \/ /\ profile' = [profile EXCEPT ![r] = IF entry[r] = "running" THEN "none" ELSE @]
          /\ UNCHANGED warned
       \/ warned' = [warned EXCEPT ![r] = TRUE] /\ UNCHANGED profile
    /\ UNCHANGED <<item, commandVars, message, entry, left, ring>>

\* That the file cannot be removed is printed, and run returns what it would.
RemoveProfile(r) ==
    /\ IsAt(r, "remove") /\ MovesTo(r, "returned")
    /\ \/ profile' = [profile EXCEPT ![r] = "none"] /\ UNCHANGED warned
       \/ warned' = [warned EXCEPT ![r] = TRUE] /\ UNCHANGED profile
    /\ UNCHANGED <<item, commandVars, message, entry, left, ring>>

\* An interrupt is not caught: nothing deferred runs.
Interrupt(r) ==
    /\ host[r] \notin {"idle", "returned", "killed"} /\ MovesTo(r, "killed")
    /\ UNCHANGED <<item, commandVars, message, profile, warned, entry, left, ring>>
-----------------------------------------------------------------------------
(* docker-entrypoint entrypoint, in the container.                         *)

ReachesEntry(r, where) == entry' = [entry EXCEPT ![r] = where]

\* readIMS: the message may be cut short.
ReadMessage(r) ==
    /\ entry[r] = "message"
    /\ \/ ReachesEntry(r, "keys") /\ left' = [left EXCEPT ![r] = DOMAIN message[r]]
       \/ ReachesEntry(r, "failed") /\ UNCHANGED left
    /\ UNCHANGED <<item, commandVars, host, message, profile, warned, ring>>

\* The keyring has names, not owners: a key that has the name of one before
\* it takes its place.
WriteKey(r) ==
    /\ entry[r] = "keys"
    /\ \E k \in left[r] :
         /\ left' = [left EXCEPT ![r] = @ \ {k}]
         /\ ring' = [ring EXCEPT ![r] =
                [i \in DOMAIN @ \cup {k.id} |-> IF i = k.id THEN message[r][k] ELSE @[i]]]
    /\ UNCHANGED <<item, commandVars, host, message, profile, warned, entry>>

\* Mutant: a key that cannot be written is left out.
WriteKeyFailsSkips(r) ==
    /\ entry[r] = "keys"
    /\ \E k \in left[r] : left' = [left EXCEPT ![r] = @ \ {k}]
    /\ UNCHANGED <<item, commandVars, host, message, profile, warned, entry, ring>>

WriteKeyFails(r) ==
    /\ entry[r] = "keys" /\ left[r] # {} /\ ReachesEntry(r, "failed")
    /\ UNCHANGED <<item, commandVars, host, message, profile, warned, left, ring>>

\* LookPath and Exec.
Exec(r) ==
    /\ entry[r] = "keys" /\ left[r] = {}
    /\ \E end \in {"running", "failed"} : ReachesEntry(r, end)
    /\ UNCHANGED <<item, commandVars, host, message, profile, warned, left, ring>>

Run(r) ==
    \/ ReadKeys(r) \/ WriteProfile(r) \/ RunDocker(r) \/ RunDockerFails(r) \/ DockerEnds(r)
    \/ RemoveProfile(r) \/ Interrupt(r)
    \/ ReadMessage(r) \/ WriteKey(r) \/ WriteKeyFails(r) \/ Exec(r)

Next ==
    \/ \E c \in Commands : Command(c)
    \/ \E r \in Runs : Run(r)
    \/ DeleteItem

Spec == Init /\ [][Next]_vars
-----------------------------------------------------------------------------
\* A value that a command has said it set stays in the item, whatever other
\* commands that fail or overlap do, until the key is set again or deleted, the
\* item is deleted as a whole, or it is replaced in place by a command that had
\* read it before.
AcknowledgedStay ==
    \A k \in DOMAIN acked : item # NoItem /\ k \in DOMAIN item /\ item[k] = acked[k]

\* A program runs in the container only with all the keys of the item as it
\* was at one time, though commands change it meanwhile and keys are written
\* one by one: never with some of them.
AllKeysOrNone ==
    \A r \in Runs : entry[r] = "running" =>
        /\ DOMAIN ring[r] = {k.id : k \in DOMAIN message[r]}
        /\ \A i \in DOMAIN ring[r] : \E k \in DOMAIN message[r] : k.id = i /\ ring[r][i] = message[r][k]

\* A run that returns leaves no profile that it has handed to docker, or has
\* said so; and it has not removed it before docker has read it.
ProfileIsRemoved ==
    \A r \in Runs :
        /\ host[r] = "returned" /\ profile[r] = "complete" => warned[r]
        /\ host[r] = "wait" => profile[r] = "complete"
=============================================================================
