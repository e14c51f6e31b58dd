------------------------------ MODULE Keychain ------------------------------
(***************************************************************************)
(* src/keychain and src/keychain/plugin: clients that read, write, update,   *)
(* delete, query and change the properties of secure notes, in-process or   *)
(* through a plugin, each call a sequence of calls of the operating system   *)
(* (go-keychain), which are atomic and may fail, and between which other     *)
(* clients run.  A call may be killed at any point, the plugin with it.     *)
(***************************************************************************)
EXTENDS KeychainItems, Naturals, Sequences, Functions

CONSTANTS
    Clients,
    Plugins,    \* what looking for the plugin may find: "none", "plugin", "broken"
    Nil

VARIABLES
    items,      \* what the keychains hold
    plugin,     \* what looking for the plugin finds
    sight,      \* the keychains that a client has access to without it: with an
                \* entitlement of its own all of them
    request,    \* what each client is asking for
    work,       \* how far the call is
    steady      \* history: the attributes of the items that the call is about and
                \* that have been there, unchanged, since it began

vars == <<items, plugin, sight, request, work, steady>>

Idle == [at |-> "idle", via |-> "direct", list |-> <<>>,
         failed |-> {}, found |-> {}, err |-> "none"]

Init ==
    /\ items \in Stored
    /\ plugin \in Plugins
    /\ sight \in IF plugin = "none" THEN {Kinds, {"file"}} ELSE {{"file"}}
    /\ request = [c \in Clients |-> Nil]
    /\ work = [c \in Clients |-> Idle]
    /\ steady = [c \in Clients |-> {}]

Busy(c) == work[c].at # "idle"

Move(c, w) == work' = [work EXCEPT ![c] = w]
Goto(c, at) == Move(c, [work[c] EXCEPT !.at = at])
Finish(c, e) == Move(c, [work[c] EXCEPT !.at = "reply", !.err = e])

-----------------------------------------------------------------------------
(* The beginning of a call.                                                *)

\* Where it is served.  Only the keychain.T methods update and delete; the
\* plugin's command line calls them in-process too.
locatePlugin(r) ==
    CASE r.op \in {"update", "delete"} -> "direct"
      [] r.cfg.direct -> IF r.cfg.only THEN "error" ELSE "direct"
      [] ~r.cfg.direct /\ plugin = "plugin" -> "plugin"
      [] ~r.cfg.direct /\ plugin = "none" /\ ~r.cfg.only -> "direct"
      [] OTHER -> "error"

\* SetProperties looks at the type where the write type is the zero one.
Checked(r) == IF r.cfg.write = "file" THEN r.cfg.typ ELSE r.cfg.write

Refused(r) ==
    \/ r.op = "set" /\ ~Validate(r.props, Checked(r))
    \/ locatePlugin(r) = "error"
    \/ r.op \in {"write", "update", "delete"} /\ r.cfg.write = "all"
    \/ r.op = "set" /\ ~Validate(r.props, r.cfg.write)

FirstStep(op) ==
    CASE op = "write" -> "add"   [] op = "update" -> "update"
      [] op = "read" -> "look"   [] op = "delete" -> "find"
      [] op = "set" -> "alter"   [] op = "query" -> "search"

\* Mutant: the local keychains first.
searchListLocal == <<"dataProtection", "file", "iCloud">>

searchListAll == <<"iCloud", "dataProtection", "file">>
SearchList(r) == IF r.cfg.typ = "all" THEN searchListAll ELSE <<r.cfg.typ>>

\* The items that a request is about and that it can see.
Concerned(r) ==
    LET kinds == IF r.op \in Changing THEN {r.cfg.write} ELSE Range(SearchList(r))
        seen == IF locatePlugin(r) = "plugin" THEN Kinds ELSE sight
    IN  UNION {Matching(items, k, r.service, r.cfg.account) : k \in kinds \cap seen}

Begin(r) ==
    [Idle EXCEPT !.at = FirstStep(r.op),
                 !.via = IF locatePlugin(r) = "plugin" THEN "plugin" ELSE "direct",
                 !.list = IF r.op \in {"read", "query"} THEN SearchList(r) ELSE <<>>]

Start(c) ==
    /\ ~Busy(c)
    /\ \E r \in Requests :
        /\ request' = [request EXCEPT ![c] = r]
        /\ Move(c, IF Refused(r) THEN [Idle EXCEPT !.at = "reply", !.err = "refused"] ELSE Begin(r))
        /\ steady' = [steady EXCEPT ![c] = {Attributes(i) : i \in Concerned(r)}]
    /\ UNCHANGED <<items, plugin, sight>>

-----------------------------------------------------------------------------
(* The calls of the operating system.  The items in a keychain that the     *)
(* caller has no access to are not there for it.                           *)

Seen(c) == IF work[c].via = "plugin" THEN items ELSE {i \in items : i.kind \in sight}

Changed(c) == Subject(Seen(c), request[c])

\* WriteSecureNote: AddItem.
Add(c) ==
    LET r == request[c]
        same == {i \in items : Key(i) = Key(Note(r))}
    IN  /\ work[c].at = "add"
        /\ work[c].via = "plugin" \/ r.cfg.write \in sight
        /\ \/ /\ same = {}
              /\ items' = items \cup {Note(r)}
              /\ Finish(c, "nil")
           \/ /\ same # {}
              /\ IF r.cfg.inPlace THEN Goto(c, "update") ELSE Finish(c, "exist")
              /\ UNCHANGED items
        /\ UNCHANGED request

\* updateSecureNote: UpdateItem.
Update(c) ==
    /\ work[c].at = "update"
    /\ IF Changed(c) = {} THEN Finish(c, "itemNotFound") ELSE Finish(c, "nil")
    /\ items' = (items \ Changed(c)) \cup {Overwritten(i, request[c].data) : i \in Changed(c)}
    /\ UNCHANGED request

\* extractKeychainNote: the contents of an item are those of a note ("note"), a
\* document without one ("other"), nothing (""), or text, which is returned.
Extracted(i) ==
    CASE i.data = "" -> "failed" [] i.data = "other" -> "notExist" [] OTHER -> "nil"

\* Mutant: an item that is absent from the first keychain does not exist.
LookOnce(c) ==
    LET there == Matching(Seen(c), Head(work[c].list), request[c].service, request[c].cfg.account)
    IN  /\ work[c].at = "look"
        /\ \/ there = {} /\ Finish(c, "notExist")
           \/ \E i \in there : Move(c, [work[c] EXCEPT !.at = "reply", !.err = Extracted(i),
                                                       !.found = {Attributes(i)}])
        /\ UNCHANGED <<items, request>>

\* ReadSecureNote: QueryItem, for one keychain of the list after the other.
Look(c) ==
    LET w == work[c]
        there == Matching(Seen(c), Head(w.list), request[c].service, request[c].cfg.account)
    IN  /\ w.at = "look"
        /\ \/ there = {} /\ Len(w.list) = 1 /\ Finish(c, "notExist")
           \/ there = {} /\ Len(w.list) > 1 /\ Move(c, [w EXCEPT !.list = Tail(@)])
           \/ \E i \in there : Move(c, [w EXCEPT !.at = "reply", !.err = Extracted(i),
                                                 !.found = {Attributes(i)}])
        /\ UNCHANGED <<items, request>>

\* DeleteSecureNote: QueryItem, and then DeleteItem of what was found.
Find(c) ==
    /\ work[c].at = "find"
    /\ \/ Changed(c) = {} /\ Finish(c, "notExist")
       \/ \E i \in Changed(c) :
              Move(c, [work[c] EXCEPT !.at = "remove", !.found = {Attributes(i)}])
    /\ UNCHANGED <<items, request>>

\* Mutant: what the request names is deleted, not what was found.
RemoveNamed(c) ==
    /\ work[c].at = "remove"
    /\ items' = items \ Changed(c)
    /\ IF Changed(c) = {} THEN Finish(c, "itemNotFound") ELSE Finish(c, "nil")
    /\ UNCHANGED request

Remove(c) ==
    LET there == {i \in Seen(c) : \E a \in work[c].found :
                     Key(i) = Key(a) /\ a.desc \in {"", i.desc}}
    IN  /\ work[c].at = "remove"
        /\ items' = items \ there
        /\ IF there = {} THEN Finish(c, "itemNotFound") ELSE Finish(c, "nil")
        /\ UNCHANGED request

\* SetProperties: UpdateItem.  Two items do not get the same key.
Alter(c) ==
    LET p == request[c].props
        others == items \ Changed(c)
        collide ==
            \/ \E i \in Changed(c), j \in others : Key(Altered(i, p)) = Key(j)
            \/ \E i, j \in Changed(c) : i # j /\ Key(Altered(i, p)) = Key(Altered(j, p))
    IN  /\ work[c].at = "alter"
        /\ items' = IF collide THEN items ELSE others \cup {Altered(i, p) : i \in Changed(c)}
        /\ Finish(c, CASE Changed(c) = {} -> "notExist" [] collide -> "duplicate"
                       [] OTHER -> "nil")
        /\ UNCHANGED request

\* Query: each keychain of the list, those that fail being skipped.
Matches(r, i) == r.notes => i.desc = "secure note"

\* Mutant: the search ends with the first keychain that fails.
SearchUntilFailure(c) ==
    LET w == work[c]
        r == request[c]
        there == Matching(Seen(c), Head(w.list), r.service, r.cfg.account)
        next == [w EXCEPT !.list = Tail(@)]
        more == {Attributes(i) : i \in {j \in there : Matches(r, j)}}
    IN  /\ w.at = "search"
        /\ \/ Len(w.list) > 1 /\ Move(c, [next EXCEPT !.found = @ \cup more])
           \/ Len(w.list) = 1 /\ Move(c, [next EXCEPT !.found = @ \cup more, !.at = "reply",
                                                      !.err = "nil"])
           \/ Move(c, [next EXCEPT !.at = "reply", !.err = "failed", !.failed = {Head(w.list)}])
        /\ UNCHANGED <<items, request>>

Search(c) ==
    LET w == work[c]
        r == request[c]
        there == Matching(Seen(c), Head(w.list), r.service, r.cfg.account)
        last == Len(w.list) = 1
        Searched(found, failed) ==
            Move(c, [w EXCEPT !.found = found, !.failed = failed, !.list = Tail(@),
                              !.at = IF last THEN "reply" ELSE @,
                              !.err = CASE ~last -> @
                                        [] last /\ failed = Range(SearchList(r)) -> "failed"
                                        [] OTHER -> "nil"])
    IN  /\ w.at = "search"
        /\ \/ Searched(w.found \cup {Attributes(i) : i \in {j \in there : Matches(r, j)}}, w.failed)
           \/ Searched(w.found, w.failed \cup {Head(w.list)})
        /\ UNCHANGED <<items, request>>

\* Any other call may fail: the keychain is locked, an entitlement is missing.
Fail(c) ==
    /\ work[c].at \in {"add", "update", "look", "find", "remove", "alter"}
    /\ Finish(c, "failed")
    /\ UNCHANGED <<items, request>>

-----------------------------------------------------------------------------
(* The end of a call.                                                      *)

\* Through a plugin an error that has no code of its own is just an error.
Response(c) ==
    LET w == work[c]
        coded == CASE request[c].op = "write" -> {"nil", "exist"}
                   [] request[c].op \in {"read", "set"} -> {"nil", "notExist"}
                   [] OTHER -> {"nil"}
    IN  IF w.via = "direct" \/ w.err \in coded THEN w.err ELSE "failed"

\* The call returns, or is killed before it does.
End(c) ==
    /\ Busy(c)
    /\ Move(c, Idle)
    /\ request' = [request EXCEPT ![c] = Nil]
    /\ UNCHANGED items

Step(c) ==
    \/ Add(c) \/ Update(c) \/ Look(c) \/ Find(c) \/ Remove(c) \/ Alter(c) \/ Search(c)
    \/ Fail(c) \/ End(c)

Watch == steady' = [c \in Clients |->
    CASE work'[c].at = "idle" -> {}
      [] work[c].at = "reply" /\ work'[c].at = "reply" -> steady[c]
      [] OTHER -> steady[c] \cap {Attributes(i) : i \in items'}]

Next ==
    \/ \E c \in Clients : Start(c)
    \/ (\E c \in Clients : Step(c)) /\ Watch /\ UNCHANGED <<plugin, sight>>

Spec == Init /\ [][Next]_vars

-----------------------------------------------------------------------------
\* A call that says that there is no such item is right at some moment: none
\* has been there all the time, in any of the keychains it was to look in
\* (ReadSecureNote, updateSecureNote, DeleteSecureNote, SetProperties).  What
\* is there but is not a note does not exist either.
AbsenceIsReal ==
    \A c \in Clients :
        /\ work[c].at = "reply" /\ work[c].found = {}
        /\ work[c].err \in {"notExist", "itemNotFound"}
        => steady[c] = {}

\* A note is read from the first keychain that holds one: iCloud before data
\* protection before file (ReadSecureNote).
FirstIsRead ==
    LET Before(k) == CASE k = "iCloud" -> {} [] k = "dataProtection" -> {"iCloud"}
                       [] k = "file" -> {"iCloud", "dataProtection"}
    IN  \A c \in Clients :
            work[c].at = "reply" /\ request[c].op = "read" =>
                \A a \in work[c].found, b \in steady[c] : b.kind \notin Before(a.kind)

\* A query reports each item that matches and has been there throughout, unless
\* its keychain could not be searched; and it is an error only if none could
\* (T.Query).
QueryIsComplete ==
    \A c \in Clients :
        work[c].at = "reply" /\ request[c].op = "query" /\ work[c].err # "refused" =>
            /\ \A a \in steady[c] :
                   Matches(request[c], a) => a \in work[c].found \/ a.kind \in work[c].failed
            /\ work[c].err = "failed" <=>
                   \A k \in Kinds : request[c].cfg.typ \in {"all", k} => k \in work[c].failed

-----------------------------------------------------------------------------
\* What the caller is told.
Told(c) ==
    CASE ~Busy(c) -> "idle"
      [] Busy(c) /\ work[c].at # "reply" -> "pending"
      [] work[c].at = "reply" /\ Response(c) \in {"nil", "exist", "notExist"} -> Response(c)
      [] OTHER -> "failed"

told == [c \in Clients |-> Told(c)]

N == INSTANCE Notes WITH answer <- told

\* The calls, one step of the operating system after the other, do what Notes
\* promises of them as wholes.
ImplementsNotes == N!Spec
=============================================================================
