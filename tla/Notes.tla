------------------------------- MODULE Notes --------------------------------
(***************************************************************************)
(* What src/keychain promises its callers, whether a plugin is used or not: *)
(* a call takes effect at most once, at some moment before it returns; it   *)
(* does what was asked and no more; and one that is answered with an error  *)
(* has had no effect.  A call that is killed, the plugin with it, gets no   *)
(* answer, and it may have had its effect.                                  *)
(***************************************************************************)
EXTENDS KeychainItems

CONSTANTS Clients, Nil

VARIABLES
    items,      \* what the keychains hold
    request,    \* what each client is asking for
    answer      \* "idle", "pending", or what it is told

vars == <<items, request, answer>>

Errors == {"exist", "notExist", "failed"}

Init ==
    /\ items \in Stored
    /\ request = [c \in Clients |-> Nil]
    /\ answer = [c \in Clients |-> "idle"]

\* A request may be refused at once.
Ask(c) ==
    /\ answer[c] = "idle"
    /\ \E r \in Requests : request' = [request EXCEPT ![c] = r]
    /\ \E a \in {"pending", "failed"} : answer' = [answer EXCEPT ![c] = a]
    /\ UNCHANGED items

\* The request of c, one of ops, is answered.
Tell(c, ops, e) ==
    /\ answer[c] = "pending" /\ request[c].op \in ops
    /\ answer' = [answer EXCEPT ![c] = e]
    /\ UNCHANGED request

Create(c) ==
    /\ Tell(c, {"write"}, "nil")
    /\ request[c].cfg.write \in Kinds
    /\ Subject(items, request[c]) = {}
    /\ items' = items \cup {Note(request[c])}

\* The contents of one item are replaced: an existing one is left alone by a
\* write that is not to update in place.
Overwrite(c) ==
    /\ Tell(c, {"write", "update"}, "nil")
    /\ request[c].op = "write" => request[c].cfg.inPlace
    /\ \E i \in Subject(items, request[c]) :
           items' = (items \ {i}) \cup {Overwritten(i, request[c].data)}

Remove(c) ==
    /\ Tell(c, {"delete"}, "nil")
    /\ \E i \in Subject(items, request[c]) : items' = items \ {i}

\* Attributes change, contents never.  Without an account a request can be
\* about several items, but no two get the same key.
Alter(c) ==
    LET subject == Subject(items, request[c])
        new(i) == Altered(i, request[c].props)
    IN  /\ Tell(c, {"set"}, "nil")
        /\ Validate(request[c].props, request[c].cfg.write)
        /\ subject # {}
        /\ \A i \in subject, j \in items :
               i # j => Key(new(i)) # Key(IF j \in subject THEN new(j) ELSE j)
        /\ items' = (items \ subject) \cup {new(i) : i \in subject}

Consult(c) == Tell(c, {"read", "query"}, "nil") /\ UNCHANGED items

Fail(c) ==
    /\ \E e \in Errors : Tell(c, Changing \cup {"read", "query"}, e)
    /\ UNCHANGED items

\* The call returns, or is killed.
End(c) ==
    /\ answer[c] # "idle"
    /\ request' = [request EXCEPT ![c] = Nil]
    /\ answer' = [answer EXCEPT ![c] = "idle"]
    /\ UNCHANGED items

Next == \E c \in Clients :
    \/ Ask(c) \/ Create(c) \/ Overwrite(c) \/ Remove(c) \/ Alter(c)
    \/ Consult(c) \/ Fail(c) \/ End(c)

Spec == Init /\ [][Next]_vars

\* Nothing of what the keychains hold is lost but by the hand of a client that
\* asked for the loss: contents disappear from a service of a keychain only if
\* one is overwriting or deleting a note there.
ContentsKept ==
    \A i \in items :
        \/ \E j \in items' : j.kind = i.kind /\ j.service = i.service /\ j.data = i.data
        \/ \E c \in Clients :
               /\ answer[c] = "pending" /\ i \in Subject(items, request[c])
               /\ \/ request[c].op \in {"update", "delete"}
                  \/ request[c].op = "write" /\ request[c].cfg.inPlace

OnlyAskedLosses == [][ContentsKept]_vars
=============================================================================
