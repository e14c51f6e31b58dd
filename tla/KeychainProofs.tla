--------------------------- MODULE KeychainProofs ---------------------------
(* Keychain implements Notes, for any number of clients and any requests, and *)
(* what its calls say of the items that have been there throughout is true.  *)
EXTENDS Keychain, TLAPS

-----------------------------------------------------------------------------
(* What adding, overwriting and altering items does to their keys.         *)

\* Items, each with a key of its own.
Sound(S) == S \subseteq Item /\ Distinct(S)

\* With an account, a request is about one item at most.
LEMMA OneSubject ==
    ASSUME NEW S, Sound(S), NEW r, r.cfg.account # "",
           NEW i \in Subject(S, r), NEW j \in Subject(S, r)
    PROVE  i = j
BY DEF Sound, Subject, Matching, Distinct, Key

\* A note that is not there yet can be added.
LEMMA NoteAdded ==
    ASSUME NEW S, Sound(S), NEW r \in Requests, r.op = "write", r.cfg.write \in Kinds,
           Subject(S, r) = {}
    PROVE  Sound(S \cup {Note(r)})
<1>1. r.service \in Text /\ r.data \in Text /\ r.cfg.account \in Text /\ r.cfg.access \in Text
  BY RequestsAssumption DEF Request, Config
<1>2. Note(r) \in Item
  BY <1>1, TextAssumption DEF Note, Item
<1>3. \A i \in S : Key(i) # Key(Note(r))
  BY RequestsAssumption DEF Subject, Matching, Key, Note
<1> QED
  BY <1>2, <1>3 DEF Sound, Distinct

\* New contents change no key.
LEMMA ItemOverwritten ==
    ASSUME NEW S, Sound(S), NEW i \in S, NEW r \in Requests
    PROVE  Sound((S \ {i}) \cup {Overwritten(i, r.data)})
<1>1. r.data \in Text
  BY RequestsAssumption DEF Request
<1>2. Overwritten(i, r.data) \in Item /\ Key(Overwritten(i, r.data)) = Key(i)
  BY <1>1 DEF Sound, Overwritten, Item, Key
<1> QED
  BY <1>2 DEF Sound, Distinct

\* New properties change neither contents nor the keychain and the service.
LEMMA AlteredItem ==
    ASSUME NEW i \in Item, NEW r \in Requests
    PROVE  /\ Altered(i, r.props) \in Item
           /\ Altered(i, r.props).kind = i.kind
           /\ Altered(i, r.props).service = i.service
           /\ Altered(i, r.props).data = i.data
BY RequestsAssumption DEF Altered, Item, Request

\* The items of T can be altered if no key is that of two then.
LEMMA ItemsAltered ==
    ASSUME NEW S, Sound(S), NEW T, T \subseteq S, NEW r \in Requests,
           \A i \in T, j \in S :
               i # j => Key(Altered(i, r.props)) #
                        Key(IF j \in T THEN Altered(j, r.props) ELSE j)
    PROVE  Sound((S \ T) \cup {Altered(i, r.props) : i \in T})
<1> DEFINE new(i) == Altered(i, r.props)
           U == (S \ T) \cup {new(i) : i \in T}
<1>1. \A i \in T : new(i) \in Item
  BY AlteredItem DEF Sound
<1> HIDE DEF new
<1>2. U \subseteq Item
  BY <1>1 DEF Sound
<1>3. ASSUME NEW i \in U, NEW j \in U, Key(i) = Key(j) PROVE i = j
  <2>1. \A k \in T, l \in S : k # l => Key(new(k)) # Key(IF l \in T THEN new(l) ELSE l)
    BY DEF new
  <2>2. CASE i \in S \ T /\ j \in S \ T
    BY <2>2, <1>3 DEF Sound, Distinct
  <2>3. ASSUME NEW k \in T, i = new(k), j \in S \ T PROVE FALSE
    BY <2>3, <2>1, <1>3
  <2>4. ASSUME NEW k \in T, j = new(k), i \in S \ T PROVE FALSE
    BY <2>4, <2>1, <1>3
  <2>5. ASSUME NEW k \in T, NEW l \in T, i = new(k), j = new(l) PROVE i = j
    BY <2>5, <2>1, <1>3
  <2> QED
    BY <2>2, <2>3, <2>4, <2>5
<1> QED
  BY <1>2, <1>3 DEF Sound, Distinct, new

-----------------------------------------------------------------------------
(* The calls do what Notes promises.                                        *)

Fields == {"at", "via", "list", "failed", "found", "err"}

\* Which request leads to which step, and what DeleteSecureNote has found when
\* it is about to delete it.
WorkAt(c) ==
    LET w == work[c]
        r == request[c]
    IN  /\ DOMAIN w = Fields
        /\ Busy(c) => r \in Requests
        /\ w.at \in {"idle", "add", "update", "look", "find", "remove", "alter",
                     "search", "reply"}
        /\ w.at = "add" => r.op = "write" /\ r.cfg.write \in Kinds
        /\ w.at = "update" => r.op = "update" \/ (r.op = "write" /\ r.cfg.inPlace)
        /\ w.at \in {"look", "search"} => r.op \in {"read", "query"}
        /\ w.at \in {"find", "remove"} => r.op = "delete"
        /\ w.at = "remove" => \E a : /\ w.found = {a}
                                     /\ a.kind = r.cfg.write /\ a.service = r.service
                                     /\ r.cfg.account \in {"", a.account}
        /\ w.at = "alter" => r.op = "set" /\ Validate(r.props, r.cfg.write)

IInv ==
    /\ Sound(items)
    /\ DOMAIN request = Clients /\ DOMAIN work = Clients
    /\ request = [c \in Clients |-> request[c]] /\ work = [c \in Clients |-> work[c]]
    /\ \A c \in Clients : WorkAt(c)

-----------------------------------------------------------------------------
(* How a call moves on, whatever the keychains do.                         *)

\* The others are where they were.
LEMMA OthersStay ==
    ASSUME IInv, NEW c \in Clients, NEW w, Move(c, w), NEW d \in Clients \ {c},
           request'[d] = request[d]
    PROVE  WorkAt(d)' /\ Told(d)' = Told(d)
<1>1. work'[d] = work[d]
  BY DEF Move, IInv
<1>2. WorkAt(d)'
  <2>1. WorkAt(d)
    BY DEF IInv
  <2> QED
    BY <1>1, <2>1 DEF WorkAt, Busy
<1>3. Told(d)' = Told(d)
  BY <1>1 DEF Told, Busy, Response
<1> QED
  BY <1>2, <1>3

\* A step of c that goes on.
LEMMA GoesOn ==
    ASSUME IInv, NEW c \in Clients, NEW w, Move(c, w), request' = request,
           Busy(c), work[c].at # "reply",
           DOMAIN w = Fields, w.at \notin {"idle", "reply"}, WorkAt(c)'
    PROVE  (\A d \in Clients : WorkAt(d)') /\ told' = told
<1>1. \A d \in Clients \ {c} : WorkAt(d)' /\ Told(d)' = Told(d)
  BY OthersStay
<1>2. work'[c] = w
  BY DEF Move, IInv
<1>3. Told(c) = "pending" /\ Told(c)' = "pending"
  BY <1>2 DEF Told, Busy
<1> QED
  BY <1>1, <1>3 DEF told

\* A step of c that ends the call: its caller is told so, or of an error.
LEMMA Ends ==
    ASSUME IInv, NEW c \in Clients, NEW w, Move(c, w), request' = request,
           Busy(c), work[c].at # "reply",
           DOMAIN w = Fields, w.at = "reply"
    PROVE  /\ \A d \in Clients : WorkAt(d)'
           /\ told[c] = "pending" /\ request[c] \in Requests
           /\ told' = [told EXCEPT ![c] = Told(c)']
           /\ w.err = "nil" => Told(c)' = "nil"
           /\ w.err # "nil" => Told(c)' \in {"exist", "notExist", "failed"}
<1>1. \A d \in Clients \ {c} : WorkAt(d)' /\ Told(d)' = Told(d)
  BY OthersStay
<1>2. work'[c] = w
  BY DEF Move, IInv
<1>3. told[c] = "pending" /\ request[c] \in Requests
  BY DEF told, Told, Busy, IInv, WorkAt
<1>4. WorkAt(c)'
  BY <1>2, <1>3 DEF WorkAt, Busy
<1>5. /\ w.err = "nil" => Told(c)' = "nil"
      /\ w.err # "nil" => Told(c)' \in {"exist", "notExist", "failed"}
  <2>1. /\ Response(c)' \in {w.err, "failed"}
        /\ w.err = "nil" => Response(c)' = "nil"
    BY <1>2 DEF Response
  <2>2. Told(c)' = IF Response(c)' \in {"nil", "exist", "notExist"} THEN Response(c)' ELSE "failed"
    BY <1>2 DEF Told, Busy
  <2> QED
    BY <2>1, <2>2
<1>6. told' = [told EXCEPT ![c] = Told(c)']
  BY <1>1 DEF told
<1> QED
  BY <1>1, <1>2, <1>3, <1>4, <1>5, <1>6

\* Finish in particular.
LEMMA Finishes ==
    ASSUME IInv, NEW c \in Clients, NEW e, Finish(c, e), request' = request,
           Busy(c), work[c].at # "reply"
    PROVE  /\ \A d \in Clients : WorkAt(d)'
           /\ told[c] = "pending" /\ request[c] \in Requests
           /\ told' = [told EXCEPT ![c] = Told(c)']
           /\ e = "nil" => Told(c)' = "nil"
           /\ e # "nil" => Told(c)' \in {"exist", "notExist", "failed"}
<1> DEFINE w == [work[c] EXCEPT !.at = "reply", !.err = e]
<1>1. DOMAIN work[c] = Fields
  BY DEF IInv, WorkAt
<1>2. DOMAIN w = Fields /\ w.at = "reply" /\ w.err = e
  BY <1>1 DEF Fields
<1>3. Move(c, w)
  BY DEF Finish
<1> HIDE DEF w
<1> QED
  BY <1>2, <1>3, Ends
-----------------------------------------------------------------------------
(* What a caller without a plugin sees of the items: all of a keychain or   *)
(* none.                                                                   *)

LEMMA AllOrNone ==
    ASSUME NEW c \in Clients
    PROVE  Changed(c) \in {{}, Subject(items, request[c])}
<1>1. CASE work[c].via = "plugin" \/ request[c].cfg.write \in sight
  BY <1>1 DEF Changed, Seen, Subject, Matching
<1>2. CASE work[c].via # "plugin" /\ request[c].cfg.write \notin sight
  BY <1>2 DEF Changed, Seen, Subject, Matching
<1> QED
  BY <1>1, <1>2

-----------------------------------------------------------------------------
(* Each step is one of Notes, or shows nothing there.                      *)

Maps == IInv' /\ [N!Next]_(N!vars)

\* An error, and nothing has changed.
LEMMA FailMaps ==
    ASSUME IInv, NEW c \in Clients, NEW e, Finish(c, e), UNCHANGED <<items, request>>,
           Busy(c), work[c].at # "reply", e # "nil"
    PROVE  Maps
<1>1. /\ \A d \in Clients : WorkAt(d)'
      /\ told[c] = "pending" /\ request[c] \in Requests
      /\ told' = [told EXCEPT ![c] = Told(c)']
      /\ Told(c)' \in {"exist", "notExist", "failed"}
  BY Finishes
<1>2. IInv'
  BY <1>1 DEF IInv, Finish, Move
<1>3. request[c].op \in Changing \cup {"read", "query"}
  BY <1>1, RequestsAssumption DEF Changing, Request
<1>4. N!Tell(c, Changing \cup {"read", "query"}, Told(c)')
  BY <1>1, <1>3 DEF N!Tell
<1>5. N!Fail(c)
  BY <1>1, <1>4 DEF N!Fail, N!Errors, N!Changing, Changing
<1> QED
  BY <1>2, <1>5 DEF Maps, N!Next

\* A read or a query is answered, one way or the other.
LEMMA AnsweredMaps ==
    ASSUME IInv, NEW c \in Clients, NEW w, Move(c, w), UNCHANGED <<items, request>>,
           Busy(c), work[c].at # "reply", request[c].op \in {"read", "query"},
           DOMAIN w = Fields, w.at = "reply"
    PROVE  Maps
<1>1. /\ \A d \in Clients : WorkAt(d)'
      /\ told[c] = "pending"
      /\ told' = [told EXCEPT ![c] = Told(c)']
      /\ Told(c)' \in {"nil", "exist", "notExist", "failed"}
  BY Ends
<1>2. IInv'
  BY <1>1 DEF IInv, Move
<1>3. N!Tell(c, {"read", "query"}, Told(c)') /\ N!Tell(c, Changing \cup {"read", "query"}, Told(c)')
  BY <1>1 DEF N!Tell
<1>4. N!Consult(c) \/ N!Fail(c)
  BY <1>1, <1>3 DEF N!Consult, N!Fail, N!Errors, N!Changing, Changing
<1> QED
  BY <1>2, <1>4 DEF Maps, N!Next

\* A call goes on, and nothing has changed.
LEMMA GoOnMaps ==
    ASSUME IInv, NEW c \in Clients, NEW w, Move(c, w), UNCHANGED <<items, request>>,
           Busy(c), work[c].at # "reply",
           DOMAIN w = Fields, w.at \notin {"idle", "reply"}, WorkAt(c)'
    PROVE  Maps
<1>1. (\A d \in Clients : WorkAt(d)') /\ told' = told
  BY GoesOn
<1> QED
  BY <1>1 DEF Maps, IInv, Move, N!vars

\* A call is told that it has been served.
LEMMA ServedInv ==
    ASSUME IInv, NEW c \in Clients, Finish(c, "nil"), request' = request,
           Busy(c), work[c].at # "reply", Sound(items')
    PROVE  /\ IInv'
           /\ request[c] \in Requests
           /\ \A ops : request[c].op \in ops => N!Tell(c, ops, "nil")
<1>1. /\ \A d \in Clients : WorkAt(d)'
      /\ told[c] = "pending" /\ request[c] \in Requests
      /\ told' = [told EXCEPT ![c] = Told(c)']
      /\ Told(c)' = "nil"
  BY Finishes
<1> QED
  BY <1>1 DEF IInv, Finish, Move, N!Tell

\* A call that has been served: what it did is for N to say.
LEMMA ServedMaps ==
    ASSUME IInv, NEW c \in Clients, IInv',
           N!Create(c) \/ N!Overwrite(c) \/ N!Remove(c) \/ N!Alter(c)
    PROVE  Maps
BY DEF Maps, N!Next

LEMMA AddMaps ==
    ASSUME IInv, NEW c \in Clients, Add(c)
    PROVE  Maps
<1> DEFINE r == request[c]
           same == {i \in items : Key(i) = Key(Note(r))}
<1>1. /\ Busy(c) /\ work[c].at = "add" /\ DOMAIN work[c] = Fields
      /\ r \in Requests /\ r.op = "write" /\ r.cfg.write \in Kinds
  BY DEF Add, IInv, WorkAt, Busy
<1>2. ASSUME same = {} PROVE Maps
  <2>1. items' = items \cup {Note(r)} /\ Finish(c, "nil") /\ request' = request
    BY <1>2 DEF Add
  <2>2. Subject(items, r) = {}
    BY <1>1, <1>2, RequestsAssumption DEF Subject, Matching, Key, Note
  <2>3. Sound(items')
    BY <1>1, <2>1, <2>2, NoteAdded DEF IInv
  <2>4. IInv' /\ N!Tell(c, {"write"}, "nil")
    BY <1>1, <2>1, <2>3, ServedInv
  <2>5. N!Create(c)
    BY <1>1, <2>1, <2>2, <2>4 DEF N!Create, N!Subject, N!Matching, N!Note, N!Kinds,
       Subject, Matching, Note, Kinds
  <2> QED
    BY <2>4, <2>5, ServedMaps
<1>3. ASSUME same # {}, r.cfg.inPlace PROVE Maps
  <2> DEFINE w == [work[c] EXCEPT !.at = "update"]
  <2>1. Move(c, w) /\ UNCHANGED <<items, request>>
    BY <1>3 DEF Add, Goto
  <2>2. DOMAIN w = Fields /\ w.at = "update"
    BY <1>1 DEF Fields
  <2>3. work'[c] = w /\ request'[c] = r
    BY <2>1 DEF Move, IInv
  <2>4. WorkAt(c)'
    BY <1>1, <1>3, <2>2, <2>3 DEF WorkAt, Busy
  <2> HIDE DEF w, r
  <2> QED
    BY <1>1, <2>1, <2>2, <2>4, GoOnMaps
<1>4. ASSUME same # {}, ~r.cfg.inPlace PROVE Maps
  BY <1>1, <1>4, FailMaps DEF Add
<1> QED
  BY <1>2, <1>3, <1>4

LEMMA UpdateMaps ==
    ASSUME IInv, NEW c \in Clients, Update(c)
    PROVE  Maps
<1> DEFINE r == request[c]
<1>1. /\ Busy(c) /\ work[c].at = "update"
      /\ r \in Requests
      /\ r.op = "update" \/ (r.op = "write" /\ r.cfg.inPlace)
  BY DEF Update, IInv, WorkAt, Busy
<1>2. CASE Changed(c) = {}
  <2>1. items' = items
    BY <1>2 DEF Update
  <2> QED
    BY <1>1, <1>2, <2>1, FailMaps DEF Update
<1>3. ASSUME NEW i \in Changed(c) PROVE Maps
  <2>1. Changed(c) = {i} /\ i \in Subject(items, r) /\ i \in items
    <3>1. Changed(c) = Subject(items, r)
      BY <1>3, AllOrNone
    <3>2. r.cfg.account # "" /\ Sound(items) /\ i \in Subject(items, r)
      BY <1>1, <1>3, <3>1, RequestsAssumption DEF IInv
    <3>3. ASSUME NEW j \in Subject(items, r) PROVE i = j
      BY <3>2, OneSubject
    <3> QED
      BY <1>3, <3>1, <3>2, <3>3 DEF Subject, Matching
  <2>2. items' = (items \ {i}) \cup {Overwritten(i, r.data)}
    BY <2>1 DEF Update
  <2>3. Sound(items')
    BY <1>1, <2>1, <2>2, ItemOverwritten DEF IInv
  <2>4. Finish(c, "nil") /\ request' = request
    BY <2>1 DEF Update
  <2>5. IInv' /\ N!Tell(c, {"write", "update"}, "nil")
    BY <1>1, <2>3, <2>4, ServedInv
  <2>6. N!Overwrite(c)
    BY <1>1, <2>1, <2>2, <2>5 DEF N!Overwrite, N!Subject, N!Matching, N!Overwritten,
       Subject, Matching, Overwritten
  <2> QED
    BY <2>5, <2>6, ServedMaps
<1> QED
  BY <1>2, <1>3

LEMMA LookMaps ==
    ASSUME IInv, NEW c \in Clients, Look(c)
    PROVE  Maps
<1> DEFINE w == work[c]
<1>1. Busy(c) /\ w.at = "look" /\ DOMAIN w = Fields /\ request[c].op \in {"read", "query"}
  BY DEF Look, IInv, WorkAt, Busy
<1>2. UNCHANGED <<items, request>>
  BY DEF Look
<1>3. CASE Finish(c, "notExist")
  BY <1>1, <1>2, <1>3, FailMaps
<1>4. CASE Move(c, [w EXCEPT !.list = Tail(@)])
  <2> DEFINE v == [w EXCEPT !.list = Tail(@)]
  <2>1. DOMAIN v = Fields /\ v.at = "look"
    BY <1>1 DEF Fields
  <2>2. work'[c] = v /\ request'[c] = request[c]
    BY <1>2, <1>4 DEF Move, IInv
  <2>3. WorkAt(c)'
    BY <1>1, <2>1, <2>2 DEF WorkAt, Busy, IInv
  <2> HIDE DEF v
  <2>4. Move(c, v)
    BY <1>4 DEF v
  <2> QED
    BY <1>1, <1>2, <2>1, <2>3, <2>4, GoOnMaps
<1>5. ASSUME NEW e, NEW f, Move(c, [w EXCEPT !.at = "reply", !.err = e, !.found = f])
      PROVE  Maps
  <2> DEFINE v == [w EXCEPT !.at = "reply", !.err = e, !.found = f]
  <2>1. DOMAIN v = Fields /\ v.at = "reply" /\ v.err = e
    BY <1>1 DEF Fields
  <2> HIDE DEF v
  <2>2. Move(c, v)
    BY <1>5 DEF v
  <2> QED
    BY <1>1, <1>2, <2>1, <2>2, AnsweredMaps
<1> QED
  BY <1>3, <1>4, <1>5 DEF Look

LEMMA FindMaps ==
    ASSUME IInv, NEW c \in Clients, Find(c)
    PROVE  Maps
<1> DEFINE w == work[c]
           r == request[c]
<1>1. Busy(c) /\ w.at = "find" /\ DOMAIN w = Fields /\ r.op = "delete" /\ r \in Requests
  BY DEF Find, IInv, WorkAt, Busy
<1>2. UNCHANGED <<items, request>>
  BY DEF Find
<1>3. CASE Finish(c, "notExist")
  BY <1>1, <1>2, <1>3, FailMaps
<1>4. ASSUME NEW i \in Changed(c),
             Move(c, [w EXCEPT !.at = "remove", !.found = {Attributes(i)}])
      PROVE  Maps
  <2> DEFINE v == [w EXCEPT !.at = "remove", !.found = {Attributes(i)}]
  <2>1. DOMAIN v = Fields /\ v.at = "remove" /\ v.found = {Attributes(i)}
    BY <1>1 DEF Fields
  <2>2. work'[c] = v /\ request'[c] = r
    BY <1>2, <1>4 DEF Move, IInv
  <2>3. /\ Attributes(i).kind = r.cfg.write /\ Attributes(i).service = r.service
        /\ r.cfg.account \in {"", Attributes(i).account}
    BY <1>4, AllOrNone DEF Subject, Matching, Attributes
  <2>4. Move(c, v)
    BY <1>4
  <2> HIDE DEF v
  <2>5. WorkAt(c)'
    BY <1>1, <2>1, <2>2, <2>3 DEF WorkAt, Busy
  <2> QED
    BY <1>1, <1>2, <2>1, <2>4, <2>5, GoOnMaps
<1> QED
  BY <1>3, <1>4 DEF Find

LEMMA RemoveMaps ==
    ASSUME IInv, NEW c \in Clients, Remove(c)
    PROVE  Maps
<1> DEFINE r == request[c]
           there == {i \in Seen(c) : \E a \in work[c].found :
                         Key(i) = Key(a) /\ a.desc \in {"", i.desc}}
<1>1. /\ Busy(c) /\ work[c].at = "remove" /\ r \in Requests /\ r.op = "delete"
      /\ request' = request /\ items' = items \ there
      /\ IF there = {} THEN Finish(c, "itemNotFound") ELSE Finish(c, "nil")
  BY DEF Remove, IInv, WorkAt, Busy
<1>2. PICK a : /\ work[c].found = {a}
               /\ a.kind = r.cfg.write /\ a.service = r.service
               /\ r.cfg.account \in {"", a.account}
  BY <1>1 DEF IInv, WorkAt
<1>3. CASE there = {}
  <2>1. items' = items /\ Finish(c, "itemNotFound")
    BY <1>1, <1>3
  <2> QED
    BY <1>1, <2>1, FailMaps
<1>4. ASSUME NEW i \in there PROVE Maps
  <2>1. i \in items /\ Key(i) = Key(a)
    BY <1>2 DEF Seen
  <2>2. there = {i}
    BY <1>2, <2>1 DEF Seen, IInv, Sound, Distinct
  <2>3. i \in Subject(items, r)
    BY <1>2, <2>1 DEF Subject, Matching, Key
  <2>4. items' = items \ {i} /\ Finish(c, "nil")
    BY <1>1, <2>2
  <2>5. Sound(items')
    BY <2>4 DEF IInv, Sound, Distinct
  <2>6. IInv' /\ N!Tell(c, {"delete"}, "nil")
    BY <1>1, <2>4, <2>5, ServedInv
  <2>7. N!Remove(c)
    BY <2>3, <2>4, <2>6 DEF N!Remove, N!Subject, N!Matching, Subject, Matching
  <2> QED
    BY <2>6, <2>7, ServedMaps
<1> QED
  BY <1>3, <1>4

LEMMA AlterMaps ==
    ASSUME IInv, NEW c \in Clients, Alter(c)
    PROVE  Maps
<1> DEFINE r == request[c]
           p == r.props
           changed == Changed(c)
           others == items \ changed
           collide ==
               \/ \E i \in changed, j \in others : Key(Altered(i, p)) = Key(j)
               \/ \E i, j \in changed : i # j /\ Key(Altered(i, p)) = Key(Altered(j, p))
<1>1. /\ Busy(c) /\ work[c].at = "alter" /\ r \in Requests /\ r.op = "set"
      /\ Validate(p, r.cfg.write) /\ request' = request
  BY DEF Alter, IInv, WorkAt, Busy
<1>2. /\ items' = IF collide THEN items ELSE others \cup {Altered(i, p) : i \in changed}
      /\ Finish(c, CASE changed = {} -> "notExist" [] collide -> "duplicate" [] OTHER -> "nil")
  BY DEF Alter
<1>3. CASE changed = {}
  <2>1. items' = items /\ ~collide
    BY <1>2, <1>3
  <2>2. Finish(c, "notExist")
    BY <1>2, <1>3, <2>1
  <2> QED
    BY <1>1, <2>1, <2>2, FailMaps
<1>4. CASE changed # {} /\ collide
  <2>1. items' = items /\ Finish(c, "duplicate")
    BY <1>2, <1>4
  <2> QED
    BY <1>1, <2>1, FailMaps
<1>5. CASE changed # {} /\ ~collide
  <2>1. items' = others \cup {Altered(i, p) : i \in changed} /\ Finish(c, "nil")
    BY <1>2, <1>5
  <2>2. changed = Subject(items, r) /\ changed \subseteq items
    BY <1>5, AllOrNone DEF Subject, Matching
  <2>3. \A i \in changed, j \in items :
            i # j => Key(Altered(i, p)) # Key(IF j \in changed THEN Altered(j, p) ELSE j)
    BY <1>5
  <2> HIDE DEF changed
  <2>4. Sound(items')
    BY <1>1, <2>1, <2>2, <2>3, ItemsAltered DEF IInv
  <2>5. IInv' /\ N!Tell(c, {"set"}, "nil")
    BY <1>1, <2>1, <2>4, ServedInv
  <2>6. /\ N!Subject(items, r) = changed /\ N!Validate(p, r.cfg.write)
        /\ \A i : N!Altered(i, p) = Altered(i, p) /\ N!Key(i) = Key(i)
    BY <1>1, <2>2 DEF N!Subject, N!Matching, N!Validate, N!Altered, N!Key,
       Subject, Matching, Validate, Altered, Key
  <2>7. N!Alter(c)
    BY <1>5, <2>1, <2>3, <2>5, <2>6 DEF N!Alter
  <2> QED
    BY <2>5, <2>7, ServedMaps
<1> QED
  BY <1>3, <1>4, <1>5

LEMMA SearchMaps ==
    ASSUME IInv, NEW c \in Clients, Search(c)
    PROVE  Maps
<1> DEFINE w == work[c]
<1>1. Busy(c) /\ w.at = "search" /\ DOMAIN w = Fields /\ request[c].op \in {"read", "query"}
  BY DEF Search, IInv, WorkAt, Busy
<1>2. UNCHANGED <<items, request>>
  BY DEF Search
<1> DEFINE v(f, g, a, e) ==
               [w EXCEPT !.found = f, !.failed = g, !.list = Tail(@), !.at = a, !.err = e]
<1>3. PICK f, g, a, e : Move(c, v(f, g, a, e)) /\ a \in {"reply", "search"}
  <2> DEFINE there == Matching(Seen(c), Head(w.list), request[c].service, request[c].cfg.account)
             more == w.found \cup {Attributes(i) : i \in {j \in there : Matches(request[c], j)}}
             last == Len(w.list) = 1
             end == IF last THEN "reply" ELSE w.at
             err(g) == CASE ~last -> w.err
                         [] last /\ g = Range(SearchList(request[c])) -> "failed"
                         [] OTHER -> "nil"
  <2>1. \/ Move(c, v(more, w.failed, end, err(w.failed)))
        \/ Move(c, v(w.found, w.failed \cup {Head(w.list)}, end, err(w.failed \cup {Head(w.list)})))
    BY DEF Search
  <2>2. end \in {"reply", "search"}
    BY <1>1
  <2> HIDE DEF v, more, err, end
  <2> QED
    BY <2>1, <2>2
<1> DEFINE next == v(f, g, a, e)
<1>4. DOMAIN next = Fields /\ next.at = a
  BY <1>1 DEF Fields
<1> HIDE DEF next
<1>5. Move(c, next)
  BY <1>3 DEF next
<1>6. CASE a = "reply"
  BY <1>1, <1>2, <1>4, <1>5, <1>6, AnsweredMaps
<1>7. CASE a = "search"
  <2>1. work'[c] = next /\ request'[c] = request[c]
    BY <1>2, <1>5 DEF Move, IInv
  <2>2. WorkAt(c)'
    BY <1>1, <1>4, <1>7, <2>1 DEF WorkAt, Busy, IInv
  <2> QED
    BY <1>1, <1>2, <1>4, <1>5, <1>7, <2>2, GoOnMaps
<1> QED
  BY <1>3, <1>6, <1>7

LEMMA EndMaps ==
    ASSUME IInv, NEW c \in Clients, End(c)
    PROVE  Maps
<1>1. Move(c, Idle) /\ items' = items /\ request' = [request EXCEPT ![c] = Nil] /\ Busy(c)
  BY DEF End
<1>2. work'[c] = Idle
  BY <1>1 DEF Move, IInv
<1>3. WorkAt(c)' /\ Told(c)' = "idle" /\ Told(c) # "idle"
  <2>1. WorkAt(c)' /\ Told(c)' = "idle"
    BY <1>2 DEF WorkAt, Idle, Fields, Busy, Told
  <2>2. Told(c) # "idle"
    BY <1>1 DEF Told
  <2> QED
    BY <2>1, <2>2
<1>4. \A d \in Clients \ {c} : WorkAt(d)' /\ Told(d)' = Told(d)
  BY <1>1, OthersStay DEF IInv
<1>5. IInv'
  BY <1>1, <1>3, <1>4 DEF IInv, Move
<1>6. N!End(c)
  BY <1>1, <1>3, <1>4 DEF N!End, told
<1> QED
  BY <1>5, <1>6 DEF Maps, N!Next

LEMMA StartMaps ==
    ASSUME IInv, NEW c \in Clients, Start(c)
    PROVE  Maps
<1>1. PICK r \in Requests :
        /\ request' = [request EXCEPT ![c] = r]
        /\ Move(c, IF Refused(r) THEN [Idle EXCEPT !.at = "reply", !.err = "refused"]
                                 ELSE Begin(r))
  BY DEF Start
<1>2. ~Busy(c) /\ items' = items
  BY DEF Start
<1>3. request'[c] = r /\ \A d \in Clients \ {c} : request'[d] = request[d]
  BY <1>1 DEF IInv
<1>4. WorkAt(c)' /\ Told(c)' \in {"pending", "failed"}
  <2>1. CASE Refused(r)
    <3>1. work'[c] = [Idle EXCEPT !.at = "reply", !.err = "refused"]
      BY <1>1, <2>1 DEF Move, IInv
    <3>2. WorkAt(c)'
      BY <1>3, <3>1 DEF WorkAt, Idle, Fields, Busy
    <3>3. Response(c)' \in {"refused", "failed"} /\ work'[c].at = "reply"
      BY <3>1 DEF Response, Idle
    <3> QED
      BY <3>2, <3>3 DEF Told, Busy
  <2>2. CASE ~Refused(r)
    <3>1. work'[c] = Begin(r)
      BY <1>1, <2>2 DEF Move, IInv
    <3>2. DOMAIN work'[c] = Fields /\ work'[c].at = FirstStep(r.op)
      BY <3>1 DEF Begin, Idle, Fields
    <3>3. r.op \in {"read", "query", "write", "update", "delete", "set"}
          /\ r.cfg.write \in Kinds \cup {"all"}
      BY RequestsAssumption DEF Request, Config
    <3>4. /\ r.op = "write" => r.cfg.write \in Kinds
          /\ r.op = "set" => Validate(r.props, r.cfg.write)
      BY <2>2, <3>3 DEF Refused
    <3>5. /\ r.op = "write" => FirstStep(r.op) = "add"
          /\ r.op = "update" => FirstStep(r.op) = "update"
          /\ r.op = "read" => FirstStep(r.op) = "look"
          /\ r.op = "delete" => FirstStep(r.op) = "find"
          /\ r.op = "set" => FirstStep(r.op) = "alter"
          /\ r.op = "query" => FirstStep(r.op) = "search"
      BY DEF FirstStep
    <3>6. WorkAt(c)'
      BY <1>3, <3>2, <3>3, <3>4, <3>5 DEF WorkAt, Busy
    <3>7. Told(c)' = "pending"
      BY <3>2, <3>3, <3>5 DEF Told, Busy
    <3> QED
      BY <3>6, <3>7
  <2> QED
    BY <2>1, <2>2
<1>5. \A d \in Clients \ {c} : WorkAt(d)' /\ Told(d)' = Told(d)
  BY <1>1, <1>3, OthersStay
<1>6. IInv'
  BY <1>1, <1>2, <1>4, <1>5 DEF IInv, Move
<1>7. told[c] = "idle"
  <2>1. Told(c) = "idle"
    BY <1>2 DEF Told, Busy
  <2> QED
    BY <2>1 DEF told
<1>8. told' = [told EXCEPT ![c] = Told(c)']
  BY <1>5 DEF told
<1>9. N!Ask(c)
  BY <1>1, <1>2, <1>4, <1>7, <1>8 DEF N!Ask
<1> QED
  BY <1>6, <1>9 DEF Maps, N!Next

\* Every step of the code.
LEMMA StepMaps ==
    ASSUME IInv, [Next]_vars
    PROVE  Maps
<1>1. ASSUME NEW c \in Clients, Start(c) PROVE Maps
  BY <1>1, StartMaps
<1>2. ASSUME NEW c \in Clients, Step(c) PROVE Maps
  <2>1. CASE Fail(c)
    <3>1. Busy(c) /\ work[c].at # "reply"
      BY <2>1 DEF Fail, Busy
    <3> QED
      BY <2>1, <3>1, FailMaps DEF Fail
  <2> QED
    BY <1>2, <2>1, AddMaps, UpdateMaps, LookMaps, FindMaps, RemoveMaps, AlterMaps, SearchMaps,
       EndMaps DEF Step
<1>3. CASE UNCHANGED vars
  <2>1. ASSUME NEW d \in Clients PROVE WorkAt(d)' /\ Told(d)' = Told(d)
    <3>1. WorkAt(d) /\ work'[d] = work[d] /\ request'[d] = request[d]
      BY <1>3 DEF vars, IInv
    <3>2. WorkAt(d)'
      BY <3>1 DEF WorkAt, Busy
    <3>3. Told(d)' = Told(d)
      BY <3>1 DEF Told, Busy, Response
    <3> QED
      BY <3>2, <3>3
  <2> QED
    BY <1>3, <2>1 DEF Maps, IInv, vars, N!vars, told
<1> QED
  BY <1>1, <1>2, <1>3 DEF Next

LEMMA InitIInv == Init => IInv /\ N!Init
<1> SUFFICES ASSUME Init PROVE IInv /\ N!Init
  OBVIOUS
<1>1. \A c \in Clients : work[c] = Idle
  BY DEF Init
<1>2. ASSUME NEW c \in Clients PROVE WorkAt(c) /\ Told(c) = "idle"
  <2>1. DOMAIN work[c] = Fields /\ work[c].at = "idle"
    BY <1>1 DEF Idle, Fields
  <2>2. WorkAt(c)
    BY <2>1 DEF WorkAt, Busy
  <2>3. Told(c) = "idle"
    BY <2>1 DEF Told, Busy
  <2> QED
    BY <2>2, <2>3
<1>3. Sound(items)
  BY StoredAssumption DEF Init, Sound
<1> QED
  BY <1>2, <1>3 DEF Init, IInv, N!Init, told

\* The code keeps its promises, however many clients and whatever they ask for:
\* each call that reports success did what was asked, as one step; and each one
\* that reports an error, or is killed before it has changed an item, left every
\* item as it was.
THEOREM Refinement == Spec => ImplementsNotes
<1>1. Init => IInv /\ N!Init
  BY InitIInv
<1>2. IInv /\ [Next]_vars => IInv' /\ [N!Next]_(N!vars)
  BY StepMaps DEF Maps
<1> QED
  BY <1>1, <1>2, PTL DEF Spec, ImplementsNotes, N!Spec

-----------------------------------------------------------------------------
(* Answers about items that nobody has touched during the call.            *)

\* What is left of a search list: from some keychain on, or the only one.
Suffixes ==
    {<<"iCloud", "dataProtection", "file">>, <<"dataProtection", "file">>}
        \cup {<<k>> : k \in Kinds}

\* The keychains in it, and those that the first of them excludes.
Ordered(l) ==
    /\ Len(l) \in Nat \ {0} /\ Head(l) \in Kinds /\ Head(l) \in Range(l)
    /\ Len(l) = 1 => Range(l) = {Head(l)}
    /\ Len(l) > 1 => Tail(l) \in Suffixes /\ Range(l) = {Head(l)} \cup Range(Tail(l))
    /\ Head(l) = "dataProtection" => "iCloud" \notin Range(l)
    /\ Head(l) = "file" => Range(l) = {"file"}

LEMMA SuffixFacts == \A l \in Suffixes : Ordered(l)
<1>1. Ordered(<<"iCloud", "dataProtection", "file">>)
  <2>1. Tail(<<"iCloud", "dataProtection", "file">>) = <<"dataProtection", "file">>
    OBVIOUS
  <2> QED
    BY <2>1 DEF Ordered, Range, Suffixes, Kinds
<1>2. Ordered(<<"dataProtection", "file">>)
  <2>1. Tail(<<"dataProtection", "file">>) = <<"file">>
    OBVIOUS
  <2> QED
    BY <2>1 DEF Ordered, Range, Suffixes, Kinds
<1>3. ASSUME NEW k \in Kinds PROVE Ordered(<<k>>)
  BY DEF Ordered, Range
<1> QED
  BY <1>1, <1>2, <1>3 DEF Suffixes

-----------------------------------------------------------------------------
Before(k) == CASE k = "iCloud" -> {} [] k = "dataProtection" -> {"iCloud"}
               [] k = "file" -> {"iCloud", "dataProtection"}

\* What the three properties say of an answer.
Answered(c) ==
    LET w == work[c]
        r == request[c]
        s == steady[c]
    IN  /\ w.found = {} /\ w.err \in {"notExist", "itemNotFound"} => s = {}
        /\ r.op = "read" => \A a \in w.found, b \in s : b.kind \notin Before(a.kind)
        /\ r.op = "query" /\ w.err # "refused" =>
               /\ \A a \in s : Matches(r, a) => a \in w.found \/ a.kind \in w.failed
               /\ w.err = "failed" <=>
                      \A k \in Kinds : r.cfg.typ \in {"all", k} => k \in w.failed

\* a is the attributes of an item that is there and that c can see and asks for.
Watched(c, a) ==
    /\ \E i \in items : a = Attributes(i)
    /\ a.service = request[c].service /\ request[c].cfg.account \in {"", a.account}
    /\ work[c].via = "plugin" \/ a.kind \in sight

\* What a call knows of the items that have been there all the time: those it
\* has not come to yet are in the keychains it has still to look in.
Observed(c) ==
    LET w == work[c]
        r == request[c]
        s == steady[c]
    IN  /\ w.at \notin {"idle", "reply"} => \A a \in s : Watched(c, a)
        /\ w.at \in {"add", "update", "find", "remove", "alter"} =>
               \A a \in s : a.kind = r.cfg.write
        /\ w.at = "look" => /\ r.op = "read" /\ w.found = {} /\ w.list \in Suffixes
                            /\ \A a \in s : a.kind \in Range(w.list)
        /\ w.at = "search" =>
               /\ r.op = "query" /\ w.list \in Suffixes
               /\ Range(w.list) \cup w.failed \subseteq Range(SearchList(r))
               /\ \A a \in s : Matches(r, a) =>
                      a.kind \in Range(w.list) \/ a \in w.found \/ a.kind \in w.failed
        /\ w.at = "reply" => Answered(c)

SInv == IInv /\ DOMAIN steady = Clients /\ \A c \in Clients : Observed(c)

\* A call that makes no step has fewer items left to speak about.
LEMMA Waits ==
    ASSUME NEW c \in Clients, Observed(c), work'[c] = work[c], request'[c] = request[c],
           sight' = sight, steady'[c] \subseteq steady[c],
           work[c].at \notin {"idle", "reply"} =>
               \A a \in steady'[c] : \E i \in items' : a = Attributes(i)
    PROVE  Observed(c)'
<1>1. work[c].at \notin {"idle", "reply"} => \A a \in steady'[c] : Watched(c, a)'
  BY DEF Observed, Watched
<1>2. work[c].at = "reply" => Answered(c)'
  BY DEF Observed, Answered
<1> QED
  BY <1>1, <1>2 DEF Observed

\* The history, for the client that makes a step and for the others.
LEMMA WatchFacts ==
    ASSUME SInv, Watch, NEW c \in Clients
    PROVE  /\ steady'[c] \subseteq steady[c] /\ DOMAIN steady' = Clients
           /\ work[c].at # "reply" => \A a \in steady'[c] : \E i \in items' : a = Attributes(i)
BY DEF Watch

\* Where nothing that is to be changed can be seen, nothing has been there.
LEMMA NothingToChange ==
    ASSUME NEW c \in Clients, Observed(c), Changed(c) = {},
           work[c].at \in {"update", "find", "alter"}
    PROVE  steady[c] = {}
<1> SUFFICES ASSUME NEW a \in steady[c] PROVE FALSE
  OBVIOUS
<1>1. Watched(c, a) /\ a.kind = request[c].cfg.write
  BY DEF Observed
<1>2. PICK i \in items : a = Attributes(i)
  BY <1>1 DEF Watched
<1>3. a.kind = i.kind /\ a.service = i.service /\ a.account = i.account
  BY <1>2 DEF Attributes
<1>4. i \in Changed(c)
  BY <1>1, <1>3 DEF Watched, Changed, Subject, Matching, Seen
<1> QED
  BY <1>4

\* The same for the keychain at the head of a list.
LEMMA Present ==
    ASSUME NEW c \in Clients, NEW a \in steady[c], Watched(c, a)
    PROVE  \E i \in Matching(Seen(c), a.kind, request[c].service, request[c].cfg.account) :
               a = Attributes(i)
<1>1. PICK i \in items : a = Attributes(i)
  BY DEF Watched
<1>2. a.kind = i.kind /\ a.service = i.service /\ a.account = i.account
  BY <1>1 DEF Attributes
<1> QED
  BY <1>1, <1>2 DEF Watched, Matching, Seen

\* An answer to a call that changes items.
LEMMA ChangeAnswered ==
    ASSUME SInv, NEW c \in Clients, NEW e, Finish(c, e), Watch, request' = request,
           request[c].op \notin {"read", "query"},
           work[c].found = {} /\ e \in {"notExist", "itemNotFound"} => steady[c] = {}
    PROVE  Observed(c)'
<1> DEFINE w == [work[c] EXCEPT !.at = "reply", !.err = e]
<1>1. DOMAIN work[c] = Fields /\ work'[c] = w
  BY DEF SInv, IInv, WorkAt, Finish, Move
<1>2. w.at = "reply" /\ w.err = e /\ w.found = work[c].found
  BY <1>1 DEF Fields
<1>3. steady'[c] \subseteq steady[c]
  BY WatchFacts
<1> HIDE DEF w
<1>4. Answered(c)'
  BY <1>1, <1>2, <1>3 DEF Answered
<1> QED
  BY <1>1, <1>2, <1>4 DEF Observed

-----------------------------------------------------------------------------
(* The step of a client, and what it knows after it.                       *)

LEMMA AddObserved ==
    ASSUME SInv, NEW c \in Clients, Add(c), Watch, UNCHANGED sight
    PROVE  Observed(c)'
<1>1. /\ work[c].at = "add" /\ DOMAIN work[c] = Fields /\ request[c].op = "write"
      /\ request' = request /\ Observed(c)
  BY DEF SInv, IInv, WorkAt, Busy, Add
<1>2. CASE Goto(c, "update")
  <2> DEFINE w == [work[c] EXCEPT !.at = "update"]
  <2>1. work'[c] = w /\ w.at = "update" /\ w.via = work[c].via
    BY <1>1, <1>2 DEF SInv, IInv, Goto, Move, Fields
  <2>2. \A a \in steady'[c] : a \in steady[c] /\ \E i \in items' : a = Attributes(i)
    BY <1>1, WatchFacts
  <2> HIDE DEF w
  <2>3. \A a \in steady'[c] : Watched(c, a)' /\ a.kind = request[c].cfg.write
    BY <1>1, <2>1, <2>2 DEF Observed, Watched
  <2> QED
    BY <1>1, <2>1, <2>3 DEF Observed
<1>3. CASE Finish(c, "nil") \/ Finish(c, "exist")
  BY <1>1, <1>3, ChangeAnswered
<1> QED
  BY <1>2, <1>3 DEF Add

LEMMA UpdateObserved ==
    ASSUME SInv, NEW c \in Clients, Update(c), Watch
    PROVE  Observed(c)'
<1>1. /\ work[c].at = "update" /\ request[c].op \in {"write", "update"}
      /\ request' = request /\ Observed(c)
  BY DEF SInv, IInv, WorkAt, Busy, Update
<1>2. CASE Changed(c) = {}
  <2>1. steady[c] = {}
    BY <1>1, <1>2, NothingToChange
  <2> QED
    BY <1>1, <1>2, <2>1, ChangeAnswered DEF Update
<1>3. CASE Changed(c) # {}
  BY <1>1, <1>3, ChangeAnswered DEF Update
<1> QED
  BY <1>2, <1>3

LEMMA FindObserved ==
    ASSUME SInv, NEW c \in Clients, Find(c), Watch, UNCHANGED sight
    PROVE  Observed(c)'
<1>1. /\ work[c].at = "find" /\ DOMAIN work[c] = Fields /\ request[c].op = "delete"
      /\ request' = request /\ Observed(c)
  BY DEF SInv, IInv, WorkAt, Busy, Find
<1>2. CASE Changed(c) = {} /\ Finish(c, "notExist")
  <2>1. steady[c] = {}
    BY <1>1, <1>2, NothingToChange
  <2> QED
    BY <1>1, <1>2, <2>1, ChangeAnswered
<1>3. ASSUME NEW i \in Changed(c),
             Move(c, [work[c] EXCEPT !.at = "remove", !.found = {Attributes(i)}])
      PROVE  Observed(c)'
  <2> DEFINE w == [work[c] EXCEPT !.at = "remove", !.found = {Attributes(i)}]
  <2>1. work'[c] = w /\ w.at = "remove" /\ w.via = work[c].via
    BY <1>1, <1>3 DEF SInv, IInv, Move, Fields
  <2>2. \A a \in steady'[c] : a \in steady[c] /\ \E j \in items' : a = Attributes(j)
    BY <1>1, WatchFacts
  <2> HIDE DEF w
  <2>3. \A a \in steady'[c] : Watched(c, a)' /\ a.kind = request[c].cfg.write
    BY <1>1, <2>1, <2>2 DEF Observed, Watched
  <2> QED
    BY <1>1, <2>1, <2>3 DEF Observed
<1> QED
  BY <1>2, <1>3 DEF Find

LEMMA RemoveObserved ==
    ASSUME SInv, NEW c \in Clients, Remove(c), Watch
    PROVE  Observed(c)'
<1>1. work[c].at = "remove" /\ request[c].op = "delete" /\ request' = request
  BY DEF SInv, IInv, WorkAt, Busy, Remove
<1>2. work[c].found # {}
  BY <1>1 DEF SInv, IInv, WorkAt
<1>3. Finish(c, "itemNotFound") \/ Finish(c, "nil")
  BY DEF Remove
<1> QED
  BY <1>1, <1>2, <1>3, ChangeAnswered

LEMMA AlterObserved ==
    ASSUME SInv, NEW c \in Clients, Alter(c), Watch
    PROVE  Observed(c)'
<1>1. work[c].at = "alter" /\ request[c].op = "set" /\ request' = request /\ Observed(c)
  BY DEF SInv, IInv, WorkAt, Busy, Alter
<1>2. \/ Changed(c) = {} /\ Finish(c, "notExist")
      \/ Finish(c, "duplicate") \/ Finish(c, "nil")
  BY DEF Alter
<1>3. CASE Changed(c) = {} /\ Finish(c, "notExist")
  <2>1. steady[c] = {}
    BY <1>1, <1>3, NothingToChange
  <2> QED
    BY <1>1, <1>3, <2>1, ChangeAnswered
<1>4. CASE Finish(c, "duplicate") \/ Finish(c, "nil")
  BY <1>1, <1>4, ChangeAnswered
<1> QED
  BY <1>2, <1>3, <1>4

LEMMA LookObserved ==
    ASSUME SInv, NEW c \in Clients, Look(c), Watch, UNCHANGED sight
    PROVE  Observed(c)'
<1> DEFINE w == work[c]
           k == Head(w.list)
           there == Matching(Seen(c), k, request[c].service, request[c].cfg.account)
<1>1. /\ w.at = "look" /\ DOMAIN w = Fields /\ request' = request
      /\ request[c].op = "read" /\ w.found = {} /\ w.list \in Suffixes
      /\ \A a \in steady[c] : Watched(c, a) /\ a.kind \in Range(w.list)
  BY DEF SInv, IInv, WorkAt, Observed, Look
<1>2. Ordered(w.list)
  BY <1>1, SuffixFacts
<1>3. \A a \in steady'[c] : a \in steady[c] /\ \E i \in items' : a = Attributes(i)
  BY <1>1, WatchFacts
<1>4. ASSUME there = {}, NEW a \in steady[c] PROVE a.kind # k
  BY <1>1, <1>4, Present
<1>5. CASE there = {} /\ Len(w.list) = 1 /\ Finish(c, "notExist")
  <2> DEFINE v == [w EXCEPT !.at = "reply", !.err = "notExist"]
  <2>1. steady[c] = {}
    BY <1>1, <1>2, <1>4, <1>5 DEF Ordered
  <2>2. work'[c] = v /\ v.at = "reply" /\ v.found = {}
    BY <1>1, <1>5 DEF SInv, IInv, Finish, Move, Fields
  <2> HIDE DEF v
  <2> QED
    BY <1>1, <1>3, <2>1, <2>2 DEF Observed, Answered
<1>6. CASE there = {} /\ Len(w.list) > 1 /\ Move(c, [w EXCEPT !.list = Tail(@)])
  <2> DEFINE v == [w EXCEPT !.list = Tail(@)]
  <2>1. /\ work'[c] = v /\ v.at = "look" /\ v.via = w.via /\ v.found = {}
        /\ v.list = Tail(w.list)
    BY <1>1, <1>6 DEF SInv, IInv, Move, Fields
  <2>2. v.list \in Suffixes /\ \A a \in steady[c] : a.kind \in Range(v.list)
    BY <1>1, <1>2, <1>4, <1>6, <2>1 DEF Ordered
  <2> HIDE DEF v
  <2>3. \A a \in steady'[c] : Watched(c, a)'
    BY <1>1, <1>3, <2>1 DEF Watched
  <2> QED
    BY <1>1, <1>3, <2>1, <2>2, <2>3 DEF Observed
<1>7. ASSUME NEW i \in there,
             Move(c, [w EXCEPT !.at = "reply", !.err = Extracted(i), !.found = {Attributes(i)}])
      PROVE  Observed(c)'
  <2> DEFINE v == [w EXCEPT !.at = "reply", !.err = Extracted(i), !.found = {Attributes(i)}]
  <2>1. work'[c] = v /\ v.at = "reply" /\ v.found = {Attributes(i)}
    BY <1>1, <1>7 DEF SInv, IInv, Move, Fields
  <2>2. Attributes(i).kind = k
    BY DEF Matching, Attributes
  <2>3. \A a \in steady[c] : a.kind \notin Before(k)
    BY <1>1, <1>2 DEF Ordered, Before, Kinds
  <2> HIDE DEF v
  <2> QED
    BY <1>1, <1>3, <2>1, <2>2, <2>3 DEF Observed, Answered
<1> QED
  BY <1>5, <1>6, <1>7 DEF Look

\* A list to search is that of all keychains, or one of them.
LEMMA SearchListFacts ==
    ASSUME NEW r \in Requests
    PROVE  /\ SearchList(r) \in Suffixes
           /\ \A k \in Kinds : k \in Range(SearchList(r)) <=> r.cfg.typ \in {"all", k}
           /\ Range(SearchList(r)) \subseteq Kinds
<1>1. r.cfg.typ \in Kinds \cup {"all"}
  BY RequestsAssumption DEF Request, Config
<1>2. CASE r.cfg.typ = "all"
  <2>1. SearchList(r) = <<"iCloud", "dataProtection", "file">>
    BY <1>2 DEF SearchList, searchListAll
  <2>2. Range(SearchList(r)) = Kinds
    BY <2>1 DEF Range, Kinds
  <2> QED
    BY <1>2, <2>1, <2>2 DEF Suffixes
<1>3. CASE r.cfg.typ \in Kinds
  <2>1. SearchList(r) = <<r.cfg.typ>> /\ r.cfg.typ # "all"
    BY <1>3 DEF SearchList, Kinds
  <2>2. Range(SearchList(r)) = {r.cfg.typ}
    BY <2>1 DEF Range
  <2> QED
    BY <1>3, <2>1, <2>2 DEF Suffixes
<1> QED
  BY <1>1, <1>2, <1>3

LEMMA SearchObserved ==
    ASSUME SInv, NEW c \in Clients, Search(c), Watch, UNCHANGED sight
    PROVE  Observed(c)'
<1> DEFINE w == work[c]
           r == request[c]
           s == steady[c]
           k == Head(w.list)
           there == Matching(Seen(c), k, r.service, r.cfg.account)
           more == w.found \cup {Attributes(i) : i \in {j \in there : Matches(r, j)}}
           last == Len(w.list) = 1
           end == IF last THEN "reply" ELSE w.at
           err(g) == CASE ~last -> w.err
                       [] last /\ g = Range(SearchList(r)) -> "failed"
                       [] OTHER -> "nil"
           known(a, f, g) == a \in f \/ a.kind \in g
<1>1. /\ w.at = "search" /\ DOMAIN w = Fields /\ request' = request /\ r \in Requests
      /\ r.op = "query" /\ w.list \in Suffixes
      /\ Range(w.list) \cup w.failed \subseteq Range(SearchList(r))
      /\ \A a \in s : Watched(c, a)
      /\ \A a \in s : Matches(r, a) => a.kind \in Range(w.list) \/ known(a, w.found, w.failed)
  BY DEF SInv, IInv, WorkAt, Busy, Observed, Search
<1>2. Ordered(w.list)
  BY <1>1, SuffixFacts
<1>3. \A a \in steady'[c] : a \in s /\ \E i \in items' : a = Attributes(i)
  BY <1>1, WatchFacts
<1>4. k \in Range(SearchList(r))
  BY <1>1, <1>2 DEF Ordered
\* What is left to look in, and what is known of the rest, after this keychain.
<1>5. PICK f, g :
        /\ Move(c, [w EXCEPT !.found = f, !.failed = g, !.list = Tail(@),
                             !.at = end, !.err = err(g)])
        /\ g \subseteq Range(SearchList(r))
        /\ \A a \in s : Matches(r, a) => a.kind \in Range(w.list) \ {k} \/ known(a, f, g)
  <2>1. ASSUME NEW a \in s, Matches(r, a), a.kind = k PROVE a \in more
    <3>1. PICK i \in there : a = Attributes(i)
      BY <1>1, <2>1, Present
    <3>2. Matches(r, i)
      BY <2>1, <3>1 DEF Matches, Attributes
    <3> QED
      BY <3>1, <3>2
  <2>2. CASE Move(c, [w EXCEPT !.found = more, !.failed = w.failed, !.list = Tail(@),
                               !.at = end, !.err = err(w.failed)])
    <3>1. \A a \in s : Matches(r, a) => a.kind \in Range(w.list) \ {k} \/ known(a, more, w.failed)
      BY <1>1, <2>1
    <3> HIDE DEF more, err, end, known
    <3> QED
      BY <1>1, <2>2, <3>1
  <2>3. CASE Move(c, [w EXCEPT !.found = w.found, !.failed = w.failed \cup {k}, !.list = Tail(@),
                               !.at = end, !.err = err(w.failed \cup {k})])
    <3>1. \A a \in s : Matches(r, a) =>
              a.kind \in Range(w.list) \ {k} \/ known(a, w.found, w.failed \cup {k})
      BY <1>1
    <3>2. w.failed \cup {k} \subseteq Range(SearchList(r))
      BY <1>1, <1>4
    <3> DEFINE g == w.failed \cup {k}
    <3> HIDE DEF err, end, known, k, g
    <3>3. Move(c, [w EXCEPT !.found = w.found, !.failed = g, !.list = Tail(@),
                            !.at = end, !.err = err(g)])
      BY <2>3 DEF g
    <3>4. \A a \in s : Matches(r, a) => a.kind \in Range(w.list) \ {k} \/ known(a, w.found, g)
      BY <3>1 DEF g
    <3>5. g \subseteq Range(SearchList(r))
      BY <3>2 DEF g
    <3> QED
      BY <3>3, <3>4, <3>5
  <2> QED
    BY <2>2, <2>3 DEF Search
<1> DEFINE v == [w EXCEPT !.found = f, !.failed = g, !.list = Tail(@),
                          !.at = end, !.err = err(g)]
<1>6. /\ work'[c] = v /\ v.at = end /\ v.err = err(g) /\ v.via = w.via
      /\ v.found = f /\ v.failed = g /\ v.list = Tail(w.list)
  BY <1>1, <1>5 DEF SInv, IInv, Move, Fields
<1> HIDE DEF v
<1>7. CASE ~last
  <2>1. v.list \in Suffixes /\ Range(w.list) = {k} \cup Range(v.list) /\ v.at = "search"
    <3> DEFINE n == Len(w.list)
    <3>0. n \in Nat \ {0} /\ n # 1
      BY <1>2, <1>7 DEF Ordered
    <3> HIDE DEF n
    <3>1. n > 1
      BY <3>0
    <3> USE DEF n
    <3>2. Tail(w.list) \in Suffixes /\ Range(w.list) = {k} \cup Range(Tail(w.list))
      BY <1>2, <3>1 DEF Ordered
    <3> QED
      BY <1>1, <1>6, <1>7, <3>2
  <2>2. \A a \in steady'[c] : Watched(c, a)'
    BY <1>1, <1>3, <1>6 DEF Watched
  <2>3. \A a \in steady'[c] : Matches(r, a) =>
            a.kind \in Range(v.list) \/ a \in v.found \/ a.kind \in v.failed
    BY <1>3, <1>5, <1>6, <2>1
  <2>4. Range(v.list) \cup v.failed \subseteq Range(SearchList(r))
    BY <1>1, <1>5, <1>6, <2>1
  <2> QED
    BY <1>1, <1>6, <2>1, <2>2, <2>3, <2>4 DEF Observed
<1>8. CASE last
  <2>1. Range(w.list) = {k} /\ v.at = "reply" /\ v.err \in {"failed", "nil"}
    BY <1>2, <1>6, <1>8 DEF Ordered
  <2>2. \A a \in steady'[c] : Matches(r, a) => a \in v.found \/ a.kind \in v.failed
    BY <1>3, <1>5, <1>6, <2>1
  <2>3. v.err = "failed" <=> v.failed = Range(SearchList(r))
    BY <1>6, <1>8
  <2>4. v.err = "failed" <=> \A l \in Kinds : r.cfg.typ \in {"all", l} => l \in v.failed
    BY <1>1, <1>5, <1>6, <2>3, SearchListFacts
  <2>5. Answered(c)'
    BY <1>1, <1>6, <2>1, <2>2, <2>4 DEF Answered
  <2> QED
    BY <1>6, <2>1, <2>5 DEF Observed
<1> QED
  BY <1>7, <1>8

LEMMA FailObserved ==
    ASSUME SInv, NEW c \in Clients, Fail(c), Watch
    PROVE  Observed(c)'
<1> DEFINE w == [work[c] EXCEPT !.at = "reply", !.err = "failed"]
<1>1. /\ DOMAIN work[c] = Fields /\ request' = request
      /\ work[c].at \in {"add", "update", "look", "find", "remove", "alter"}
  BY DEF SInv, IInv, WorkAt, Fail
<1>2. work'[c] = w /\ w.at = "reply" /\ w.err = "failed" /\ w.found = work[c].found
  BY <1>1 DEF SInv, IInv, Fail, Finish, Move, Fields
<1>3. /\ request[c].op # "query"
      /\ request[c].op = "read" => work[c].found = {}
  BY <1>1 DEF SInv, IInv, WorkAt, Observed
<1> HIDE DEF w
<1>4. Answered(c)'
  BY <1>1, <1>2, <1>3 DEF Answered
<1> QED
  BY <1>2, <1>4 DEF Observed

LEMMA EndObserved ==
    ASSUME SInv, NEW c \in Clients, End(c)
    PROVE  Observed(c)'
<1>1. work'[c].at = "idle"
  BY DEF SInv, IInv, End, Move, Idle
<1> QED
  BY <1>1 DEF Observed

LEMMA StartObserved ==
    ASSUME SInv, NEW c \in Clients, Start(c)
    PROVE  Observed(c)'
<1>1. PICK r \in Requests :
        /\ request' = [request EXCEPT ![c] = r]
        /\ Move(c, IF Refused(r) THEN [Idle EXCEPT !.at = "reply", !.err = "refused"]
                                 ELSE Begin(r))
        /\ steady' = [steady EXCEPT ![c] = {Attributes(i) : i \in Concerned(r)}]
        /\ items' = items /\ sight' = sight
  BY DEF Start
<1>2. request'[c] = r /\ steady'[c] = {Attributes(i) : i \in Concerned(r)}
  BY <1>1 DEF SInv, IInv
<1>3. CASE Refused(r)
  <2> DEFINE w == [Idle EXCEPT !.at = "reply", !.err = "refused"]
  <2>1. work'[c] = w /\ w.at = "reply" /\ w.err = "refused" /\ w.found = {}
    BY <1>1, <1>3 DEF SInv, IInv, Move, Idle
  <2> HIDE DEF w
  <2> QED
    BY <1>2, <2>1 DEF Observed, Answered
<1>4. CASE ~Refused(r)
  <2> DEFINE w == Begin(r)
             list == SearchList(r)
  <2>1. work'[c] = w
    BY <1>1, <1>4 DEF SInv, IInv, Move
  <2>2. /\ w.at = FirstStep(r.op) /\ w.found = {} /\ w.failed = {}
        /\ w.via = IF locatePlugin(r) = "plugin" THEN "plugin" ELSE "direct"
        /\ r.op \in {"read", "query"} => w.list = list
    BY DEF Begin, Idle
  <2> HIDE DEF w
  <2>3. r.op \in Changing \cup {"read", "query"}
    BY RequestsAssumption DEF Request, Changing
  <2>4. /\ r.op \in Changing => FirstStep(r.op) \in {"add", "update", "find", "alter"}
        /\ r.op = "read" => FirstStep(r.op) = "look"
        /\ r.op = "query" => FirstStep(r.op) = "search"
    BY DEF FirstStep, Changing
  <2>5. ASSUME NEW a \in steady'[c]
        PROVE  /\ Watched(c, a)'
               /\ r.op \in Changing => a.kind = r.cfg.write
               /\ r.op \notin Changing => a.kind \in Range(list)
    <3>1. PICK i \in Concerned(r) : a = Attributes(i)
      BY <1>2
    <3>2. /\ a.kind = i.kind /\ a.service = i.service /\ a.account = i.account
      BY <3>1 DEF Attributes
    <3>3. /\ i \in items /\ i.service = r.service /\ r.cfg.account \in {"", i.account}
          /\ locatePlugin(r) = "plugin" \/ i.kind \in sight
          /\ r.op \in Changing => i.kind = r.cfg.write
          /\ r.op \notin Changing => i.kind \in Range(list)
      BY <3>1 DEF Concerned, Matching
    <3>4. Watched(c, a)'
      BY <1>1, <1>2, <2>1, <2>2, <3>1, <3>2, <3>3 DEF Watched
    <3> QED
      BY <3>2, <3>3, <3>4
  <2>6. CASE r.op \in Changing
    BY <1>2, <2>1, <2>2, <2>4, <2>5, <2>6 DEF Observed
  <2>7. CASE r.op = "read"
    <3>1. r.op \notin Changing /\ list \in Suffixes
      BY <2>7, SearchListFacts DEF Changing
    <3> QED
      BY <1>2, <2>1, <2>2, <2>4, <2>5, <2>7, <3>1 DEF Observed
  <2>8. CASE r.op = "query"
    <3>1. r.op \notin Changing /\ list \in Suffixes
      BY <2>8, SearchListFacts DEF Changing
    <3> QED
      BY <1>2, <2>1, <2>2, <2>4, <2>5, <2>8, <3>1 DEF Observed
  <2> QED
    BY <2>3, <2>6, <2>7, <2>8
<1> QED
  BY <1>3, <1>4

\* Every step keeps the invariant.
LEMMA StepObserved ==
    ASSUME SInv, [Next]_vars
    PROVE  SInv'
<1>1. IInv'
  BY StepMaps DEF SInv, Maps
<1>2. ASSUME NEW c \in Clients, Start(c) PROVE SInv'
  <2>1. /\ items' = items /\ sight' = sight /\ DOMAIN steady' = Clients
        /\ \A d \in Clients \ {c} : /\ work'[d] = work[d] /\ request'[d] = request[d]
                                    /\ steady'[d] = steady[d]
    BY <1>2 DEF SInv, IInv, Start, Move
  <2>2. ASSUME NEW d \in Clients \ {c} PROVE Observed(d)'
    <3>1. Observed(d)
      BY DEF SInv
    <3>2. work[d].at \notin {"idle", "reply"} =>
              \A a \in steady'[d] : \E i \in items' : a = Attributes(i)
      BY <2>1, <3>1 DEF Observed, Watched
    <3> QED
      BY <2>1, <3>1, <3>2, Waits
  <2> QED
    BY <1>1, <1>2, <2>1, <2>2, StartObserved DEF SInv
<1>3. ASSUME NEW c \in Clients, Step(c), Watch, UNCHANGED <<plugin, sight>> PROVE SInv'
  <2>1. Observed(c)'
    BY <1>3, AddObserved, UpdateObserved, LookObserved, FindObserved, RemoveObserved,
       AlterObserved, SearchObserved, FailObserved, EndObserved DEF Step
  <2>2. ASSUME NEW d \in Clients \ {c} PROVE Observed(d)'
    <3>1. work'[d] = work[d] /\ request'[d] = request[d]
      <4>1. \E w : Move(c, w)
        BY <1>3 DEF Step, Add, Update, Look, Find, Remove, Alter, Search, Fail, End, Goto, Finish
      <4>2. work'[d] = work[d]
        BY <4>1 DEF Move, SInv, IInv
      <4>3. request' = request \/ request' = [request EXCEPT ![c] = Nil]
        BY <1>3 DEF Step, Add, Update, Look, Find, Remove, Alter, Search, Fail, End
      <4> QED
        BY <4>2, <4>3 DEF SInv, IInv
    <3>2. Observed(d)
      BY DEF SInv
    <3> QED
      BY <1>3, <3>1, <3>2, WatchFacts, Waits
  <2> QED
    BY <1>1, <1>3, <2>1, <2>2, WatchFacts DEF SInv
<1>4. CASE UNCHANGED vars
  <2>1. ASSUME NEW d \in Clients PROVE Observed(d)'
    BY <1>4 DEF SInv, vars, Observed, Answered, Watched
  <2> QED
    BY <1>1, <1>4, <2>1 DEF SInv, vars
<1> QED
  BY <1>2, <1>3, <1>4 DEF Next

\* What calls know, for any clients, requests, contents and plugins.
THEOREM Observation == Spec => []SInv
<1>1. Init => SInv
  <2> SUFFICES ASSUME Init PROVE SInv
    OBVIOUS
  <2>1. IInv
    BY InitIInv
  <2>2. \A c \in Clients : work[c].at = "idle"
    BY DEF Init, Idle
  <2>3. \A c \in Clients : Observed(c)
    BY <2>2 DEF Observed
  <2> QED
    BY <2>1, <2>3 DEF SInv, Init
<1>2. SInv /\ [Next]_vars => SInv'
  BY StepObserved
<1> QED
  BY <1>1, <1>2, PTL DEF Spec

LEMMA RepliesAnswer ==
    ASSUME SInv, NEW c \in Clients, work[c].at = "reply"
    PROVE  Answered(c)
BY DEF SInv, Observed

\* Who is told that there is no such item is told so rightly, whatever others
\* do between the keychains that are searched.
THEOREM AbsenceIsRealAlways == Spec => []AbsenceIsReal
<1>1. SInv => AbsenceIsReal
  BY RepliesAnswer DEF AbsenceIsReal, Answered
<1> QED
  BY <1>1, Observation, PTL

\* No note is read from a keychain that another one comes before, in which the
\* note has been all the time.
THEOREM FirstIsReadAlways == Spec => []FirstIsRead
<1>1. SInv => FirstIsRead
  BY RepliesAnswer DEF FirstIsRead, Answered, Before
<1> QED
  BY <1>1, Observation, PTL

\* A query misses nothing but what is in a keychain that failed, and fails only
\* if all have.
THEOREM QueryIsCompleteAlways == Spec => []QueryIsComplete
<1>1. SInv => QueryIsComplete
  BY RepliesAnswer DEF QueryIsComplete, Answered
<1> QED
  BY <1>1, Observation, PTL

-----------------------------------------------------------------------------
(* What Notes promises keeps, and so do the calls that implement it.       *)

\* Notes is about the same items.
LEMMA SameItems ==
    /\ N!Kinds = Kinds /\ N!Changing = Changing
    /\ \A S, r : N!Subject(S, r) = Subject(S, r)
    /\ \A r : N!Note(r) = Note(r)
    /\ \A i, d : N!Overwritten(i, d) = Overwritten(i, d)
    /\ \A i, p : N!Altered(i, p) = Altered(i, p)
    /\ \A i : N!Key(i) = Key(i)
BY DEF N!Kinds, Kinds, N!Changing, Changing, N!Subject, Subject, N!Matching, Matching, N!Note, Note,
       N!Overwritten, Overwritten, N!Altered, Altered, N!Key, Key

NotesInv ==
    /\ Sound(items)
    /\ request \in [Clients -> Requests \cup {Nil}]
    /\ DOMAIN told = Clients
    /\ \A c \in Clients : told[c] = "pending" => request[c] \in Requests

\* A step of one client: what is known in each proof below.
LEMMA NotesAsked ==
    ASSUME NotesInv, NEW c \in Clients, NEW ops, NEW e, N!Tell(c, ops, e), e # "pending"
    PROVE  /\ request[c] \in Requests /\ request[c].op \in ops
           /\ request' = request /\ DOMAIN told' = Clients
           /\ \A d \in Clients : told'[d] = "pending" => request'[d] \in Requests
BY DEF NotesInv, N!Tell

\* Items keep their types and their keys apart, whoever does what.
THEOREM NotesInvariance == N!Spec => []NotesInv
<1>1. N!Init => NotesInv
  BY StoredAssumption DEF N!Init, NotesInv, Sound
<1>2. NotesInv /\ [N!Next]_(N!vars) => NotesInv'
  <2> SUFFICES ASSUME NotesInv, [N!Next]_(N!vars) PROVE NotesInv'
    OBVIOUS
  <2>1. ASSUME NEW c \in Clients, N!Ask(c) PROVE NotesInv'
    BY <2>1 DEF N!Ask, NotesInv
  <2>2. ASSUME NEW c \in Clients, N!Create(c) PROVE NotesInv'
    <3>1. /\ request[c] \in Requests /\ request[c].op = "write" /\ request' = request
          /\ DOMAIN told' = Clients
          /\ \A d \in Clients : told'[d] = "pending" => request'[d] \in Requests
      BY <2>2, NotesAsked DEF N!Create
    <3>2. Sound(items')
      BY <2>2, <3>1, NoteAdded, SameItems DEF N!Create, NotesInv
    <3> QED
      BY <3>1, <3>2 DEF NotesInv
  <2>3. ASSUME NEW c \in Clients, N!Overwrite(c) PROVE NotesInv'
    <3>1. /\ request[c] \in Requests /\ request' = request /\ DOMAIN told' = Clients
          /\ \A d \in Clients : told'[d] = "pending" => request'[d] \in Requests
      BY <2>3, NotesAsked DEF N!Overwrite
    <3>2. PICK i \in items : items' = (items \ {i}) \cup {Overwritten(i, request[c].data)}
      BY <2>3, SameItems DEF N!Overwrite, Subject, Matching
    <3>3. Sound(items')
      BY <3>1, <3>2, ItemOverwritten DEF NotesInv
    <3> QED
      BY <3>1, <3>3 DEF NotesInv
  <2>4. ASSUME NEW c \in Clients, N!Remove(c) PROVE NotesInv'
    <3>1. /\ request' = request /\ DOMAIN told' = Clients
          /\ \A d \in Clients : told'[d] = "pending" => request'[d] \in Requests
      BY <2>4, NotesAsked DEF N!Remove
    <3>2. items' \subseteq items
      BY <2>4 DEF N!Remove
    <3> QED
      BY <3>1, <3>2 DEF NotesInv, Sound, Distinct
  <2>5. ASSUME NEW c \in Clients, N!Alter(c) PROVE NotesInv'
    <3>1. /\ request[c] \in Requests /\ request' = request /\ DOMAIN told' = Clients
          /\ \A d \in Clients : told'[d] = "pending" => request'[d] \in Requests
      BY <2>5, NotesAsked DEF N!Alter
    <3>2. Subject(items, request[c]) \subseteq items
      BY DEF Subject, Matching
    <3> DEFINE r == request[c]
               subject == Subject(items, r)
    <3>3. /\ items' = (items \ subject) \cup {Altered(i, r.props) : i \in subject}
          /\ \A i \in subject, j \in items :
                 i # j => Key(Altered(i, r.props)) #
                          Key(IF j \in subject THEN Altered(j, r.props) ELSE j)
      BY <2>5, SameItems DEF N!Alter
    <3>4. Sound(items')
      <4> HIDE DEF subject
      <4> QED
        BY <3>1, <3>2, <3>3, ItemsAltered DEF NotesInv, subject
    <3> QED
      BY <3>1, <3>4 DEF NotesInv
  <2>6. ASSUME NEW c \in Clients, N!Consult(c) PROVE NotesInv'
    BY <2>6, NotesAsked DEF N!Consult, NotesInv
  <2>7. ASSUME NEW c \in Clients, N!Fail(c) PROVE NotesInv'
    BY <2>7, NotesAsked DEF N!Fail, N!Errors, NotesInv
  <2>8. ASSUME NEW c \in Clients, N!End(c) PROVE NotesInv'
    BY <2>8 DEF N!End, NotesInv
  <2>9. CASE UNCHANGED N!vars
    BY <2>9 DEF N!vars, NotesInv
  <2> QED
    BY <2>1, <2>2, <2>3, <2>4, <2>5, <2>6, <2>7, <2>8, <2>9 DEF N!Next
<1> QED
  BY <1>1, <1>2, PTL DEF N!Spec

\* No contents disappear but at the hand of a client that is deleting or
\* overwriting the item: not when an item gets new properties, not when it is
\* written again without the leave to update it in place.
THEOREM NotesOnlyAskedLosses == N!Spec => N!OnlyAskedLosses
<1>1. NotesInv /\ [N!Next]_(N!vars) => [N!ContentsKept]_(N!vars)
  <2> SUFFICES ASSUME NotesInv, N!Next PROVE N!ContentsKept
    OBVIOUS
  <2>1. ASSUME items \subseteq items' PROVE N!ContentsKept
    BY <2>1 DEF N!ContentsKept
  <2>2. ASSUME NEW c \in Clients, N!Create(c) PROVE N!ContentsKept
    BY <2>1, <2>2 DEF N!Create
  <2>3. ASSUME NEW c \in Clients, N!Overwrite(c) PROVE N!ContentsKept
    <3>1. PICK i \in Subject(items, request[c]) :
              items' = (items \ {i}) \cup {Overwritten(i, request[c].data)}
      BY <2>3, SameItems DEF N!Overwrite
    <3>2. told[c] = "pending" /\ \/ request[c].op = "update"
                                 \/ request[c].op = "write" /\ request[c].cfg.inPlace
      BY <2>3 DEF N!Overwrite, N!Tell
    <3> QED
      BY <3>1, <3>2, SameItems DEF N!ContentsKept
  <2>4. ASSUME NEW c \in Clients, N!Remove(c) PROVE N!ContentsKept
    <3>1. PICK i \in Subject(items, request[c]) : items' = items \ {i}
      BY <2>4, SameItems DEF N!Remove
    <3>2. told[c] = "pending" /\ request[c].op = "delete"
      BY <2>4 DEF N!Remove, N!Tell
    <3> QED
      BY <3>1, <3>2, SameItems DEF N!ContentsKept
  <2>5. ASSUME NEW c \in Clients, N!Alter(c), NEW i \in items
        PROVE  \E j \in items' : j.kind = i.kind /\ j.service = i.service /\ j.data = i.data
    <3> DEFINE subject == Subject(items, request[c])
               new(j) == Altered(j, request[c].props)
    <3>1. items' = (items \ subject) \cup {new(j) : j \in subject}
      BY <2>5, SameItems DEF N!Alter
    <3>2. request[c] \in Requests
      BY <2>5, NotesAsked DEF N!Alter
    <3>3. new(i).kind = i.kind /\ new(i).service = i.service /\ new(i).data = i.data
      BY <3>2, AlteredItem DEF NotesInv, Sound
    <3> HIDE DEF subject, new
    <3> QED
      BY <3>1, <3>3
  <2>6. ASSUME NEW c \in Clients, N!Ask(c) \/ N!Consult(c) \/ N!Fail(c) \/ N!End(c)
        PROVE  N!ContentsKept
    BY <2>1, <2>6 DEF N!Ask, N!Consult, N!Fail, N!End
  <2> QED
    BY <2>2, <2>3, <2>4, <2>5, <2>6 DEF N!Next, N!ContentsKept
<1> QED
  BY <1>1, NotesInvariance, PTL DEF N!Spec, N!OnlyAskedLosses

\* The calls lose nothing either that nobody asked to lose, whatever plugins
\* and keychains they go through.
THEOREM OnlyAskedLossesAlways == Spec => N!OnlyAskedLosses
  BY Refinement, NotesOnlyAskedLosses DEF ImplementsNotes
=============================================================================
