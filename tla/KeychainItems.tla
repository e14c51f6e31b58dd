--------------------------- MODULE KeychainItems ----------------------------
(***************************************************************************)
(* The items of the macOS keychains and what src/keychain asks of them.    *)
(*                                                                         *)
(* An item is a record: kind (the keychain that holds it), service and      *)
(* account, which identify it there, data, desc and access.  A request is a *)
(* record: op, service, data (what is written), props (what "set" changes,  *)
(* "" for what it leaves), notes (whether "query" is for secure notes only) *)
(* and cfg, the plugin.Config: typ, write (WriteType, or the type of a      *)
(* keychain.T made without one), account, access, inPlace, direct, only     *)
(* (OnlyUsePlugin).                                                        *)
(***************************************************************************)

CONSTANTS
    Text,       \* names, contents, and the values of attributes
    Requests,   \* what clients ask for
    Stored      \* what the keychains may hold at first

ASSUME TextAssumption == {"", "secure note"} \subseteq Text

Kinds == {"file", "dataProtection", "iCloud"}

Item == [kind : Kinds, service : Text, account : Text,
         data : Text, desc : Text, access : Text]

Config == [typ : Kinds \cup {"all"}, write : Kinds \cup {"all"}, account : Text,
           access : Text, inPlace : BOOLEAN, direct : BOOLEAN, only : BOOLEAN]

Request == [op : {"read", "query", "write", "update", "delete", "set"}, service : Text,
            data : Text, notes : BOOLEAN, cfg : Config,
            props : [account : Text, desc : Text, access : Text]]

\* The operations that may change an item.
Changing == {"write", "update", "delete", "set"}

Key(i) == <<i.kind, i.service, i.account>>

\* An item but for its contents.
Attributes(i) ==
    [kind |-> i.kind, service |-> i.service, account |-> i.account,
     desc |-> i.desc, access |-> i.access]

\* No two items of S have the same key.
Distinct(S) == \A i, j \in S : Key(i) = Key(j) => i = j

\* A query that names no account matches the items of all.
Matching(S, kind, service, account) ==
    {i \in S : i.kind = kind /\ i.service = service /\ account \in {"", i.account}}

\* The items that a request to change some is about.
Subject(S, r) == Matching(S, r.cfg.write, r.service, r.cfg.account)

Note(r) ==
    [kind |-> r.cfg.write, service |-> r.service, account |-> r.cfg.account,
     data |-> r.data, desc |-> "secure note",
     access |-> IF r.cfg.write = "file" THEN "" ELSE r.cfg.access]

Overwritten(i, data) == [i EXCEPT !.data = data]

\* Only what p names changes.
Altered(i, p) ==
    [i EXCEPT !.account = IF p.account = "" THEN @ ELSE p.account,
              !.desc = IF p.desc = "" THEN @ ELSE p.desc,
              !.access = IF p.access = "" THEN @ ELSE p.access]

\* Properties p can be set for an item in the keychain typ.
Validate(p, typ) ==
    /\ typ # "all"
    /\ p.account # "" \/ p.desc # "" \/ p.access # ""
    /\ p.access # "" => typ # "file"

\* An account is always named by those who write (it defaults to the user).
ASSUME RequestsAssumption ==
    /\ Requests \subseteq Request
    /\ \A r \in Requests : r.op \in {"write", "update"} => r.cfg.account # ""

\* A key identifies an item.
ASSUME StoredAssumption ==
    \A S \in Stored : S \subseteq Item /\ Distinct(S)
=============================================================================
