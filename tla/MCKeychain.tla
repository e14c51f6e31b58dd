----------------------------- MODULE MCKeychain -----------------------------
(* Requests, and what there is at first, for model-checking Keychain.      *)
EXTENDS Keychain, TLC

Cfg(typ, write, account) ==
    [typ |-> typ, write |-> write, account |-> account, access |-> "unlocked",
     inPlace |-> FALSE, direct |-> FALSE, only |-> FALSE]

InPlace(cfg) == [cfg EXCEPT !.inPlace = TRUE]

Ask(op, cfg) ==
    [op |-> op, service |-> "s", data |-> "note", notes |-> FALSE, cfg |-> cfg,
     props |-> [account |-> "", desc |-> "", access |-> ""]]

\* Notes are written, to a keychain where there may be one already, and are
\* updated where there may be none.
Writes ==
    {Ask("write", Cfg("iCloud", "iCloud", "a")),
     Ask("write", InPlace(Cfg("all", "iCloud", "a"))),
     Ask("write", Cfg("all", "all", "a")),
     Ask("update", Cfg("file", "file", "a"))}

\* They are deleted, of an account or of any.
Deletes == {Ask("delete", Cfg("iCloud", "iCloud", "a")), Ask("delete", Cfg("file", "file", ""))}

Reads ==
    {Ask("read", Cfg("all", "file", "a")),
     [Ask("read", Cfg("dataProtection", "file", "a")) EXCEPT !.cfg.direct = TRUE],
     [Ask("read", Cfg("file", "file", "a")) EXCEPT !.cfg.direct = TRUE, !.cfg.only = TRUE],
     [Ask("query", Cfg("all", "file", "")) EXCEPT !.notes = TRUE],
     Ask("query", Cfg("iCloud", "file", "a"))}

\* Items are given to another account, described otherwise, and made
\* accessible where there is no such thing.
Sets ==
    {[Ask("set", Cfg("file", "file", "")) EXCEPT !.props.account = "a"],
     [Ask("set", Cfg("file", "file", "")) EXCEPT !.props.desc = "other"],
     [Ask("set", Cfg("iCloud", "file", "a")) EXCEPT !.props.access = "always"]}

SomeRequests == Writes \cup Deletes \cup Reads \cup Sets

Stores(kind, account, data) ==
    [kind |-> kind, service |-> "s", account |-> account, data |-> data,
     desc |-> "secure note", access |-> IF kind = "file" THEN "" ELSE "unlocked"]

SomeStored ==
    {{Stores("dataProtection", "a", "note"), Stores("file", "a", ""), Stores("file", "b", "text")},
     {Stores("iCloud", "a", "other"), Stores("file", "b", "text")}}

SomeText ==
    {"", "s", "a", "b", "note", "text", "other", "secure note", "unlocked", "always"}

Symmetry == Permutations(Clients)
=============================================================================
