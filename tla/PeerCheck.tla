------------------------------ MODULE PeerCheck ------------------------------
(***************************************************************************)
(* machutils: the check of the program at the other end of a Unix domain    *)
(* socket (Requirement.Verify), of a file before it is run                  *)
(* (Requirement.VerifyFile), and the life of the compiled Requirement that   *)
(* goroutines share.  Meanwhile processes exit, execute other programs and   *)
(* give their process ID to others, files are replaced, and the garbage      *)
(* collector runs.                                                          *)
(***************************************************************************)
EXTENDS Naturals

CONSTANTS
    Pids,       \* that the peers may have
    Verifiers,  \* goroutines, each checking one connection
    MaxVersion  \* bound: programs that run under one process ID

ASSUME MaxVersionAssumption == MaxVersion \in Nat

\* Whether code satisfies the requirement, its signature being intact.
Programs == {"satisfies", "does not"}

VARIABLES
    procs,      \* who has each process ID, and which of its programs it is
    file,       \* the program on disk that peers are started from
    req,        \* Requirement.req: "none", "live" or "released"
    owner,      \* of the Requirement: "compiling", "holds", "dropped" or "failed"
    stage,      \* where each goroutine is
    conn,       \* its connection, as the kernel has recorded it
    by,         \* what it looks the peer up by: "none", "audit" or "pid"
    code,       \* the SecCode that it has found
    answer      \* "none", "nil" or "error"

peerVars == <<procs, file, req, owner, stage, conn, by, code, answer>>
host == <<procs, file>>

Process == [alive : BOOLEAN, version : 0..MaxVersion, program : Programs]

PeerInit ==
    /\ procs \in [Pids -> {p \in Process : p.version = 0}]
    /\ file \in Programs
    /\ req = "none" /\ owner = "compiling"
    /\ stage = [v \in Verifiers |-> "begin"]
    /\ conn \in [Verifiers -> {[pid |-> p, version |-> 0, program |-> procs[p].program] : p \in Pids}]
    /\ by = [v \in Verifiers |-> "none"] /\ code = conn
    /\ answer = [v \in Verifiers |-> "none"]
-----------------------------------------------------------------------------
(* The Requirement.                                                        *)

\* NewRequirement: the string may not be one.
Compile ==
    /\ owner = "compiling"
    /\ \/ owner' = "holds" /\ req' = "live"
       \/ owner' = "failed" /\ req' = "none"
    /\ UNCHANGED <<host, stage, conn, by, code, answer>>

\* The owner returns, or forgets the Requirement, without closing it.
Drop ==
    /\ owner = "holds" /\ owner' = "dropped"
    /\ UNCHANGED <<host, req, stage, conn, by, code, answer>>

\* Mutant: without KeepAlive nothing refers to the Requirement once its req
\* has been passed on.
RefersUntilPassed(v) == stage[v] = "token"

\* defer runtime.KeepAlive: a verification refers to it until it returns.
Refers(v) == stage[v] \in {"token", "guest", "validity", "file"}

\* The finalizer.
Finalize ==
    /\ req = "live" /\ owner = "dropped" /\ \A v \in Verifiers : ~Refers(v)
    /\ req' = "released"
    /\ UNCHANGED <<host, owner, stage, conn, by, code, answer>>

\* Close, by the owner. It is not synchronised with the verifications: who calls
\* it has to wait for those that have begun, as `defer req.Close()` does.
Close ==
    /\ owner = "holds" /\ req = "live" /\ \A v \in Verifiers : ~Refers(v)
    /\ req' = "released"
    /\ UNCHANGED <<host, owner, stage, conn, by, code, answer>>
-----------------------------------------------------------------------------
(* A verification.                                                         *)

Answers(v, a) == answer' = [answer EXCEPT ![v] = a] /\ stage' = [stage EXCEPT ![v] = "done"]

\* A verification is begun: a Requirement that has been closed is refused.
Enter(v, next) ==
    \/ req = "live" /\ stage' = [stage EXCEPT ![v] = next] /\ UNCHANGED answer
    \/ req # "live" /\ Answers(v, "error")

\* A file is checked before it is run, or a connection accepted.
Begin(v) ==
    /\ stage[v] = "begin" /\ owner = "holds"
    /\ Enter(v, "file") \/ (stage' = [stage EXCEPT ![v] = "accept"] /\ UNCHANGED answer)
    /\ UNCHANGED <<host, req, owner, conn, by, code>>

FileIsValid == file = "satisfies"

\* VerifyFile.
CheckFile(v) ==
    /\ stage[v] = "file"
    /\ \/ FileIsValid /\ stage' = [stage EXCEPT ![v] = "accept"] /\ UNCHANGED answer
       \/ Answers(v, "error")
    /\ UNCHANGED <<host, req, owner, conn, by, code>>

\* The peer connects, or has come through a socketpair.  The kernel records
\* the process that does.
Accept(v) ==
    /\ stage[v] = "accept" /\ owner = "holds"
    /\ \E p \in Pids :
         /\ procs[p].alive
         /\ conn' = [conn EXCEPT ![v] =
                       [pid |-> p, version |-> procs[p].version, program |-> procs[p].program]]
    /\ stage' = [stage EXCEPT ![v] = "connected"]
    /\ UNCHANGED <<host, req, owner, by, code, answer>>

\* Requirement.Verify is called with the connection.
BeginPeer(v) ==
    /\ stage[v] = "connected" /\ owner = "holds"
    /\ Enter(v, "token")
    /\ UNCHANGED <<host, req, owner, conn, by, code>>

LookUpBy(v, attribute) ==
    by' = [by EXCEPT ![v] = attribute] /\ stage' = [stage EXCEPT ![v] = "guest"] /\ UNCHANGED answer

\* peerAuditToken, which may fail for this connection and not for the next.
GetToken(v) ==
    /\ stage[v] = "token"
    /\ LookUpBy(v, "audit")
    /\ UNCHANGED <<host, req, owner, conn, code>>

\* PeerPID instead, which may fail, too.
GetPid(v) ==
    /\ stage[v] = "token"
    /\ LookUpBy(v, "pid") \/ (Answers(v, "error") /\ UNCHANGED by)
    /\ UNCHANGED <<host, req, owner, conn, code>>

\* verifyGuestCode: there is no memory for the attributes made of the token,
\* and the process is looked up by its ID after all.
FallBack(v) ==
    /\ stage[v] = "guest" /\ by[v] = "audit"
    /\ LookUpBy(v, "pid")
    /\ UNCHANGED <<host, req, owner, conn, code>>

Named(p, v) == procs[p].alive /\ p = conn[v].pid

\* Mutant: the process is looked up by its ID though there is a token.
MatchesPid(p, v) == Named(p, v)

\* kSecGuestAttributeAudit names one program of one process,
\* kSecGuestAttributePid whatever has the ID.
Matches(p, v) == Named(p, v) /\ (by[v] = "audit" => procs[p].version = conn[v].version)

\* SecCodeCopyGuestWithAttributes.
FindCode(v) ==
    /\ stage[v] = "guest"
    /\ \/ \E p \in Pids :
            /\ Matches(p, v)
            /\ code' = [code EXCEPT ![v] = [pid |-> p, version |-> procs[p].version,
                                            program |-> procs[p].program]]
            /\ stage' = [stage EXCEPT ![v] = "validity"] /\ UNCHANGED answer
       \/ Answers(v, "error") /\ UNCHANGED code
    /\ UNCHANGED <<host, req, owner, conn, by>>

\* SecCodeCheckValidityWithErrors of the code that was found, if it still
\* runs.
CodeIsValid(v) ==
    /\ procs[code[v].pid].alive /\ procs[code[v].pid].version = code[v].version
    /\ code[v].program = "satisfies"

\* What satisfies the requirement may also have been modified, or be expired.
CheckCode(v) ==
    /\ stage[v] = "validity"
    /\ \/ CodeIsValid(v) /\ Answers(v, "nil")
       \/ Answers(v, "error")
    /\ UNCHANGED <<host, req, owner, conn, by, code>>
-----------------------------------------------------------------------------
(* The host.                                                               *)

Exit(p) ==
    /\ procs[p].alive
    /\ procs' = [procs EXCEPT ![p].alive = FALSE]
    /\ UNCHANGED <<file, req, owner, stage, conn, by, code, answer>>

\* A process is started from the file, or any other from elsewhere, and gets
\* the ID of one that has exited; or a process executes another program.
Run(p) ==
    /\ procs[p].version < MaxVersion
    /\ \E g \in Programs :
         procs' = [procs EXCEPT ![p] = [alive |-> TRUE, version |-> @.version + 1, program |-> g]]
    /\ UNCHANGED <<file, req, owner, stage, conn, by, code, answer>>

Replace ==
    /\ \E g \in Programs \ {file} : file' = g
    /\ UNCHANGED <<procs, req, owner, stage, conn, by, code, answer>>

Verify(v) == \/ Begin(v) \/ CheckFile(v) \/ Accept(v) \/ BeginPeer(v)
             \/ GetToken(v) \/ GetPid(v) \/ FallBack(v) \/ FindCode(v) \/ CheckCode(v)

PeerNext ==
    \/ Compile \/ Drop \/ Finalize \/ Close \/ Replace
    \/ \E v \in Verifiers : Verify(v)
    \/ \E p \in Pids : Exit(p) \/ Run(p)
-----------------------------------------------------------------------------
\* A verification that has looked its peer up by an audit token and returns nil
\* is about the program that has connected: not about one that the process has
\* executed since, nor about a process that has got its ID, nor about what is
\* now in the file.
NilIsThePeer ==
    \A v \in Verifiers : answer[v] = "nil" /\ by[v] = "audit" => conn[v].program = "satisfies"

\* The SecRequirementRef is not released while a verification uses it,
\* whenever the finalizer runs.
UsedIsLive ==
    \A v \in Verifiers : stage[v] \in {"token", "guest", "validity", "file"} => req = "live"
=============================================================================
