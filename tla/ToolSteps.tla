----------------------------- MODULE ToolSteps ------------------------------
(***************************************************************************)
(* What the steps of buildtools have in common.  A step is a record: what   *)
(* it does, to what, and with which argument.  The rest of this module is   *)
(* what StepRunner and CommandRunner make of the different kinds of steps.  *)
(***************************************************************************)
EXTENDS Sequences, FiniteSets

Step(do, what, arg) == [do |-> do, what |-> what, arg |-> arg]

\* A step that does nothing but fail, in place of one that cannot be made.
ErrorStep == Step("error", "", 0)

\* Steps that are commands, run by CommandRunner under the context of the run.
Commands == {"mkdir", "copy", "copydir", "sign", "rsync", "link", "bootout", "bootstrap",
             "kickstart", "print", "rm", "pkgbuild", "productbuild", "installer"}

\* Steps that hand their work to the file system themselves, after a look at
\* the context and at DryRun.
Guarded == {"plist", "unlink"}

\* What changes nothing and cannot but give its own answer.
Checks == {"error", "validate"}

\* Mutant: a step that copies a file does not look at DryRun.
ExecutesCopies(st, dry) == ~dry \/ st.do \in Checks \cup {"copy"}

\* A dry run executes the checks only.
Executes(st, dry) == ~dry \/ st.do \in Checks

\* Mutant: the error of any launchctl command is dropped.
ErrorAlwaysIgnored(st) == st.do \in {"bootout", "print", "bootstrap"}

\* launchctlIgnoringError: the error of the command is dropped, unless it is
\* that of the context.
ErrorIgnored(st) == st.do \in {"bootout", "print"}

\* A step begun after the context is done fails before it has any effect; of
\* those that look at the context themselves so do those of a dry run.
RefusedWhenDone(st, dry) == st.do \in Guarded \/ ErrorIgnored(st) \/ (~dry /\ st.do \in Commands)
=============================================================================
