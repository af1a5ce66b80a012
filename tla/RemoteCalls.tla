----------------------------- MODULE RemoteCalls -----------------------------
(****************************************************************************)
(* What the backup service takes the remote side to be (port.RemoteUploader,*)
(* as orchestrator.go uses it): a set of files and calls on it that take    *)
(* effect at once, when they return.  A call that returns nil has done all  *)
(* it was asked for; one that returns an error may have done any part of    *)
(* it.  Uploader implements this with sign-ins, retries and many commands.  *)
(****************************************************************************)
CONSTANTS
  Callers,  \* concurrent calls
  Target,   \* Target[c]: the file c uploads
  Old       \* Old[c]: the files c moves to the trash

VARIABLES
  phase,     \* phase[c]: "idle", "busy", "ok" or "err"
  op,        \* op[c]: the method c called
  stored,    \* remote files
  cancelled  \* the context of the calls is cancelled

vars == <<phase, op, stored, cancelled>>

Ops == {"signin", "upload", "list", "trash"}

Init == /\ phase = [c \in Callers |-> "idle"]
        /\ op \in [Callers -> Ops]
        /\ stored \in SUBSET UNION {Old[c] : c \in Callers}
        /\ cancelled = FALSE

Cancel == /\ ~cancelled
          /\ cancelled' = TRUE
          /\ UNCHANGED <<phase, op, stored>>

Begin(c, o) == /\ phase[c] = "idle"
               /\ phase' = [phase EXCEPT ![c] = "busy"]
               /\ op' = [op EXCEPT ![c] = o]
               /\ UNCHANGED <<stored, cancelled>>

(* What the remote side may hold after a call that did a part of its work,  *)
(* and what it holds after one that did it all.                             *)
Partly(c) == CASE op[c] = "upload" -> {stored, stored \cup {Target[c]}}
               [] op[c] = "trash"  -> {stored \ gone : gone \in SUBSET Old[c]}
               [] OTHER            -> {stored}

Wholly(c) == CASE op[c] = "upload" -> stored \cup {Target[c]}
               [] op[c] = "trash"  -> stored \ Old[c]
               [] OTHER            -> stored

(* Nothing succeeds once the context is cancelled. *)
Succeed(c) == /\ phase[c] = "busy"
              /\ ~cancelled
              /\ phase' = [phase EXCEPT ![c] = "ok"]
              /\ stored' = Wholly(c)
              /\ UNCHANGED <<op, cancelled>>

Fail(c) == /\ phase[c] = "busy"
           /\ phase' = [phase EXCEPT ![c] = "err"]
           /\ stored' \in Partly(c)
           /\ UNCHANGED <<op, cancelled>>

Next == \/ Cancel
        \/ \E c \in Callers : (\E o \in Ops : Begin(c, o)) \/ Succeed(c) \/ Fail(c)

Spec == Init /\ [][Next]_vars

=============================================================================
