----------------------------- MODULE LoginStream -----------------------------
(****************************************************************************)
(* internal/adapter/protondrive/uploader.go, runLogin and runStreamCommand: *)
(* "auth login" runs until the user has signed in, while one goroutine for  *)
(* each of its pipes logs what it prints and picks out the sign-in URL.     *)
(*                                                                          *)
(* The processes that hold the write ends of the pipes are outside the      *)
(* repository: the CLI, and under dbus-run-session that wrapper and its     *)
(* bus.  The child of rclonarr, which a cancelled context kills, is the     *)
(* wrapper then, and the others live on.  A pipe has room for a few lines,  *)
(* and the CLI, which writes to both in turn, blocks on a full one.         *)
(****************************************************************************)
EXTENDS Integers, SequencesExt

CONSTANTS
  Scripts,  \* what the CLI may print: sequences of records [on, line]
  Room      \* lines a pipe holds

Streams == {"out", "err"}

(* Lines: blank, with one of two URLs, longer than the scanner's 1 MiB, or  *)
(* any other.                                                               *)
URLs == {"url1", "url2"}

Lines == {"blank", "text", "long"} \cup URLs

ASSUME ScriptsAssumption == Scripts \subseteq Seq([on : Streams, line : Lines])

ASSUME RoomAssumption == Room \in Nat \ {0}

VARIABLES
  dbus,       \* APP_PROTON_DRIVE_DBUS
  script,     \* what this CLI prints
  sent,       \* how many of its lines it has written
  pipe,       \* pipe[s]: lines written and not read
  open,       \* processes that hold the write ends
  status,     \* how the child ended
  cancelled,  \* the context is cancelled
  main,       \* the goroutine of runStreamCommand
  result,     \* what runLogin returns
  scanner,    \* scanner[s]: the goroutine that reads s
  line,       \* line[s]: the line onLine works on
  lastURL,    \* the string header of lastURL: a pointer and a length
  logged,     \* logged[s]: lines of s logged as such
  warned      \* URLs the user was asked to open

cliVars == <<sent, pipe, open, status>>
scanVars == <<pipe, scanner, line, lastURL, logged, warned>>
vars == <<dbus, script, sent, pipe, open, status, cancelled, main, result,
          scanner, line, lastURL, logged, warned>>

Child == IF dbus THEN "wrapper" ELSE "cli"

Init ==
  /\ dbus \in BOOLEAN
  /\ script \in Scripts
  /\ sent = 0
  /\ pipe = [s \in Streams |-> <<>>]
  /\ open = {}
  /\ status = "none"
  /\ cancelled = FALSE
  /\ main = "start"
  /\ result = "none"
  /\ scanner = [s \in Streams |-> "scan"]
  /\ line = [s \in Streams |-> "blank"]
  /\ lastURL = [ptr |-> "blank", len |-> "blank"]
  /\ logged = [s \in Streams |-> <<>>]
  /\ warned = {}

-----------------------------------------------------------------------------
(* The processes, and the signal context. *)

Cancel == /\ ~cancelled
          /\ cancelled' = TRUE
          /\ UNCHANGED <<dbus, script, cliVars, main, result, scanVars>>

(* The CLI writes its next line. *)
CliWrites ==
  /\ "cli" \in open
  /\ sent < Len(script)
  /\ LET next == script[sent + 1]
     IN  /\ Len(pipe[next.on]) < Room
         /\ pipe' = [pipe EXCEPT ![next.on] = Append(@, next.line)]
  /\ sent' = sent + 1
  /\ UNCHANGED <<dbus, script, open, status, cancelled, main, result, scanner, line,
                 lastURL, logged, warned>>

(* The CLI ends: the user has signed in, or it gives up.  The wrapper, if   *)
(* it is still there, stops its bus and ends likewise.                      *)
CliEnds ==
  /\ "cli" \in open
  /\ IF Child \in open
     THEN /\ open' = {}
          /\ status' \in {"ok", "failed"}
     ELSE /\ open' = open \ {"cli"}
          /\ UNCHANGED status
  /\ UNCHANGED <<dbus, script, sent, pipe, cancelled, main, result, scanner, line,
                 lastURL, logged, warned>>

(* A bus that has lost its wrapper ends some day. *)
BusEnds ==
  /\ "bus" \in open
  /\ "wrapper" \notin open
  /\ open' = open \ {"bus"}
  /\ UNCHANGED <<dbus, script, sent, pipe, status, cancelled, main, result, scanner,
                 line, lastURL, logged, warned>>

(* Slip: the context is looked at only by the final Wait. *)
KillInWait ==
  /\ main = "wait"
  /\ cancelled
  /\ Child \in open
  /\ open' = open \ {Child}
  /\ status' = "killed"
  /\ UNCHANGED <<dbus, script, sent, pipe, cancelled, main, result, scanner, line,
                 lastURL, logged, warned>>

(* CommandContext kills the child of a cancelled context, and only that.    *)
Kill ==
  /\ cancelled
  /\ Child \in open
  /\ open' = open \ {Child}
  /\ status' = "killed"
  /\ UNCHANGED <<dbus, script, sent, pipe, cancelled, main, result, scanner, line,
                 lastURL, logged, warned>>

-----------------------------------------------------------------------------
(* runStreamCommand, and what runLogin makes of its error. *)

(* Slip: the error says nothing of the URL. *)
ReturnBare(err) ==
  /\ main' = "returned"
  /\ result' = IF err THEN "failed" ELSE "ok"

Return(err) ==
  /\ main' = "returned"
  /\ result' = CASE ~err -> "ok"
                 [] err /\ lastURL.len # "blank" -> "failed_url"
                 [] err /\ lastURL.len = "blank" -> "failed"

(* The pipes and the process, which may not start. *)
Start ==
  /\ main = "start"
  /\ \/ Return(TRUE) /\ UNCHANGED open
     \/ /\ ~cancelled
        /\ open' = IF dbus THEN {"cli", "wrapper", "bus"} ELSE {"cli"}
        /\ main' = "scan"
        /\ UNCHANGED result
  /\ UNCHANGED <<dbus, script, sent, pipe, status, cancelled, scanner, line, lastURL,
                 logged, warned>>

(* Slip: the command is waited for at once, and its pipes closed. *)
ScansIgnored ==
  /\ main = "scan"
  /\ main' = "wait"
  /\ UNCHANGED <<dbus, script, cliVars, cancelled, result, scanner, line, lastURL,
                 logged, warned>>

(* wg.Wait: both goroutines are done. *)
ScansDone ==
  /\ main = "scan"
  /\ \A s \in Streams : scanner[s] \in {"eof", "stopped"}
  /\ main' = "wait"
  /\ UNCHANGED <<dbus, script, cliVars, cancelled, result, scanner, line, lastURL,
                 logged, warned>>

(* cmd.Wait: the child has ended.  The kill may still hit a child that has  *)
(* ended well.                                                              *)
Wait ==
  /\ main = "wait"
  /\ Child \notin open
  /\ \/ Return(status # "ok")
     \/ cancelled /\ Return(TRUE)
  /\ UNCHANGED <<dbus, script, cliVars, cancelled, scanner, line, lastURL, logged,
                 warned>>

Main == Start \/ ScansDone \/ Wait

-----------------------------------------------------------------------------
(* The scanners.  They share lastURL, which nothing protects. *)

Goto(s, l) == scanner' = [scanner EXCEPT ![s] = l]

(* Slip: stderr is read when stdout has come to its end. *)
TakeInTurn(s) ==
  /\ main # "start"
  /\ scanner[s] = "scan"
  /\ s = "err" => scanner["out"] # "scan"
  /\ pipe[s] # <<>>
  /\ pipe' = [pipe EXCEPT ![s] = Tail(@)]
  /\ line' = [line EXCEPT ![s] = Head(pipe[s])]
  /\ Goto(s, IF Head(pipe[s]) = "long" THEN "stopped" ELSE "line")
  /\ UNCHANGED <<lastURL, logged, warned>>

(* sc.Scan has a line, or stops for good on one that is too long. *)
Take(s) ==
  /\ main # "start"
  /\ scanner[s] = "scan"
  /\ pipe[s] # <<>>
  /\ pipe' = [pipe EXCEPT ![s] = Tail(@)]
  /\ line' = [line EXCEPT ![s] = Head(pipe[s])]
  /\ Goto(s, IF Head(pipe[s]) = "long" THEN "stopped" ELSE "line")
  /\ UNCHANGED <<lastURL, logged, warned>>

(* The end of the file: nobody is left to write, and all is read. *)
Eof(s) ==
  /\ main # "start"
  /\ scanner[s] = "scan"
  /\ pipe[s] = <<>>
  /\ open = {}
  /\ Goto(s, "eof")
  /\ UNCHANGED <<pipe, line, lastURL, logged, warned>>

(* Slip: every line is taken for a URL. *)
LogAny(s) ==
  /\ scanner[s] = "line"
  /\ logged' = [logged EXCEPT ![s] = Append(@, line[s])]
  /\ Goto(s, "compare")
  /\ UNCHANGED <<pipe, line, lastURL, warned>>

(* onLine: a line is logged, and searched for a URL. *)
Log(s) ==
  /\ scanner[s] = "line"
  /\ IF line[s] = "blank"
     THEN Goto(s, "scan") /\ UNCHANGED logged
     ELSE /\ logged' = [logged EXCEPT ![s] = Append(@, line[s])]
          /\ Goto(s, IF line[s] \in URLs THEN "compare" ELSE "scan")
  /\ UNCHANGED <<pipe, line, lastURL, warned>>

(* Slip: after the first URL no other is looked at. *)
CompareFirst(s) ==
  /\ scanner[s] = "compare"
  /\ Goto(s, IF lastURL.len # "blank" THEN "scan" ELSE "set_len")
  /\ UNCHANGED <<pipe, line, lastURL, logged, warned>>

(* url != lastURL: both words of the header are compared as they are now,   *)
(* while the other scanner may be between writing the one and the other.    *)
Compare(s) ==
  /\ scanner[s] = "compare"
  /\ Goto(s, IF lastURL = [ptr |-> line[s], len |-> line[s]] THEN "scan" ELSE "set_len")
  /\ UNCHANGED <<pipe, line, lastURL, logged, warned>>

(* lastURL = url, two stores; then the warning. *)
SetLen(s) ==
  /\ scanner[s] = "set_len"
  /\ lastURL' = [lastURL EXCEPT !.len = line[s]]
  /\ Goto(s, "set_ptr")
  /\ UNCHANGED <<pipe, line, logged, warned>>

SetPtr(s) ==
  /\ scanner[s] = "set_ptr"
  /\ lastURL' = [lastURL EXCEPT !.ptr = line[s]]
  /\ Goto(s, "warn")
  /\ UNCHANGED <<pipe, line, logged, warned>>

Warn(s) ==
  /\ scanner[s] = "warn"
  /\ warned' = warned \cup {line[s]}
  /\ Goto(s, "scan")
  /\ UNCHANGED <<pipe, line, lastURL, logged>>

Scan(s) == /\ \/ Take(s) \/ Eof(s) \/ Log(s) \/ Compare(s)
              \/ SetLen(s) \/ SetPtr(s) \/ Warn(s)
           /\ UNCHANGED <<dbus, script, sent, open, status, cancelled, main, result>>

-----------------------------------------------------------------------------

Next == \/ Cancel \/ CliWrites \/ CliEnds \/ BusEnds \/ Kill \/ Main
        \/ \E s \in Streams : Scan(s)

Spec == Init /\ [][Next]_vars

(* Goroutines run, a CLI that can write does, and the kill is sent.  Nobody *)
(* says that the user ever signs in, nor that a bus without its wrapper     *)
(* ends.                                                                    *)
FairSpec == /\ Spec
            /\ WF_vars(CliWrites) /\ WF_vars(Kill) /\ WF_vars(Main)
            /\ \A s \in Streams : WF_vars(Scan(s))

-----------------------------------------------------------------------------
(* Properties. *)

TypeOK ==
  /\ dbus \in BOOLEAN
  /\ script \in Scripts
  /\ sent \in 0..Len(script)
  /\ \A s \in Streams : pipe[s] \in Seq(Lines) /\ Len(pipe[s]) <= Room
  /\ open \subseteq {"cli", "wrapper", "bus"}
  /\ status \in {"none", "ok", "failed", "killed"}
  /\ cancelled \in BOOLEAN
  /\ main \in {"start", "scan", "wait", "returned"}
  /\ result \in {"none", "ok", "failed", "failed_url"}
  /\ scanner \in [Streams -> {"scan", "line", "compare", "set_len", "set_ptr", "warn",
                              "eof", "stopped"}]
  /\ line \in [Streams -> Lines]
  /\ lastURL \in [ptr : {"blank"} \cup URLs, len : {"blank"} \cup URLs]
  /\ \A s \in Streams : logged[s] \in Seq(Lines)
  /\ warned \subseteq URLs

(* The lines q are those of the script at the places K, in its order. *)
LinesAt(q, K) ==
  \E at \in [1..Len(q) -> K] :
    /\ \A i, j \in 1..Len(q) : i < j => at[i] < at[j]
    /\ \A k \in K : \E i \in 1..Len(q) : at[i] = k
    /\ \A i \in 1..Len(q) : q[i] = script[at[i]].line

(* Where the first n lines of the script have one for a stream that is not  *)
(* blank.                                                                   *)
Texts(s, n) == {k \in 1..n : script[k].on = s /\ script[k].line # "blank"}

Prints(l) == \E i \in 1..Len(script) : script[i].line = l

(* The pipes are read to their end before the command is waited for, which  *)
(* closes them: nothing the CLI says is lost, the reason of a failure       *)
(* included, in whatever order the processes end (uploader.go 280-285).     *)
AllLinesLogged ==
  main = "returned" =>
    \A s \in Streams : scanner[s] # "stopped" => LinesAt(logged[s], Texts(s, sent))

(* Although two goroutines compare and set lastURL at once and may see half *)
(* of the other's store, no URL that was printed goes without its warning,  *)
(* and the error tells rightly whether there was one (161-176).             *)
UrlReported ==
  LET seen == {u \in URLs : \E s \in Streams : u \in ToSet(logged[s])}
  IN  main = "returned" =>
        /\ seen = warned
        /\ result = "failed_url" => seen # {}
        /\ result = "failed" => seen = {}

(* The user is asked while the CLI waits, not when it is over: unless a     *)
(* line is too long, every URL the CLI has to print comes to a warning if   *)
(* only the CLI waits for it, whatever it prints on either stream before.   *)
UrlShown ==
  \A u \in URLs :
    (~Prints("long") /\ Prints(u) /\ open # {})
      ~> (u \in warned \/ "cli" \notin open)

(* The login returns once all its processes have ended, a scanner that gave *)
(* up on a long line included, and without a wrapper it returns when it is  *)
(* cancelled, also from the middle of a line and with a CLI that is blocked.*)
ReturnsAtLast ==
  /\ (main # "start" /\ open = {}) ~> (main = "returned")
  /\ (cancelled /\ ~dbus) ~> (main = "returned")

=============================================================================
