--------------------------- MODULE LoginStreamProofs ---------------------------
(****************************************************************************)
(* Proofs about LoginStream, for every script the CLI may follow and every  *)
(* size of the pipes.  The argument for the sign-in URL: the length word of *)
(* lastURL is that of a URL which is warned of or about to be, so a scanner *)
(* that finds its URL there, torn or not, need not warn of it again.  For   *)
(* the log: some place m of the script splits what was written to a stream  *)
(* into the lines that are logged and those still in the pipe, the m-th     *)
(* being perhaps in the scanner's hands.                                    *)
(****************************************************************************)
EXTENDS LoginStream, TLAPS

USE DEF cliVars, scanVars

Typed ==
  /\ TypeOK
  /\ pipe \in [Streams -> Seq(Lines)]
  /\ logged \in [Streams -> Seq(Lines)]

(* A scanner that has logged a URL and not yet done with it. *)
HasURL(s) == scanner[s] \in {"compare", "set_len", "set_ptr", "warn"}

(* A scanner that has begun to store its URL. *)
Stores(s) == scanner[s] \in {"set_ptr", "warn"}

(* The processes and the scanners while main starts, and once it is done    *)
(* with them, or could not start the CLI.                                   *)
Quiet ==
  /\ main = "start" => /\ open = {}
                       /\ \A s \in Streams : pipe[s] = <<>> /\ scanner[s] = "scan"
  /\ main \in {"wait", "returned"} =>
       \/ \A s \in Streams : scanner[s] \in {"eof", "stopped"}
       \/ /\ open = {}
          /\ \A s \in Streams : pipe[s] = <<>> /\ scanner[s] \in {"scan", "eof"}

(* URLs, from the log to the warning. *)
Seen(u) == \E s \in Streams : u \in ToSet(logged[s])

Warnings ==
  /\ \A s \in Streams : HasURL(s) => line[s] \in URLs
  /\ \A u \in URLs : Seen(u) <=> u \in warned \/ \E s \in Streams : HasURL(s) /\ line[s] = u

(* The length word of lastURL. *)
Lengths ==
  /\ lastURL.len # "blank" =>
       \/ lastURL.len \in warned
       \/ \E s \in Streams : Stores(s) /\ line[s] = lastURL.len
  /\ \A s \in Streams : Stores(s) => lastURL.len # "blank"
  /\ warned # {} => lastURL.len # "blank"

Results ==
  main = "returned" => /\ result = "failed_url" => lastURL.len # "blank"
                       /\ result = "failed" => lastURL.len = "blank"

Inv == Typed /\ Quiet /\ Warnings /\ Lengths /\ Results

-----------------------------------------------------------------------------

LEMMA InvInit == Init => Inv
<1> SUFFICES ASSUME Init PROVE Inv
  OBVIOUS
<1>1. dbus \in BOOLEAN /\ cancelled \in BOOLEAN
  BY DEF Init
<1>2. /\ pipe \in [Streams -> Seq(Lines)] /\ logged \in [Streams -> Seq(Lines)]
      /\ \A s \in Streams : pipe[s] = <<>> /\ logged[s] = <<>> /\ Len(pipe[s]) = 0
  BY DEF Init
<1>3. sent \in 0..Len(script)
  BY ScriptsAssumption DEF Init
<1>4. line \in [Streams -> Lines] /\ scanner \in [Streams -> {"scan"}]
      /\ lastURL \in [ptr : {"blank"} \cup URLs, len : {"blank"} \cup URLs]
  BY DEF Init, Lines
<1>5. Typed
  BY <1>1, <1>2, <1>3, <1>4, RoomAssumption DEF Init, Typed, TypeOK
<1>6. Quiet
  BY <1>2, <1>4 DEF Init, Quiet
<1>7. Warnings
  BY <1>2, <1>4 DEF Init, Warnings, HasURL, Seen, ToSet
<1>8. Lengths /\ Results
  BY <1>4 DEF Init, Lengths, Stores, Results
<1> QED BY <1>5, <1>6, <1>7, <1>8 DEF Inv

(* Steps that leave the scanners alone. *)
LEMMA ProcessStep ==
  ASSUME Inv, Cancel \/ CliEnds \/ BusEnds \/ Kill \/ UNCHANGED vars
  PROVE  Inv'
<1>1. UNCHANGED <<pipe, scanner, line, lastURL, logged, warned, main, result, script, sent, dbus>>
  BY DEF Cancel, CliEnds, BusEnds, Kill, vars
<1>2. /\ open' \subseteq open /\ status' \in {"none", "ok", "failed", "killed"}
      /\ cancelled' \in BOOLEAN
  BY DEF Cancel, CliEnds, BusEnds, Kill, vars, Inv, Typed, TypeOK
<1>3. Typed'
  BY <1>1, <1>2 DEF Inv, Typed, TypeOK
<1>4. Quiet'
  BY <1>1, <1>2 DEF Inv, Quiet
<1>5. Warnings' /\ Lengths' /\ Results'
  BY <1>1 DEF Inv, Warnings, HasURL, Seen, Lengths, Stores, Results
<1> QED BY <1>3, <1>4, <1>5 DEF Inv

LEMMA WriteStep == Inv /\ CliWrites => Inv'
<1> SUFFICES ASSUME Inv, CliWrites PROVE Inv'
  OBVIOUS
<1> DEFINE next == script[sent + 1]
<1>1. sent + 1 \in 1..Len(script)
  <2>1. script \in Seq([on : Streams, line : Lines])
    BY ScriptsAssumption DEF Inv, Typed, TypeOK
  <2>2. Len(script) \in Nat /\ sent \in 0..Len(script) /\ sent < Len(script)
    BY <2>1 DEF CliWrites, Inv, Typed, TypeOK
  <2> QED BY <2>2
<1>2. next \in [on : Streams, line : Lines]
  <2> DEFINE R == [on : Streams, line : Lines]
  <2>1. script \in Seq(R)
    BY ScriptsAssumption DEF Inv, Typed, TypeOK
  <2> HIDE DEF R
  <2>2. next \in R
    BY <1>1, <2>1
  <2> QED BY <2>2 DEF R
<1>3. next.on \in Streams /\ next.line \in Lines
  BY <1>2
<1> HIDE DEF next
<1>4. /\ pipe' = [pipe EXCEPT ![next.on] = Append(pipe[next.on], next.line)]
      /\ Len(pipe[next.on]) < Room /\ sent' = sent + 1 /\ open # {}
      /\ UNCHANGED <<dbus, script, open, status, cancelled, main, result, scanner, line,
                     lastURL, logged, warned>>
  BY DEF CliWrites, next
<1>5. /\ pipe' \in [Streams -> Seq(Lines)]
      /\ \A s \in Streams : Len(pipe'[s]) <= Room
  BY <1>3, <1>4, RoomAssumption DEF Inv, Typed, TypeOK
<1>6. Typed'
  BY <1>1, <1>4, <1>5 DEF Inv, Typed, TypeOK
<1>7. Quiet'
  BY <1>4 DEF Inv, Quiet
<1>8. Warnings' /\ Lengths' /\ Results'
  BY <1>4 DEF Inv, Warnings, HasURL, Seen, Lengths, Stores, Results
<1> QED BY <1>6, <1>7, <1>8 DEF Inv

LEMMA MainStep == Inv /\ Main => Inv'
<1> SUFFICES ASSUME Inv, Main PROVE Inv'
  OBVIOUS
<1>1. UNCHANGED <<dbus, script, sent, pipe, status, cancelled, scanner, line, lastURL,
                  logged, warned>>
  BY DEF Main, Start, ScansDone, Wait
<1>2. Warnings' /\ Lengths'
  BY <1>1 DEF Inv, Warnings, HasURL, Seen, Lengths, Stores
<1>3. ASSUME NEW err \in BOOLEAN, Return(err)
      PROVE  /\ main' = "returned" /\ result' \in {"ok", "failed", "failed_url"}
             /\ Results'
  BY <1>1, <1>3 DEF Return, Results
<1>4. CASE Start
  <2>1. CASE Return(TRUE) /\ UNCHANGED open
    <3>1. main' = "returned" /\ result' \in {"ok", "failed", "failed_url"} /\ Results'
      BY <1>3, <2>1
    <3>2. Typed'
      BY <1>1, <2>1, <3>1 DEF Inv, Typed, TypeOK
    <3>3. Quiet'
      BY <1>1, <1>4, <2>1, <3>1 DEF Start, Inv, Quiet
    <3> QED BY <1>2, <3>1, <3>2, <3>3 DEF Inv
  <2>2. CASE /\ open' = IF dbus THEN {"cli", "wrapper", "bus"} ELSE {"cli"}
             /\ main' = "scan" /\ UNCHANGED result
    <3>1. Typed'
      BY <1>1, <2>2 DEF Inv, Typed, TypeOK
    <3>2. Quiet' /\ Results'
      BY <1>1, <2>2 DEF Quiet, Results
    <3> QED BY <1>2, <3>1, <3>2 DEF Inv
  <2> QED BY <1>4, <2>1, <2>2 DEF Start
<1>5. CASE ScansDone
  <2>1. Typed'
    BY <1>1, <1>5 DEF ScansDone, Inv, Typed, TypeOK
  <2>2. Quiet' /\ Results'
    BY <1>1, <1>5 DEF ScansDone, Quiet, Results
  <2> QED BY <1>2, <2>1, <2>2 DEF Inv
<1>6. CASE Wait
  <2>1. main' = "returned" /\ result' \in {"ok", "failed", "failed_url"} /\ Results'
    <3>1. (status # "ok") \in BOOLEAN
      OBVIOUS
    <3> QED BY <1>3, <1>6, <3>1 DEF Wait
  <2>2. Typed'
    BY <1>1, <1>6, <2>1 DEF Wait, Inv, Typed, TypeOK
  <2>3. Quiet'
    BY <1>1, <1>6, <2>1 DEF Wait, Inv, Quiet
  <2> QED BY <1>2, <2>1, <2>2, <2>3 DEF Inv
<1> QED BY <1>4, <1>5, <1>6 DEF Main

-----------------------------------------------------------------------------
(* The scanners. *)

(* The types of what the scanners change. *)
ScanTypes ==
  /\ pipe \in [Streams -> Seq(Lines)] /\ \A t \in Streams : Len(pipe[t]) <= Room
  /\ line \in [Streams -> Lines] /\ logged \in [Streams -> Seq(Lines)]
  /\ lastURL \in [ptr : {"blank"} \cup URLs, len : {"blank"} \cup URLs]
  /\ warned \subseteq URLs

LEMMA ScanTypesNow == Inv => ScanTypes
  BY DEF Inv, Typed, TypeOK, ScanTypes

(* A step of the scanner s. *)
LEMMA ScanFrame ==
  ASSUME Inv, NEW s \in Streams, main # "start",
         UNCHANGED <<dbus, script, sent, open, status, cancelled, main, result>>,
         ScanTypes',
         NEW l \in {"scan", "line", "compare", "set_len", "set_ptr", "warn", "eof", "stopped"},
         Goto(s, l), scanner[s] \notin {"eof", "stopped"},
         \/ scanner[s] # "scan"
         \/ pipe[s] # <<>>
         \/ l = "eof" /\ UNCHANGED pipe
  PROVE  /\ Typed' /\ Quiet'
         /\ scanner'[s] = l /\ \A t \in Streams \ {s} : scanner'[t] = scanner[t]
<1>1. /\ scanner'[s] = l /\ \A t \in Streams \ {s} : scanner'[t] = scanner[t]
      /\ scanner' \in [Streams -> {"scan", "line", "compare", "set_len", "set_ptr", "warn",
                                   "eof", "stopped"}]
  BY DEF Goto, Inv, Typed, TypeOK
<1>2. Typed'
  BY <1>1 DEF Inv, Typed, TypeOK, ScanTypes
<1>3. Quiet'
  BY <1>1 DEF Inv, Quiet
<1> QED BY <1>1, <1>2, <1>3

(* While a scanner has a line, main has not come to its wait. *)
LEMMA Scanning ==
  ASSUME Inv, NEW s \in Streams, scanner[s] \notin {"scan", "eof", "stopped"}
  PROVE  main = "scan"
  BY DEF Inv, Typed, TypeOK, Quiet

LEMMA TakeStep ==
  ASSUME Inv, NEW s \in Streams, Take(s) \/ Eof(s),
         UNCHANGED <<dbus, script, sent, open, status, cancelled, main, result>>
  PROVE  Inv'
<1>1. /\ main # "start" /\ scanner[s] = "scan"
      /\ UNCHANGED <<lastURL, logged, warned>>
  BY DEF Take, Eof
<1>2. CASE Take(s)
  <2>1. /\ pipe[s] \in Seq(Lines) /\ pipe[s] # <<>>
        /\ Len(pipe[s]) <= Room
    BY <1>2 DEF Take, Inv, Typed, TypeOK
  <2>2. Tail(pipe[s]) \in Seq(Lines) /\ Len(Tail(pipe[s])) <= Room /\ Head(pipe[s]) \in Lines
    BY <2>1, RoomAssumption
  <2>3. /\ pipe' \in [Streams -> Seq(Lines)] /\ \A t \in Streams : Len(pipe'[t]) <= Room
        /\ line' \in [Streams -> Lines] /\ \A t \in Streams \ {s} : line'[t] = line[t]
    BY <1>2, <2>2 DEF Take, Inv, Typed, TypeOK
  <2>4. PICK l \in {"line", "stopped"} : Goto(s, l)
    BY <1>2 DEF Take
  <2>5. /\ Typed' /\ Quiet'
        /\ scanner'[s] = l /\ \A t \in Streams \ {s} : scanner'[t] = scanner[t]
    <3>1. ScanTypes'
      BY <1>1, <2>3, ScanTypesNow DEF ScanTypes
    <3> QED BY <1>1, <2>1, <2>3, <2>4, <3>1, ScanFrame
  <2>6. \A t \in Streams : /\ HasURL(t)' = HasURL(t) /\ Stores(t)' = Stores(t)
                           /\ HasURL(t) => line'[t] = line[t]
    BY <1>1, <2>3, <2>4, <2>5 DEF HasURL, Stores
  <2>7. \A u : Seen(u)' = Seen(u)
    BY <1>1 DEF Seen
  <2>8. Warnings'
    BY <1>1, <2>6, <2>7 DEF Inv, Warnings
  <2>9. Lengths' /\ Results'
    BY <1>1, <2>6 DEF Inv, Lengths, Results, Stores, HasURL
  <2> QED BY <2>5, <2>8, <2>9 DEF Inv
<1>3. CASE Eof(s)
  <2>1. /\ Typed' /\ Quiet'
        /\ scanner'[s] = "eof" /\ \A t \in Streams \ {s} : scanner'[t] = scanner[t]
    <3>1. ScanTypes' /\ Goto(s, "eof") /\ UNCHANGED pipe
      BY <1>3, ScanTypesNow DEF Eof, ScanTypes
    <3> QED BY <1>1, <3>1, ScanFrame
  <2>2. Warnings' /\ Lengths' /\ Results'
    BY <1>1, <1>3, <2>1 DEF Eof, Inv, Warnings, HasURL, Seen, Lengths, Stores, Results
  <2> QED BY <2>1, <2>2 DEF Inv
<1> QED BY <1>2, <1>3

LEMMA LogStep ==
  ASSUME Inv, NEW s \in Streams, Log(s),
         UNCHANGED <<dbus, script, sent, open, status, cancelled, main, result>>
  PROVE  Inv'
<1>1. scanner[s] = "line" /\ UNCHANGED <<pipe, line, lastURL, warned>> /\ main = "scan"
  BY Scanning DEF Log
<1>2. CASE line[s] = "blank"
  <2>1. /\ Typed' /\ Quiet'
        /\ scanner'[s] = "scan" /\ \A t \in Streams \ {s} : scanner'[t] = scanner[t]
    <3>1. ScanTypes' /\ Goto(s, "scan")
      BY <1>1, <1>2, ScanTypesNow DEF Log, ScanTypes
    <3> QED BY <1>1, <3>1, ScanFrame
  <2>2. Warnings' /\ Lengths' /\ Results'
    BY <1>1, <1>2, <2>1 DEF Log, Inv, Warnings, HasURL, Seen, Lengths, Stores, Results
  <2> QED BY <2>1, <2>2 DEF Inv
<1>3. CASE line[s] # "blank"
  <2>1. logged' = [logged EXCEPT ![s] = Append(logged[s], line[s])] /\ line[s] \in Lines
    BY <1>3 DEF Log, Inv, Typed, TypeOK
  <2>2. /\ logged' \in [Streams -> Seq(Lines)]
        /\ logged'[s] = Append(logged[s], line[s])
        /\ \A t \in Streams \ {s} : logged'[t] = logged[t]
    BY <2>1 DEF Inv, Typed
  <2>3. \A u : u \in ToSet(logged'[s]) <=> u \in ToSet(logged[s]) \/ u = line[s]
    <3>1. logged[s] \in Seq(Lines)
      BY DEF Inv, Typed
    <3> QED BY <2>1, <2>2, <3>1 DEF ToSet
  <2>4. PICK l \in {"compare", "scan"} : /\ Goto(s, l)
                                         /\ l = "compare" <=> line[s] \in URLs
    BY <1>1, <1>3 DEF Log
  <2>5. /\ Typed' /\ Quiet'
        /\ scanner'[s] = l /\ \A t \in Streams \ {s} : scanner'[t] = scanner[t]
    <3>1. ScanTypes'
      BY <1>1, <2>2, ScanTypesNow DEF ScanTypes
    <3> QED BY <1>1, <2>4, <3>1, ScanFrame
  <2>6. Warnings'
    <3>1. \A t \in Streams : HasURL(t)' => line'[t] \in URLs
      BY <1>1, <2>4, <2>5 DEF Inv, Warnings, HasURL
    <3>2. ASSUME NEW u \in URLs
          PROVE  Seen(u)' <=> Seen(u) \/ u = line[s]
      BY <2>2, <2>3 DEF Seen
    <3>3. ASSUME NEW u \in URLs
          PROVE  (\E t \in Streams : HasURL(t)' /\ line'[t] = u)
                   <=> (\E t \in Streams : HasURL(t) /\ line[t] = u) \/ u = line[s]
      BY <1>1, <2>4, <2>5 DEF HasURL
    <3> QED BY <1>1, <3>1, <3>2, <3>3 DEF Inv, Warnings
  <2>7. Lengths' /\ Results'
    BY <1>1, <2>4, <2>5 DEF Inv, Lengths, Stores, Results
  <2> QED BY <2>5, <2>6, <2>7 DEF Inv
<1> QED BY <1>2, <1>3

(* The URL is that of lastURL, and another scanner's or its own warning of  *)
(* it is given or to come.                                                  *)
LEMMA CompareStep ==
  ASSUME Inv, NEW s \in Streams, Compare(s),
         UNCHANGED <<dbus, script, sent, open, status, cancelled, main, result>>
  PROVE  Inv'
<1>1. /\ scanner[s] = "compare" /\ UNCHANGED <<pipe, line, lastURL, logged, warned>>
      /\ main = "scan" /\ line[s] \in URLs
  BY Scanning DEF Compare, Inv, Warnings, HasURL
<1>2. PICK l \in {"scan", "set_len"} : Goto(s, l) /\ (l = "scan" => lastURL.len = line[s])
  BY DEF Compare
<1>3. /\ Typed' /\ Quiet'
      /\ scanner'[s] = l /\ \A t \in Streams \ {s} : scanner'[t] = scanner[t]
  <2>1. ScanTypes'
    BY <1>1, ScanTypesNow DEF ScanTypes
  <2> QED BY <1>1, <1>2, <2>1, ScanFrame
<1>4. Warnings'
  <2>1. CASE l = "set_len"
    BY <1>1, <1>3, <2>1 DEF Inv, Warnings, HasURL, Seen
  <2>2. CASE l = "scan"
    <3>1. line[s] \in warned \/ \E t \in Streams \ {s} : HasURL(t) /\ line[t] = line[s]
      BY <1>1, <1>2, <2>2 DEF Inv, Lengths, Stores, HasURL, URLs
    <3>2. \A u \in URLs : (u \in warned \/ \E t \in Streams : HasURL(t)' /\ line'[t] = u)
                            <=> (u \in warned \/ \E t \in Streams : HasURL(t) /\ line[t] = u)
      BY <1>1, <1>3, <2>2, <3>1 DEF HasURL
    <3>3. \A t \in Streams : HasURL(t)' => line'[t] \in URLs
      BY <1>1, <1>3, <2>2 DEF Inv, Warnings, HasURL
    <3> QED BY <1>1, <3>2, <3>3 DEF Inv, Warnings, Seen
  <2> QED BY <2>1, <2>2
<1>5. Lengths' /\ Results'
  BY <1>1, <1>2, <1>3 DEF Inv, Lengths, Stores, Results
<1> QED BY <1>3, <1>4, <1>5 DEF Inv

LEMMA StoreStep ==
  ASSUME Inv, NEW s \in Streams, SetLen(s) \/ SetPtr(s) \/ Warn(s),
         UNCHANGED <<dbus, script, sent, open, status, cancelled, main, result>>
  PROVE  Inv'
<1>1. /\ HasURL(s) /\ UNCHANGED <<pipe, line, logged>> /\ main = "scan" /\ line[s] \in URLs
  BY Scanning DEF SetLen, SetPtr, Warn, Inv, Warnings, HasURL
<1>2. /\ lastURL.ptr \in {"blank"} \cup URLs /\ lastURL.len \in {"blank"} \cup URLs
  BY DEF Inv, Typed, TypeOK
<1>3. CASE SetLen(s)
  <2>1. /\ lastURL' \in [ptr : {"blank"} \cup URLs, len : {"blank"} \cup URLs]
        /\ lastURL'.len = line[s] /\ UNCHANGED warned /\ scanner[s] = "set_len"
    BY <1>1, <1>2, <1>3 DEF SetLen, Inv, Typed, TypeOK
  <2>2. /\ Typed' /\ Quiet'
        /\ scanner'[s] = "set_ptr" /\ \A t \in Streams \ {s} : scanner'[t] = scanner[t]
    <3>1. ScanTypes' /\ Goto(s, "set_ptr")
      BY <1>1, <1>3, <2>1, ScanTypesNow DEF SetLen, ScanTypes
    <3> QED BY <1>1, <2>1, <3>1, ScanFrame
  <2>3. Warnings'
    BY <1>1, <2>1, <2>2 DEF Inv, Warnings, HasURL, Seen
  <2>4. Lengths' /\ Results'
    BY <1>1, <2>1, <2>2 DEF Inv, Lengths, Stores, Results, URLs
  <2> QED BY <2>2, <2>3, <2>4 DEF Inv
<1>4. CASE SetPtr(s)
  <2>1. /\ lastURL' \in [ptr : {"blank"} \cup URLs, len : {"blank"} \cup URLs]
        /\ lastURL'.len = lastURL.len /\ UNCHANGED warned /\ scanner[s] = "set_ptr"
    BY <1>1, <1>2, <1>4 DEF SetPtr, Inv, Typed, TypeOK
  <2>2. /\ Typed' /\ Quiet'
        /\ scanner'[s] = "warn" /\ \A t \in Streams \ {s} : scanner'[t] = scanner[t]
    <3>1. ScanTypes' /\ Goto(s, "warn")
      BY <1>1, <1>4, <2>1, ScanTypesNow DEF SetPtr, ScanTypes
    <3> QED BY <1>1, <2>1, <3>1, ScanFrame
  <2>3. Warnings'
    BY <1>1, <2>1, <2>2 DEF Inv, Warnings, HasURL, Seen
  <2>4. Lengths' /\ Results'
    BY <1>1, <2>1, <2>2 DEF Inv, Lengths, Stores, Results
  <2> QED BY <2>2, <2>3, <2>4 DEF Inv
<1>5. CASE Warn(s)
  <2>1. /\ UNCHANGED lastURL /\ scanner[s] = "warn"
        /\ warned' = warned \cup {line[s]} /\ warned' \subseteq URLs
    BY <1>1, <1>5 DEF Warn, Inv, Typed, TypeOK
  <2>2. /\ Typed' /\ Quiet'
        /\ scanner'[s] = "scan" /\ \A t \in Streams \ {s} : scanner'[t] = scanner[t]
    <3>1. ScanTypes' /\ Goto(s, "scan")
      BY <1>1, <1>5, <2>1, ScanTypesNow DEF Warn, ScanTypes
    <3> QED BY <1>1, <2>1, <3>1, ScanFrame
  <2>3. Warnings'
    <3>1. \A t \in Streams : HasURL(t)' => line'[t] \in URLs
      BY <1>1, <2>2 DEF Inv, Warnings, HasURL
    <3>2. \A u \in URLs : (u \in warned' \/ \E t \in Streams : HasURL(t)' /\ line'[t] = u)
                            <=> (u \in warned \/ \E t \in Streams : HasURL(t) /\ line[t] = u)
      BY <1>1, <2>1, <2>2 DEF HasURL
    <3> QED BY <1>1, <3>1, <3>2 DEF Inv, Warnings, Seen
  <2>4. Lengths' /\ Results'
    BY <1>1, <2>1, <2>2 DEF Inv, Lengths, Stores, Results
  <2> QED BY <2>2, <2>3, <2>4 DEF Inv
<1> QED BY <1>3, <1>4, <1>5

LEMMA InvStep == Inv /\ [Next]_vars => Inv'
<1> SUFFICES ASSUME Inv, [Next]_vars PROVE Inv'
  OBVIOUS
<1>1. ASSUME NEW s \in Streams, Scan(s) PROVE Inv'
  BY <1>1, TakeStep, LogStep, CompareStep, StoreStep DEF Scan
<1> QED BY <1>1, ProcessStep, WriteStep, MainStep DEF Next

LEMMA InvHolds == Spec => []Inv
  BY InvInit, InvStep, PTL DEF Spec

(* Once main is back no scanner has a URL in hand. *)
LEMMA AllReported == Inv => UrlReported
<1> SUFFICES ASSUME Inv, main = "returned"
             PROVE  /\ {u \in URLs : \E s \in Streams : u \in ToSet(logged[s])} = warned
                    /\ result = "failed_url" => warned # {}
                    /\ result = "failed" => warned = {}
  BY DEF UrlReported
<1>1. \A s \in Streams : ~ HasURL(s) /\ ~ Stores(s)
  BY DEF Inv, Quiet, HasURL, Stores
<1>2. \A u \in URLs : Seen(u) <=> u \in warned
  BY <1>1 DEF Inv, Warnings
<1>3. {u \in URLs : \E s \in Streams : u \in ToSet(logged[s])} = warned
  BY <1>2 DEF Seen, Inv, Typed, TypeOK
<1>4. result = "failed_url" => warned # {}
  BY <1>1 DEF Inv, Results, Lengths
<1>5. result = "failed" => warned = {}
  BY DEF Inv, Results, Lengths
<1> QED BY <1>3, <1>4, <1>5

-----------------------------------------------------------------------------
(* Lines at places of the script. *)

LEMMA LinesStay ==
  ASSUME UNCHANGED script
  PROVE  \A q, K : LinesAt(q, K)' = LinesAt(q, K)
  BY DEF LinesAt

LEMMA NoLines == \A q \in Seq(Lines) : \A K : q = <<>> => (LinesAt(q, K) <=> K = {})
<1> SUFFICES ASSUME NEW q \in Seq(Lines), NEW K, q = <<>> PROVE LinesAt(q, K) <=> K = {}
  OBVIOUS
<1>1. Len(q) = 0
  OBVIOUS
<1>2. \A i \in 1..Len(q) : FALSE
  BY <1>1
<1>3. LinesAt(q, K) => K = {}
  BY <1>2 DEF LinesAt
<1>4. ASSUME K = {} PROVE LinesAt(q, K)
  <2> DEFINE at == [i \in 1..Len(q) |-> i]
  <2>1. at \in [1..Len(q) -> K]
    BY <1>2
  <2>2. \A k \in K : FALSE
    BY <1>4
  <2> HIDE DEF at
  <2> QED BY <1>2, <2>1, <2>2 DEF LinesAt
<1> QED BY <1>3, <1>4

(* A line from behind the others. *)
LEMMA LinesAppend ==
  ASSUME NEW q \in Seq(Lines), NEW K \in SUBSET Nat, LinesAt(q, K),
         NEW k \in Nat, \A j \in K : j < k, NEW e \in Lines, e = script[k].line
  PROVE  LinesAt(Append(q, e), K \cup {k})
<1> DEFINE n == Len(q)  r == Append(q, e)  L == K \cup {k}
<1>1. /\ n \in Nat /\ Len(r) = n + 1 /\ r[n + 1] = e
      /\ \A i \in 1..n : r[i] = q[i]
  OBVIOUS
<1>2. PICK at \in [1..n -> K] :
        /\ \A i, j \in 1..n : i < j => at[i] < at[j]
        /\ \A j \in K : \E i \in 1..n : at[i] = j
        /\ \A i \in 1..n : q[i] = script[at[i]].line
  BY DEF LinesAt
<1> DEFINE bt == [i \in 1..n + 1 |-> IF i = n + 1 THEN k ELSE at[i]]
<1> HIDE DEF n, r
<1>3. /\ \A i \in 1..n + 1 : i = n + 1 \/ i \in 1..n
      /\ n + 1 \in 1..n + 1 /\ \A i \in 1..n : i \in 1..n + 1 /\ i # n + 1
  BY <1>1
<1>4. bt[n + 1] = k /\ \A i \in 1..n : bt[i] = at[i] /\ at[i] \in K
  BY <1>3
<1>5. bt \in [1..n + 1 -> L]
  BY <1>3
<1> HIDE DEF bt
<1>6. ASSUME NEW i \in 1..n + 1, NEW j \in 1..n + 1, i < j PROVE bt[i] < bt[j]
  <2>1. i \in 1..n
    BY <1>1, <1>6
  <2>2. CASE j = n + 1
    BY <1>4, <2>1, <2>2
  <2>3. CASE j \in 1..n
    BY <1>2, <1>4, <1>6, <2>1, <2>3
  <2> QED BY <1>3, <2>2, <2>3
<1>7. ASSUME NEW j \in L PROVE \E i \in 1..n + 1 : bt[i] = j
  <2>1. CASE j = k
    BY <1>3, <1>4, <2>1
  <2>2. CASE j \in K
    BY <1>2, <1>3, <1>4, <2>2
  <2> QED BY <2>1, <2>2
<1>8. ASSUME NEW i \in 1..n + 1 PROVE r[i] = script[bt[i]].line
  <2>1. CASE i = n + 1
    BY <1>1, <1>4, <2>1
  <2>2. CASE i \in 1..n
    BY <1>1, <1>2, <1>4, <2>2
  <2> QED BY <1>3, <2>1, <2>2
<1> HIDE DEF L
<1>9. LinesAt(r, L)
  <2>1. Len(r) = n + 1
    BY <1>1
  <2>2. \E ct \in [1..Len(r) -> L] : ct = bt
    BY <1>5, <2>1
  <2>3. /\ \A i, j \in 1..Len(r) : i < j => bt[i] < bt[j]
        /\ \A j \in L : \E i \in 1..Len(r) : bt[i] = j
        /\ \A i \in 1..Len(r) : r[i] = script[bt[i]].line
    BY <1>6, <1>7, <1>8, <2>1
  <2> QED BY <2>2, <2>3, Zenon DEF LinesAt
<1> QED BY <1>9 DEF r, L

(* The line before the others. *)
LEMMA LinesTail ==
  ASSUME NEW q \in Seq(Lines), q # <<>>, NEW K \in SUBSET Nat, LinesAt(q, K)
  PROVE  \E k \in K : /\ script[k].line = Head(q)
                      /\ \A j \in K : k <= j
                      /\ LinesAt(Tail(q), K \ {k})
<1> DEFINE n == Len(q)  r == Tail(q)
<1>1. /\ n \in Nat /\ n > 0 /\ Len(r) = n - 1 /\ Head(q) = q[1]
      /\ \A i \in 1..n - 1 : r[i] = q[i + 1]
  OBVIOUS
<1>2. PICK at \in [1..n -> K] :
        /\ \A i, j \in 1..n : i < j => at[i] < at[j]
        /\ \A j \in K : \E i \in 1..n : at[i] = j
        /\ \A i \in 1..n : q[i] = script[at[i]].line
  BY DEF LinesAt
<1> DEFINE k == at[1]  bt == [i \in 1..n - 1 |-> at[i + 1]]  L == K \ {k}
<1> HIDE DEF n, r
<1>3. 1 \in 1..n /\ \A i \in 1..n - 1 : i + 1 \in 1..n /\ 1 < i + 1
  BY <1>1
<1>4. k \in K /\ script[k].line = Head(q)
  BY <1>1, <1>2, <1>3
<1>5. \A i \in 1..n : i = 1 \/ (1 < i /\ i - 1 \in 1..n - 1 /\ (i - 1) + 1 = i)
  BY <1>1
<1>6. \A i \in 1..n : i # 1 => k < at[i]
  BY <1>2, <1>3, <1>5
<1>7. \A i \in 1..n : at[i] \in Nat /\ k \in Nat
  BY <1>3
<1>8. ASSUME NEW j \in K PROVE k <= j
  <2>1. PICK i \in 1..n : at[i] = j
    BY <1>2
  <2> QED BY <1>6, <1>7, <2>1
<1>9. ASSUME NEW i \in 1..n - 1 PROVE at[i + 1] \in L
  <2>1. i + 1 \in 1..n /\ i + 1 # 1
    BY <1>3
  <2>2. k < at[i + 1] /\ at[i + 1] \in K /\ at[i + 1] \in Nat
    BY <1>6, <1>7, <2>1
  <2> QED BY <1>7, <1>3, <2>2
<1>10. bt \in [1..n - 1 -> L] /\ \A i \in 1..n - 1 : bt[i] = at[i + 1]
  BY <1>9
<1> HIDE DEF bt
<1>11. ASSUME NEW i \in 1..n - 1, NEW j \in 1..n - 1, i < j PROVE bt[i] < bt[j]
  <2>1. i + 1 \in 1..n /\ j + 1 \in 1..n /\ i + 1 < j + 1
    BY <1>1, <1>11
  <2> QED BY <1>2, <1>10, <2>1
<1>12. ASSUME NEW j \in L PROVE \E i \in 1..n - 1 : bt[i] = j
  <2>1. PICK i \in 1..n : at[i] = j
    BY <1>2
  <2>2. i # 1
    BY <2>1
  <2>3. i - 1 \in 1..n - 1 /\ (i - 1) + 1 = i
    BY <1>5, <2>2
  <2>4. bt[i - 1] = j
    BY <1>10, <2>1, <2>3
  <2> QED BY <2>3, <2>4
<1>13. ASSUME NEW i \in 1..n - 1 PROVE r[i] = script[bt[i]].line
  BY <1>1, <1>2, <1>3, <1>10
<1> HIDE DEF L, k
<1>14. LinesAt(r, L)
  <2>1. Len(r) = n - 1
    BY <1>1
  <2>2. \E ct \in [1..Len(r) -> L] : ct = bt
    BY <1>10, <2>1
  <2>3. /\ \A i, j \in 1..Len(r) : i < j => bt[i] < bt[j]
        /\ \A j \in L : \E i \in 1..Len(r) : bt[i] = j
        /\ \A i \in 1..Len(r) : r[i] = script[bt[i]].line
    BY <1>11, <1>12, <1>13, <2>1
  <2> QED BY <2>2, <2>3, Zenon DEF LinesAt
<1> QED BY <1>4, <1>8, <1>14 DEF r, L

-----------------------------------------------------------------------------
(* Every line that was written is logged, held by the scanner or in the     *)
(* pipe, as long as the scanner has not stopped.                            *)

(* Where the lines of s behind the first m are. *)
Pending(s, m) == {k \in m + 1..sent : script[k].on = s}

(* Of the first m lines those of s are logged; the scanner may hold the     *)
(* last.                                                                    *)
Taken(s, m) ==
  \/ scanner[s] # "line" /\ LinesAt(logged[s], Texts(s, m))
  \/ /\ scanner[s] = "line" /\ m > 0 /\ script[m].on = s /\ script[m].line = line[s]
     /\ LinesAt(logged[s], Texts(s, m - 1))

Accounted(s) ==
  scanner[s] # "stopped" =>
    \E m \in 0..sent : LinesAt(pipe[s], Pending(s, m)) /\ Taken(s, m)

Account == /\ \A s \in Streams : Accounted(s)
           /\ \A s \in Streams : scanner[s] = "eof" => pipe[s] = <<>> /\ open = {}

LEMMA AccountInit == Init => Account
<1> SUFFICES ASSUME Init PROVE Account
  OBVIOUS
<1>1. /\ sent = 0
      /\ \A s \in Streams : /\ pipe[s] = <<>> /\ logged[s] = <<>> /\ scanner[s] = "scan"
                            /\ pipe[s] \in Seq(Lines) /\ logged[s] \in Seq(Lines)
  BY DEF Init
<1>2. ASSUME NEW s \in Streams PROVE Accounted(s)
  <2>1. Pending(s, 0) = {} /\ Texts(s, 0) = {}
    BY <1>1 DEF Pending, Texts
  <2>2. LinesAt(pipe[s], Pending(s, 0)) /\ LinesAt(logged[s], Texts(s, 0))
    BY <1>1, <2>1, NoLines
  <2>3. 0 \in 0..sent
    BY <1>1
  <2> QED BY <1>1, <2>2, <2>3 DEF Accounted, Taken
<1> QED BY <1>1, <1>2 DEF Account

LEMMA SentIsNat ==
  ASSUME Inv
  PROVE  /\ sent \in Nat
         /\ \A s \in Streams : /\ pipe[s] \in Seq(Lines) /\ logged[s] \in Seq(Lines)
                               /\ line[s] \in Lines
<1>1. script \in Seq([on : Streams, line : Lines])
  BY ScriptsAssumption DEF Inv, Typed, TypeOK
<1>2. Len(script) \in Nat
  BY <1>1
<1>3. sent \in 0..Len(script)
  BY DEF Inv, Typed, TypeOK
<1>4. sent \in Nat
  BY <1>2, <1>3
<1> QED BY <1>4 DEF Inv, Typed, TypeOK

(* A scanner that neither takes a line nor logs one. *)
LEMMA AccountedStays ==
  ASSUME NEW s \in Streams, Accounted(s), UNCHANGED <<script, sent>>,
         pipe'[s] = pipe[s], line'[s] = line[s], logged'[s] = logged[s],
         scanner'[s] # "stopped" => scanner[s] # "stopped",
         scanner'[s] = "line" <=> scanner[s] = "line"
  PROVE  Accounted(s)'
<1>1. \A q, K : LinesAt(q, K)' = LinesAt(q, K)
  BY LinesStay
<1> SUFFICES ASSUME scanner'[s] # "stopped"
             PROVE  (\E m \in 0..sent : LinesAt(pipe[s], Pending(s, m)) /\ Taken(s, m))'
  BY DEF Accounted
<1>2. PICK m \in 0..sent : LinesAt(pipe[s], Pending(s, m)) /\ Taken(s, m)
  BY DEF Accounted
<1>3. Pending(s, m)' = Pending(s, m) /\ Texts(s, m)' = Texts(s, m)
      /\ Texts(s, m - 1)' = Texts(s, m - 1)
  BY DEF Pending, Texts
<1>4. LinesAt(pipe[s], Pending(s, m))'
  BY <1>1, <1>2, <1>3
<1>5. Taken(s, m)'
  BY <1>1, <1>2, <1>3 DEF Taken
<1>6. m \in 0..sent'
  OBVIOUS
<1> QED BY <1>4, <1>5, <1>6

LEMMA AccountFrame ==
  ASSUME Inv, Account, UNCHANGED <<pipe, scanner, line, logged, script, sent>>,
         open' \subseteq open \/ main = "start"
  PROVE  Account'
<1>1. \A s \in Streams : Accounted(s)'
  BY AccountedStays DEF Account
<1>2. ASSUME NEW s \in Streams, scanner'[s] = "eof" PROVE pipe'[s] = <<>> /\ open' = {}
  BY <1>2 DEF Account, Inv, Quiet
<1> QED BY <1>1, <1>2 DEF Account

LEMMA AccountProcess ==
  ASSUME Inv, Account, Cancel \/ CliEnds \/ BusEnds \/ Kill \/ Main \/ UNCHANGED vars
  PROVE  Account'
<1>1. UNCHANGED <<pipe, scanner, line, logged, script, sent>>
  BY DEF Cancel, CliEnds, BusEnds, Kill, Main, Start, ScansDone, Wait, vars
<1>2. open' \subseteq open \/ main = "start"
  BY DEF Cancel, CliEnds, BusEnds, Kill, Main, Start, ScansDone, Wait, vars
<1> QED BY <1>1, <1>2, AccountFrame

LEMMA AccountWrite ==
  ASSUME Inv, Account, CliWrites
  PROVE  Account'
<1> DEFINE k == sent + 1  s == script[k].on  e == script[k].line
<1>1. /\ sent \in Nat /\ k \in Nat
      /\ \A t \in Streams : pipe[t] \in Seq(Lines) /\ logged[t] \in Seq(Lines)
  BY SentIsNat
<1>2. k \in 1..Len(script) /\ s \in Streams /\ e \in Lines
  <2>1. script \in Seq([on : Streams, line : Lines])
    BY ScriptsAssumption DEF Inv, Typed, TypeOK
  <2>2. Len(script) \in Nat /\ sent \in 0..Len(script) /\ sent < Len(script)
    BY <2>1 DEF CliWrites, Inv, Typed, TypeOK
  <2>3. k \in 1..Len(script)
    BY <2>2
  <2> DEFINE R == [on : Streams, line : Lines]
  <2>4. script \in Seq(R)
    BY <2>1
  <2> HIDE DEF R
  <2>5. script[k] \in R
    BY <2>3, <2>4
  <2> QED BY <2>3, <2>5 DEF R
<1>3. /\ pipe' = [pipe EXCEPT ![s] = Append(pipe[s], e)] /\ sent' = k /\ open # {}
      /\ UNCHANGED <<script, open, scanner, line, logged>>
  BY DEF CliWrites
<1> HIDE DEF s, e
<1>4. pipe'[s] = Append(pipe[s], e) /\ \A t \in Streams \ {s} : pipe'[t] = pipe[t]
  BY <1>2, <1>3 DEF Inv, Typed
<1>5. \A q, K : LinesAt(q, K)' = LinesAt(q, K)
  BY <1>3, LinesStay
<1>6. ASSUME NEW t \in Streams, scanner'[t] # "stopped" PROVE Accounted(t)'
  <2>1. PICK m \in 0..sent : LinesAt(pipe[t], Pending(t, m)) /\ Taken(t, m)
    BY <1>3, <1>6 DEF Account, Accounted
  <2>2. m \in Nat /\ m <= sent
    BY <1>1, <2>1
  <2>3. /\ Texts(t, m)' = Texts(t, m) /\ Texts(t, m - 1)' = Texts(t, m - 1)
    BY <1>3 DEF Texts
  <2>4. Taken(t, m)'
    BY <1>3, <1>5, <2>1, <2>3 DEF Taken
  <2>5. Pending(t, m)' = IF t = s THEN Pending(t, m) \cup {k} ELSE Pending(t, m)
    <3>1. \A j : j \in m + 1..k <=> j \in m + 1..sent \/ j = k
      BY <1>1, <2>2
    <3> QED BY <1>3, <3>1 DEF Pending, s
  <2>6. LinesAt(pipe'[t], Pending(t, m)')
    <3>1. CASE t = s
      <4>1. Pending(s, m) \in SUBSET Nat /\ \A j \in Pending(s, m) : j < k
        BY <1>1, <2>2 DEF Pending
      <4>2. LinesAt(Append(pipe[s], e), Pending(s, m) \cup {k})
        BY <1>1, <1>2, <2>1, <3>1, <4>1, LinesAppend DEF e
      <4> QED BY <1>4, <2>5, <3>1, <4>2
    <3>2. CASE t # s
      BY <1>4, <2>1, <2>5, <3>2
    <3> QED BY <3>1, <3>2
  <2>7. LinesAt(pipe[t], Pending(t, m))'
    BY <1>5, <2>6
  <2>8. m \in 0..sent'
    BY <1>1, <1>3, <2>2
  <2> QED BY <2>4, <2>7, <2>8 DEF Accounted
<1>7. \A t \in Streams : Accounted(t)'
  BY <1>6 DEF Accounted
<1>8. \A t \in Streams : scanner'[t] # "eof"
  BY <1>3 DEF Account
<1> QED BY <1>7, <1>8 DEF Account

(* What a step of the scanner s leaves of the others. *)
LEMMA AccountOthers ==
  ASSUME Account, NEW s \in Streams, UNCHANGED <<script, sent, open>>,
         \A t \in Streams \ {s} : /\ pipe'[t] = pipe[t] /\ line'[t] = line[t]
                                  /\ logged'[t] = logged[t] /\ scanner'[t] = scanner[t],
         Accounted(s)', scanner'[s] = "eof" => pipe'[s] = <<>> /\ open = {}
  PROVE  Account'
<1>1. \A t \in Streams \ {s} : Accounted(t)'
  BY AccountedStays DEF Account
<1> QED BY <1>1 DEF Account

(* The line that comes is the first that was pending. *)
LEMMA AccountTake ==
  ASSUME Inv, Account, NEW s \in Streams, Take(s),
         UNCHANGED <<dbus, script, sent, open, status, cancelled, main, result>>
  PROVE  Account'
<1>1. /\ sent \in Nat /\ pipe[s] \in Seq(Lines)
      /\ scanner[s] = "scan" /\ pipe[s] # <<>> /\ UNCHANGED logged
  BY SentIsNat DEF Take
<1>2. /\ pipe'[s] = Tail(pipe[s]) /\ line'[s] = Head(pipe[s])
      /\ \A t \in Streams \ {s} : /\ pipe'[t] = pipe[t] /\ line'[t] = line[t]
                                  /\ scanner'[t] = scanner[t]
      /\ scanner'[s] \in {"stopped", "line"}
  BY DEF Take, Goto, Inv, Typed, TypeOK
<1>3. Accounted(s)'
  <2> SUFFICES ASSUME scanner'[s] = "line" PROVE Accounted(s)'
    BY <1>2 DEF Accounted
  <2>1. PICK m \in 0..sent : LinesAt(pipe[s], Pending(s, m)) /\ Taken(s, m)
    BY <1>1 DEF Account, Accounted
  <2>2. m \in Nat /\ m <= sent /\ LinesAt(logged[s], Texts(s, m))
    BY <1>1, <2>1 DEF Taken
  <2>3. Pending(s, m) \in SUBSET Nat
    BY <1>1, <2>2 DEF Pending
  <2>4. PICK k \in Pending(s, m) : /\ script[k].line = Head(pipe[s])
                                   /\ \A j \in Pending(s, m) : k <= j
                                   /\ LinesAt(Tail(pipe[s]), Pending(s, m) \ {k})
    BY <1>1, <2>1, <2>3, LinesTail
  <2>5. k \in Nat /\ m < k /\ k <= sent /\ script[k].on = s /\ k > 0 /\ k - 1 \in Nat
    BY <1>1, <2>2 DEF Pending
  <2>6. Pending(s, k) = Pending(s, m) \ {k}
    <3>1. \A j \in Pending(s, k) : j \in Pending(s, m) /\ j # k
      BY <1>1, <2>2, <2>5 DEF Pending
    <3>2. ASSUME NEW j \in Pending(s, m), j # k PROVE j \in Pending(s, k)
      <4>1. j \in m + 1..sent /\ script[j].on = s /\ k <= j
        BY <2>4 DEF Pending
      <4>2. j \in k + 1..sent
        BY <1>1, <2>2, <2>5, <3>2, <4>1
      <4> QED BY <4>1, <4>2 DEF Pending
    <3> QED BY <3>1, <3>2
  <2>7. Texts(s, k - 1) = Texts(s, m)
    <3>1. \A j \in Texts(s, m) : j \in Texts(s, k - 1)
      BY <2>2, <2>5 DEF Texts
    <3>2. ASSUME NEW j \in Texts(s, k - 1) PROVE j \in Texts(s, m)
      <4>1. j \in 1..k - 1 /\ script[j].on = s /\ script[j].line # "blank"
        BY DEF Texts
      <4>2. CASE j \in 1..m
        BY <4>1, <4>2 DEF Texts
      <4>3. CASE j \in m + 1..sent
        <5>1. k <= j
          BY <2>4, <4>1, <4>3 DEF Pending
        <5> QED BY <2>5, <4>1, <5>1
      <4> QED BY <1>1, <2>2, <2>5, <4>1, <4>2, <4>3
    <3> QED BY <3>1, <3>2
  <2>8. \A q, K : LinesAt(q, K)' = LinesAt(q, K)
    BY LinesStay
  <2>9. Pending(s, k)' = Pending(s, k) /\ Texts(s, k - 1)' = Texts(s, k - 1)
    BY DEF Pending, Texts
  <2>10. LinesAt(pipe[s], Pending(s, k))'
    BY <1>2, <2>4, <2>6, <2>8, <2>9
  <2>11. LinesAt(logged[s], Texts(s, k - 1))'
    BY <1>1, <2>2, <2>7, <2>8, <2>9
  <2>12. Taken(s, k)'
    BY <1>2, <2>4, <2>5, <2>11 DEF Taken
  <2>13. k \in 0..sent'
    BY <1>1, <2>5
  <2> QED BY <2>10, <2>12, <2>13 DEF Accounted
<1>4. scanner'[s] # "eof"
  BY <1>2
<1> QED BY <1>1, <1>2, <1>3, <1>4, AccountOthers

LEMMA AccountEof ==
  ASSUME Inv, Account, NEW s \in Streams, Eof(s),
         UNCHANGED <<dbus, script, sent, open, status, cancelled, main, result>>
  PROVE  Account'
<1>1. /\ scanner[s] = "scan" /\ pipe[s] = <<>> /\ open = {}
      /\ UNCHANGED <<pipe, line, logged>>
      /\ scanner'[s] = "eof" /\ \A t \in Streams \ {s} : scanner'[t] = scanner[t]
  BY DEF Eof, Goto, Inv, Typed, TypeOK
<1>2. Accounted(s)'
  BY <1>1, AccountedStays DEF Account
<1> QED BY <1>1, <1>2, AccountOthers

LEMMA AccountLog ==
  ASSUME Inv, Account, NEW s \in Streams, Log(s),
         UNCHANGED <<dbus, script, sent, open, status, cancelled, main, result>>
  PROVE  Account'
<1>1. /\ sent \in Nat /\ logged[s] \in Seq(Lines) /\ line[s] \in Lines
      /\ scanner[s] = "line" /\ UNCHANGED <<pipe, line>>
  BY SentIsNat DEF Log
<1>2. /\ scanner'[s] \in {"scan", "compare"}
      /\ logged'[s] = IF line[s] = "blank" THEN logged[s] ELSE Append(logged[s], line[s])
      /\ \A t \in Streams \ {s} : logged'[t] = logged[t] /\ scanner'[t] = scanner[t]
  BY DEF Log, Goto, Inv, Typed, TypeOK
<1>3. Accounted(s)'
  <2>1. PICK m \in 0..sent : LinesAt(pipe[s], Pending(s, m)) /\ Taken(s, m)
    BY <1>1 DEF Account, Accounted
  <2>2. /\ m \in Nat /\ m <= sent /\ m > 0 /\ m - 1 \in Nat
        /\ script[m].on = s /\ script[m].line = line[s]
        /\ LinesAt(logged[s], Texts(s, m - 1))
    BY <1>1, <2>1 DEF Taken
  <2>3. Texts(s, m) = IF line[s] = "blank" THEN Texts(s, m - 1) ELSE Texts(s, m - 1) \cup {m}
    <3>1. \A j : j \in 1..m <=> j \in 1..m - 1 \/ j = m
      BY <2>2
    <3> QED BY <2>2, <3>1 DEF Texts
  <2>4. LinesAt(logged'[s], Texts(s, m))
    <3>1. CASE line[s] = "blank"
      BY <1>2, <2>2, <2>3, <3>1
    <3>2. CASE line[s] # "blank"
      <4>1. Texts(s, m - 1) \in SUBSET Nat /\ \A j \in Texts(s, m - 1) : j < m
        BY <2>2 DEF Texts
      <4>2. LinesAt(Append(logged[s], line[s]), Texts(s, m - 1) \cup {m})
        BY <1>1, <2>2, <4>1, LinesAppend
      <4> QED BY <1>2, <2>3, <3>2, <4>2
    <3> QED BY <3>1, <3>2
  <2>5. \A q, K : LinesAt(q, K)' = LinesAt(q, K)
    BY LinesStay
  <2>6. Pending(s, m)' = Pending(s, m) /\ Texts(s, m)' = Texts(s, m)
    BY DEF Pending, Texts
  <2>7. LinesAt(pipe[s], Pending(s, m))' /\ LinesAt(logged[s], Texts(s, m))'
    BY <1>1, <2>1, <2>4, <2>5, <2>6
  <2>8. Taken(s, m)'
    BY <1>2, <2>7 DEF Taken
  <2> QED BY <2>1, <2>7, <2>8 DEF Accounted
<1>4. scanner'[s] # "eof"
  BY <1>2
<1> QED BY <1>1, <1>2, <1>3, <1>4, AccountOthers

(* Whether a URL is compared, stored or warned of is of no matter here. *)
LEMMA AccountStore ==
  ASSUME Inv, Account, NEW s \in Streams, Compare(s) \/ SetLen(s) \/ SetPtr(s) \/ Warn(s),
         UNCHANGED <<dbus, script, sent, open, status, cancelled, main, result>>
  PROVE  Account'
<1>1. /\ UNCHANGED <<pipe, line, logged>>
      /\ scanner[s] \notin {"line", "stopped"}
      /\ scanner'[s] \notin {"line", "stopped", "eof"}
      /\ \A t \in Streams \ {s} : scanner'[t] = scanner[t]
  BY DEF Compare, SetLen, SetPtr, Warn, Goto, Inv, Typed, TypeOK
<1>2. Accounted(s)'
  BY <1>1, AccountedStays DEF Account
<1> QED BY <1>1, <1>2, AccountOthers

LEMMA AccountStep == Inv /\ Account /\ [Next]_vars => Account'
<1> SUFFICES ASSUME Inv, Account, [Next]_vars PROVE Account'
  OBVIOUS
<1>1. ASSUME NEW s \in Streams, Scan(s) PROVE Account'
  BY <1>1, AccountTake, AccountEof, AccountLog, AccountStore DEF Scan
<1> QED BY <1>1, AccountProcess, AccountWrite DEF Next

LEMMA AccountHolds == Spec => []Account
  BY InvInit, InvStep, AccountInit, AccountStep, PTL DEF Spec

(* Once main is back nothing is pending, and no scanner holds a line. *)
LEMMA AllAccounted == Inv /\ Account => AllLinesLogged
<1> SUFFICES ASSUME Inv, Account, main = "returned",
                    NEW s \in Streams, scanner[s] # "stopped"
             PROVE  LinesAt(logged[s], Texts(s, sent))
  BY DEF AllLinesLogged
<1>1. pipe[s] = <<>> /\ scanner[s] # "line"
  BY DEF Inv, Quiet, Account
<1>2. sent \in Nat /\ pipe[s] \in Seq(Lines)
  BY SentIsNat
<1>3. PICK m \in 0..sent : LinesAt(pipe[s], Pending(s, m)) /\ Taken(s, m)
  BY DEF Account, Accounted
<1>4. Pending(s, m) = {} /\ LinesAt(logged[s], Texts(s, m))
  BY <1>1, <1>2, <1>3, NoLines DEF Taken
<1>5. Texts(s, sent) = Texts(s, m)
  <2>1. \A k : k \in 1..sent <=> k \in 1..m \/ k \in m + 1..sent
    BY <1>2
  <2> QED BY <1>4, <2>1 DEF Pending, Texts
<1> QED BY <1>4, <1>5

-----------------------------------------------------------------------------
(* The properties. *)

(* Every variable keeps its type, and no pipe holds more than it has room   *)
(* for.                                                                     *)
THEOREM TypeCorrect == FairSpec => []TypeOK
<1>1. Inv => TypeOK
  BY DEF Inv, Typed
<1> QED BY <1>1, InvHolds, PTL DEF FairSpec

(* With two scanners that compare and store lastURL a word at a time, each  *)
(* URL that was logged is warned of, and the error tells whether there was  *)
(* one.                                                                     *)
THEOREM UrlIsReported == FairSpec => []UrlReported
  BY AllReported, InvHolds, PTL DEF FairSpec

(* In whatever order the CLI, its wrapper and the bus end, what the CLI had *)
(* written when the login returns is logged line by line, in order and with *)
(* nothing but the blank lines left out, on a stream whose scanner did not  *)
(* give up.                                                                 *)
THEOREM LinesAreLogged == FairSpec => []AllLinesLogged
  BY AllAccounted, InvHolds, AccountHolds, PTL DEF FairSpec

=============================================================================
