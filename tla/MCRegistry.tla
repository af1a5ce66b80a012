------------------------------ MODULE MCRegistry ------------------------------
(* A small instance of Registry for TLC: one group of settings is varied at *)
(* a time, the others are set so that every target resolves.                *)
EXTENDS Registry

MCDatabases == {"app", "wiki"}

Well == [url |-> "set", key |-> "set", mount |-> "set", path |-> "set", xml |-> "set"]

Own == [section |-> "auth", first |-> TRUE, value |-> "plain"]

NoFile == [readable |-> FALSE, entries |-> <<>>]

File(es) == [readable |-> TRUE, entries |-> es]

Good == [prefix |-> "set", parts |-> <<"sonarr">>,
         app |-> [a \in Apps |-> Well],
         yaml |-> <<File(<<Own>>), NoFile, NoFile>>,
         mongo |-> [uri |-> "set", address |-> "unset"],
         pg |-> [uri |-> NoURI, host |-> "set", password |-> "set", db |-> "app",
                 all |-> FALSE]]

(* Lists with duplicates, empty parts and unknown names, of targets that    *)
(* may lack a setting each.                                                 *)
Lists ==
  LET Parts == {"lidarr", "navidrome", "komodo", "", "unknown"}
      Lack(noAddress, noMount, noPath) ==
        [Good EXCEPT
          !.mongo.uri = IF noAddress THEN "blank" ELSE "set",
          !.app["lidarr"].mount = IF noMount THEN "blank" ELSE "set",
          !.app["navidrome"].path = IF noPath THEN "missing" ELSE "set"]
  IN  {[Lack(a, m, p) EXCEPT !.prefix = x, !.parts = l] :
         a \in BOOLEAN, m \in BOOLEAN, p \in BOOLEAN, x \in {"set", "blank"},
         l \in UNION {[1..n -> Parts] : n \in 0..4}}

(* Every combination of one app's settings. *)
ApiSettings == {[Good EXCEPT !.parts = <<a>>, !.app[a] = s] :
                  a \in {"prowlarr", "bazarr", "ignis"}, s \in AppSettings}

(* Bazarr's files: up to two entries of sections other than auth around     *)
(* the one there is of auth, in the first file that can be read.            *)
Yamls ==
  LET Of(sec) == {e \in Entries : e.section = sec}
      Some(sec) == {<<>>} \cup {<<e>> : e \in Of(sec)}
      Contents == {b \o a \o c : b \in Some("other"), a \in Some("auth"),
                                 c \in Some("other")}
      Keyless == [Good EXCEPT !.parts = <<"bazarr">>, !.app["bazarr"].key = "unset"]
  IN  {[Keyless EXCEPT !.yaml = y] :
         y \in {<<File(es), File(<<Own>>), NoFile>> : es \in Contents}
               \cup {<<NoFile, NoFile, File(es)>> : es \in Contents}
               \cup {<<NoFile, NoFile, NoFile>>}}

PostgresSettings ==
  {[Good EXCEPT !.parts = <<"postgres">>,
                !.pg = [uri |-> u, host |-> h, password |-> w, db |-> d, all |-> a]] :
     u \in Connections \cup {NoURI}, h \in Settings, w \in {"unset", "set"},
     d \in Databases \cup {"blank"}, a \in BOOLEAN}

MongoSettings ==
  {[Good EXCEPT !.parts = <<"komodo">>, !.mongo = m] :
     m \in [uri : Settings, address : Settings]}

MCConfigurations ==
  Lists \cup ApiSettings \cup Yamls \cup PostgresSettings \cup MongoSettings

=============================================================================
