------------------------------- MODULE Registry -------------------------------
(****************************************************************************)
(* From the settings to the connections: internal/adapter/targets parses    *)
(* the list of enabled targets and resolves each one, with the API key that *)
(* internal/adapter/credentials finds in the app's own configuration, and   *)
(* the API clients and database dumpers build their connections from it.    *)
(*                                                                          *)
(* A setting is unset, blank or set; of what it is set to only what the     *)
(* code tells apart is kept.  One action is one turn of a loop.             *)
(****************************************************************************)
EXTENDS Integers, SequencesExt

CONSTANTS
  Configurations,  \* the settings and files to be checked, typed below
  Databases        \* databases of the Postgres server

Settings == {"unset", "blank", "set"}

ApiApps == {"sonarr", "radarr", "prowlarr", "lidarr", "bazarr"}

Apps == ApiApps \cup {"profilarr", "navidrome", "seerr", "soulsync", "ignis",
                      "komodo", "postgres"}

(* An apikey entry of Bazarr's config.yaml, in the order of the file: the   *)
(* section, whether it is the section's first entry, and how its value is   *)
(* written.                                                                 *)
Entries == [section : {"auth", "other"}, first : BOOLEAN,
            value : {"plain", "quoted", "quotes_only", "nothing"}]

(* A section of a YAML file has one value for a key. *)
Files == {f \in [readable : BOOLEAN, entries : Seq(Entries)] :
            \A i, j \in 1..Len(f.entries) :
              f.entries[i].section = "auth" /\ f.entries[j].section = "auth" => i = j}

(* A connection string: whether url.Parse takes it (libpq may take one that *)
(* it does not), and the database in its path and as ?dbname=.              *)
NoName == "none"

NoURI == [parses |-> FALSE, path |-> "unset", query |-> "unset"]

Connections == [parses : BOOLEAN, path : Databases \cup {NoName},
                query : Databases \cup {NoName}]

(* A url is malformed that is set and that url.Parse refuses; one of        *)
(* nothing but slashes is as good as blank.                                 *)
AppSettings == [url : Settings \cup {"malformed"}, key : Settings, mount : Settings,
                path : {"unset", "blank", "missing", "set"},
                xml : {"unreadable", "empty", "set"}]

(* No database has an empty name: listDatabases drops empty lines, and ""   *)
(* asks connectionArgs for the default.  The other words stand for what is  *)
(* no database.                                                             *)
ASSUME DatabasesAssumption == Databases \cap {"", "blank", "unset", NoName} = {}

ASSUME ConfigurationsAssumption ==
  \A c \in Configurations :
    /\ c.prefix \in Settings
    /\ c.parts \in Seq(Apps \cup {"", "unknown"})
    /\ c.app \in [Apps -> AppSettings]
    /\ c.yaml \in Seq(Files)
    /\ c.mongo \in [uri : Settings, address : Settings]
    /\ c.pg.uri \in Connections \cup {NoURI}
    /\ c.pg.host \in Settings /\ c.pg.password \in {"unset", "set"}
    /\ c.pg.db \in Databases \cup {"blank"} /\ c.pg.all \in BOOLEAN

VARIABLES
  config,     \* the settings
  pc,         \* the function that runs next
  rest,       \* parts, then ids, that are left to look at
  ids,        \* known ids, without duplicates
  targets,    \* the resolved targets
  error,      \* why EnabledTargets failed
  reached     \* for each target, whether its connections can be built, or why not

vars == <<config, pc, rest, ids, targets, error, reached>>

Empty(s) == s \in {"unset", "blank"}

-----------------------------------------------------------------------------
(* credentials: the key in the app's own configuration. *)

(* The regular expressions run on over a line end: an apikey with nothing   *)
(* after it takes the next word of the file, which is no key.               *)
KeyOf(entry) == CASE entry.value = "nothing" -> "garbage"
                  [] entry.section = "auth" -> "own"
                  [] OTHER -> "foreign"

(* Slip: the first apikey of the file, whosever it is. *)
ParseAnyKey(file) ==
  LET usable == {i \in 1..Len(file) : file[i].value # "quotes_only"}
  IN  IF usable = {} THEN "" ELSE KeyOf(file[Min(usable)])

(* parseBazarrAPIKey: an unquoted apikey at the head of the auth section,   *)
(* else the first one of the file.                                          *)
ParseKey(file) ==
  LET AtHead(e) == e.section = "auth" /\ e.first /\ e.value \in {"plain", "nothing"}
      heads == {i \in 1..Len(file) : AtHead(file[i])}
      usable == {i \in 1..Len(file) : file[i].value # "quotes_only"}
  IN  CASE heads # {} -> KeyOf(file[Min(heads)])
        [] heads = {} /\ usable # {} -> KeyOf(file[Min(usable)])
        [] OTHER -> ""

(* BazarrAPIKey: the first of the three places that can be read decides,    *)
(* found or not.                                                            *)
BazarrKey(files) ==
  LET readable == {i \in 1..Len(files) : files[i].readable}
  IN  IF readable = {} THEN "" ELSE ParseKey(files[Min(readable)].entries)

(* apiKeyFromBackupMount: "" stands for an error. *)
FoundKey(id) ==
  CASE id = "bazarr" -> BazarrKey(config.yaml)
    [] id # "bazarr" /\ config.app[id].xml = "set" -> "own"
    [] OTHER -> ""

-----------------------------------------------------------------------------
(* targets: what becomes of one id. *)

Failed(err) == [err |-> err, kind |-> "none", key |-> ""]

Resolved(kind, key) == [err |-> "none", kind |-> kind, key |-> key]

ResolveKomodo == IF Empty(config.mongo.uri) /\ Empty(config.mongo.address)
                 THEN Failed("ErrMissingMongo") ELSE Resolved("mongo_dump", "")

HasURI == config.pg.uri # NoURI

(* Slip: a host of blanks is as good as any. *)
ResolvePostgresAnyHost ==
  IF /\ ~HasURI
     /\ config.pg.host = "unset" \/ (~config.pg.all /\ config.pg.db = "blank")
  THEN Failed("ErrMissingPostgres") ELSE Resolved("postgres_dump", "")

(* Slip: the name of the database is not asked for. *)
ResolvePostgresHost == IF ~HasURI /\ Empty(config.pg.host)
                       THEN Failed("ErrMissingPostgres")
                       ELSE Resolved("postgres_dump", "")

ResolvePostgres ==
  IF /\ ~HasURI
     /\ Empty(config.pg.host) \/ (~config.pg.all /\ config.pg.db = "blank")
  THEN Failed("ErrMissingPostgres") ELSE Resolved("postgres_dump", "")

(* Slip: a mount that is set but blank is as good as any. *)
ResolveAPIAnyMount(id) ==
  LET s == config.app[id]
      key == IF s.key = "set" THEN "own" ELSE FoundKey(id)
  IN  CASE key = "" -> Failed("key")
        [] s.url = "unset" -> Failed("ErrMissingAPI")
        [] OTHER -> Resolved("arr_api", key)

(* resolveAPITarget, for an app with any of the three settings.  Only the   *)
(* url is not trimmed.                                                      *)
ResolveAPI(id) ==
  LET s == config.app[id]
      search == Empty(s.key) /\ ~Empty(s.mount)
      key == CASE s.key = "set" -> "own" [] search -> FoundKey(id) [] OTHER -> ""
  IN  CASE search /\ key = "" -> Failed("key")
        [] ~search /\ key = "" -> Failed("ErrMissingAPI")
        [] key # "" /\ s.url = "unset" -> Failed("ErrMissingAPI")
        [] key # "" /\ s.url # "unset" /\ Empty(s.mount) ->
             Failed("ErrMissingBackupMount")
        [] OTHER -> Resolved("arr_api", key)

ResolvePath(id) == CASE Empty(config.app[id].path) -> Failed("ErrMissingPath")
                     [] config.app[id].path = "missing" -> Failed("stat")
                     [] OTHER -> Resolved("config_sync", "")

(* resolveTarget: an app with no API setting at all is a directory.  The    *)
(* API settings of other apps do not exist.                                 *)
Resolve(id) ==
  LET s == config.app[id]
      api == id \in ApiApps /\ {s.url, s.key, s.mount} # {"unset"}
  IN  CASE id = "komodo" -> ResolveKomodo
        [] id = "postgres" -> ResolvePostgres
        [] api -> ResolveAPI(id)
        [] OTHER -> ResolvePath(id)

-----------------------------------------------------------------------------
(* The connections of clients and dumpers. *)

(* libpq takes the database of ?dbname= before that of the path. *)
DatabaseOf(uri) == IF uri.query # NoName THEN uri.query ELSE uri.path

(* Slip: a dbname in the query is left as it is. *)
ReplacePath(uri, db) == [uri EXCEPT !.path = db]

(* replaceURIDatabase *)
Replace(uri, db) == [path |-> db, query |-> IF uri.query = NoName THEN NoName ELSE db]

Connection(db) == [err |-> "none", db |-> db]

NoConnection(err) == [err |-> err, db |-> NoName]

(* connectionArgs: the database connected to, for a given one or for "",    *)
(* which leaves a URI unparsed.                                             *)
ConnectPostgres(db) ==
  LET uri == config.pg.uri
      host == ~HasURI /\ ~Empty(config.pg.host)
  IN  CASE HasURI /\ db = "" -> Connection(DatabaseOf(uri))
        [] HasURI /\ db # "" /\ ~uri.parses -> NoConnection("uri")
        [] HasURI /\ db # "" /\ uri.parses -> Connection(DatabaseOf(Replace(uri, db)))
        [] ~HasURI /\ ~host -> NoConnection("host")
        [] host /\ config.pg.password = "unset" -> NoConnection("password")
        [] OTHER -> Connection(CASE db # "" -> db
                                 [] db = "" /\ config.pg.db # "blank" -> config.pg.db
                                 [] OTHER -> "postgres")

(* Dump: where pg_dump is sent for each database that it is to dump.        *)
DumpPostgres == IF config.pg.all THEN [db \in Databases |-> ConnectPostgres(db)]
                                 ELSE [db \in {""} |-> ConnectPostgres("")]

(* The first error of a dump's connections: of psql, which lists the        *)
(* databases over the connection a single dump uses, or of a pg_dump.       *)
PostgresError ==
  LET first == ConnectPostgres("").err
      later == {DumpPostgres[db].err : db \in DOMAIN DumpPostgres} \ {"none"}
  IN  CASE first # "none" -> first
        [] first = "none" /\ later # {} -> CHOOSE e \in later : TRUE
        [] OTHER -> "none"

(* buildArgs of the mongo dumper. *)
MongoError == IF Empty(config.mongo.uri) /\ Empty(config.mongo.address)
              THEN "address" ELSE "none"

(* joinURL of both API clients. *)
URLError(url) == IF url \in {"blank", "malformed"} THEN "url" ELSE "none"

(* Whether the backup of a target can build its connections. *)
Connect(t) ==
  CASE t.kind = "arr_api" -> URLError(config.app[t.id].url)
    [] t.kind = "mongo_dump" -> MongoError
    [] t.kind = "postgres_dump" -> PostgresError
    [] OTHER -> "none"

-----------------------------------------------------------------------------
(* EnabledTargets, and then the backups of the targets in turn. *)

Init == /\ config \in Configurations
        /\ pc = "validate"
        /\ rest = <<>>
        /\ ids = <<>>
        /\ targets = <<>>
        /\ error = "none"
        /\ reached = <<>>

Fail(err) == /\ pc' = "err"
             /\ error' = err
             /\ targets' = <<>>

Validate ==
  /\ pc = "validate"
  /\ IF Empty(config.prefix)
     THEN Fail("ErrMissingRemotePrefix") /\ UNCHANGED rest
     ELSE /\ pc' = "parse"
          /\ rest' = config.parts
          /\ UNCHANGED <<targets, error>>
  /\ UNCHANGED <<config, ids, reached>>

(* Slip: a name in the list twice is two targets. *)
ParseDuplicates ==
  /\ pc = "parse" /\ rest # <<>>
  /\ rest' = Tail(rest)
  /\ IF Head(rest) = "unknown"
     THEN Fail("ErrUnknownTarget") /\ UNCHANGED ids
     ELSE /\ ids' = IF Head(rest) = "" THEN ids ELSE Append(ids, Head(rest))
          /\ UNCHANGED <<pc, targets, error>>
  /\ UNCHANGED <<config, reached>>

(* Slip: an empty part is a target. *)
ParseEmpty ==
  /\ pc = "parse" /\ rest # <<>>
  /\ rest' = Tail(rest)
  /\ IF Head(rest) = "unknown"
     THEN Fail("ErrUnknownTarget") /\ UNCHANGED ids
     ELSE /\ ids' = IF Head(rest) \in ToSet(ids) THEN ids ELSE Append(ids, Head(rest))
          /\ UNCHANGED <<pc, targets, error>>
  /\ UNCHANGED <<config, reached>>

(* One turn of parseEnabledTargets. *)
Parse ==
  /\ pc = "parse" /\ rest # <<>>
  /\ rest' = Tail(rest)
  /\ IF Head(rest) = "unknown"
     THEN Fail("ErrUnknownTarget") /\ UNCHANGED ids
     ELSE /\ ids' = IF Head(rest) \in {""} \cup ToSet(ids) THEN ids
                                                        ELSE Append(ids, Head(rest))
          /\ UNCHANGED <<pc, targets, error>>
  /\ UNCHANGED <<config, reached>>

Parsed ==
  /\ pc = "parse" /\ rest = <<>>
  /\ IF ids = <<>>
     THEN Fail("ErrNoEnabledTargets") /\ UNCHANGED rest
     ELSE /\ pc' = "resolve"
          /\ rest' = ids
          /\ UNCHANGED <<targets, error>>
  /\ UNCHANGED <<config, ids, reached>>

(* Slip: a target that does not resolve is left out. *)
ResolveNextOrSkip ==
  /\ pc = "resolve" /\ rest # <<>>
  /\ rest' = Tail(rest)
  /\ LET r == Resolve(Head(rest))
     IN  targets' = IF r.err # "none" THEN targets
                    ELSE Append(targets, [id |-> Head(rest), kind |-> r.kind,
                                          key |-> r.key])
  /\ UNCHANGED <<config, pc, error, ids, reached>>

(* One turn of the loop of EnabledTargets. *)
ResolveNext ==
  /\ pc = "resolve" /\ rest # <<>>
  /\ rest' = Tail(rest)
  /\ LET r == Resolve(Head(rest))
     IN  IF r.err # "none"
         THEN Fail(r.err)
         ELSE /\ targets' = Append(targets, [id |-> Head(rest), kind |-> r.kind,
                                             key |-> r.key])
              /\ UNCHANGED <<pc, error>>
  /\ UNCHANGED <<config, ids, reached>>

(* The list is complete, and Orchestrator.Run starts with its backups. *)
AllResolved == /\ pc = "resolve" /\ rest = <<>>
               /\ pc' = "connect"
               /\ UNCHANGED <<config, rest, ids, targets, error, reached>>

(* One turn of the loop of Orchestrator.Run: whatever becomes of a target,  *)
(* the next one has its turn.                                               *)
ConnectNext == /\ pc = "connect"
               /\ Len(reached) < Len(targets)
               /\ reached' = Append(reached, Connect(targets[Len(reached) + 1]))
               /\ UNCHANGED <<config, pc, rest, ids, targets, error>>

Next == Validate \/ Parse \/ Parsed \/ ResolveNext \/ AllResolved \/ ConnectNext

Spec == Init /\ [][Next]_vars

-----------------------------------------------------------------------------
(* Properties. *)

Errors == {"none", "ErrMissingRemotePrefix", "ErrUnknownTarget",
           "ErrNoEnabledTargets", "ErrMissingMongo", "ErrMissingPostgres",
           "ErrMissingAPI", "ErrMissingBackupMount", "ErrMissingPath", "key", "stat"}

ConnectErrors == {"none", "url", "address", "host", "password", "uri"}

Targets == [id : Apps, kind : {"config_sync", "arr_api", "mongo_dump", "postgres_dump"},
            key : {"", "own", "foreign", "garbage"}]

TypeOK == /\ config.parts \in Seq(Apps \cup {"", "unknown"})
          /\ pc \in {"validate", "parse", "resolve", "connect", "err"}
          /\ rest \in Seq(Apps \cup {"", "unknown"})
          /\ ids \in Seq(Apps)
          /\ targets \in Seq(Targets)
          /\ error \in Errors
          /\ reached \in Seq(ConnectErrors)

(* The apps the list names, in the order they first appear. *)
First(a) == Min({i \in 1..Len(config.parts) : config.parts[i] = a})

Named == ToSet(config.parts) \ {"", "unknown"}

(* The targets are those of the list: each one once, in the order of the    *)
(* list, which decides who gets to upload before a signal.  Orchestrator    *)
(* assumes as much of its Enabled.                                          *)
ListIsFaithful ==
  pc = "connect" =>
    /\ {targets[i].id : i \in 1..Len(targets)} = Named
    /\ \A i, j \in 1..Len(targets) :
         i < j => First(targets[i].id) < First(targets[j].id)

(* A list with one bad target gives no targets at all, and the error is the *)
(* one a reader of the list would name: the prefix before the list, a name  *)
(* that is not known, wherever it stands, before any setting of the others, *)
(* and else the first target that is not configured (registry.go 21-44).    *)
FirstErrorWins ==
  LET bad == {a \in Named : Resolve(a).err # "none"}
      expected ==
        CASE Empty(config.prefix) -> "ErrMissingRemotePrefix"
          [] ~Empty(config.prefix) /\ "unknown" \in ToSet(config.parts) ->
               "ErrUnknownTarget"
          [] OTHER -> CASE Named = {} -> "ErrNoEnabledTargets"
                        [] bad # {} ->
                             Resolve(CHOOSE a \in bad : \A b \in bad : First(a) <= First(b)).err
                        [] OTHER -> "none"
  IN  /\ pc = "err" => error = expected /\ targets = <<>>
      /\ pc = "connect" => expected = "none"

(* Resolution and the backups agree on what is needed: a Postgres host or a *)
(* Mongo address that is missing never gets as far as a backup, where it    *)
(* would only show at the hour of the schedule.  What does get there is a   *)
(* url that is blank or malformed, a Postgres password that is not set, and *)
(* a malformed URI where databases are to be put into it.  An app with some *)
(* of its API settings is never quietly backed up from its directory.       *)
ResolvedIsComplete ==
  /\ \A i \in 1..Len(targets) :
       LET t == targets[i]
           s == config.app[t.id]
       IN  /\ t.kind = "arr_api" => t.key # "" /\ ~Empty(s.mount)
           /\ t.kind = "config_sync" =>
                /\ s.path = "set"
                /\ t.id \in ApiApps => {s.url, s.key, s.mount} = {"unset"}
  /\ \A i \in 1..Len(reached) :
       reached[i] # "none" =>
         \/ /\ targets[i].kind = "arr_api" /\ reached[i] = "url"
            /\ config.app[targets[i].id].url \in {"blank", "malformed"}
         \/ /\ targets[i].kind = "postgres_dump" /\ reached[i] = "password"
            /\ ~HasURI /\ config.pg.password = "unset"
         \/ /\ targets[i].kind = "postgres_dump" /\ reached[i] = "uri"
            /\ HasURI /\ ~config.pg.uri.parses /\ config.pg.all

(* Each dump of all databases is of the database whose name its file bears, *)
(* however the URI names one, and a single dump over a host is never of the *)
(* maintenance database that connectionArgs falls back to (dumper.go        *)
(* 143-199).                                                                *)
DumpsWhatIsNamed ==
  \A i \in 1..Len(reached) :
    targets[i].kind = "postgres_dump" /\ reached[i] = "none" =>
      IF config.pg.all
      THEN \A db \in Databases : DumpPostgres[db] = Connection(db)
      ELSE ~HasURI => DumpPostgres[""] = Connection(config.pg.db)

(* Bazarr's own key is found, not the key of an integration further down in *)
(* the same file (apikey.go 34), if it heads its section unquoted or is the *)
(* first of the file; a file that cannot be read does not hide the next.    *)
KeyIsTheApps ==
  LET readable == {i \in 1..Len(config.yaml) : config.yaml[i].readable}
      Own(e) == e.section = "auth" /\ e.value \in {"plain", "quoted"}
      found == LET es == config.yaml[Min(readable)].entries
               IN  \E k \in 1..Len(es) :
                     Own(es[k]) /\ (k = 1 \/ (es[k].first /\ es[k].value = "plain"))
  IN  \A i \in 1..Len(targets) :
        /\ targets[i].id = "bazarr" /\ targets[i].kind = "arr_api"
        /\ readable # {} /\ found
        => targets[i].key = "own"

=============================================================================
