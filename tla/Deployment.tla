----------------------------- MODULE Deployment -----------------------------
(***************************************************************************)
(* From the settings to a process that serves.  An operator edits the      *)
(* committed file and the environment of a server at any time; a process   *)
(* reads them once, when it starts, and keeps what it read.  The Go        *)
(* process merges both, validates the result and connects its pool, or     *)
(* refuses to start.  The Java process validates nothing itself, and fails *)
(* on what Spring and Hikari refuse.  What outlives a process is the       *)
(* positions it has signed, which any other one may be asked to resume.    *)
(*                                                                         *)
(* A setting is Missing when no source has it: Go reads the zero value of  *)
(* its type then, Java null.  Empty is the empty text, and Malformed what  *)
(* does not convert to the type of its setting.                            *)
(***************************************************************************)
EXTENDS Integers

CONSTANTS
  GoServers, JavaServers,
  Files,           \* settings an operator may commit
  Environments,    \* overrides an operator may set: functions on some settings
  Missing, Empty, Malformed,
  MaxEdits,        \* bound on the operator's edits
  MaxTime          \* bound on the time that passes

Servers == GoServers \cup JavaServers

Names == {"host", "database", "port", "min_conns", "max_conns", "key", "ttl",
          "shutdown_timeout"}

Texts == {"host", "database", "key"}

ASSUME DeploymentAssumption ==
  /\ GoServers \cap JavaServers = {}
  /\ \A f \in Files : DOMAIN f = Names
  /\ \A e \in Environments : DOMAIN e \subseteq Names
  /\ {Missing, Empty, Malformed} \cap Int = {}
  /\ \A c \in Files \cup Environments : \A n \in DOMAIN c \ Texts :
       c[n] \in Int \cup {Missing, Malformed}
  /\ MaxEdits \in Nat /\ MaxTime \in Nat

VARIABLES
  file, env,   \* the sources of each server's settings
  edits,
  process,     \* of each server: "down", "up", or "refused" to start
  settings,    \* what each process has read
  now,
  tokens,      \* the positions handed out: the key they were signed with, and when
  resumed      \* history: the age a position was resumed at, under which duration

vars == <<file, env, edits, process, settings, now, tokens, resumed>>

sources == <<file, env, edits>>
walks == <<now, tokens, resumed>>

Lang(s) == IF s \in GoServers THEN "go" ELSE "java"

-----------------------------------------------------------------------------
(* Reading the settings.                                                   *)

\* The environment wins, with an empty value too.
Merge(f, e) == [n \in Names |-> IF n \in DOMAIN e THEN e[n] ELSE f[n]]

\* The types of the fields make zero values of absent settings.
Zero(c) ==
  [n \in Names |-> IF c[n] # Missing THEN c[n] ELSE IF n \in Texts THEN Empty ELSE 0]

Parses(c) == \A n \in Names : c[n] # Malformed

\* Bug: a duration of zero passes.
ValidFromZero(c) ==
  /\ Empty \notin {c.host, c.database, c.key}
  /\ c.max_conns >= c.min_conns
  /\ c.port > 0
  /\ c.ttl >= 0

Valid(c) ==
  /\ Empty \notin {c.host, c.database, c.key}
  /\ c.max_conns >= c.min_conns
  /\ c.port > 0
  /\ c.ttl > 0

\* Bug: the file is validated, and the environment applied afterwards.
LoadsFileOnly(s) ==
  LET read == Merge(file[s], env[s]) IN Parses(read) /\ Valid(Zero(file[s]))

\* config.Load succeeds.
Loads(s) ==
  LET read == Merge(file[s], env[s]) IN Parses(read) /\ Valid(Zero(read))

\* pgxpool and Hikari want room for a connection.
PoolOpens(c) == c.max_conns >= 1

\* The Java context fails where a value does not convert to its type, where
\* Hikari is given no room, and on a key that is null.  Hikari has a default size.
ContextStarts(c) ==
  /\ Malformed \notin {c.port, c.max_conns, c.ttl}
  /\ c.max_conns # Missing => PoolOpens(c)
  /\ c.key # Missing

Starts(s) ==
  LET read == Merge(file[s], env[s]) IN
  IF Lang(s) = "go" THEN Loads(s) /\ PoolOpens(Zero(read)) ELSE ContextStarts(read)

\* Go skips the check for a duration of zero or less.  In Java one that is null
\* is an exception, which resumes nothing.
Fresh(lang, age, ttl) ==
  IF lang = "go" THEN ttl > 0 => age <= ttl ELSE ttl # Missing /\ age <= ttl

-----------------------------------------------------------------------------
Init ==
  /\ file \in [Servers -> Files]
  /\ \A s, t \in Servers : file[s] = file[t]
  /\ env = [s \in Servers |-> <<>>]
  /\ edits = 0
  /\ process = [s \in Servers |-> "down"]
  /\ settings = file
  /\ now = 0
  /\ tokens = {}
  /\ resumed = {}

Edit(s) ==
  /\ edits < MaxEdits
  /\ edits' = edits + 1
  /\ \/ \E f \in Files : file' = [file EXCEPT ![s] = f] /\ UNCHANGED env
     \/ \E e \in Environments : env' = [env EXCEPT ![s] = e] /\ UNCHANGED file
  /\ UNCHANGED <<process, settings, walks>>

Start(s) ==
  /\ process[s] # "up"
  /\ process' = [process EXCEPT ![s] = IF Starts(s) THEN "up" ELSE "refused"]
  /\ settings' = [settings EXCEPT ![s] =
       LET read == Merge(file[s], env[s]) IN
       IF Lang(s) = "go" THEN Zero(read) ELSE read]
  /\ UNCHANGED <<sources, walks>>

\* A server that can sign and verify: Java's SecretKeySpec takes no empty key.
Serving(s) ==
  /\ process[s] = "up"
  /\ Lang(s) = "java" => settings[s].key # Empty

\* A page that another one follows: the server signs its position.
SignPage(s) ==
  /\ Serving(s)
  /\ tokens' = tokens \cup {[key |-> settings[s].key, at |-> now]}
  /\ UNCHANGED <<sources, process, settings, now, resumed>>

\* A page after a position that was signed with the server's key and is still
\* fresh there.  Any other is an error, and changes nothing.
ResumeWalk(s, x) ==
  LET age == now - x.at
      ttl == settings[s].ttl
  IN /\ Serving(s)
     /\ x.key = settings[s].key
     /\ Fresh(Lang(s), age, ttl)
     /\ resumed' = resumed \cup {[age |-> age, ttl |-> ttl]}
     /\ UNCHANGED <<sources, process, settings, now, tokens>>

\* A signal or a crash.
Stop(s) ==
  /\ process[s] = "up"
  /\ process' = [process EXCEPT ![s] = "down"]
  /\ UNCHANGED <<sources, settings, walks>>

Tick ==
  /\ now < MaxTime
  /\ now' = now + 1
  /\ UNCHANGED <<sources, process, settings, tokens, resumed>>

Next ==
  \/ \E s \in Servers : Edit(s) \/ Start(s) \/ SignPage(s) \/ Stop(s)
  \/ \E s \in Servers, x \in tokens : ResumeWalk(s, x)
  \/ Tick

Spec == Init /\ [][Next]_vars

-----------------------------------------------------------------------------
(* Properties.                                                             *)

\* config.go: "An unsigned cursor is a forgeable position".  Whatever is edited
\* between and during the lives of the processes, in the file or in the
\* environment, no token is ever signed with the empty key, in neither
\* implementation.
NoForgeableToken == \A x \in tokens : x.key # Empty

\* config.go: "TTL is how long a position stays resumable.  Past it the answer
\* is 410."  No process, of neither implementation, ever resumes a position
\* older than the duration it runs with.  A duration that is missing, zero or
\* negative is none under which positions live for ever, although the code that
\* checks a token in Go would take it for one.
PositionsExpire == \A x \in resumed : x.age <= x.ttl

=============================================================================
