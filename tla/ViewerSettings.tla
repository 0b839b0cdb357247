---------------------------- MODULE ViewerSettings ----------------------------
(***************************************************************************)
(* The configuration of the viewer from its environment                    *)
(* (plateau_rt/viewer/settings.py) and the two gates every request passes  *)
(* before its route: the allowed hosts and the rules against requests from *)
(* other pages (plateau_rt/viewer/api/security.py).                        *)
(*                                                                         *)
(* A raw value is what its text looks like: Digits "12", Signed "-1",      *)
(* Sized "2 KiB", Decimal "1.5", Word any other text, Blank nothing but    *)
(* blanks, Items a text with separators. A host is a sequence of its name  *)
(* and possibly its port.                                                  *)
(***************************************************************************)
EXTENDS Integers, Sequences, FiniteSets

CONSTANTS
  UnitBytes,   \* of "KiB", "MiB", "GiB" and "TiB"
  Lower,       \* lower case of the texts that change
  BadHosts,    \* texts with a character no host has
  UserHosts    \* texts with an "@", as in user@host

Digits(n) == [t |-> "digits", n |-> n]
Signed(n) == [t |-> "signed", n |-> n]
Sized(n, unit) == [t |-> "sized", n |-> n, unit |-> unit]
Decimal(n) == [t |-> "decimal", n |-> n]
Word(w) == [t |-> "word", w |-> w]
Separated(items) == [t |-> "items", items |-> items]
Blank == [t |-> "blank"]

Lowered(x) == IF x \in DOMAIN Lower THEN Lower[x] ELSE x
LoweredHost(h) == [n \in DOMAIN h |-> Lowered(h[n])]

-----------------------------------------------------------------------------
(* ViewerSettings.from_env *)

SettingsError == [fault |-> TRUE]
ByteFields == {"max_upload_bytes", "max_extracted_bytes", "max_array_bytes", "derive_mem_bytes"}
CountFields == {"max_files", "max_concurrent_derives"}
NumberFields == ByteFields \cup CountFields \cup {"derive_timeout_s"}
Defaults ==
  [max_upload_bytes |-> 4 * UnitBytes["GiB"], max_extracted_bytes |-> 16 * UnitBytes["GiB"],
   max_array_bytes |-> UnitBytes["GiB"], derive_mem_bytes |-> 4 * UnitBytes["GiB"],
   max_files |-> 100000, max_concurrent_derives |-> 2, derive_timeout_s |-> 120]
DefaultHosts == {"127.0.0.1", "localhost"}

\* _value: a variable that is unset or blank has its default.
Given(env, field) == field \in DOMAIN env /\ env[field] # Blank
Forms(field) ==
  CASE field \in ByteFields -> {"digits", "sized"}
    [] field \in CountFields -> {"digits", "signed"}
    [] OTHER -> {"digits", "signed", "decimal"}
NumberParses(env, field) == Given(env, field) => env[field].t \in Forms(field)
Number(env, field) ==
  IF ~Given(env, field) THEN Defaults[field]
  ELSE IF env[field].t = "sized" THEN env[field].n * UnitBytes[env[field].unit] ELSE env[field].n

\* An import root is [absolute, directory, path], with the path it resolves to.
Roots(env) == IF Given(env, "import_roots") THEN SelectSeq(env["import_roots"].items, LAMBDA r : r # Blank) ELSE <<>>
RootsAreValid(env) ==
  LET roots == Roots(env)
  IN  /\ \A n \in DOMAIN roots : roots[n].absolute /\ roots[n].directory
      /\ \A m, n \in DOMAIN roots : roots[m].path = roots[n].path => m = n
HostsAreValid(env) ==
  Given(env, "allowed_hosts") =>
    \A n \in DOMAIN env["allowed_hosts"].items : env["allowed_hosts"].items[n] \notin BadHosts \cup {""}
\* An origin is [scheme, host, rest]: one slash at its end is taken away.
OriginsAreValid(env) ==
  Given(env, "allowed_origins") =>
    \A n \in DOMAIN env["allowed_origins"].items :
      LET o == env["allowed_origins"].items[n]
      IN  /\ o # Blank /\ Lowered(o.scheme) \in {"http", "https"} /\ o.rest \in {"", "/"}
          /\ o.host[1] \notin {""} \cup BadHosts \cup UserHosts
\* Which words mean a bool, in lower case.
TrueWords == {"1", "true", "yes", "on"}
FalseWords == {"0", "false", "no", "off"}
BoolParses(env) ==
  Given(env, "read_only") => /\ env["read_only"].t = "word"
                             /\ Lowered(env["read_only"].w) \in TrueWords \cup FalseWords

EnvIsValid(env) ==
  /\ \A field \in NumberFields : NumberParses(env, field) /\ Number(env, field) > 0
  /\ "data_dir" \in DOMAIN env => env["data_dir"] # Word("a file")
  /\ RootsAreValid(env) /\ HostsAreValid(env) /\ OriginsAreValid(env) /\ BoolParses(env)
FromEnv(env) ==
  IF ~EnvIsValid(env) THEN SettingsError
  ELSE [fault |-> FALSE,
        upload |-> Number(env, "max_upload_bytes"),
        limits |-> [files |-> Number(env, "max_files"), blocks |-> Number(env, "max_extracted_bytes")],
        hosts |-> IF Given(env, "allowed_hosts")
                  THEN {env["allowed_hosts"].items[n] : n \in DOMAIN env["allowed_hosts"].items} ELSE DefaultHosts,
        origins |-> IF ~Given(env, "allowed_origins") THEN {}
                    ELSE {<<Lowered(o.scheme), LoweredHost(o.host)>> :
                            o \in {env["allowed_origins"].items[n] : n \in DOMAIN env["allowed_origins"].items}}]

-----------------------------------------------------------------------------
(* The gates: a request has [method, host, header, origin] *)

SafeMethods == {"GET", "HEAD", "OPTIONS"}
NoOrigin == [t |-> "absent"]
NullOrigin == [t |-> "null"]       \* "null", or blank
BrokenOrigin == [t |-> "broken"]   \* urlsplit raises a ValueError
UrlOrigin(scheme, host, rest) == [t |-> "url", scheme |-> scheme, host |-> host, rest |-> rest]

\* TrustedHostMiddleware.
HostIsAllowed(s, h) == "*" \in s.hosts \/ h[1] \in s.hosts
OriginIsAllowed(s, o, host) ==
  /\ Lowered(o.scheme) \in {"http", "https"} /\ o.host # <<"">> /\ o.host[1] \notin UserHosts /\ o.rest = ""
  /\ <<Lowered(o.scheme), LoweredHost(o.host)>> \in s.origins \/ LoweredHost(o.host) = LoweredHost(host)
\* 200, or the status that is answered instead of what the route answers.
Gate(s, http) ==
  CASE ~HostIsAllowed(s, http.host) -> 400
    [] HostIsAllowed(s, http.host) /\ http.method \in SafeMethods -> 200
    [] HostIsAllowed(s, http.host) /\ http.method \notin SafeMethods ->
         IF ~http.header THEN 403
         ELSE IF http.origin = NoOrigin THEN 200
         ELSE IF http.origin = BrokenOrigin THEN 500
         ELSE IF http.origin # NullOrigin /\ OriginIsAllowed(s, http.origin, http.host) THEN 200 ELSE 403
=============================================================================
