---------------------------- MODULE RuntimeConfig ----------------------------
(***************************************************************************)
(* How a configuration reaches axis-runtime: `axis run` writes the parsed  *)
(* Axisfile as JSON (runtime.py) and axis-runtime reads it back with a     *)
(* parser of its own (runtime_config.cpp), which finds a value by          *)
(* searching the text for its key.  The text is a sequence of tokens: a    *)
(* string with its quotes, or a symbol.                                    *)
(***************************************************************************)
EXTENDS Axisfile

CONSTANTS
  NoDirs,   \* volume sources that are not a directory
  Colons,   \* the words with a colon in them, followed by an ordinary character
  Garbled   \* the words json.dumps escapes and parseString does not decode:
            \* those with a character that is not ASCII, a \b, a \f or a \r

\* The cgroup is named after the id of the container, which is hexadecimal.
ASSUME CgroupAssumption == "CGROUP" \notin Garbled

VARIABLES
  text,     \* runtime.json
  loaded    \* what loadRuntimeConfig has found, by field

vars == <<parseVars, text, loaded>>

Init == ParseInit /\ text = <<>> /\ loaded = <<>>

Str(w) == [kind |-> "string", word |-> w]
Sym(s) == [kind |-> "symbol", word |-> s]
IsString(token) == token.kind = "string"

(***************************************************************************)
(* write_runtime_config: the keys in the order json.dumps writes them.     *)
(***************************************************************************)
Separated(items) ==
  LET joined[n \in 0..Len(items)] ==
        IF n = 0 THEN <<>>
        ELSE IF n = 1 THEN items[1] ELSE joined[n - 1] \o <<Sym(",")>> \o items[n]
  IN  joined[Len(items)]

Entry(key, value) == <<Str(key), Sym(":")>> \o value
One(w) == <<Str(w)>>
OrNull(w) == IF w = Empty THEN <<Sym("null")>> ELSE One(w)
Array(words) == <<Sym("[")>> \o Separated([i \in DOMAIN words |-> One(words[i])]) \o <<Sym("]")>>
Object(members) ==
  <<Sym("{")>>
  \o Separated([i \in DOMAIN members |-> Entry(members[i][1], members[i][2])])
  \o <<Sym("}")>>
Dict(pairs) == Object([i \in DOMAIN pairs |-> <<pairs[i][1], One(pairs[i][2])>>])

resolved_hostname(c) == IF c.hostname = Empty THEN c.name ELSE c.hostname

BindMounts(c) ==
  LET mounts[n \in 0..Len(c.volumes)] ==
        IF n = 0 THEN <<>> ELSE Put(mounts[n - 1], c.volumes[n][2], c.volumes[n][1])
  IN  mounts[Len(c.volumes)]

Members(c) ==
  << <<"name", One(c.name)>>, <<"rootfs", One("ROOTFS")>>,
     <<"hostname", One(resolved_hostname(c))>>, <<"workdir", One(c.workdir)>>,
     <<"command", Array(c.command)>>, <<"env", Dict(c.env)>>,
     <<"ports", Array([i \in DOMAIN c.ports |-> "HOST:CONTAINER"])>>,
     <<"bind_mounts", Dict(BindMounts(c))>>, <<"restart", OrNull(c.restart)>>,
     <<"cgroup_path", One("CGROUP")>>,
     <<"memory", OrNull(c.memory)>>, <<"cpu", OrNull(c.cpu)>> >>

Json(c) == Object(Members(c))

WriteRuntimeConfig ==
  /\ phase = "parsed"
  /\ IF \E i \in DOMAIN config.volumes : config.volumes[i][1] \in NoDirs
     THEN phase' = "refused" /\ UNCHANGED text
     ELSE phase' = "written" /\ text' = Json(config)
  /\ UNCHANGED <<file, override, at, config, loaded>>

(***************************************************************************)
(* class Json.  A result is a value or the exception that was thrown.      *)
(***************************************************************************)
Value(v) == [ok |-> TRUE, value |-> v]
Thrown == [ok |-> FALSE]

\* The first place from start on that satisfies P.
Find(start, P(_)) ==
  CHOOSE n \in start..Len(text) : P(text[n]) /\ \A m \in start..(n - 1) : ~P(text[m])

HasColon(token) ==
  IF IsString(token) THEN token.word \in Colons \cup {"HOST:CONTAINER"} ELSE token.word = ":"

\* The token after the first colon after the first occurrence of the key, as
\* a key or as any other string: Python writes every key.  A colon inside a
\* string leads to the middle of that string.
valueStart(key) == Find(Find(1, LAMBDA token : token = Str(key)) + 1, HasColon) + 1

Inside(pos) == IsString(text[pos - 1])
TokenAt(pos) == IF Inside(pos) THEN Sym("text") ELSE text[pos]

Unescaped(w) == IF w \in Garbled THEN "garbled" ELSE w

parseString(token) == IF IsString(token) THEN Value(Unescaped(token.word)) ELSE Thrown

stringValueStrict(key) == parseString(TokenAt(valueStart(key)))

stringValue(key) ==
  LET token == TokenAt(valueStart(key)) IN
    IF token = Sym("null") THEN Value(Empty) ELSE parseString(token)

StringAt(pos) == Unescaped(text[pos].word)

\* How many elements of this many tokens there are from pos to the bracket.
Elements(pos, close, width) ==
  (Find(pos, LAMBDA token : token = Sym(close)) - pos) \div width

\* Strings and commas take turns up to the bracket: Python writes nothing else
\* into the arrays and objects the runtime reads.
stringArray(key) ==
  LET pos == valueStart(key) IN
    IF TokenAt(pos) = Sym("[")
    THEN Value([i \in 1..Elements(pos, "]", 2) |-> StringAt(pos + 2 * i - 1)])
    ELSE Thrown

\* A map as the set of its pairs.
stringMap(key) ==
  LET pos == valueStart(key) IN
    IF TokenAt(pos) = Sym("{")
    THEN Value({<<StringAt(pos + 4 * i - 3), StringAt(pos + 4 * i - 1)>> :
                 i \in 1..Elements(pos, "}", 4)})
    ELSE Thrown

loadRuntimeConfig ==
  [name |-> stringValue("name"), rootfs |-> stringValue("rootfs"),
   hostname |-> stringValue("hostname"), workdir |-> stringValue("workdir"),
   command |-> stringArray("command"), env |-> stringMap("env"),
   bindMounts |-> stringMap("bind_mounts"), cgroupPath |-> stringValue("cgroup_path"),
   memory |-> stringValue("memory"), cpu |-> stringValue("cpu")]

LoadRuntimeConfig ==
  /\ phase = "written"
  /\ loaded' = loadRuntimeConfig
  /\ phase' = IF \E f \in DOMAIN loaded' : ~loaded'[f].ok THEN "threw" ELSE "loaded"
  /\ UNCHANGED <<file, override, at, config, text>>

Next == (Parse /\ UNCHANGED <<text, loaded>>) \/ WriteRuntimeConfig \/ LoadRuntimeConfig

Spec == Init /\ [][Next]_vars

(***************************************************************************)
(* Properties.                                                             *)
(***************************************************************************)
Pairs(pairs) == {pairs[i] : i \in DOMAIN pairs}

\* Every word the user chooses that is written to runtime.json, the directory
\* he runs axis in among them.
WordsOf(c) ==
  {"ROOTFS", c.name, c.hostname, c.workdir, c.memory, c.cpu}
  \cup {c.command[i] : i \in DOMAIN c.command}
  \cup UNION {{p[1], p[2]} : p \in Pairs(c.env) \cup Pairs(c.volumes)}

Keys == {"name", "rootfs", "hostname", "workdir", "command", "env", "bind_mounts",
         "cgroup_path", "memory", "cpu"}

\* The last source of each destination.
Mounts(volumes) ==
  {<<volumes[n][2], volumes[n][1]>> :
     n \in {m \in DOMAIN volumes :
              \A k \in DOMAIN volumes : volumes[k][2] = volumes[m][2] => k <= m}}

Expected(c) ==
  [name |-> c.name, rootfs |-> "ROOTFS", hostname |-> resolved_hostname(c),
   workdir |-> c.workdir, command |-> c.command, env |-> Pairs(c.env),
   bindMounts |-> Mounts(c.volumes), cgroupPath |-> "CGROUP",
   memory |-> c.memory, cpu |-> c.cpu]

\* axis-runtime reads what the Axisfile says, all of it, as long as no word of
\* the Axisfile is a key of runtime.json and none has characters the reader
\* does not decode; and setupBindMounts accepts every mount parse_axisfile has.
isSafeContainerPath(destination) == destination \in Absolute \ Outside

RuntimeGetsConfig ==
  phase \in {"loaded", "threw"} /\ WordsOf(config) \cap (Keys \cup Garbled) = {} =>
    /\ phase = "loaded"
    /\ \A f \in DOMAIN loaded : loaded[f].value = Expected(config)[f]
    /\ \A m \in loaded.bindMounts.value : isSafeContainerPath(m[1])

\* Every variable keeps the kind of value the code gives it; ports are in
\* their range and a parsed configuration can be run.
TypeOK ==
  /\ phase \in {"parse", "parsed", "rejected", "refused", "written", "loaded", "threw"}
  /\ at \in 1..(Len(file) + 1)
  /\ \A p \in Pairs(config.ports) : p \in PortNumbers \X PortNumbers
  /\ \A p \in Pairs(config.exposed_ports) : p \in PortNumbers
  /\ phase \notin {"parse", "rejected"} => config.image # Empty /\ config.command # <<>>

=============================================================================
