------------------------------ MODULE Axisfile -------------------------------
(***************************************************************************)
(* src/axis/axisfile.py, ports.py and config.py: an Axisfile is read line  *)
(* by line into an AxisConfig, or refused.  A line is an instruction and   *)
(* its value as the code takes it apart; a value that is missing or cannot *)
(* be taken apart is "" or <<>>, and a port that is no number is 0.        *)
(***************************************************************************)
EXTENDS Naturals, Sequences

CONSTANTS
  Files,     \* the Axisfiles: sequences of lines, blank ones and comments left out
  Overrides, \* the commands after `axis run --`: <<>> or <<command>>
  Absolute,  \* the destinations that start with "/"
  Outside    \* "/" and the destinations with a ".." that is a step up

\* The instructions that set one field, and the field.
Field ==
  [FROM |-> "image", NAME |-> "name", HOSTNAME |-> "hostname", WORKDIR |-> "workdir",
   MEMORY |-> "memory", CPU |-> "cpu", RESTART |-> "restart", CMD |-> "command"]
Scalars == DOMAIN Field

\* The instructions that append to a list.
ListField ==
  [COPY |-> "copies", VOLUME |-> "volumes", EXPOSE |-> "exposed_ports", PORT |-> "ports"]
Lists == DOMAIN ListField

\* A variable is a name and a value, a volume a source and a destination, a
\* command a list, and a mapping has ports, all of them numbers.
ASSUME FilesAssumption ==
  \A f \in Files :
    /\ f \in Seq({f[n] : n \in DOMAIN f})
    /\ \A n \in DOMAIN f :
         LET v == f[n].value IN
           /\ f[n].instruction \in {"ENV", "VOLUME"} => v = <<>> \/ v = <<v[1], v[2]>>
           /\ f[n].instruction = "CMD" => v \in Seq({v[i] : i \in DOMAIN v})
           /\ f[n].instruction = "PORT" => v.ports \in Seq(Nat)

ASSUME OverridesAssumption ==
  \A o \in Overrides : o = <<>> \/ o[1] \in Seq({o[1][i] : i \in DOMAIN o[1]})

Instructions == Scalars \cup Lists \cup {"ENV"}

VARIABLES
  file,      \* the lines
  override,  \* the command of the command line
  at,        \* the next line
  config,    \* the locals of parse_axisfile, then the AxisConfig
  phase      \* "parse", "parsed", "rejected", and those of RuntimeConfig

parseVars == <<file, override, at, config, phase>>

\* None is Empty and <<>>: no instruction accepts an empty value.
Empty == ""

Defaults ==
  [image |-> Empty, name |-> "axis-container", hostname |-> Empty, workdir |-> "/",
   command |-> <<>>, env |-> <<>>, copies |-> <<>>, volumes |-> <<>>,
   exposed_ports |-> <<>>, ports |-> <<>>, memory |-> Empty, cpu |-> Empty, restart |-> Empty]

ParseInit ==
  /\ file \in Files /\ override \in Overrides
  /\ at = 1
  /\ config = Defaults
  /\ phase = "parse"

PortNumbers == 1..65535

PortFromZero(port) == port \in 0..65535

_parse_port(port) == port \in PortNumbers

\* "8080", "8080:80" and either with a protocol.
parse_port_mapping(v) ==
  /\ v.protocol = "tcp"
  /\ Len(v.ports) \in 1..2 /\ \A i \in DOMAIN v.ports : _parse_port(v.ports[i])

Mapping(v) == <<v.ports[1], v.ports[Len(v.ports)]>>

_parse_volume(v) ==
  v # <<>> /\ v[1] # Empty /\ v[2] # Empty /\ v[2] \in Absolute \ Outside

Accepted(line) ==
  LET v == line.value IN
    CASE line.instruction = "COPY" -> Len(v) = 2
      [] line.instruction = "VOLUME" -> _parse_volume(v)
      [] line.instruction = "ENV" -> v # <<>> /\ v[1] # Empty
      [] line.instruction = "EXPOSE" -> _parse_port(v)
      [] line.instruction = "PORT" -> parse_port_mapping(v)
      [] line.instruction = "RESTART" -> v = "always"
      [] line.instruction = "CMD" -> v # <<>>
      [] line.instruction \in Scalars \ {"RESTART", "CMD"} -> v # Empty
      [] OTHER -> FALSE

PutFirst(pairs, key, value) ==
  IF \E i \in DOMAIN pairs : pairs[i][1] = key THEN pairs ELSE Append(pairs, <<key, value>>)

\* A dict keeps the place of a key that is set again.
Put(pairs, key, value) ==
  IF \E i \in DOMAIN pairs : pairs[i][1] = key
  THEN [i \in DOMAIN pairs |-> IF pairs[i][1] = key THEN <<key, value>> ELSE pairs[i]]
  ELSE Append(pairs, <<key, value>>)

Apply(c, line) ==
  LET i == line.instruction  v == line.value IN
    CASE i \in Scalars -> [c EXCEPT ![Field[i]] = v]
      [] i = "ENV" -> [c EXCEPT !.env = Put(@, v[1], v[2])]
      [] i = "PORT" -> [c EXCEPT !.ports = Append(@, Mapping(v))]
      [] i \in Lists \ {"PORT"} -> [c EXCEPT ![ListField[i]] = Append(@, v)]

ParseLine ==
  /\ phase = "parse" /\ at <= Len(file)
  /\ IF Accepted(file[at])
     THEN config' = Apply(config, file[at]) /\ at' = at + 1 /\ UNCHANGED phase
     ELSE phase' = "rejected" /\ UNCHANGED <<config, at>>
  /\ UNCHANGED <<file, override>>

\* An override that is there but empty, `axis run --`, replaces CMD too.
ParseEnd ==
  /\ phase = "parse" /\ at > Len(file)
  /\ LET command == IF override = <<>> THEN config.command ELSE override[1] IN
       IF config.image = Empty \/ command = <<>>
       THEN phase' = "rejected" /\ UNCHANGED config
       ELSE phase' = "parsed" /\ config' = [config EXCEPT !.command = command]
  /\ UNCHANGED <<file, override, at>>

Parse == ParseLine \/ ParseEnd

(***************************************************************************)
(* What the file says, independently of the order in which it is read.     *)
(***************************************************************************)
Lines(i) == {n \in DOMAIN file : file[n].instruction = i}

Said(i, value) ==
  \E n \in Lines(i) : file[n].value = value /\ \A m \in Lines(i) : m <= n

\* The value of a field is the one of its last line, whatever stands between,
\* a variable has its last value, and every line of a list is there in order.
ScalarsDeclared ==
  \A i \in Scalars \ {"CMD"} :
    IF Lines(i) = {} THEN config[Field[i]] = Defaults[Field[i]]
    ELSE Said(i, config[Field[i]])

CommandDeclared ==
  IF override # <<>> THEN config.command = override[1] ELSE Said("CMD", config.command)

EnvDeclared ==
  /\ {config.env[j][1] : j \in DOMAIN config.env} = {file[n].value[1] : n \in Lines("ENV")}
  /\ \A j, k \in DOMAIN config.env : config.env[j][1] = config.env[k][1] => j = k
  /\ \A j \in DOMAIN config.env :
       \E n \in Lines("ENV") :
         /\ file[n].value = config.env[j]
         /\ \A m \in Lines("ENV") : file[m].value[1] = config.env[j][1] => m <= n

ListValue(i, n) == IF i = "PORT" THEN Mapping(file[n].value) ELSE file[n].value

\* "order" tells which line each element of the list comes from.
ListDeclared(i) ==
  LET list == config[ListField[i]] IN
    \E order \in [DOMAIN list -> Lines(i)] :
      /\ Lines(i) = {order[j] : j \in DOMAIN list}
      /\ \A j, k \in DOMAIN list : j < k => order[j] < order[k]
      /\ \A j \in DOMAIN list : list[j] = ListValue(i, order[j])

CauseToReject ==
  \/ \E n \in DOMAIN file : ~Accepted(file[n])
  \/ Lines("FROM") = {}
  \/ override = <<>> /\ Lines("CMD") = {}

\* `axis run --`: an override without a word.
EmptyOverride == override # <<>> /\ override[1] = <<>>

\* What parse_axisfile returns is what the file says: the last line of a
\* field, the last value of a variable, every line of a list in order.  It
\* refuses a file exactly when a line is wrong, FROM is missing, or CMD is
\* missing and nothing overrides it.  Of an empty override this says nothing:
\* the code refuses the file even if it has CMD, which docs/SPECS.md:206 and
\* docs/LLD.md:95 do not say.
ParsedAsDeclared ==
  phase # "parse" /\ ~EmptyOverride =>
    IF phase = "rejected" THEN CauseToReject
    ELSE /\ ~CauseToReject
         /\ ScalarsDeclared /\ CommandDeclared /\ EnvDeclared
         /\ \A i \in Lists : ListDeclared(i)

=============================================================================
