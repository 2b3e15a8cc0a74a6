---------------------------- MODULE ConfigProofs ----------------------------
(***************************************************************************)
(* What parse_axisfile makes of an Axisfile, proved for Axisfiles of any   *)
(* length: Axisfile.tla and the steps RuntimeConfig.tla adds to it.        *)
(*                                                                         *)
(* The file is read line by line, so the invariant says of the lines read  *)
(* so far what ParsedAsDeclared says of all of them.                       *)
(***************************************************************************)
EXTENDS RuntimeConfig, SequenceTheorems, WellFoundedInduction, TLAPS

Fields == DOMAIN Defaults

\* The lines read so far, and those of one instruction among them.
Before == {n \in DOMAIN file : n < at}
Read(i) == {n \in Before : file[n].instruction = i}

ScalarRead(i) ==
  IF Read(i) = {} THEN config[Field[i]] = Defaults[Field[i]]
  ELSE \E n \in Read(i) : file[n].value = config[Field[i]] /\ \A m \in Read(i) : m <= n

Variables == {file[n].value : n \in Lines("ENV")}

EnvRead ==
  /\ config.env \in Seq(Variables)
  /\ \A n \in Read("ENV") : \E j \in DOMAIN config.env : config.env[j][1] = file[n].value[1]
  /\ \A j, k \in DOMAIN config.env : config.env[j][1] = config.env[k][1] => j = k
  /\ \A j \in DOMAIN config.env :
       \E n \in Read("ENV") :
         /\ file[n].value = config.env[j]
         /\ \A m \in Read("ENV") : file[m].value[1] = config.env[j][1] => m <= n

Values(i) == {ListValue(i, n) : n \in Lines(i)}

ListOrdered(i, list, order) ==
  /\ order \in [DOMAIN list -> Read(i)]
  /\ Read(i) = {order[j] : j \in DOMAIN list}
  /\ \A j, k \in DOMAIN list : j < k => order[j] < order[k]
  /\ \A j \in DOMAIN list : list[j] = ListValue(i, order[j])

ListRead(i) ==
  /\ config[ListField[i]] \in Seq(Values(i))
  /\ \E order : ListOrdered(i, config[ListField[i]], order)

FileOK == file \in Files /\ at \in 1..(Len(file) + 1)

ConfigOK == config = [f \in Fields |-> config[f]]

Reading ==
  /\ FileOK /\ ConfigOK
  /\ \A n \in Before : Accepted(file[n])
  /\ \A i \in Scalars \ {"CMD"} : ScalarRead(i)
  /\ EnvRead
  /\ \A i \in Lists : ListRead(i)

\* The command line has its say at the end only.
CommandRead == phase \in {"parse", "rejected"} => ScalarRead("CMD")

Phases == {"parse", "parsed", "rejected", "refused", "written", "loaded", "threw"}

Finished ==
  /\ phase \in Phases
  /\ phase = "rejected" => CauseToReject \/ EmptyOverride
  /\ phase \notin {"parse", "rejected"} =>
       /\ at > Len(file) /\ ~CauseToReject /\ CommandDeclared
       /\ config.image # Empty /\ config.command # <<>>

PInv == Reading /\ CommandRead /\ Finished

(***************************************************************************)
(* The instructions and their fields.                                      *)
(***************************************************************************)
\* Every instruction that sets or extends a field has one of its own.
LEMMA FieldsApart ==
  /\ Scalars = {"FROM", "NAME", "HOSTNAME", "WORKDIR", "MEMORY", "CPU", "RESTART", "CMD"}
  /\ Lists = {"COPY", "VOLUME", "EXPOSE", "PORT"}
  /\ \A i \in Scalars : Field[i] \in Fields
  /\ \A i, k \in Scalars : Field[i] = Field[k] => i = k
  /\ \A i \in Lists : ListField[i] \in Fields
  /\ \A i, k \in Lists : ListField[i] = ListField[k] => i = k
  /\ \A i \in Scalars, k \in Lists : Field[i] # ListField[k]
  /\ \A i \in Scalars : Field[i] # "env"
  /\ \A i \in Lists : ListField[i] # "env"
  /\ "env" \in Fields
BY DEF Scalars, Lists, Field, ListField, Fields, Defaults

\* A line that is accepted has one of these instructions and a value for it.
LEMMA AcceptedLines ==
  ASSUME NEW line, Accepted(line)
  PROVE  /\ line.instruction \in Instructions
         /\ line.instruction = "ENV" => line.value # <<>>
         /\ line.instruction = "FROM" => line.value # Empty
         /\ line.instruction = "CMD" => line.value # <<>>
         /\ line.instruction = "PORT" => parse_port_mapping(line.value)
         /\ line.instruction = "EXPOSE" => _parse_port(line.value)
BY FieldsApart DEF Accepted, Instructions

\* What a line does to the fields.
LEMMA ApplyFields ==
  ASSUME NEW c, c = [f \in Fields |-> c[f]], NEW line, line.instruction \in Instructions
  PROVE  LET i == line.instruction  v == line.value  d == Apply(c, line) IN
           /\ d = [f \in Fields |-> d[f]]
           /\ i \in Scalars =>
                d[Field[i]] = v /\ \A f \in Fields \ {Field[i]} : d[f] = c[f]
           /\ i = "ENV" =>
                d.env = Put(c.env, v[1], v[2]) /\ \A f \in Fields \ {"env"} : d[f] = c[f]
           /\ i = "PORT" =>
                d.ports = Append(c.ports, Mapping(v)) /\ \A f \in Fields \ {"ports"} : d[f] = c[f]
           /\ i \in Lists \ {"PORT"} =>
                /\ d[ListField[i]] = Append(c[ListField[i]], v)
                /\ \A f \in Fields \ {ListField[i]} : d[f] = c[f]
<1> DEFINE i == line.instruction
           v == line.value
           d == Apply(c, line)
<1>1. "ENV" \notin Scalars /\ "ENV" \notin Lists /\ Scalars \cap Lists = {} /\ "PORT" \in Lists
  BY FieldsApart
<1>2. CASE i \in Scalars
  <2>1. d = [c EXCEPT ![Field[i]] = v]
    BY <1>1, <1>2 DEF Apply
  <2> QED
    BY <1>1, <1>2, <2>1, FieldsApart
<1>3. CASE i = "ENV"
  <2>1. d = [c EXCEPT !.env = Put(@, v[1], v[2])]
    BY <1>1, <1>3 DEF Apply
  <2> QED
    BY <1>1, <1>3, <2>1, FieldsApart
<1>4. CASE i = "PORT"
  <2>1. d = [c EXCEPT !.ports = Append(@, Mapping(v))]
    BY <1>1, <1>4 DEF Apply
  <2>2. "ports" \in Fields
    BY FieldsApart DEF Fields, Defaults
  <2> QED
    BY <1>1, <1>4, <2>1, <2>2, FieldsApart
<1>5. CASE i \in Lists \ {"PORT"}
  <2>1. d = [c EXCEPT ![ListField[i]] = Append(@, v)]
    BY <1>1, <1>5 DEF Apply
  <2> QED
    BY <1>1, <1>5, <2>1, FieldsApart
<1> QED
  BY <1>2, <1>3, <1>4, <1>5 DEF Instructions

(***************************************************************************)
(* One more line.                                                          *)
(***************************************************************************)
\* The lines of an Axisfile are numbered from 1.
LEMMA Numbered ==
  ASSUME FileOK
  PROVE  /\ DOMAIN file = 1..Len(file) /\ Len(file) \in Nat
         /\ at \in Nat
BY FilesAssumption DEF FileOK

\* The line at hand is the last one read.
LEMMA ReadNext ==
  ASSUME FileOK, at <= Len(file), at' = at + 1, file' = file
  PROVE  /\ FileOK'
         /\ at \in DOMAIN file
         /\ Before' = Before \cup {at}
         /\ \A k : Read(k)' = IF file[at].instruction = k THEN Read(k) \cup {at} ELSE Read(k)
         /\ \A k : \A n \in Read(k) : n \in Nat /\ n < at
         /\ \A k : Read(k) \subseteq Lines(k) /\ Lines(k)' = Lines(k)
<1>1. DOMAIN file = 1..Len(file) /\ Len(file) \in Nat /\ at \in Nat /\ at \in 1..Len(file)
  BY Numbered DEF FileOK
<1>2. Before' = Before \cup {at} /\ \A n \in Before : n \in Nat /\ n < at
  BY <1>1 DEF Before
<1>3. FileOK'
  BY <1>1 DEF FileOK
<1> QED
  BY <1>1, <1>2, <1>3 DEF Read, Lines, Before

\* A field that the line does not set, and the field it sets.
LEMMA ScalarsStep ==
  ASSUME Reading, CommandRead, ParseLine, Accepted(file[at]), NEW i \in Scalars, ScalarRead(i)
  PROVE  ScalarRead(i)'
<1> DEFINE line == file[at]
<1>1. FileOK /\ config = [f \in Fields |-> config[f]]
  BY DEF Reading, ConfigOK
<1>2. at <= Len(file) /\ at' = at + 1 /\ file' = file /\ config' = Apply(config, line)
  BY DEF ParseLine
<1>3. line.instruction \in Instructions
  BY AcceptedLines
<1>4. CASE line.instruction = i
  <2>1. config'[Field[i]] = line.value
    BY <1>1, <1>2, <1>3, <1>4, ApplyFields
  <2>2. at \in Read(i)' /\ \A m \in Read(i)' : m <= at
    BY <1>1, <1>2, <1>4, ReadNext, Numbered
  <2> QED
    BY <1>2, <2>1, <2>2 DEF ScalarRead
<1>5. CASE line.instruction # i
  <2>1. config'[Field[i]] = config[Field[i]]
    <3>1. line.instruction = "PORT" => ListField["PORT"] = "ports"
      BY DEF ListField
    <3>2. Field[i] \in Fields
      BY FieldsApart
    <3>3. CASE line.instruction \in Scalars
      BY <1>1, <1>2, <1>3, <1>5, <3>2, <3>3, ApplyFields, FieldsApart
    <3>4. CASE line.instruction = "ENV"
      BY <1>1, <1>2, <1>3, <3>2, <3>4, ApplyFields, FieldsApart
    <3>5. CASE line.instruction = "PORT"
      <4>1. Field[i] # "ports"
        BY <3>1, <3>5, FieldsApart
      <4> QED
        BY <1>1, <1>2, <1>3, <3>2, <3>5, <4>1, ApplyFields
    <3>6. CASE line.instruction \in Lists \ {"PORT"}
      BY <1>1, <1>2, <1>3, <3>2, <3>6, ApplyFields, FieldsApart
    <3> QED
      BY <1>3, <3>3, <3>4, <3>5, <3>6 DEF Instructions
  <2>2. Read(i)' = Read(i)
    BY <1>1, <1>2, <1>5, ReadNext
  <2> QED
    BY <1>2, <2>1, <2>2 DEF ScalarRead
<1> QED
  BY <1>4, <1>5

\* A list that the line does not extend, and the one it extends.
LEMMA ListsStep ==
  ASSUME Reading, ParseLine, Accepted(file[at]), NEW i \in Lists
  PROVE  ListRead(i)'
<1> DEFINE line == file[at]
           list == config[ListField[i]]
<1>1. FileOK /\ config = [f \in Fields |-> config[f]] /\ ListRead(i)
  BY DEF Reading, ConfigOK
<1>2. at <= Len(file) /\ at' = at + 1 /\ file' = file /\ config' = Apply(config, line)
  BY DEF ParseLine
<1>3. line.instruction \in Instructions
  BY AcceptedLines
<1>4. list \in Seq(Values(i)) /\ Values(i)' = Values(i)
  BY <1>1, <1>2, ReadNext DEF ListRead, Values, ListValue
<1>5. PICK order : ListOrdered(i, list, order)
  BY <1>1 DEF ListRead
<1>6. CASE line.instruction = i
  <2> DEFINE new == ListValue(i, at)
             grown == [j \in 1..(Len(list) + 1) |-> IF j = Len(list) + 1 THEN at ELSE order[j]]
  <2>1. config'[ListField[i]] = Append(list, new)
    <3>1. CASE i = "PORT"
      <4>1. ListField["PORT"] = "ports" /\ new = Mapping(line.value)
        BY <3>1 DEF ListField, ListValue
      <4> QED
        BY <1>1, <1>2, <1>3, <1>6, <3>1, <4>1, ApplyFields
    <3>2. CASE i # "PORT"
      <4>1. new = line.value
        BY <3>2 DEF ListValue
      <4> QED
        <5>1. line.instruction \in Lists \ {"PORT"}
          BY <1>6, <3>2
        <5> HIDE DEF line
        <5>2. Apply(config, line)[ListField[i]] = Append(list, line.value)
          BY <1>1, <1>3, <1>6, <5>1, ApplyFields
        <5> QED
          BY <1>2, <4>1, <5>2
    <3> QED
      BY <3>1, <3>2
  <2>2. new \in Values(i) /\ Read(i)' = Read(i) \cup {at}
        /\ \A n \in Read(i) : n \in Nat /\ n < at
    <3>1. at \in Lines(i)
      BY <1>1, <1>2, <1>6, ReadNext DEF Lines
    <3> QED
      BY <1>1, <1>2, <1>6, <3>1, ReadNext DEF Values
  <2> HIDE DEF new
  <2>3. /\ Append(list, new) \in Seq(Values(i))
        /\ DOMAIN Append(list, new) = 1..(Len(list) + 1)
        /\ \A j \in 1..Len(list) : Append(list, new)[j] = list[j]
        /\ Append(list, new)[Len(list) + 1] = new
        /\ Len(list) \in Nat /\ DOMAIN list = 1..Len(list)
    BY <1>4, <2>2, AppendProperties
  <2>4. at \in Nat
    BY <1>1, Numbered
  <2>5. /\ order \in [1..Len(list) -> Read(i)]
        /\ Read(i) = {order[j] : j \in 1..Len(list)}
        /\ \A j, k \in 1..Len(list) : j < k => order[j] < order[k]
        /\ \A j \in 1..Len(list) : list[j] = ListValue(i, order[j])
    BY <1>5, <2>3 DEF ListOrdered
  <2>6. /\ grown \in [1..(Len(list) + 1) -> Read(i)']
        /\ \A j, k \in 1..(Len(list) + 1) : j < k => grown[j] < grown[k]
    <3>1. \A j \in 1..(Len(list) + 1) : j # Len(list) + 1 => j \in 1..Len(list)
      BY <2>3
    <3>2. \A j \in 1..Len(list) : order[j] \in Nat /\ order[j] < at
      BY <2>2, <2>5
    <3>3. \A j \in 1..Len(list) : grown[j] = order[j] /\ grown[j] \in Read(i)'
      BY <2>2, <2>3, <2>5
    <3>4. grown[Len(list) + 1] = at /\ at \in Read(i)'
      BY <2>2, <2>3
    <3>5. grown \in [1..(Len(list) + 1) -> Read(i)']
      <4>1. \A j \in 1..(Len(list) + 1) : grown[j] \in Read(i)'
        BY <3>1, <3>3, <3>4
      <4> QED
        BY <4>1
    <3> HIDE DEF grown
    <3>6. ASSUME NEW j \in 1..(Len(list) + 1), NEW k \in 1..(Len(list) + 1), j < k
          PROVE  grown[j] < grown[k]
      <4>1. j \in 1..Len(list) /\ k \in Nat
        BY <2>3, <3>6
      <4>2. CASE k = Len(list) + 1
        BY <3>2, <3>3, <3>4, <4>1, <4>2
      <4>3. CASE k # Len(list) + 1
        BY <2>5, <3>1, <3>3, <3>6, <4>1, <4>3
      <4> QED
        BY <4>2, <4>3
    <3> QED
      BY <3>5, <3>6
  <2>7. Read(i)' = {grown[j] : j \in 1..(Len(list) + 1)}
    <3>1. \A j \in 1..Len(list) : j \in 1..(Len(list) + 1) /\ grown[j] = order[j]
      BY <2>3
    <3>2. Len(list) + 1 \in 1..(Len(list) + 1) /\ grown[Len(list) + 1] = at
      BY <2>3
    <3>3. \A n \in Read(i)' : \E j \in 1..(Len(list) + 1) : n = grown[j]
      BY <2>2, <2>5, <3>1, <3>2
    <3> QED
      BY <2>6, <3>3
  <2>8. \A j \in 1..(Len(list) + 1) : Append(list, new)[j] = ListValue(i, grown[j])
    <3>1. \A j \in 1..(Len(list) + 1) : j # Len(list) + 1 => j \in 1..Len(list)
      BY <2>3
    <3> QED
      BY <2>3, <2>5, <3>1 DEF new
  <2>9. \A n : ListValue(i, n)' = ListValue(i, n)
    BY <1>2 DEF ListValue
  <2> HIDE DEF grown
  <2>10. \E o : ListOrdered(i, config[ListField[i]], o)'
    <3>1. /\ DOMAIN config'[ListField[i]] = 1..(Len(list) + 1)
          /\ \A j \in 1..(Len(list) + 1) :
               config'[ListField[i]][j] = ListValue(i, grown[j])
      BY <2>1, <2>3, <2>8
    <3>2. /\ grown \in [DOMAIN config'[ListField[i]] -> Read(i)']
          /\ Read(i)' = {grown[j] : j \in DOMAIN config'[ListField[i]]}
          /\ \A j, k \in DOMAIN config'[ListField[i]] : j < k => grown[j] < grown[k]
          /\ \A j \in DOMAIN config'[ListField[i]] :
               config'[ListField[i]][j] = ListValue(i, grown[j])
      BY <2>6, <2>7, <3>1
    <3>3. SUFFICES \E o :
            /\ o \in [DOMAIN config'[ListField[i]] -> Read(i)']
            /\ Read(i)' = {o[j] : j \in DOMAIN config'[ListField[i]]}
            /\ \A j, k \in DOMAIN config'[ListField[i]] : j < k => o[j] < o[k]
            /\ \A j \in DOMAIN config'[ListField[i]] :
                 config'[ListField[i]][j] = ListValue(i, o[j])
      BY <2>9 DEF ListOrdered
    <3> WITNESS grown
    <3> QED
      BY <3>2
  <2> QED
    BY <1>4, <2>1, <2>3, <2>10 DEF ListRead
<1>7. CASE line.instruction # i
  <2>1. config'[ListField[i]] = list
    <3>1. ListField["PORT"] = "ports" /\ "PORT" \in Lists
      BY FieldsApart DEF ListField
    <3>2. ListField[i] \in Fields
      BY FieldsApart
    <3>3. CASE line.instruction \in Scalars
      BY <1>1, <1>2, <1>3, <3>2, <3>3, ApplyFields, FieldsApart
    <3>4. CASE line.instruction = "ENV"
      BY <1>1, <1>2, <1>3, <3>2, <3>4, ApplyFields, FieldsApart
    <3>5. CASE line.instruction = "PORT"
      <4>1. ListField[i] # "ports"
        BY <1>7, <3>1, <3>5, FieldsApart
      <4> QED
        BY <1>1, <1>2, <1>3, <3>2, <3>5, <4>1, ApplyFields
    <3>6. CASE line.instruction \in Lists \ {"PORT"}
      BY <1>1, <1>2, <1>3, <1>7, <3>2, <3>6, ApplyFields, FieldsApart
    <3> QED
      BY <1>3, <3>3, <3>4, <3>5, <3>6 DEF Instructions
  <2>2. Read(i)' = Read(i)
    BY <1>1, <1>2, <1>7, ReadNext
  <2>3. \A n : ListValue(i, n)' = ListValue(i, n)
    BY <1>2 DEF ListValue
  <2>4. ListOrdered(i, list, order)'
    BY <1>5, <2>1, <2>2, <2>3 DEF ListOrdered
  <2> QED
    BY <1>4, <2>1, <2>4 DEF ListRead
<1> QED
  BY <1>6, <1>7

\* Setting a variable gives it the value of its last line and keeps the others.
LEMMA EnvStep ==
  ASSUME Reading, ParseLine, Accepted(file[at])
  PROVE  EnvRead'
<1> DEFINE line == file[at]
           env == config.env
           key == line.value[1]
<1>1. FileOK /\ config = [f \in Fields |-> config[f]] /\ EnvRead
  BY DEF Reading, ConfigOK
<1>2. at <= Len(file) /\ at' = at + 1 /\ file' = file /\ config' = Apply(config, line)
  BY DEF ParseLine
<1>3. line.instruction \in Instructions
  BY AcceptedLines
<1>4. /\ env \in Seq(Variables) /\ Variables' = Variables
      /\ Len(env) \in Nat /\ DOMAIN env = 1..Len(env)
  BY <1>1, <1>2, ReadNext DEF EnvRead, Variables
<1>5. CASE line.instruction = "ENV"
  <2>1. config'.env = Put(env, key, line.value[2])
    BY <1>1, <1>2, <1>3, <1>5, ApplyFields
  <2>2. /\ Read("ENV")' = Read("ENV") \cup {at} /\ at \in DOMAIN file
        /\ \A n \in Read("ENV") : n \in Nat /\ n < at
    BY <1>1, <1>2, <1>5, ReadNext
  <2>3. line.value = <<key, line.value[2]>> /\ line.value \in Variables /\ at \in Nat
    BY <1>1, <1>5, <2>2, FilesAssumption, AcceptedLines, Numbered
    DEF FileOK, Variables, Lines
  <2>4. \A n \in Read("ENV") : \E j \in DOMAIN env : env[j][1] = file[n].value[1]
    BY <1>1 DEF EnvRead
  <2>5. \A j, k \in DOMAIN env : env[j][1] = env[k][1] => j = k
    BY <1>1 DEF EnvRead
  <2>6. \A j \in DOMAIN env :
          \E n \in Read("ENV") :
            /\ file[n].value = env[j]
            /\ \A m \in Read("ENV") : file[m].value[1] = env[j][1] => m <= n
    BY <1>1 DEF EnvRead
  <2> HIDE DEF line, key, env
  <2>7. CASE \E j \in DOMAIN env : env[j][1] = key
    <3> DEFINE put == [j \in DOMAIN env |-> IF env[j][1] = key THEN line.value ELSE env[j]]
    <3>1. config'.env = put
      BY <2>1, <2>3, <2>7 DEF Put
    <3>2. /\ DOMAIN put = DOMAIN env
          /\ \A j \in DOMAIN env : env[j][1] = key => put[j] = line.value
          /\ \A j \in DOMAIN env : env[j][1] # key => put[j] = env[j]
          /\ \A j \in DOMAIN env : put[j][1] = env[j][1]
      BY <2>3 DEF key
    <3>3. put \in Seq(Variables)
      <4>1. \A j \in 1..Len(env) : env[j] \in Variables
        BY <1>4
      <4>2. put \in [1..Len(env) -> Variables]
        BY <1>4, <2>3, <4>1
      <4> QED
        BY <1>4, <4>2
    <3> HIDE DEF put
    <3>4. \A n \in Read("ENV") \cup {at} :
            \E j \in DOMAIN put : put[j][1] = file[n].value[1]
      BY <2>4, <2>7, <3>2 DEF key, line
    <3>5. \A j \in DOMAIN put :
            \E n \in Read("ENV") \cup {at} :
              /\ file[n].value = put[j]
              /\ \A m \in Read("ENV") \cup {at} : file[m].value[1] = put[j][1] => m <= n
      <4> SUFFICES ASSUME NEW j \in DOMAIN env
                   PROVE  \E n \in Read("ENV") \cup {at} :
                            /\ file[n].value = put[j]
                            /\ \A m \in Read("ENV") \cup {at} :
                                 file[m].value[1] = put[j][1] => m <= n
        BY <3>2
      <4>1. CASE env[j][1] = key
        <5>1. file[at].value = put[j]
          BY <3>2, <4>1 DEF line
        <5>2. \A m \in Read("ENV") \cup {at} : m <= at
          BY <2>2, <2>3
        <5> QED
          BY <5>1, <5>2
      <4>2. CASE env[j][1] # key
        <5>1. put[j] = env[j] /\ file[at].value[1] # env[j][1]
          BY <3>2, <4>2 DEF key, line
        <5> QED
          BY <2>6, <5>1
      <4> QED
        BY <4>1, <4>2
    <3> QED
      BY <1>2, <1>4, <2>2, <2>5, <3>1, <3>2, <3>3, <3>4, <3>5 DEF EnvRead
  <2>8. CASE ~\E j \in DOMAIN env : env[j][1] = key
    <3> DEFINE put == Append(env, line.value)
    <3>1. config'.env = put
      BY <2>1, <2>3, <2>8 DEF Put
    <3>2. /\ put \in Seq(Variables)
          /\ DOMAIN put = DOMAIN env \cup {Len(env) + 1} /\ Len(env) + 1 \notin DOMAIN env
          /\ \A j \in DOMAIN env : put[j] = env[j]
          /\ put[Len(env) + 1] = line.value
      <4>1. /\ put \in Seq(Variables) /\ Len(put) = Len(env) + 1
            /\ \A j \in 1..Len(env) : put[j] = env[j]
            /\ put[Len(env) + 1] = line.value
        BY <1>4, <2>3, AppendProperties
      <4>2. DOMAIN put = 1..(Len(env) + 1)
        BY <4>1
      <4>3. 1..(Len(env) + 1) = 1..Len(env) \cup {Len(env) + 1} /\ Len(env) + 1 \notin 1..Len(env)
        BY <1>4
      <4> QED
        BY <1>4, <4>1, <4>2, <4>3 DEF env
    <3> HIDE DEF put
    <3>3. \A n \in Read("ENV") \cup {at} :
            \E j \in DOMAIN put : put[j][1] = file[n].value[1]
      BY <2>4, <3>2 DEF line
    <3>4. \A j, k \in DOMAIN put : put[j][1] = put[k][1] => j = k
      BY <2>5, <2>8, <3>2 DEF key
    <3>5. \A j \in DOMAIN put :
            \E n \in Read("ENV") \cup {at} :
              /\ file[n].value = put[j]
              /\ \A m \in Read("ENV") \cup {at} : file[m].value[1] = put[j][1] => m <= n
      <4> SUFFICES ASSUME NEW j \in DOMAIN env \cup {Len(env) + 1}
                   PROVE  \E n \in Read("ENV") \cup {at} :
                            /\ file[n].value = put[j]
                            /\ \A m \in Read("ENV") \cup {at} :
                                 file[m].value[1] = put[j][1] => m <= n
        BY <3>2
      <4>1. CASE j = Len(env) + 1
        <5>1. file[at].value = put[j]
          BY <3>2, <4>1 DEF line
        <5>2. \A m \in Read("ENV") \cup {at} : m <= at
          BY <2>2, <2>3
        <5> QED
          BY <5>1, <5>2
      <4>2. CASE j \in DOMAIN env
        <5>1. put[j] = env[j] /\ file[at].value[1] # env[j][1]
          BY <2>8, <3>2, <4>2 DEF key, line
        <5> QED
          BY <2>6, <4>2, <5>1
      <4> QED
        BY <4>1, <4>2
    <3> QED
      BY <1>2, <1>4, <2>2, <3>1, <3>2, <3>3, <3>4, <3>5 DEF EnvRead
  <2> QED
    BY <2>7, <2>8
<1>6. CASE line.instruction # "ENV"
  <2>1. config'.env = env
    <3>1. line.instruction = "PORT" \/ line.instruction \in Scalars
          \/ line.instruction \in Lists \ {"PORT"}
      BY <1>3, <1>6 DEF Instructions
    <3>2. "env" \in Fields
      BY FieldsApart
    <3>3. CASE line.instruction = "PORT"
      BY <1>1, <1>2, <1>3, <3>2, <3>3, ApplyFields
    <3>4. CASE line.instruction \in Scalars
      BY <1>1, <1>2, <1>3, <3>2, <3>4, ApplyFields, FieldsApart
    <3>5. CASE line.instruction \in Lists \ {"PORT"}
      BY <1>1, <1>2, <1>3, <3>2, <3>5, ApplyFields, FieldsApart
    <3> QED
      BY <3>1, <3>3, <3>4, <3>5
  <2>2. Read("ENV")' = Read("ENV")
    BY <1>1, <1>2, <1>6, ReadNext
  <2>3. EnvRead /\ UNCHANGED <<Variables, file>> /\ config'.env = config.env
    BY <1>1, <1>2, <1>4, <2>1
  <2> QED
    BY <2>2, <2>3 DEF EnvRead
<1> QED
  BY <1>5, <1>6

(***************************************************************************)
(* The end of the file, and the steps after it.                            *)
(***************************************************************************)
\* A step that leaves the file, the place in it and every field but the
\* command alone keeps what has been read.
LEMMA ReadingStays ==
  ASSUME Reading, UNCHANGED <<file, at>>, ConfigOK',
         \A f \in Fields \ {"command"} : config'[f] = config[f]
  PROVE  Reading'
<1>1. \A k : UNCHANGED <<Read(k), Values(k)>>
  BY DEF Read, Before, Values, Lines, ListValue
<1>2. UNCHANGED <<FileOK, Before, Variables>>
  BY DEF FileOK, Before, Variables, Lines
<1>3. \A i \in Scalars \ {"CMD"} : ScalarRead(i)'
  <2> SUFFICES ASSUME NEW i \in Scalars \ {"CMD"} PROVE ScalarRead(i)'
    OBVIOUS
  <2>1. Field["CMD"] = "command" /\ "CMD" \in Scalars
    BY DEF Field, Scalars
  <2>2. config'[Field[i]] = config[Field[i]]
    BY <2>1, FieldsApart
  <2> QED
    BY <1>1, <2>2 DEF Reading, ScalarRead
<1>4. EnvRead'
  <2>1. config'.env = config.env
    BY FieldsApart
  <2> QED
    BY <1>1, <1>2, <2>1 DEF Reading, EnvRead
<1>5. \A i \in Lists : ListRead(i)'
  <2> SUFFICES ASSUME NEW i \in Lists PROVE ListRead(i)'
    OBVIOUS
  <2>1. Field["CMD"] = "command" /\ "CMD" \in Scalars
    BY DEF Field, Scalars
  <2>2. config'[ListField[i]] = config[ListField[i]]
    BY <2>1, FieldsApart
  <2>3. \A n : UNCHANGED ListValue(i, n)
    BY DEF ListValue
  <2>4. PICK order : ListOrdered(i, config[ListField[i]], order)
    BY DEF Reading, ListRead
  <2>5. ListOrdered(i, config[ListField[i]], order)'
    BY <1>1, <2>2, <2>3, <2>4 DEF ListOrdered
  <2>6. config'[ListField[i]] \in Seq(Values(i))'
    BY <1>1, <2>2 DEF Reading, ListRead
  <2> QED
    BY <2>5, <2>6 DEF ListRead
<1> QED
  BY <1>2, <1>3, <1>4, <1>5 DEF Reading

\* Before the first line nothing has been read.
LEMMA InitPInv == Init => PInv
<1> SUFFICES ASSUME Init PROVE PInv
  OBVIOUS
<1>1. /\ file \in Files /\ at = 1 /\ config = Defaults /\ phase = "parse"
  BY DEF Init, ParseInit
<1>2. DOMAIN file = 1..Len(file) /\ Len(file) \in Nat
  BY <1>1, FilesAssumption
<1>3. FileOK /\ Before = {}
  BY <1>1, <1>2 DEF FileOK, Before
<1>4. \A k : Read(k) = {}
  BY <1>3 DEF Read
<1>5. \A i \in Scalars : ScalarRead(i)
  BY <1>1, <1>4 DEF ScalarRead
<1>6. EnvRead
  <2>1. config.env = <<>>
    BY <1>1 DEF Defaults
  <2> QED
    BY <1>4, <2>1 DEF EnvRead
<1>7. ASSUME NEW i \in Lists PROVE ListRead(i)
  <2>1. config[ListField[i]] = <<>>
    BY <1>1 DEF Defaults, ListField, Lists
  <2>2. ListOrdered(i, config[ListField[i]], <<>>)
    BY <1>4, <2>1 DEF ListOrdered
  <2> QED
    BY <2>1, <2>2 DEF ListRead
<1>8. ConfigOK
  BY <1>1 DEF ConfigOK, Fields, Defaults
<1> QED
  BY <1>1, <1>3, <1>5, <1>6, <1>7, <1>8, FieldsApart
  DEF PInv, Reading, CommandRead, Finished, Phases

\* A line, accepted or not, keeps the invariant.
LEMMA LinePInv ==
  ASSUME PInv, ParseLine
  PROVE  PInv'
<1>1. Reading /\ CommandRead /\ phase = "parse" /\ UNCHANGED <<file, override>>
      /\ FileOK /\ ConfigOK /\ at <= Len(file)
  BY DEF PInv, ParseLine, Reading
<1>2. CASE Accepted(file[at])
  <2>1. at' = at + 1 /\ config' = Apply(config, file[at]) /\ UNCHANGED phase
    BY <1>2 DEF ParseLine
  <2>2. \A n \in Before' : Accepted(file[n])'
    <3>1. \A n : Accepted(file[n])' <=> Accepted(file[n])
      BY <1>1 DEF Accepted
    <3> QED
      BY <1>1, <1>2, <2>1, <3>1, ReadNext DEF Reading
  <2>3. \A i \in Scalars : ScalarRead(i)'
    BY <1>1, <1>2, ScalarsStep DEF CommandRead, Reading
  <2>4. ConfigOK'
    <3>1. config = [f \in Fields |-> config[f]]
      BY <1>1 DEF ConfigOK
    <3>2. Apply(config, file[at]) = [f \in Fields |-> Apply(config, file[at])[f]]
      BY <1>2, <3>1, AcceptedLines, ApplyFields
    <3> QED
      BY <2>1, <3>2 DEF ConfigOK
  <2> QED
    BY <1>1, <1>2, <2>1, <2>2, <2>3, <2>4, ReadNext, EnvStep, ListsStep, FieldsApart
    DEF PInv, Reading, CommandRead, Finished
<1>3. CASE ~Accepted(file[at])
  <2>1. UNCHANGED <<config, at>> /\ phase' = "rejected"
    BY <1>3 DEF ParseLine
  <2>2. Reading'
    BY <1>1, <2>1, ReadingStays DEF ConfigOK
  <2>3. ScalarRead("CMD")'
    BY <1>1, <2>1 DEF CommandRead, ScalarRead, Read, Before
  <2>4. CauseToReject'
    <3>1. at \in DOMAIN file' /\ ~Accepted(file'[at])
      BY <1>1, <1>3, Numbered DEF FileOK
    <3> QED
      BY <3>1 DEF CauseToReject
  <2> QED
    BY <2>1, <2>2, <2>3, <2>4 DEF PInv, CommandRead, Finished, Phases
<1> QED
  BY <1>2, <1>3

\* At the end of the file everything has been read.
LEMMA AllRead ==
  ASSUME FileOK, at > Len(file)
  PROVE  Before = DOMAIN file /\ \A k : Read(k) = Lines(k)
<1>1. DOMAIN file = 1..Len(file) /\ Len(file) \in Nat /\ at \in Nat
  BY Numbered
<1>2. Before = DOMAIN file
  BY <1>1 DEF Before
<1> QED
  BY <1>2 DEF Read, Lines

\* The end of the file keeps the invariant: what is missing is found there.
LEMMA EndPInv ==
  ASSUME PInv, ParseEnd
  PROVE  PInv'
<1> DEFINE command == IF override = <<>> THEN config.command ELSE override[1]
<1>1. /\ Reading /\ CommandRead /\ phase = "parse" /\ UNCHANGED <<file, override, at>>
      /\ FileOK /\ ConfigOK /\ at > Len(file)
  BY Numbered DEF PInv, ParseEnd, Reading
<1>2. Before = DOMAIN file /\ \A k : Read(k) = Lines(k)
  BY <1>1, AllRead
<1>3. /\ Field["FROM"] = "image" /\ Field["CMD"] = "command"
      /\ Defaults.image = Empty /\ Defaults.command = <<>>
      /\ "FROM" \in Scalars \ {"CMD"} /\ "image" \in Fields /\ "command" \in Fields
  BY DEF Field, Scalars, Defaults, Fields
<1>4. config.image = Empty <=> Lines("FROM") = {}
  <2>1. ScalarRead("FROM")
    BY <1>1, <1>3 DEF Reading
  <2>2. \A n \in Lines("FROM") : file[n].value # Empty
    BY <1>1, <1>2, AcceptedLines DEF Reading, Lines
  <2> QED
    BY <1>2, <1>3, <2>1, <2>2 DEF ScalarRead
<1>5. config.command = <<>> <=> Lines("CMD") = {}
  <2>1. ScalarRead("CMD")
    BY <1>1 DEF CommandRead
  <2>2. \A n \in Lines("CMD") : file[n].value # <<>>
    BY <1>1, <1>2, AcceptedLines DEF Reading, Lines
  <2> QED
    BY <1>2, <1>3, <2>1, <2>2 DEF ScalarRead
<1>6. CauseToReject \/ EmptyOverride <=> config.image = Empty \/ command = <<>>
  BY <1>1, <1>2, <1>4, <1>5 DEF CauseToReject, EmptyOverride, Reading
<1>7. (CauseToReject' <=> CauseToReject) /\ (EmptyOverride' <=> EmptyOverride)
  BY <1>1 DEF CauseToReject, EmptyOverride, Lines
<1>8. CASE config.image = Empty \/ command = <<>>
  <2>1. phase' = "rejected" /\ UNCHANGED config
    BY <1>8 DEF ParseEnd
  <2>2. Reading'
    BY <1>1, <2>1, ReadingStays DEF ConfigOK
  <2>3. ScalarRead("CMD")'
    BY <1>1, <2>1 DEF CommandRead, ScalarRead, Read, Before
  <2> QED
    BY <1>6, <1>7, <1>8, <2>1, <2>2, <2>3 DEF PInv, CommandRead, Finished, Phases
<1>9. CASE ~(config.image = Empty \/ command = <<>>)
  <2>1. phase' = "parsed" /\ config' = [config EXCEPT !.command = command]
    BY <1>9 DEF ParseEnd
  <2>2. /\ ConfigOK' /\ config'.command = command
        /\ \A f \in Fields \ {"command"} : config'[f] = config[f]
    BY <1>1, <1>3, <2>1 DEF ConfigOK
  <2>3. Reading'
    BY <1>1, <2>2, ReadingStays
  <2>4. CommandDeclared'
    <3>1. CASE override # <<>>
      BY <1>1, <2>2, <3>1 DEF CommandDeclared
    <3>2. CASE override = <<>>
      <4>1. Lines("CMD") # {} /\ ScalarRead("CMD")
        BY <1>1, <1>5, <1>9, <3>2 DEF CommandRead
      <4>2. Said("CMD", config.command)
        BY <1>2, <1>3, <4>1 DEF ScalarRead, Said
      <4>3. UNCHANGED Lines("CMD") /\ config'.command = config.command
        BY <1>1, <2>2, <3>2 DEF Lines
      <4> QED
        BY <1>1, <3>2, <4>2, <4>3 DEF CommandDeclared, Said
    <3> QED
      BY <3>1, <3>2
  <2>5. config'.image # Empty /\ config'.command # <<>>
    BY <1>3, <1>9, <2>2
  <2> QED
    BY <1>1, <1>6, <1>7, <1>9, <2>1, <2>3, <2>4, <2>5
    DEF PInv, CommandRead, Finished, Phases
<1> QED
  BY <1>8, <1>9

\* Once it is parsed, the file and the configuration stay as they are.
LEMMA LaterPInv ==
  ASSUME PInv, UNCHANGED <<file, override, at, config>>,
         phase' \in Phases, phase' = phase \/ phase' \notin {"parse", "rejected"},
         phase' = phase \/ phase \notin {"parse", "rejected"}
  PROVE  PInv'
<1>1. ConfigOK' /\ Reading
  BY DEF PInv, Reading, ConfigOK
<1>2. Reading'
  BY <1>1, ReadingStays
<1>3. \A k : UNCHANGED <<Read(k), Lines(k)>>
  BY DEF Read, Before, Lines
<1>4. CommandRead'
  BY <1>3 DEF PInv, CommandRead, ScalarRead
<1>5. UNCHANGED <<CauseToReject, EmptyOverride, CommandDeclared>>
  BY <1>3 DEF CauseToReject, EmptyOverride, CommandDeclared, Said
<1> QED
  BY <1>2, <1>4, <1>5 DEF PInv, Finished

\* THEOREM 1.  The invariant holds in every behaviour, for Axisfiles of any
\* length and with any values.
THEOREM ParsingInductive == Spec => []PInv
<1>1. ASSUME PInv, [Next]_vars PROVE PInv'
  <2>1. CASE Parse
    BY <1>1, <2>1, LinePInv, EndPInv DEF Parse
  <2>2. CASE WriteRuntimeConfig \/ LoadRuntimeConfig
    <3>1. /\ phase \notin {"parse", "rejected"} /\ phase' \in Phases \ {"parse", "rejected"}
          /\ UNCHANGED <<file, override, at, config>>
      BY <2>2 DEF WriteRuntimeConfig, LoadRuntimeConfig, Phases
    <3> QED
      BY <1>1, <3>1, LaterPInv
  <2>3. CASE UNCHANGED vars
    <3>1. UNCHANGED <<file, override, at, config, phase>>
      BY <2>3 DEF vars, parseVars
    <3> QED
      BY <1>1, <3>1, LaterPInv DEF PInv, Finished
  <2> QED
    BY <1>1, <2>1, <2>2, <2>3 DEF Next
<1> QED
  BY <1>1, InitPInv, PTL DEF Spec

\* THEOREM 2.  What parse_axisfile returns is what the file says, whatever the
\* order of its lines and however often one is repeated, and it refuses a file
\* exactly when a line is wrong or the image or a command is missing, unless it
\* is run with an empty override.
THEOREM ParseIsDeclared == Spec => []ParsedAsDeclared
<1>1. PInv => ParsedAsDeclared
  <2> SUFFICES ASSUME PInv, phase \notin {"parse", "rejected"}
               PROVE  /\ ~CauseToReject
                      /\ ScalarsDeclared /\ CommandDeclared /\ EnvDeclared
                      /\ \A i \in Lists : ListDeclared(i)
    BY DEF ParsedAsDeclared, PInv, Finished
  <2>1. Reading /\ ~CauseToReject /\ CommandDeclared /\ at > Len(file)
    BY DEF PInv, Finished
  <2>2. \A k : Read(k) = Lines(k)
    BY <2>1, AllRead DEF Reading
  <2>3. ScalarsDeclared
    BY <2>1, <2>2 DEF Reading, ScalarsDeclared, ScalarRead, Said
  <2>4. EnvDeclared
    <3>1. EnvRead
      BY <2>1 DEF Reading
    <3>2. \A j \in DOMAIN config.env :
            \E n \in Lines("ENV") : config.env[j][1] = file[n].value[1]
      BY <2>2, <3>1 DEF EnvRead
    <3>3. {config.env[j][1] : j \in DOMAIN config.env} = {file[n].value[1] : n \in Lines("ENV")}
      BY <2>2, <3>1, <3>2 DEF EnvRead
    <3> QED
      BY <2>2, <3>1, <3>3 DEF EnvRead, EnvDeclared
  <2>5. ASSUME NEW i \in Lists PROVE ListDeclared(i)
    BY <2>1, <2>2 DEF Reading, ListRead, ListOrdered, ListDeclared
  <2> QED
    BY <2>1, <2>3, <2>4, <2>5
<1> QED
  BY <1>1, ParsingInductive, PTL

\* THEOREM 3.  Every variable keeps the kind of value the code gives it: in
\* particular the ports of a configuration are in their range.
THEOREM ConfigTypeCorrect == Spec => []TypeOK
<1>1. PInv => TypeOK
  <2> SUFFICES ASSUME PInv PROVE TypeOK
    OBVIOUS
  <2>1. Reading /\ FileOK /\ Finished /\ at \in 1..(Len(file) + 1)
    BY DEF PInv, Reading, FileOK
  <2>2. ASSUME NEW p \in Pairs(config.ports) PROVE p \in PortNumbers \X PortNumbers
    <3>1. ListField["PORT"] = "ports" /\ "PORT" \in Lists
      BY DEF ListField, Lists
    <3>2. PICK order : ListOrdered("PORT", config.ports, order)
      BY <2>1, <3>1 DEF Reading, ListRead
    <3>3. PICK n \in Read("PORT") : p = ListValue("PORT", n)
      BY <2>2, <3>2 DEF Pairs, ListOrdered
    <3> DEFINE v == file[n].value
    <3>4. parse_port_mapping(v) /\ v.ports \in Seq(Nat)
      BY <2>1, <3>3, AcceptedLines, FilesAssumption DEF Reading, Read, Before, FileOK
    <3> HIDE DEF v
    <3>5. v.ports[1] \in PortNumbers /\ v.ports[Len(v.ports)] \in PortNumbers
      BY <3>4 DEF parse_port_mapping, _parse_port
    <3>6. p = <<v.ports[1], v.ports[Len(v.ports)]>>
      BY <3>3 DEF ListValue, Mapping, v
    <3> QED
      BY <3>5, <3>6
  <2>3. ASSUME NEW p \in Pairs(config.exposed_ports) PROVE p \in PortNumbers
    <3>1. ListField["EXPOSE"] = "exposed_ports" /\ "EXPOSE" \in Lists
      BY DEF ListField, Lists
    <3>2. PICK order : ListOrdered("EXPOSE", config.exposed_ports, order)
      BY <2>1, <3>1 DEF Reading, ListRead
    <3>3. PICK n \in Read("EXPOSE") : p = ListValue("EXPOSE", n)
      BY <2>3, <3>2 DEF Pairs, ListOrdered
    <3>4. _parse_port(file[n].value)
      BY <2>1, <3>3, AcceptedLines DEF Reading, Read, Before
    <3> QED
      BY <3>3, <3>4 DEF ListValue, _parse_port
  <2> QED
    BY <2>1, <2>2, <2>3 DEF TypeOK, Finished, Phases
<1> QED
  BY <1>1, ParsingInductive, PTL

(***************************************************************************)
(* Induction.  A set that holds 0 and the successor of each of its numbers *)
(* holds all of them; the predicate of an induction is such a set.         *)
(***************************************************************************)
\* If some number were missing, so would be the one before the least of them.
LEMMA NatSubset ==
  ASSUME NEW S, 0 \in S, \A n \in Nat : n \in S => n + 1 \in S
  PROVE  Nat \subseteq S
<1> DEFINE Less == {ss \in Nat \X Nat : ss[1] < ss[2]}
           Missing == Nat \ S
<1>1. IsWellFoundedOn(Less, Nat)
  BY NatLessThanWellFounded DEF OpToRel
<1>2. SUFFICES ASSUME Missing # {} PROVE FALSE
  OBVIOUS
<1>3. PICK x \in Missing : \A y \in Missing : <<y, x>> \notin Less
  <2>1. Missing \subseteq Nat
    OBVIOUS
  <2> HIDE DEF Missing, Less
  <2> QED
    BY <1>1, <1>2, <2>1, WFMin
<1>4. x \in Nat /\ x # 0 /\ x - 1 \in Nat /\ (x - 1) + 1 = x
  OBVIOUS
<1>5. <<x - 1, x>> \in Less
  BY <1>4
<1>6. x - 1 \in S
  BY <1>3, <1>4, <1>5
<1> QED
  BY <1>3, <1>4, <1>6

(***************************************************************************)
(* What json.dumps puts between brackets: the items and the commas.        *)
(***************************************************************************)
Comma == Sym(",")

JoinStep(items, f, n) ==
  IF n = 0 THEN <<>>
  ELSE IF n = 1 THEN items[1] ELSE f[n - 1] \o <<Comma>> \o items[n]

\* f is the first n rounds of the recursion in Separated.
Joins(items, n, f) == f = [k \in 0..n |-> JoinStep(items, f, k)]
Joined(items) == CHOOSE f : Joins(items, Len(items), f)

\* The recursion has a result for every number of items.
LEMMA JoinedExists ==
  ASSUME NEW items, Len(items) \in Nat
  PROVE  /\ Joins(items, Len(items), Joined(items))
         /\ Separated(items) = Joined(items)[Len(items)]
<1> DEFINE S == {n \in Nat : \E f : Joins(items, n, f)}
<1>1. 0 \in S
  <2> DEFINE f == [k \in 0..0 |-> <<>>]
  <2>1. Joins(items, 0, f)
    BY DEF Joins, JoinStep
  <2> QED
    BY <2>1
<1>2. ASSUME NEW n \in Nat, n \in S PROVE n + 1 \in S
  <2>1. PICK f : Joins(items, n, f)
    BY <1>2
  <2> DEFINE g == [k \in 0..(n + 1) |-> IF k = n + 1 THEN JoinStep(items, f, k) ELSE f[k]]
  <2>2. \A k \in 0..(n + 1) : JoinStep(items, g, k) = JoinStep(items, f, k)
    <3>1. \A k \in 0..n : g[k] = f[k]
      OBVIOUS
    <3>2. \A k \in 0..(n + 1) : k # 0 => k - 1 \in 0..n
      OBVIOUS
    <3> HIDE DEF g
    <3> QED
      BY <3>1, <3>2 DEF JoinStep
  <2>3. \A k \in 0..(n + 1) : k # n + 1 => f[k] = JoinStep(items, f, k)
    BY <2>1 DEF Joins
  <2>4. Joins(items, n + 1, g)
    BY <2>2, <2>3 DEF Joins
  <2> QED
    BY <2>4
<1>3. Len(items) \in S
  <2> HIDE DEF S
  <2> QED
    BY <1>1, <1>2, NatSubset
<1>4. Joins(items, Len(items), Joined(items))
  BY <1>3 DEF Joined
<1>5. Separated(items) = Joined(items)[Len(items)]
  BY DEF Separated, Joined, Joins, JoinStep, Comma
<1> QED
  BY <1>4, <1>5

\* Where item i begins: behind the items and commas before it.
At(items, i) == IF i = 1 THEN 0 ELSE Len(Joined(items)[i - 1]) + 1

\* There is a number of items.
LEMMA JoinedCount ==
  ASSUME NEW T, NEW items \in Seq(Seq(T))
  PROVE  Len(items) \in Nat /\ DOMAIN items = 1..Len(items)
OBVIOUS

\* The rounds are sequences of tokens, each the one before, a comma and an item.
LEMMA JoinedStep ==
  ASSUME NEW T, Comma \in T, NEW items \in Seq(Seq(T))
  PROVE  /\ Len(items) \in Nat
         /\ Joined(items)[0] = <<>> /\ (Len(items) > 0 => Joined(items)[1] = items[1])
         /\ \A n \in 2..Len(items) :
              Joined(items)[n] = Joined(items)[n - 1] \o <<Comma>> \o items[n]
         /\ \A n \in 0..Len(items) : Joined(items)[n] \in Seq(T)
         /\ \A n \in 1..Len(items) : items[n] \in Seq(T)
         /\ Separated(items) = Joined(items)[Len(items)]
<1> DEFINE J == Joined(items)
           N == Len(items)
<1>1. N \in Nat /\ \A n \in 1..N : items[n] \in Seq(T)
  OBVIOUS
<1>2. J = [n \in 0..N |-> JoinStep(items, J, n)] /\ Separated(items) = J[N]
  BY <1>1, JoinedExists DEF Joins
<1> HIDE DEF J
<1>3. \A n \in 0..N : J[n] = JoinStep(items, J, n)
  BY <1>2
<1>4. J[0] = <<>> /\ (N > 0 => J[1] = items[1])
  BY <1>1, <1>3 DEF JoinStep
<1>5. ASSUME NEW n \in 2..N PROVE J[n] = J[n - 1] \o <<Comma>> \o items[n]
  <2>1. n \in 0..N /\ n # 0 /\ n # 1
    BY <1>1
  <2> QED
    BY <1>3, <2>1, Zenon DEF JoinStep
<1> DEFINE S == {n \in Nat : n \in 0..N => J[n] \in Seq(T)}
<1>6. 0 \in S
  <2>1. <<>> \in Seq(T)
    OBVIOUS
  <2> QED
    BY <1>4, <2>1, Zenon
<1>7. ASSUME NEW n \in Nat, n \in S PROVE n + 1 \in S
  <2> SUFFICES ASSUME n + 1 \in 0..N PROVE J[n + 1] \in Seq(T)
    OBVIOUS
  <2>1. CASE n = 0
    BY <1>1, <1>4, <2>1
  <2>2. CASE n # 0
    <3>1. n + 1 \in 2..N /\ n \in 0..N /\ (n + 1) - 1 = n
      BY <1>1, <2>2
    <3>2. J[n] \in Seq(T) /\ <<Comma>> \in Seq(T) /\ items[n + 1] \in Seq(T)
      BY <1>1, <1>7, <3>1
    <3>3. J[n + 1] = J[n] \o <<Comma>> \o items[n + 1]
      BY <1>5, <3>1
    <3> QED
      BY <3>2, <3>3
  <2> QED
    BY <2>1, <2>2
<1>8. \A n \in 0..N : J[n] \in Seq(T)
  <2>1. Nat \subseteq S
    <3> HIDE DEF S
    <3> QED
      BY <1>6, <1>7, NatSubset
  <2> QED
    BY <2>1
<1> QED
  BY <1>1, <1>2, <1>4, <1>5, <1>8 DEF J

\* A round adds its item, behind a comma if it is not the first, and leaves
\* what is there.
RoundLaid(items, n) ==
  /\ Len(Joined(items)[n]) \in Nat /\ At(items, n) \in Nat /\ Len(items[n]) \in Nat
  /\ Len(Joined(items)[n]) = At(items, n) + Len(items[n])
  /\ \A k \in 1..Len(items[n]) : Joined(items)[n][At(items, n) + k] = items[n][k]
  /\ n > 1 =>
       /\ Len(Joined(items)[n - 1]) = At(items, n) - 1
       /\ Joined(items)[n][At(items, n)] = Comma
       /\ \A p \in 1..Len(Joined(items)[n - 1]) :
            Joined(items)[n][p] = Joined(items)[n - 1][p]

\* That is what every round does.
LEMMA JoinedLaid ==
  ASSUME NEW T, Comma \in T, NEW items \in Seq(Seq(T)), NEW n \in 1..Len(items)
  PROVE  RoundLaid(items, n)
<1> DEFINE J == Joined(items)
           a == At(items, n)
           item == items[n]
<1>1. n \in 0..Len(items) /\ n \in Nat
  BY JoinedCount
<1>2. item \in Seq(T) /\ J[n] \in Seq(T)
  BY <1>1, JoinedStep
<1>3. Len(item) \in Nat /\ Len(J[n]) \in Nat
  <2> HIDE DEF J, item
  <2> QED
    BY <1>2
<1>4. CASE n = 1
  <2>1. Len(items) > 0
    BY <1>4, JoinedCount
  <2>2. J[n] = item /\ a = 0
    BY <1>4, <2>1, JoinedStep, Zenon DEF At
  <2> HIDE DEF J, item, a
  <2>3. /\ Len(J[n]) = a + Len(item) /\ a \in Nat /\ ~(n > 1)
        /\ \A k \in 1..Len(item) : J[n][a + k] = item[k]
    BY <1>3, <1>4, <2>2
  <2> QED
    BY <1>3, <2>3 DEF J, item, a, RoundLaid
<1>5. CASE n # 1
  <2> DEFINE b == J[n - 1]
  <2>1. n \in 2..Len(items) /\ n - 1 \in 0..Len(items)
    BY <1>1, <1>5
  <2>2. b \in Seq(T) /\ J[n] = b \o <<Comma>> \o item
    BY <2>1, JoinedStep
  <2>3. a = Len(b) + 1
    BY <1>5 DEF At
  <2> HIDE DEF a, b, J, item
  <2>4. /\ b \o <<Comma>> \in Seq(T) /\ Len(b \o <<Comma>>) = Len(b) + 1
        /\ Len(b) \in Nat
    BY <2>2
  <2>5. Len(J[n]) = Len(b) + 1 + Len(item)
    BY <1>2, <2>2, <2>4
  <2>6. \A k \in 1..Len(item) : J[n][Len(b) + 1 + k] = item[k]
    BY <1>2, <1>3, <2>2, <2>4
  <2>7. \A p \in 1..(Len(b) + 1) : J[n][p] = (b \o <<Comma>>)[p]
    BY <1>2, <1>3, <2>2, <2>4
  <2>8. /\ (b \o <<Comma>>)[Len(b) + 1] = Comma
        /\ \A p \in 1..Len(b) : (b \o <<Comma>>)[p] = b[p]
    BY <2>2
  <2>9. a \in Nat /\ Len(J[n]) = a + Len(item) /\ Len(b) = a - 1
    BY <1>3, <2>3, <2>4, <2>5
  <2>10. \A k \in 1..Len(item) : J[n][a + k] = item[k]
    BY <2>3, <2>6
  <2>11. a \in 1..(Len(b) + 1) /\ \A p \in 1..Len(b) : p \in 1..(Len(b) + 1)
    BY <2>3, <2>4
  <2>12. J[n][a] = Comma /\ \A p \in 1..Len(b) : J[n][p] = b[p]
    BY <2>3, <2>7, <2>8, <2>11
  <2> QED
    BY <1>3, <2>9, <2>10, <2>12 DEF J, a, b, item, RoundLaid
<1> QED
  BY <1>4, <1>5

\* Later rounds leave what a round has laid.
LEMMA JoinedKeeps ==
  ASSUME NEW T, Comma \in T, NEW items \in Seq(Seq(T)), NEW n \in 1..Len(items)
  PROVE  /\ Len(Joined(items)[n]) <= Len(Separated(items))
         /\ \A p \in 1..Len(Joined(items)[n]) :
              Separated(items)[p] = Joined(items)[n][p]
<1> DEFINE J == Joined(items)
           N == Len(items)
           Kept(m) == Len(J[n]) <= Len(J[m]) /\ \A p \in 1..Len(J[n]) : J[m][p] = J[n][p]
           S == {d \in Nat : n + d <= N => Kept(n + d)}
<1>1. N \in Nat /\ n \in Nat /\ Separated(items) = J[N]
  BY JoinedCount, JoinedExists
<1>0. Len(J[n]) \in Nat
  <2>1. RoundLaid(items, n)
    BY JoinedLaid
  <2> QED
    BY <2>1 DEF RoundLaid
<1>2. 0 \in S
  <2>1. n + 0 = n
    BY <1>1
  <2> QED
    BY <1>0, <2>1
<1>3. ASSUME NEW d \in Nat, d \in S PROVE d + 1 \in S
  <2> SUFFICES ASSUME n + (d + 1) <= N PROVE Kept(n + (d + 1))
    OBVIOUS
  <2> DEFINE m == n + (d + 1)
  <2>1. m \in 1..Len(items) /\ m > 1 /\ m - 1 = n + d /\ n + d <= N /\ m \in Nat
    BY <1>1
  <2>2. Kept(m - 1)
    BY <1>3, <2>1
  <2>3. RoundLaid(items, m)
    BY <2>1, JoinedLaid
  <2> DEFINE a == At(items, m)
  <2>4. /\ Len(J[m]) \in Nat /\ a \in Nat /\ Len(items[m]) \in Nat
        /\ Len(J[m]) = a + Len(items[m]) /\ Len(J[m - 1]) = a - 1
    BY <2>1, <2>3 DEF RoundLaid
  <2>5. \A p \in 1..Len(J[m - 1]) : J[m][p] = J[m - 1][p]
    BY <2>1, <2>3, Zenon DEF RoundLaid
  <2> HIDE DEF J, m, a
  <2>6. Len(J[m - 1]) \in Int /\ Len(J[m - 1]) <= Len(J[m])
    BY <2>4
  <2>7. Len(J[n]) <= Len(J[m - 1])
    BY <2>2
  <2>8. \A p \in 1..Len(J[n]) : p \in 1..Len(J[m - 1])
    BY <1>0, <2>6, <2>7
  <2>9. \A p \in 1..Len(J[n]) : J[m][p] = J[n][p]
    <3> TAKE p \in 1..Len(J[n])
    <3>1. J[m][p] = J[m - 1][p]
      BY <2>5, <2>8, Zenon
    <3>2. J[m - 1][p] = J[n][p]
      BY <2>2, Zenon
    <3> QED
      BY <3>1, <3>2, Zenon
  <2>10. Len(J[n]) <= Len(J[m])
    BY <1>0, <2>4, <2>6, <2>7
  <2> QED
    BY <2>9, <2>10 DEF m
<1>4. N - n \in Nat /\ n + (N - n) = N
  BY <1>1
<1>5. Nat \subseteq S
  <2> HIDE DEF S
  <2> QED
    BY <1>2, <1>3, NatSubset
<1>6. Kept(n + (N - n))
  <2>1. n + (N - n) <= N
    BY <1>1, <1>4
  <2>2. N - n \in S
    <3> HIDE DEF S
    <3> QED
      BY <1>4, <1>5
  <2> QED
    BY <2>1, <2>2
<1> QED
  BY <1>1, <1>4, <1>6

\* A comma, or a token of one of the first n items.
Among(items, n, token) ==
  token = Comma \/ \E i \in 1..n : \E k \in 1..Len(items[i]) : token = items[i][k]

\* Every token of a round is a comma or comes from an item laid so far.
RoundFrom(items, n) ==
  \A p \in 1..Len(Joined(items)[n]) : Among(items, n, Joined(items)[n][p])

\* That holds of every round.
LEMMA JoinedFrom ==
  ASSUME NEW T, Comma \in T, NEW items \in Seq(Seq(T)), NEW n \in 0..Len(items)
  PROVE  RoundFrom(items, n)
<1> DEFINE J == Joined(items)
           N == Len(items)
           S == {m \in Nat : m <= N => RoundFrom(items, m)}
<1>1. N \in Nat /\ J[0] = <<>>
  BY JoinedStep
<1>2. 0 \in S
  BY <1>1 DEF RoundFrom
<1>3. ASSUME NEW d \in Nat, d \in S PROVE d + 1 \in S
  <2> SUFFICES ASSUME d + 1 <= N PROVE RoundFrom(items, d + 1)
    OBVIOUS
  <2> SUFFICES ASSUME NEW p \in 1..Len(J[d + 1]) PROVE Among(items, d + 1, J[d + 1][p])
    BY DEF RoundFrom
  <2> DEFINE m == d + 1
             a == At(items, m)
  <2>1. m \in 1..Len(items) /\ m \in Nat /\ m - 1 = d /\ d <= N
    BY <1>1
  <2>2. /\ a \in Nat /\ Len(items[m]) \in Nat /\ Len(J[m]) = a + Len(items[m])
        /\ \A k \in 1..Len(items[m]) : J[m][a + k] = items[m][k]
        /\ m > 1 => /\ Len(J[m - 1]) = a - 1 /\ J[m][a] = Comma
                    /\ \A q \in 1..Len(J[m - 1]) : J[m][q] = J[m - 1][q]
    <3>1. RoundLaid(items, m)
      BY <2>1, JoinedLaid
    <3> QED
      BY <3>1 DEF RoundLaid
  <2>3. m = 1 => a = 0
    BY DEF At
  <2>4. \A q \in 1..Len(J[d]) : Among(items, d, J[d][q])
    BY <1>3, <2>1 DEF RoundFrom
  <2>5. p \in 1..(a + Len(items[m])) /\ p \in Nat
    BY <2>2
  <2> HIDE DEF J, a
  <2>6. CASE p > a
    <3>1. p - a \in 1..Len(items[m]) /\ a + (p - a) = p
      BY <2>2, <2>5, <2>6
    <3>2. J[m][p] = items[m][p - a] /\ m \in 1..m
      BY <2>1, <2>2, <3>1
    <3> QED
      BY <3>1, <3>2, Zenon DEF Among
  <2>7. CASE p = a
    BY <2>1, <2>2, <2>3, <2>5, <2>7 DEF Among
  <2>8. CASE p < a
    <3>1. m > 1 /\ p \in 1..Len(J[m - 1]) /\ J[m][p] = J[d][p] /\ p \in 1..Len(J[d])
      BY <2>1, <2>2, <2>3, <2>5, <2>8
    <3>2. \A i \in 1..d : i \in 1..m
      BY <2>1
    <3>3. Among(items, d, J[d][p])
      BY <2>4, <3>1, Zenon
    <3> QED
      BY <3>1, <3>2, <3>3, Zenon DEF Among
  <2> QED
    BY <2>2, <2>5, <2>6, <2>7, <2>8
<1>4. Nat \subseteq S
  <2> HIDE DEF S
  <2> QED
    BY <1>2, <1>3, NatSubset
<1>5. n \in Nat /\ n <= N /\ n \in S
  BY <1>1, <1>4
<1> QED
  BY <1>5

\* An item is in the text, and before it only the ones before it and commas.
ItemLaid(items, i) ==
  /\ At(items, i) \in Nat
  /\ At(items, i) + Len(items[i]) <= Len(Separated(items))
  /\ \A k \in 1..Len(items[i]) : Separated(items)[At(items, i) + k] = items[i][k]
  /\ \A p \in 1..At(items, i) : Among(items, i - 1, Separated(items)[p])

\* The text between the brackets has every item, and nothing else but commas.
LEMMA SeparatedParts ==
  ASSUME NEW T, Comma \in T, NEW items \in Seq(Seq(T))
  PROVE  /\ Separated(items) \in Seq(T)
         /\ \A p \in 1..Len(Separated(items)) : Among(items, Len(items), Separated(items)[p])
         /\ \A i \in 1..Len(items) : ItemLaid(items, i)
<1> DEFINE J == Joined(items)
           sep == Separated(items)
<1>1. Len(items) \in Nat /\ Len(items) \in 0..Len(items) /\ sep = J[Len(items)]
  BY JoinedCount, JoinedExists
<1>2. sep \in Seq(T)
  BY <1>1, JoinedStep
<1>3. \A p \in 1..Len(sep) : Among(items, Len(items), sep[p])
  <2>1. \A p \in 1..Len(J[Len(items)]) : Among(items, Len(items), J[Len(items)][p])
    <3>1. RoundFrom(items, Len(items))
      BY <1>1, JoinedFrom
    <3> QED
      BY <3>1 DEF RoundFrom
  <2> HIDE DEF J, sep
  <2> QED
    BY <1>1, <2>1, Zenon
<1>4. ASSUME NEW i \in 1..Len(items)
      PROVE  ItemLaid(items, i)
  <2> DEFINE a == At(items, i)
             w == Len(items[i])
  <2>1. /\ Len(J[i]) \in Nat /\ a \in Nat /\ Len(J[i]) = a + w
        /\ \A k \in 1..w : J[i][a + k] = items[i][k]
        /\ i > 1 => /\ Len(J[i - 1]) = a - 1 /\ J[i][a] = Comma
                    /\ \A p \in 1..Len(J[i - 1]) : J[i][p] = J[i - 1][p]
    <3>1. RoundLaid(items, i)
      BY JoinedLaid
    <3> QED
      BY <3>1 DEF RoundLaid
  <2>2. w \in Nat /\ i \in Nat /\ i - 1 \in 0..Len(items)
    <3>1. items[i] \in Seq(T)
      BY JoinedStep
    <3> QED
      BY <1>1, <3>1
  <2>3. Len(J[i]) <= Len(sep) /\ \A p \in 1..Len(J[i]) : sep[p] = J[i][p]
    BY JoinedKeeps
  <2>4. \A p \in 1..Len(J[i - 1]) : Among(items, i - 1, J[i - 1][p])
    <3>1. RoundFrom(items, i - 1)
      BY <2>2, JoinedFrom
    <3> QED
      BY <3>1 DEF RoundFrom
  <2>5. i = 1 => a = 0
    BY DEF At
  <2> HIDE DEF J, sep, a, w
  <2>6. \A k \in 1..w : sep[a + k] = items[i][k]
    <3>1. \A k \in 1..w : a + k \in 1..Len(J[i])
      BY <2>1, <2>2
    <3> QED
      BY <2>1, <2>3, <3>1
  <2>7. ASSUME NEW p \in 1..a
        PROVE  Among(items, i - 1, sep[p])
    <3>1. p \in Nat /\ i > 1 /\ p \in 1..Len(J[i]) /\ sep[p] = J[i][p]
      BY <2>1, <2>2, <2>3, <2>5, <2>7
    <3>2. CASE p = a
      BY <2>1, <3>1, <3>2 DEF Among
    <3>3. CASE p # a
      <4>1. p \in 1..Len(J[i - 1]) /\ J[i][p] = J[i - 1][p]
        BY <2>1, <2>7, <3>1, <3>3
      <4> QED
        BY <2>4, <3>1, <4>1, Zenon
    <3> QED
      BY <3>2, <3>3
  <2>8. a + w <= Len(sep)
    BY <2>1, <2>3
  <2> QED
    BY <2>1, <2>6, <2>7, <2>8 DEF a, w, sep, ItemLaid
<1> QED
  BY <1>2, <1>3, <1>4

\* Items of one width are laid at regular distances.
LEMMA SeparatedEven ==
  ASSUME NEW T, Comma \in T, NEW items \in Seq(Seq(T)), NEW w \in {1, 3},
         \A i \in 1..Len(items) : Len(items[i]) = w
  PROVE  /\ \A i \in 1..Len(items) : At(items, i) = (w + 1) * (i - 1)
         /\ Len(items) = 0 => Len(Separated(items)) = 0
         /\ Len(items) > 0 => Len(Separated(items)) = (w + 1) * Len(items) - 1
<1> DEFINE N == Len(items)
           S == {d \in Nat : d + 1 <= N => At(items, d + 1) = (w + 1) * d}
<1>1. N \in Nat
  BY JoinedCount
<1>2. 0 \in S
  BY DEF At
<1>3. ASSUME NEW d \in Nat, d \in S PROVE d + 1 \in S
  <2> SUFFICES ASSUME (d + 1) + 1 <= N
               PROVE  At(items, (d + 1) + 1) = (w + 1) * (d + 1)
    OBVIOUS
  <2> DEFINE a == At(items, d + 1)
             b == At(items, (d + 1) + 1)
             l == Len(Joined(items)[d + 1])
  <2>1. d + 1 \in 1..N /\ d + 1 <= N /\ (d + 1) + 1 # 1 /\ ((d + 1) + 1) - 1 = d + 1
    BY <1>1
  <2>2. a = (w + 1) * d
    BY <1>3, <2>1
  <2>3. l = a + w
    <3>1. RoundLaid(items, d + 1)
      BY <2>1, JoinedLaid
    <3> QED
      BY <2>1, <3>1 DEF RoundLaid
  <2>4. b = l + 1
    BY <2>1 DEF At
  <2> HIDE DEF a, b, l
  <2>5. b = (w + 1) * (d + 1)
    <3>1. CASE w = 1
      BY <2>2, <2>3, <2>4, <3>1
    <3>2. CASE w = 3
      BY <2>2, <2>3, <2>4, <3>2
    <3> QED
      BY <3>1, <3>2
  <2> QED
    BY <2>5 DEF b
<1>4. Nat \subseteq S
  <2> HIDE DEF S
  <2> QED
    BY <1>2, <1>3, NatSubset
<1>5. ASSUME NEW i \in 1..N PROVE At(items, i) = (w + 1) * (i - 1)
  <2>1. i - 1 \in Nat /\ (i - 1) + 1 = i /\ (i - 1) + 1 <= N
    BY <1>1
  <2>2. i - 1 \in S
    <3> HIDE DEF S
    <3> QED
      BY <1>4, <2>1
  <2>3. At(items, (i - 1) + 1) = (w + 1) * (i - 1)
    BY <2>1, <2>2
  <2> QED
    BY <2>1, <2>3
<1>6. N = 0 => Len(Separated(items)) = 0
  <2>1. Joined(items)[0] = <<>> /\ Separated(items) = Joined(items)[N] /\ Len(<<>>) = 0
    BY JoinedStep
  <2> QED
    BY <2>1
<1>7. N > 0 => Len(Separated(items)) = (w + 1) * N - 1
  <2> SUFFICES ASSUME N > 0 PROVE Len(Separated(items)) = (w + 1) * N - 1
    OBVIOUS
  <2>1. N \in 1..N
    BY <1>1
  <2>2. Len(Separated(items)) = At(items, N) + w
    <3>0. RoundLaid(items, N)
      BY <2>1, JoinedLaid
    <3>1. Len(Joined(items)[N]) = At(items, N) + Len(items[N])
      BY <3>0 DEF RoundLaid
    <3>2. Separated(items) = Joined(items)[N] /\ Len(items[N]) = w
      BY <1>1, <2>1, JoinedExists
    <3> QED
      BY <3>1, <3>2, Zenon
  <2>3. At(items, N) = (w + 1) * (N - 1)
    BY <1>5, <2>1
  <2> HIDE DEF N
  <2>4. CASE w = 1
    BY <1>1, <2>2, <2>3, <2>4
  <2>5. CASE w = 3
    BY <1>1, <2>2, <2>3, <2>5
  <2> QED
    BY <2>4, <2>5
<1> QED
  BY <1>5, <1>6, <1>7

\* A sequence between brackets.
LEMMA Bracketed ==
  ASSUME NEW T, NEW open \in T, NEW close \in T, NEW s \in Seq(T)
  PROVE  LET b == <<open>> \o s \o <<close>> IN
           /\ b \in Seq(T) /\ Len(s) \in Nat /\ Len(b) = Len(s) + 2
           /\ b[1] = open /\ b[Len(s) + 2] = close
           /\ \A p \in 1..Len(s) : b[p + 1] = s[p]
<1> DEFINE a == <<open>> \o s
           b == a \o <<close>>
<1>1. /\ a \in Seq(T) /\ Len(s) \in Nat /\ Len(a) = Len(s) + 1
      /\ a[1] = open /\ \A p \in 1..Len(s) : a[p + 1] = s[p]
  OBVIOUS
<1> HIDE DEF a
<1>2. /\ b \in Seq(T) /\ Len(b) = Len(a) + 1
      /\ b[Len(a) + 1] = close /\ \A p \in 1..Len(a) : b[p] = a[p]
  BY <1>1
<1> HIDE DEF b
<1>3. \A p \in 1..Len(s) : p + 1 \in 1..Len(a)
  BY <1>1
<1>4. 1 \in 1..Len(a) /\ Len(a) + 1 = Len(s) + 2
  BY <1>1
<1>5. /\ b \in Seq(T) /\ Len(s) \in Nat /\ Len(b) = Len(s) + 2
      /\ b[1] = open /\ b[Len(s) + 2] = close
      /\ \A p \in 1..Len(s) : b[p + 1] = s[p]
  BY <1>1, <1>2, <1>3, <1>4
<1> QED
  BY <1>5 DEF a, b

(***************************************************************************)
(* The values of runtime.json.                                             *)
(***************************************************************************)
LeftBrace == Sym("{")
RightBrace == Sym("}")

\* The tokens of a text whose strings are the words of W.
Tokens(W) ==
  {Str(w) : w \in W}
  \cup {Comma, Sym(":"), Sym("["), Sym("]"), LeftBrace, RightBrace, Sym("null")}

\* A sequence, as far as this text needs to know.
Counted(s) == Len(s) \in Nat /\ DOMAIN s = 1..Len(s)

\* A function on 1..n with its values in S is a sequence of n of them.
LEMMA Enumerated ==
  ASSUME NEW S, NEW n \in Nat, NEW f \in [1..n -> S]
  PROVE  f \in Seq(S) /\ Len(f) = n /\ Counted(f)
BY DEF Counted

\* A string is no symbol, and it says which word it is.
LEMMA TokenKinds ==
  /\ \A w, s : Str(w) # Sym(s) /\ IsString(Str(w)) /\ ~IsString(Sym(s))
  /\ \A w, v : (Str(w) = Str(v) <=> w = v) /\ (Sym(w) = Sym(v) <=> w = v)
  /\ \A w : Str(w).word = w /\ Sym(w).word = w
<1>1. /\ \A w : Str(w).kind = "string" /\ Str(w).word = w
      /\ \A s : Sym(s).kind = "symbol" /\ Sym(s).word = s
  BY DEF Str, Sym
<1>2. \A w, v : (w = v => Str(w) = Str(v)) /\ (w = v => Sym(w) = Sym(v))
  OBVIOUS
<1> QED
  BY <1>1, <1>2 DEF IsString

\* The braces are not mistaken for anything else.
LEMMA Braces ==
  /\ LeftBrace # RightBrace /\ \A w : Str(w) # LeftBrace /\ Str(w) # RightBrace
  /\ Comma # RightBrace /\ Sym(":") # RightBrace
<1>1. "{" # "}" /\ "," # "}" /\ ":" # "}"
  BY Zenon
<1> QED
  BY <1>1, TokenKinds, Zenon DEF LeftBrace, RightBrace, Comma

Items(members) == [i \in DOMAIN members |-> Entry(members[i][1], members[i][2])]

\* The members of an object: key, colon, value.
MemberLaid(members, i) ==
  /\ Len(members[i][2]) \in Nat
  /\ Len(Items(members)[i]) = Len(members[i][2]) + 2
  /\ Items(members)[i][1] = Str(members[i][1])
  /\ Items(members)[i][2] = Sym(":")
  /\ \A k \in 1..Len(members[i][2]) : Items(members)[i][k + 2] = members[i][2][k]

\* That is how they are written.
LEMMA Entries ==
  ASSUME NEW W, NEW members, Counted(members),
         \A i \in 1..Len(members) : members[i][1] \in W /\ members[i][2] \in Seq(Tokens(W))
  PROVE  /\ Comma \in Tokens(W)
         /\ Items(members) \in Seq(Seq(Tokens(W))) /\ Len(Items(members)) = Len(members)
         /\ \A i \in 1..Len(members) : MemberLaid(members, i)
<1> DEFINE T == Tokens(W)
<1>1. Comma \in T /\ Sym(":") \in T /\ \A w \in W : Str(w) \in T
  BY DEF Tokens
<1> HIDE DEF T
<1>2. ASSUME NEW w \in W, NEW v \in Seq(T)
      PROVE  /\ Entry(w, v) \in Seq(T)
             /\ Len(v) \in Nat /\ Len(Entry(w, v)) = Len(v) + 2
             /\ Entry(w, v)[1] = Str(w) /\ Entry(w, v)[2] = Sym(":")
             /\ \A k \in 1..Len(v) : Entry(w, v)[k + 2] = v[k]
  <2> DEFINE s == Str(w)
             m == Sym(":")
  <2>1. s \in T /\ m \in T
    BY <1>1
  <2> HIDE DEF s, m
  <2>2. /\ <<s, m>> \o v \in Seq(T)
        /\ Len(v) \in Nat /\ Len(<<s, m>> \o v) = Len(v) + 2
        /\ (<<s, m>> \o v)[1] = s /\ (<<s, m>> \o v)[2] = m
        /\ \A k \in 1..Len(v) : (<<s, m>> \o v)[k + 2] = v[k]
    BY <2>1
  <2>3. Entry(w, v) = <<s, m>> \o v
    BY DEF Entry, s, m
  <2> QED
    BY <2>2, <2>3 DEF s, m
<1>3. \A i \in 1..Len(members) : Items(members)[i] = Entry(members[i][1], members[i][2])
  BY DEF Items, Counted
<1>4. Items(members) \in [1..Len(members) -> Seq(T)]
  BY <1>2 DEF Items, Counted, T
<1>5. Items(members) \in Seq(Seq(T)) /\ Len(Items(members)) = Len(members)
  BY <1>4, Enumerated DEF Counted
<1>6. ASSUME NEW i \in 1..Len(members) PROVE MemberLaid(members, i)
  <2> DEFINE w == members[i][1]
             v == members[i][2]
             e == Items(members)[i]
  <2>1. w \in W /\ v \in Seq(T) /\ e = Entry(w, v)
    BY <1>3 DEF T
  <2> HIDE DEF w, v, e
  <2>2. /\ Len(v) \in Nat /\ Len(e) = Len(v) + 2
        /\ e[1] = Str(w) /\ e[2] = Sym(":") /\ \A k \in 1..Len(v) : e[k + 2] = v[k]
    BY <1>2, <2>1
  <2> QED
    BY <2>2 DEF w, v, e, MemberLaid
<1> QED
  BY <1>1, <1>5, <1>6 DEF T

\* The q tokens of a sequence up to its first closing bracket, its last token.
Closed(v, close, q) ==
  /\ q \in Nat /\ q > 1 /\ Len(v) = q /\ v[q] = close
  /\ \A p \in 1..(q - 1) : v[p] # close

\* A list of words: a word at every second place.
LEMMA ArrayLaid ==
  ASSUME NEW W, NEW words, Counted(words), \A i \in 1..Len(words) : words[i] \in W
  PROVE  /\ Array(words) \in Seq(Tokens(W)) /\ Array(words)[1] = Sym("[")
         /\ \A i \in 1..Len(words) : Array(words)[2 * i] = Str(words[i])
         /\ \E q : Closed(Array(words), Sym("]"), q) /\ (q - 1) \div 2 = Len(words)
<1> DEFINE T == Tokens(W)
           n == Len(words)
           items == [i \in DOMAIN words |-> One(words[i])]
           sep == Separated(items)
           V == Array(words)
           m == Len(sep)
<1>1. Comma \in T /\ Sym("[") \in T /\ Sym("]") \in T
  BY DEF Tokens
<1>2. n \in Nat /\ DOMAIN words = 1..n
  BY DEF Counted
<1>3. ASSUME NEW i \in 1..n
      PROVE  items[i] = <<Str(words[i])>> /\ Str(words[i]) \in T
  BY <1>2 DEF One, Tokens
<1> HIDE DEF T
<1>4. \A i \in 1..n : /\ items[i] \in Seq(T) /\ Len(items[i]) = 1
                      /\ items[i][1] = Str(words[i])
  <2> TAKE i \in 1..n
  <2> DEFINE e == items[i]
             s == Str(words[i])
  <2>1. e = <<s>> /\ s \in T
    BY <1>3
  <2> HIDE DEF e, s
  <2>2. e \in Seq(T) /\ Len(e) = 1 /\ e[1] = s
    BY <2>1
  <2> QED
    BY <2>2 DEF e, s
<1>5. items \in [1..n -> Seq(T)]
  BY <1>2, <1>4
<1> HIDE DEF items
<1>6. items \in Seq(Seq(T)) /\ Len(items) = n
  BY <1>2, <1>5, Enumerated
<1>7. /\ \A i \in 1..n : At(items, i) = 2 * (i - 1)
      /\ n = 0 => m = 0
      /\ n > 0 => m = 2 * n - 1
  <2>1. \A i \in 1..Len(items) : Len(items[i]) = 1
    BY <1>4, <1>6
  <2>2. /\ \A i \in 1..Len(items) : At(items, i) = (1 + 1) * (i - 1)
        /\ Len(items) = 0 => Len(Separated(items)) = 0
        /\ Len(items) > 0 => Len(Separated(items)) = (1 + 1) * Len(items) - 1
    BY <1>1, <1>6, <2>1, SeparatedEven
  <2> QED
    BY <1>2, <1>6, <2>2
<1>8. /\ sep \in Seq(T)
      /\ \A p \in 1..m : Among(items, n, sep[p])
      /\ \A i \in 1..n : /\ At(items, i) + 1 <= m /\ sep[At(items, i) + 1] = Str(words[i])
  <2>1. sep \in Seq(T) /\ \A p \in 1..m : Among(items, n, sep[p])
    BY <1>1, <1>6, SeparatedParts
  <2>2. ASSUME NEW i \in 1..n
        PROVE  At(items, i) + 1 <= m /\ sep[At(items, i) + 1] = Str(words[i])
    <3>1. /\ At(items, i) + Len(items[i]) <= m
          /\ \A k \in 1..Len(items[i]) : sep[At(items, i) + k] = items[i][k]
      <4>1. i \in 1..Len(items)
        BY <1>6
      <4>2. ItemLaid(items, i)
        BY <1>1, <1>6, <4>1, SeparatedParts
      <4> QED
        BY <4>2 DEF ItemLaid
    <3> QED
      BY <1>4, <3>1
  <2> QED
    BY <2>1, <2>2
<1>9. /\ V \in Seq(T) /\ m \in Nat /\ Len(V) = m + 2
      /\ V[1] = Sym("[") /\ V[m + 2] = Sym("]") /\ \A p \in 1..m : V[p + 1] = sep[p]
  <2> DEFINE o == Sym("[")
             c == Sym("]")
  <2>1. V = <<o>> \o sep \o <<c>>
    BY DEF Array, items
  <2>2. o \in T /\ c \in T
    BY <1>1
  <2> HIDE DEF V, o, c, sep
  <2> QED
    BY <1>8, <2>1, <2>2, Bracketed DEF o, c
<1>10. ASSUME NEW i \in 1..n PROVE V[2 * i] = Str(words[i])
  <2>1. 2 * i = (2 * (i - 1) + 1) + 1 /\ 2 * (i - 1) + 1 \in Nat /\ 2 * (i - 1) + 1 >= 1
    BY <1>2
  <2>2. At(items, i) + 1 = 2 * (i - 1) + 1 /\ 2 * (i - 1) + 1 \in 1..m
    BY <1>7, <1>8, <1>9, <2>1
  <2> HIDE DEF V, sep, m
  <2> QED
    BY <1>8, <1>9, <2>1, <2>2
<1>11. Closed(V, Sym("]"), m + 2) /\ (m + 2 - 1) \div 2 = n
  <2>1. ASSUME NEW p \in 1..(m + 1) PROVE V[p] # Sym("]")
    <3>1. CASE p = 1
      BY <1>9, <3>1, TokenKinds
    <3>2. CASE p # 1
      <4>1. p - 1 \in 1..m /\ (p - 1) + 1 = p
        BY <1>9, <3>2
      <4>2. V[p] = sep[p - 1] /\ Among(items, n, sep[p - 1])
        BY <1>8, <1>9, <4>1
      <4> HIDE DEF V, sep, m
      <4>3. V[p] = Comma \/ \E i \in 1..n : V[p] = Str(words[i])
        BY <1>4, <4>2 DEF Among
      <4> QED
        <5>1. Comma # Sym("]") /\ \A w : Str(w) # Sym("]")
          BY TokenKinds DEF Comma
        <5> QED
          BY <4>3, <5>1
    <3> QED
      BY <3>1, <3>2
  <2>2. (m + 2 - 1) \div 2 = n
    <3> HIDE DEF m, n
    <3>1. n = 0 \/ n > 0
      BY <1>2
    <3> QED
      BY <1>2, <1>7, <1>9, <3>1
  <2> HIDE DEF m, V
  <2>3. m + 2 \in Nat /\ m + 2 > 1 /\ (m + 2) - 1 = m + 1
    BY <1>9
  <2> QED
    BY <1>9, <2>1, <2>2, <2>3 DEF Closed
<1> QED
  BY <1>9, <1>10, <1>11 DEF T

Keyed(pairs) == [i \in DOMAIN pairs |-> <<pairs[i][1], One(pairs[i][2])>>]

\* A mapping of words to words: key and value at every fourth place.
PairsLaid(v, pairs) ==
  \A i \in 1..Len(pairs) : v[4 * i - 2] = Str(pairs[i][1]) /\ v[4 * i] = Str(pairs[i][2])

\* That is how it is written.
LEMMA DictLaid ==
  ASSUME NEW W, NEW pairs, Counted(pairs),
         \A i \in 1..Len(pairs) : pairs[i][1] \in W /\ pairs[i][2] \in W
  PROVE  /\ Dict(pairs) \in Seq(Tokens(W)) /\ Dict(pairs)[1] = LeftBrace
         /\ PairsLaid(Dict(pairs), pairs)
         /\ \E q : Closed(Dict(pairs), RightBrace, q) /\ (q - 1) \div 4 = Len(pairs)
<1> DEFINE T == Tokens(W)
           n == Len(pairs)
           members == Keyed(pairs)
           items == Items(members)
           sep == Separated(items)
           V == Dict(pairs)
           m == Len(sep)
<1>1. Comma \in T /\ LeftBrace \in T /\ RightBrace \in T
  BY DEF Tokens
<1>2. n \in Nat /\ DOMAIN pairs = 1..n
  BY DEF Counted
<1>3. ASSUME NEW i \in 1..n
      PROVE  /\ members[i] = <<pairs[i][1], One(pairs[i][2])>>
             /\ members[i][1] = pairs[i][1] /\ members[i][2] = <<Str(pairs[i][2])>>
             /\ Str(pairs[i][2]) \in T
  BY <1>2 DEF Keyed, One, Tokens
<1> HIDE DEF T
<1>4. ASSUME NEW i \in 1..n
      PROVE  /\ members[i][1] \in W /\ members[i][2] \in Seq(T)
             /\ Len(members[i][2]) = 1 /\ members[i][2][1] = Str(pairs[i][2])
  <2> DEFINE v == members[i][2]
             s == Str(pairs[i][2])
  <2>1. v = <<s>> /\ s \in T /\ members[i][1] \in W
    BY <1>3
  <2> HIDE DEF v, s
  <2>2. v \in Seq(T) /\ Len(v) = 1 /\ v[1] = s
    BY <2>1
  <2> QED
    BY <2>1, <2>2 DEF v, s
<1>5. Counted(members) /\ Len(members) = n
  <2>1. members \in [1..n -> {members[i] : i \in 1..n}]
    BY <1>2 DEF Keyed
  <2> HIDE DEF members
  <2> QED
    BY <1>2, <2>1, Enumerated
<1> HIDE DEF members
<1>6. /\ items \in Seq(Seq(T)) /\ Len(items) = n
      /\ \A i \in 1..n : /\ Len(items[i]) = 3
                         /\ items[i][1] = Str(pairs[i][1])
                         /\ items[i][2] = Sym(":")
                         /\ items[i][3] = Str(pairs[i][2])
  <2>1. \A i \in 1..Len(members) : members[i][1] \in W /\ members[i][2] \in Seq(Tokens(W))
    BY <1>4, <1>5 DEF T
  <2>2. items \in Seq(Seq(T)) /\ Len(items) = n
    BY <1>5, <2>1, Entries DEF T
  <2>3. ASSUME NEW i \in 1..n
        PROVE  /\ Len(items[i]) = 3
               /\ items[i][1] = Str(pairs[i][1])
               /\ items[i][2] = Sym(":")
               /\ items[i][3] = Str(pairs[i][2])
    <3>1. i \in 1..Len(members)
      BY <1>5
    <3>2. /\ Len(items[i]) = Len(members[i][2]) + 2
          /\ items[i][1] = Str(members[i][1])
          /\ items[i][2] = Sym(":")
          /\ \A k \in 1..Len(members[i][2]) : items[i][k + 2] = members[i][2][k]
      <4>1. MemberLaid(members, i)
        BY <1>5, <2>1, <3>1, Entries
      <4> QED
        BY <4>1 DEF MemberLaid
    <3>3. members[i][1] = pairs[i][1]
      BY <1>3
    <3>4. Len(members[i][2]) = 1 /\ members[i][2][1] = Str(pairs[i][2])
      BY <1>4
    <3> HIDE DEF items
    <3>5. items[i][1 + 2] = members[i][2][1]
      BY <3>2, <3>4
    <3> QED
      BY <3>2, <3>3, <3>4, <3>5
  <2> QED
    BY <2>2, <2>3
<1> HIDE DEF items
<1>7. /\ \A i \in 1..n : At(items, i) = 4 * (i - 1)
      /\ n = 0 => m = 0
      /\ n > 0 => m = 4 * n - 1
  <2>1. \A i \in 1..Len(items) : Len(items[i]) = 3
    BY <1>6
  <2>2. /\ \A i \in 1..Len(items) : At(items, i) = (3 + 1) * (i - 1)
        /\ Len(items) = 0 => Len(Separated(items)) = 0
        /\ Len(items) > 0 => Len(Separated(items)) = (3 + 1) * Len(items) - 1
    BY <1>1, <1>6, <2>1, SeparatedEven
  <2> QED
    BY <1>2, <1>6, <2>2
<1>8. /\ sep \in Seq(T)
      /\ \A p \in 1..m : Among(items, n, sep[p])
      /\ \A i \in 1..n : /\ At(items, i) + 3 <= m
                         /\ sep[At(items, i) + 1] = Str(pairs[i][1])
                         /\ sep[At(items, i) + 3] = Str(pairs[i][2])
  <2>1. sep \in Seq(T) /\ \A p \in 1..m : Among(items, n, sep[p])
    BY <1>1, <1>6, SeparatedParts
  <2>2. ASSUME NEW i \in 1..n
        PROVE  /\ At(items, i) + 3 <= m
               /\ sep[At(items, i) + 1] = Str(pairs[i][1])
               /\ sep[At(items, i) + 3] = Str(pairs[i][2])
    <3>1. /\ At(items, i) + Len(items[i]) <= m
          /\ \A k \in 1..Len(items[i]) : sep[At(items, i) + k] = items[i][k]
      <4>1. i \in 1..Len(items)
        BY <1>6
      <4>2. ItemLaid(items, i)
        BY <1>1, <1>6, <4>1, SeparatedParts
      <4> QED
        BY <4>2 DEF ItemLaid
    <3>2. 1 \in 1..Len(items[i]) /\ 3 \in 1..Len(items[i])
      BY <1>6
    <3> QED
      BY <1>6, <3>1, <3>2
  <2> QED
    BY <2>1, <2>2
<1>9. /\ V \in Seq(T) /\ m \in Nat /\ Len(V) = m + 2
      /\ V[1] = LeftBrace /\ V[m + 2] = RightBrace /\ \A p \in 1..m : V[p + 1] = sep[p]
  <2>1. V = <<LeftBrace>> \o sep \o <<RightBrace>>
    BY Zenon DEF Dict, Object, items, Items, members, Keyed, LeftBrace, RightBrace
  <2> HIDE DEF V, sep
  <2> QED
    BY <1>1, <1>8, <2>1, Bracketed
<1>10. ASSUME NEW i \in 1..n
       PROVE  V[4 * i - 2] = Str(pairs[i][1]) /\ V[4 * i] = Str(pairs[i][2])
  <2> DEFINE a == 4 * (i - 1)
  <2>1. 4 * i - 2 = (a + 1) + 1 /\ 4 * i = (a + 3) + 1 /\ a \in Nat
    BY <1>2
  <2>2. At(items, i) = a /\ a + 3 <= m
    BY <1>7, <1>8
  <2> HIDE DEF V, sep, m, a
  <2>3. a + 1 \in 1..m /\ a + 3 \in 1..m
    BY <1>9, <2>1, <2>2
  <2>4. V[(a + 1) + 1] = sep[a + 1] /\ V[(a + 3) + 1] = sep[a + 3]
    BY <1>9, <2>3
  <2> QED
    BY <1>8, <2>1, <2>2, <2>4
<1>11. Closed(V, RightBrace, m + 2) /\ (m + 2 - 1) \div 4 = n
  <2>1. ASSUME NEW p \in 1..(m + 1) PROVE V[p] # RightBrace
    <3>1. CASE p = 1
      BY <1>9, <3>1, Braces
    <3>2. CASE p # 1
      <4>1. p - 1 \in 1..m /\ (p - 1) + 1 = p
        BY <1>9, <3>2
      <4>2. V[p] = sep[p - 1] /\ Among(items, n, sep[p - 1])
        BY <1>8, <1>9, <4>1
      <4> HIDE DEF V, sep, m
      <4>3. \A i \in 1..n : \A k \in 1..Len(items[i]) :
              \/ items[i][k] = Str(pairs[i][1])
              \/ items[i][k] = Sym(":")
              \/ items[i][k] = Str(pairs[i][2])
        <5> TAKE i \in 1..n
        <5> TAKE k \in 1..Len(items[i])
        <5>1. k \in 1..3
          BY <1>6, Zenon
        <5>2. k = 1 \/ k = 2 \/ k = 3
          BY <5>1
        <5> QED
          BY <1>6, <5>2, Zenon
      <4>4. \/ V[p] = Comma \/ V[p] = Sym(":")
            \/ \E i \in 1..n : V[p] = Str(pairs[i][1]) \/ V[p] = Str(pairs[i][2])
        BY <4>2, <4>3 DEF Among
      <4> QED
        BY <4>4, Braces
    <3> QED
      BY <3>1, <3>2
  <2>2. (m + 2 - 1) \div 4 = n
    <3> HIDE DEF m, n
    <3>1. n = 0 \/ n > 0
      BY <1>2
    <3> QED
      BY <1>2, <1>7, <1>9, <3>1
  <2> HIDE DEF m, V
  <2>3. m + 2 \in Nat /\ m + 2 > 1 /\ (m + 2) - 1 = m + 1
    BY <1>9
  <2> QED
    BY <1>9, <2>1, <2>2, <2>3 DEF Closed
<1> QED
  BY <1>9, <1>10, <1>11 DEF T, PairsLaid

(***************************************************************************)
(* The mounts: a later volume takes the place of an earlier one with the   *)
(* same destination.                                                       *)
(***************************************************************************)
\* What setting a key leaves in a dict.
LEMMA PutPairs ==
  ASSUME NEW W, NEW pairs \in Seq(W \X W), NEW key \in W, NEW value \in W
  PROVE  /\ Put(pairs, key, value) \in Seq(W \X W)
         /\ \A q : q \in Pairs(Put(pairs, key, value)) <=>
                    q = <<key, value>> \/ (q \in Pairs(pairs) /\ q[1] # key)
<1> DEFINE n == Len(pairs)
           r == Put(pairs, key, value)
           new == <<key, value>>
<1>1. n \in Nat /\ DOMAIN pairs = 1..n /\ new \in W \X W /\ new[1] = key
  OBVIOUS
<1>2. \A i \in 1..n : pairs[i] \in W \X W
  OBVIOUS
<1> HIDE DEF n
<1>3. CASE \E i \in 1..n : pairs[i][1] = key
  <2>1. r = [i \in 1..n |-> IF pairs[i][1] = key THEN new ELSE pairs[i]]
    BY <1>1, <1>3 DEF Put
  <2> HIDE DEF r, new
  <2>2. r \in [1..n -> W \X W]
    BY <1>1, <1>2, <2>1
  <2>3. r \in Seq(W \X W) /\ DOMAIN r = 1..n
    BY <1>1, <2>1, <2>2, Enumerated
  <2>4. ASSUME NEW i \in 1..n
        PROVE  r[i] = IF pairs[i][1] = key THEN new ELSE pairs[i]
    BY <2>1
  <2>5. \A q : q \in Pairs(r) <=> q = new \/ (q \in Pairs(pairs) /\ q[1] # key)
    <3>1. ASSUME NEW q \in Pairs(r)
          PROVE  q = new \/ (q \in Pairs(pairs) /\ q[1] # key)
      <4>1. PICK i \in 1..n : q = r[i]
        BY <2>3 DEF Pairs
      <4> QED
        BY <1>1, <2>4, <4>1 DEF Pairs
    <3>2. ASSUME NEW q \in Pairs(pairs), q[1] # key PROVE q \in Pairs(r)
      <4>1. PICK i \in 1..n : q = pairs[i]
        BY <1>1 DEF Pairs
      <4>2. r[i] = q
        BY <2>4, <3>2, <4>1
      <4> QED
        BY <2>3, <4>2 DEF Pairs
    <3>3. new \in Pairs(r)
      <4>1. PICK i \in 1..n : pairs[i][1] = key
        BY <1>3
      <4> QED
        BY <2>3, <2>4, <4>1 DEF Pairs
    <3> QED
      BY <3>1, <3>2, <3>3
  <2> QED
    BY <2>3, <2>5 DEF r, new
<1>4. CASE ~\E i \in 1..n : pairs[i][1] = key
  <2>1. r = Append(pairs, new)
    BY <1>1, <1>4 DEF Put
  <2> HIDE DEF r, new
  <2>2. /\ r \in Seq(W \X W) /\ Len(r) = n + 1 /\ DOMAIN r = 1..(n + 1) /\ r[n + 1] = new
        /\ \A i \in 1..n : r[i] = pairs[i]
    BY <1>1, <2>1 DEF n
  <2>3. \A i : i \in 1..(n + 1) <=> i \in 1..n \/ i = n + 1
    BY <1>1
  <2>4. \A q : q \in Pairs(r) <=> q = new \/ (q \in Pairs(pairs) /\ q[1] # key)
    BY <1>1, <1>4, <2>2, <2>3 DEF Pairs
  <2> QED
    BY <2>2, <2>4 DEF r, new
<1> QED
  BY <1>3, <1>4

MountStep(volumes, f, n) ==
  IF n = 0 THEN <<>> ELSE Put(f[n - 1], volumes[n][2], volumes[n][1])

\* f is the first n rounds of the recursion in BindMounts.
Mounting(volumes, n, f) == f = [k \in 0..n |-> MountStep(volumes, f, k)]
Mounted(volumes) == CHOOSE f : Mounting(volumes, Len(volumes), f)

\* The recursion has a result for every number of volumes.
LEMMA MountedExists ==
  ASSUME NEW c, Len(c.volumes) \in Nat
  PROVE  /\ Mounting(c.volumes, Len(c.volumes), Mounted(c.volumes))
         /\ BindMounts(c) = Mounted(c.volumes)[Len(c.volumes)]
<1> DEFINE volumes == c.volumes
           S == {n \in Nat : \E f : Mounting(volumes, n, f)}
<1>1. 0 \in S
  <2> DEFINE f == [k \in 0..0 |-> <<>>]
  <2>1. Mounting(volumes, 0, f)
    BY DEF Mounting, MountStep
  <2> QED
    BY <2>1
<1>2. ASSUME NEW n \in Nat, n \in S PROVE n + 1 \in S
  <2>1. PICK f : Mounting(volumes, n, f)
    BY <1>2
  <2> DEFINE g == [k \in 0..(n + 1) |-> IF k = n + 1 THEN MountStep(volumes, f, k) ELSE f[k]]
  <2>2. \A k \in 0..(n + 1) : MountStep(volumes, g, k) = MountStep(volumes, f, k)
    <3>1. \A k \in 0..n : g[k] = f[k]
      OBVIOUS
    <3>2. \A k \in 0..(n + 1) : k # 0 => k - 1 \in 0..n
      OBVIOUS
    <3> HIDE DEF g
    <3> QED
      BY <3>1, <3>2 DEF MountStep
  <2>3. \A k \in 0..(n + 1) : k # n + 1 => f[k] = MountStep(volumes, f, k)
    BY <2>1 DEF Mounting
  <2>4. Mounting(volumes, n + 1, g)
    BY <2>2, <2>3 DEF Mounting
  <2> QED
    BY <2>4
<1>3. Len(volumes) \in S
  <2> HIDE DEF S
  <2> QED
    BY <1>1, <1>2, NatSubset
<1>4. Mounting(volumes, Len(volumes), Mounted(volumes))
  BY <1>3 DEF Mounted
<1>5. BindMounts(c) = Mounted(volumes)[Len(volumes)]
  BY DEF BindMounts, Mounted, Mounting, MountStep
<1> QED
  BY <1>4, <1>5

\* The last source of each destination among the first n volumes.
LastOf(volumes, n) ==
  {m \in 1..n : \A k \in 1..n : volumes[k][2] = volumes[m][2] => k <= m}
MountsTo(volumes, n) == {<<volumes[m][2], volumes[m][1]>> : m \in LastOf(volumes, n)}

\* One volume more.
LEMMA MountsToNext ==
  ASSUME NEW volumes, NEW n \in Nat
  PROVE  MountsTo(volumes, n + 1) =
           {q \in MountsTo(volumes, n) : q[1] # volumes[n + 1][2]}
           \cup {<<volumes[n + 1][2], volumes[n + 1][1]>>}
<1>1. /\ n + 1 \in 1..(n + 1) /\ \A k \in 1..(n + 1) : k <= n + 1
      /\ \A k : k \in 1..(n + 1) <=> k \in 1..n \/ k = n + 1
      /\ \A k \in 1..n : ~(n + 1 <= k)
  OBVIOUS
<1>2. n + 1 \in LastOf(volumes, n + 1)
  BY <1>1 DEF LastOf
<1>3. ASSUME NEW m \in 1..n
      PROVE  m \in LastOf(volumes, n + 1)
               <=> m \in LastOf(volumes, n) /\ volumes[m][2] # volumes[n + 1][2]
  BY <1>1 DEF LastOf
<1>4. ASSUME NEW q \in MountsTo(volumes, n + 1)
      PROVE  \/ q = <<volumes[n + 1][2], volumes[n + 1][1]>>
             \/ q \in MountsTo(volumes, n) /\ q[1] # volumes[n + 1][2]
  <2>1. PICK m \in LastOf(volumes, n + 1) : q = <<volumes[m][2], volumes[m][1]>>
    BY DEF MountsTo
  <2>2. m = n + 1 \/ m \in 1..n
    BY <1>1 DEF LastOf
  <2> QED
    BY <1>3, <2>1, <2>2 DEF MountsTo
<1>5. ASSUME NEW q \in MountsTo(volumes, n), q[1] # volumes[n + 1][2]
      PROVE  q \in MountsTo(volumes, n + 1)
  <2>1. PICK m \in LastOf(volumes, n) : q = <<volumes[m][2], volumes[m][1]>>
    BY DEF MountsTo
  <2>2. m \in 1..n
    BY DEF LastOf
  <2> QED
    BY <1>3, <1>5, <2>1, <2>2 DEF MountsTo
<1>6. <<volumes[n + 1][2], volumes[n + 1][1]>> \in MountsTo(volumes, n + 1)
  BY <1>2 DEF MountsTo
<1> QED
  BY <1>4, <1>5, <1>6

\* bind_mounts holds the last source of each destination, and nothing else.
LEMMA MountsWritten ==
  ASSUME NEW W, NEW c, Counted(c.volumes),
         \A i \in 1..Len(c.volumes) : c.volumes[i][1] \in W /\ c.volumes[i][2] \in W
  PROVE  BindMounts(c) \in Seq(W \X W) /\ Pairs(BindMounts(c)) = Mounts(c.volumes)
<1> DEFINE volumes == c.volumes
           N == Len(volumes)
           M == Mounted(volumes)
           S == {n \in Nat : n <= N => /\ M[n] \in Seq(W \X W)
                                       /\ Pairs(M[n]) = MountsTo(volumes, n)}
<1>1. N \in Nat /\ DOMAIN volumes = 1..N
  BY DEF Counted
<1>2. M = [n \in 0..N |-> MountStep(volumes, M, n)] /\ BindMounts(c) = M[N]
  BY <1>1, MountedExists DEF Mounting
<1>3. /\ M[0] = <<>>
      /\ \A n \in 1..N : M[n] = Put(M[n - 1], volumes[n][2], volumes[n][1])
  <2> HIDE DEF M, volumes, N
  <2>1. 0 \in 0..N /\ \A n \in 1..N : n \in 0..N /\ n # 0
    BY <1>1
  <2>2. \A n \in 0..N : M[n] = MountStep(volumes, M, n)
    BY <1>2
  <2> QED
    BY <2>1, <2>2 DEF MountStep
<1>4. \A i \in 1..N : volumes[i][1] \in W /\ volumes[i][2] \in W
  OBVIOUS
<1> HIDE DEF M, volumes, N
<1>5. 0 \in S
  <2>1. M[0] \in Seq(W \X W) /\ Pairs(M[0]) = {}
    BY <1>3 DEF Pairs
  <2>2. LastOf(volumes, 0) = {}
    BY DEF LastOf
  <2>3. MountsTo(volumes, 0) = {}
    BY <2>2 DEF MountsTo
  <2> QED
    BY <2>1, <2>3
<1>6. ASSUME NEW n \in Nat, n \in S PROVE n + 1 \in S
  <2> SUFFICES ASSUME n + 1 <= N
               PROVE  /\ M[n + 1] \in Seq(W \X W)
                      /\ Pairs(M[n + 1]) = MountsTo(volumes, n + 1)
    OBVIOUS
  <2> DEFINE d == volumes[n + 1][2]
             s == volumes[n + 1][1]
  <2>1. n + 1 \in 1..N /\ (n + 1) - 1 = n /\ n <= N
    BY <1>1
  <2>2. M[n] \in Seq(W \X W) /\ Pairs(M[n]) = MountsTo(volumes, n)
    BY <1>6, <2>1
  <2>3. M[n + 1] = Put(M[n], d, s)
    BY <1>3, <2>1
  <2>4. d \in W /\ s \in W
    BY <1>4, <2>1
  <2>5. MountsTo(volumes, n + 1) = {q \in MountsTo(volumes, n) : q[1] # d} \cup {<<d, s>>}
    BY MountsToNext
  <2> HIDE DEF d, s
  <2>6. /\ Put(M[n], d, s) \in Seq(W \X W)
        /\ Pairs(Put(M[n], d, s)) = {q \in Pairs(M[n]) : q[1] # d} \cup {<<d, s>>}
    <3> DEFINE old == M[n]
    <3>1. old \in Seq(W \X W)
      BY <2>2
    <3> HIDE DEF old
    <3>2. Put(old, d, s) \in Seq(W \X W)
      BY <2>4, <3>1, PutPairs
    <3>3. \A q : q \in Pairs(Put(old, d, s)) <=>
                  q = <<d, s>> \/ (q \in Pairs(old) /\ q[1] # d)
      BY <2>4, <3>1, PutPairs
    <3> QED
      BY <3>2, <3>3 DEF old
  <2> QED
    BY <2>2, <2>3, <2>5, <2>6
<1>7. Nat \subseteq S
  <2> HIDE DEF S
  <2> QED
    BY <1>5, <1>6, NatSubset
<1>8. M[N] \in Seq(W \X W) /\ Pairs(M[N]) = MountsTo(volumes, N)
  BY <1>1, <1>7
<1>9. MountsTo(volumes, N) = Mounts(volumes)
  BY <1>1 DEF MountsTo, LastOf, Mounts
<1> QED
  BY <1>2, <1>8, <1>9 DEF volumes

(***************************************************************************)
(* The text of a configuration, and what a search finds in it.             *)
(***************************************************************************)
KeyName ==
  <<"name", "rootfs", "hostname", "workdir", "command", "env", "ports", "bind_mounts",
    "restart", "cgroup_path", "memory", "cpu">>

\* The words of the values of runtime.json.
Words(c) == WordsOf(c) \cup {"HOST:CONTAINER", "CGROUP", "always"}

ConfigShape(c) ==
  /\ c.command \in Seq(WordsOf(c))
  /\ c.env \in Seq(WordsOf(c) \X WordsOf(c))
  /\ c.volumes \in Seq(WordsOf(c) \X WordsOf(c))
  /\ Counted(c.ports)
  /\ c.restart \in {"always", Empty}

\* No key is written twice.
LEMMA KeysDiffer ==
  /\ Len(KeyName) = 12 /\ DOMAIN KeyName = 1..12
  /\ \A i \in 1..12 : \A j \in 1..(i - 1) : KeyName[i] # KeyName[j]
BY DEF KeyName

\* A single word is the value of most members.
LEMMA SingleWords ==
  ASSUME NEW W, NEW w
  PROVE  /\ w \in W => One(w) \in Seq(Tokens(W)) /\ OrNull(w) \in Seq(Tokens(W))
         /\ w = Empty => OrNull(w) \in Seq(Tokens(W))
<1> DEFINE s == Str(w)
           z == Sym("null")
<1>1. z \in Tokens(W) /\ (w \in W => s \in Tokens(W))
  BY DEF Tokens
<1> HIDE DEF s, z
<1>2. <<z>> \in Seq(Tokens(W)) /\ (w \in W => <<s>> \in Seq(Tokens(W)))
  BY <1>1
<1>3. One(w) = <<s>> /\ (OrNull(w) = <<s>> \/ OrNull(w) = <<z>>)
      /\ (w = Empty => OrNull(w) = <<z>>)
  BY DEF One, OrNull, s, z
<1> QED
  BY <1>2, <1>3

\* The members have these keys, and values whose strings are the words.
LEMMA MembersShape ==
  ASSUME NEW c, ConfigShape(c)
  PROVE  /\ Counted(Members(c)) /\ Len(Members(c)) = 12
         /\ \A i \in 1..12 : /\ Members(c)[i][1] = KeyName[i]
                             /\ Members(c)[i][2] \in Seq(Tokens(Words(c)))
<1> DEFINE W == Words(c)
           T == Seq(Tokens(W))
           M == Members(c)
<1>1. /\ c.name \in W /\ "ROOTFS" \in W /\ resolved_hostname(c) \in W /\ c.workdir \in W
      /\ "CGROUP" \in W /\ c.memory \in W /\ c.cpu \in W /\ "HOST:CONTAINER" \in W
      /\ c.restart \in W \/ c.restart = Empty
  BY DEF Words, WordsOf, resolved_hostname, ConfigShape
<1> DEFINE command == c.command
           env == c.env
           volumes == c.volumes
<1>0. command \in Seq(W) /\ env \in Seq(W \X W) /\ volumes \in Seq(W \X W)
  <2> DEFINE X == WordsOf(c)
  <2>1. X \subseteq W
    BY DEF Words
  <2>2. command \in Seq(X) /\ env \in Seq(X \X X) /\ volumes \in Seq(X \X X)
    BY DEF ConfigShape
  <2> HIDE DEF X, W, command, env, volumes
  <2> QED
    BY <2>1, <2>2
<1> HIDE DEF W, command, env, volumes
<1>2. /\ One(c.name) \in T /\ One("ROOTFS") \in T /\ One(resolved_hostname(c)) \in T
      /\ One(c.workdir) \in T /\ One("CGROUP") \in T
      /\ OrNull(c.restart) \in T /\ OrNull(c.memory) \in T /\ OrNull(c.cpu) \in T
  BY <1>1, SingleWords
<1>3. Array(command) \in T
  <2>1. Counted(command) /\ \A i \in 1..Len(command) : command[i] \in W
    BY <1>0 DEF Counted
  <2> QED
    BY <2>1, ArrayLaid
<1>4. ASSUME NEW pairs \in Seq(W \X W) PROVE Dict(pairs) \in T
  <2>1. Counted(pairs) /\ \A i \in 1..Len(pairs) : pairs[i][1] \in W /\ pairs[i][2] \in W
    BY DEF Counted
  <2> QED
    BY <2>1, DictLaid
<1>5. Dict(env) \in T
  BY <1>0, <1>4
<1>6. Dict(BindMounts(c)) \in T
  <2>1. Counted(volumes) /\ \A i \in 1..Len(volumes) : volumes[i][1] \in W /\ volumes[i][2] \in W
    BY <1>0 DEF Counted
  <2>2. BindMounts(c) \in Seq(W \X W)
    BY <2>1, MountsWritten DEF volumes
  <2> QED
    BY <1>4, <2>2
<1> DEFINE ports == [i \in DOMAIN c.ports |-> "HOST:CONTAINER"]
<1>7. Array(ports) \in T
  <2>1. ports \in [1..Len(c.ports) -> W] /\ Len(c.ports) \in Nat
    BY <1>1 DEF ConfigShape, Counted
  <2> HIDE DEF ports
  <2>2. ports \in Seq(W) /\ Counted(ports)
    BY <2>1, Enumerated
  <2>3. \A i \in 1..Len(ports) : ports[i] \in W
    BY <2>2
  <2> QED
    BY <2>2, <2>3, ArrayLaid
<1> HIDE DEF T
<1>8. M = << <<"name", One(c.name)>>, <<"rootfs", One("ROOTFS")>>,
             <<"hostname", One(resolved_hostname(c))>>, <<"workdir", One(c.workdir)>>,
             <<"command", Array(command)>>, <<"env", Dict(env)>>,
             <<"ports", Array(ports)>>,
             <<"bind_mounts", Dict(BindMounts(c))>>, <<"restart", OrNull(c.restart)>>,
             <<"cgroup_path", One("CGROUP")>>,
             <<"memory", OrNull(c.memory)>>, <<"cpu", OrNull(c.cpu)>> >>
  BY DEF Members, command, env
<1> HIDE DEF M, ports
<1>9. Len(M) = 12 /\ DOMAIN M = 1..12
  BY <1>8
<1>10. \A i \in 1..12 : M[i][1] = KeyName[i]
  BY <1>8 DEF KeyName
<1>11. \A i \in 1..12 : M[i][2] \in T
  BY <1>2, <1>3, <1>5, <1>6, <1>7, <1>8
<1> QED
  BY <1>9, <1>10, <1>11 DEF M, T, W, Counted

\* The value v is in the text at s, behind something that is no string.
Placed(v, s) ==
  /\ s \in Nat /\ s > 1 /\ ~IsString(text[s - 1])
  /\ Len(text) \in Nat /\ s + Len(v) - 1 <= Len(text)
  /\ \A k \in 1..Len(v) : text[s + k - 1] = v[k]

\* Member i has its key at p, then its colon and its value, and before it there
\* are the brace, commas and the members before it.
MemberAt(c, i, p) ==
  /\ text[p] = Str(KeyName[i]) /\ text[p + 1] = Sym(":") /\ p + 1 <= Len(text)
  /\ Placed(Members(c)[i][2], p + 2)
  /\ \A m \in 1..(p - 1) :
       \/ text[m] \in Tokens(Words(c))
       \/ \E j \in 1..(i - 1) : text[m] = Str(KeyName[j])

\* Every member is in the text.
LEMMA MemberPlaced ==
  ASSUME NEW c, ConfigShape(c), text = Json(c), NEW i \in 1..12
  PROVE  \E p \in 1..Len(text) : MemberAt(c, i, p)
<1> DEFINE M == Members(c)
           U == Words(c)
           W == U \cup {KeyName[j] : j \in 1..12}
           items == Items(M)
           sep == Separated(items)
           a == At(items, i)
           v == M[i][2]
<1>1. /\ Counted(M) /\ Len(M) = 12
      /\ \A j \in 1..12 : M[j][1] = KeyName[j] /\ M[j][2] \in Seq(Tokens(U))
  BY MembersShape
<1>2. Tokens(U) \subseteq Tokens(W)
  BY DEF Tokens
<1> DEFINE T == Tokens(W)
<1>3. \A j \in 1..Len(M) : M[j][1] \in W /\ M[j][2] \in Seq(T)
  <2> HIDE DEF M, U, T
  <2>1. \A q \in Seq(Tokens(U)) : q \in Seq(T)
    BY <1>2 DEF T
  <2> QED
    BY <1>1, <2>1
<1> HIDE DEF M, W
<1>4. /\ Comma \in T /\ items \in Seq(Seq(T)) /\ Len(items) = 12
  BY <1>1, <1>3, Entries
<1>5. ASSUME NEW j \in 1..12
      PROVE  /\ Len(M[j][2]) \in Nat
             /\ Len(items[j]) = Len(M[j][2]) + 2
             /\ items[j][1] = Str(KeyName[j]) /\ items[j][2] = Sym(":")
             /\ \A k \in 1..Len(M[j][2]) : items[j][k + 2] = M[j][2][k]
  <2>1. j \in 1..Len(M) /\ M[j][1] = KeyName[j]
    BY <1>1
  <2>2. \A l \in 1..Len(M) : M[l][1] \in W /\ M[l][2] \in Seq(Tokens(W))
    BY <1>3
  <2>3. MemberLaid(M, j)
    BY <1>1, <2>1, <2>2, Entries
  <2> QED
    BY <2>1, <2>3 DEF MemberLaid
<1>6. LeftBrace \in T /\ RightBrace \in T
  BY DEF Tokens
<1> HIDE DEF T, items
<1>7. /\ sep \in Seq(T) /\ a \in Nat /\ a + Len(items[i]) <= Len(sep)
      /\ \A k \in 1..Len(items[i]) : sep[a + k] = items[i][k]
      /\ \A m \in 1..a : Among(items, i - 1, sep[m])
  <2>1. i \in 1..Len(items)
    BY <1>4
  <2>2. sep \in Seq(T) /\ ItemLaid(items, i)
    BY <1>4, <2>1, SeparatedParts
  <2> QED
    BY <2>2 DEF ItemLaid
<1>9. /\ Len(text) = Len(sep) + 2 /\ Len(sep) \in Nat
      /\ text[1] = LeftBrace /\ \A m \in 1..Len(sep) : text[m + 1] = sep[m]
  <2>1. text = <<LeftBrace>> \o sep \o <<RightBrace>>
    BY Zenon DEF Json, Object, items, Items, M, LeftBrace, RightBrace
  <2> HIDE DEF sep
  <2> QED
    BY <1>6, <1>7, <2>1, Bracketed
<1> HIDE DEF sep, a
<1>10. Len(v) \in Nat /\ Len(items[i]) = Len(v) + 2
  BY <1>5
<1> DEFINE p == a + 2
<1>11. /\ p \in 1..Len(text) /\ p + 1 <= Len(text)
       /\ text[p] = Str(KeyName[i]) /\ text[p + 1] = Sym(":")
  <2>1. a + 1 \in 1..Len(sep) /\ a + 2 \in 1..Len(sep)
    BY <1>7, <1>9, <1>10
  <2>2. 1 \in 1..Len(items[i]) /\ 2 \in 1..Len(items[i])
    BY <1>10
  <2>3. sep[a + 1] = Str(KeyName[i]) /\ sep[a + 2] = Sym(":")
    BY <1>5, <1>7, <2>2
  <2>4. text[(a + 1) + 1] = sep[a + 1] /\ text[(a + 2) + 1] = sep[a + 2]
    BY <1>9, <2>1
  <2>5. (a + 1) + 1 = p /\ (a + 2) + 1 = p + 1
    BY <1>7
  <2>6. p \in 1..Len(text) /\ p + 1 <= Len(text)
    BY <1>7, <1>9, <2>1
  <2> HIDE DEF p
  <2> QED
    BY <2>3, <2>4, <2>5, <2>6
<1>12. Placed(v, p + 2)
  <2>1. p + 2 \in Nat /\ p + 2 > 1 /\ (p + 2) - 1 = p + 1
    BY <1>7
  <2>2. ~IsString(text[(p + 2) - 1])
    <3> HIDE DEF p
    <3> QED
      BY <1>11, <2>1, TokenKinds
  <2>3. (p + 2) + Len(v) - 1 <= Len(text) /\ Len(text) \in Nat
    <3> HIDE DEF v
    <3>1. Len(text) = Len(sep) + 2 /\ Len(sep) \in Nat /\ a \in Nat
          /\ a + Len(items[i]) <= Len(sep) /\ Len(v) \in Nat /\ Len(items[i]) = Len(v) + 2
      BY <1>7, <1>9, <1>10
    <3> QED
      BY <3>1
  <2>4. ASSUME NEW k \in 1..Len(v) PROVE text[(p + 2) + k - 1] = v[k]
    <3>1. k + 2 \in 1..Len(items[i]) /\ a + (k + 2) \in 1..Len(sep)
      <4>1. /\ a \in Nat /\ Len(sep) \in Nat /\ a + Len(items[i]) <= Len(sep)
            /\ Len(v) \in Nat /\ Len(items[i]) = Len(v) + 2
        BY <1>7, <1>9, <1>10
      <4> HIDE DEF v
      <4> QED
        BY <4>1
    <3>2. items[i][k + 2] = v[k]
      BY <1>5
    <3>3. sep[a + (k + 2)] = v[k]
      BY <1>7, <3>1, <3>2
    <3>4. text[(a + (k + 2)) + 1] = v[k]
      BY <1>9, <3>1, <3>3
    <3>5. (a + (k + 2)) + 1 = (p + 2) + k - 1
      BY <1>7, <1>10
    <3> QED
      BY <3>4, <3>5
  <2> HIDE DEF p, v
  <2> QED
    BY <2>1, <2>2, <2>3, <2>4 DEF Placed
<1>13. ASSUME NEW m \in 1..(p - 1)
       PROVE  \/ text[m] \in Tokens(U)
              \/ \E j \in 1..(i - 1) : text[m] = Str(KeyName[j])
  <2>1. CASE m = 1
    BY <1>9, <2>1 DEF Tokens
  <2>2. CASE m # 1
    <3>1. m - 1 \in 1..a /\ m - 1 \in 1..Len(sep) /\ (m - 1) + 1 = m
      <4> HIDE DEF v
      <4>1. a \in Nat /\ Len(sep) \in Nat /\ a + 2 <= Len(sep)
        BY <1>7, <1>9, <1>10
      <4> QED
        BY <2>2, <4>1
    <3>2. text[m] = sep[m - 1] /\ Among(items, i - 1, sep[m - 1])
      BY <1>7, <1>9, <3>1
    <3>3. CASE text[m] = Comma
      BY <3>3 DEF Tokens
    <3>4. CASE \E j \in 1..(i - 1) : \E k \in 1..Len(items[j]) : text[m] = items[j][k]
      <4>1. PICK j \in 1..(i - 1) : \E k \in 1..Len(items[j]) : text[m] = items[j][k]
        BY <3>4
      <4>2. PICK k \in 1..Len(items[j]) : text[m] = items[j][k]
        BY <4>1
      <4>3. j \in 1..12
        OBVIOUS
      <4> DEFINE u == M[j][2]
      <4>4. /\ Len(u) \in Nat /\ Len(items[j]) = Len(u) + 2 /\ u \in Seq(Tokens(U))
            /\ items[j][1] = Str(KeyName[j]) /\ items[j][2] = Sym(":")
            /\ \A l \in 1..Len(u) : items[j][l + 2] = u[l]
        BY <1>1, <1>5, <4>3
      <4> HIDE DEF u
      <4>5. CASE k = 1
        BY <4>2, <4>4, <4>5
      <4>6. CASE k = 2
        <5>1. Sym(":") \in Tokens(U)
          BY DEF Tokens
        <5> QED
          BY <4>2, <4>4, <4>6, <5>1
      <4>7. CASE k > 2
        <5>1. k - 2 \in 1..Len(u) /\ (k - 2) + 2 = k
          BY <4>4, <4>7
        <5>2. text[m] = u[k - 2]
          BY <4>2, <4>4, <5>1
        <5>3. u[k - 2] \in Tokens(U)
          BY <4>4, <5>1
        <5> QED
          BY <5>2, <5>3
      <4> QED
        BY <4>4, <4>5, <4>6, <4>7
    <3> QED
      BY <3>2, <3>3, <3>4 DEF Among
  <2> QED
    BY <2>1, <2>2
<1> HIDE DEF p
<1> QED
  BY <1>11, <1>12, <1>13 DEF M, MemberAt

\* A search ends at the first place that satisfies it.
LEMMA KeyFirst ==
  ASSUME NEW key, Len(text) \in Nat, NEW p \in 1..Len(text), text[p] = Str(key),
         \A m \in 1..(p - 1) : text[m] # Str(key)
  PROVE  Find(1, LAMBDA token : token = Str(key)) = p
<1> DEFINE n == Find(1, LAMBDA token : token = Str(key))
<1>1. /\ n \in 1..Len(text) /\ text[n] = Str(key)
      /\ \A m \in 1..(n - 1) : text[m] # Str(key)
  BY DEF Find
<1> HIDE DEF n
<1>2. ~(n < p) /\ ~(p < n)
  BY <1>1
<1>3. n = p
  BY <1>1, <1>2
<1> QED
  BY <1>3 DEF n

LEMMA ColonFirst ==
  ASSUME Len(text) \in Nat, NEW s \in 1..Len(text), HasColon(text[s])
  PROVE  Find(s, HasColon) = s
<1> DEFINE n == Find(s, HasColon)
<1>1. s \in s..Len(text) /\ \A m \in s..(s - 1) : ~HasColon(text[m])
  OBVIOUS
<1>2. n \in s..Len(text) /\ \A m \in s..(n - 1) : ~HasColon(text[m])
  BY <1>1 DEF Find
<1> HIDE DEF n
<1>3. ~(s < n)
  BY <1>2
<1>4. n = s
  BY <1>2, <1>3
<1> QED
  BY <1>4 DEF n

\* The elements of a value of q tokens are counted up to its own bracket.
LEMMA CloseFirst ==
  ASSUME NEW close, NEW width, NEW v, NEW s, NEW q, Placed(v, s), Closed(v, Sym(close), q)
  PROVE  Elements(s, close, width) = (q - 1) \div width
<1> DEFINE n == Find(s, LAMBDA token : token = Sym(close))
           e == s + q - 1
<1>1. /\ s \in Nat /\ s > 1 /\ q \in Nat /\ q > 1 /\ Len(text) \in Nat
      /\ s + q - 1 <= Len(text) /\ v[q] = Sym(close)
      /\ \A p \in 1..(q - 1) : v[p] # Sym(close)
      /\ \A k \in 1..q : text[s + k - 1] = v[k]
  BY DEF Placed, Closed
<1>2. e \in s..Len(text) /\ text[e] = Sym(close)
  BY <1>1
<1>3. ASSUME NEW m \in s..(e - 1) PROVE text[m] # Sym(close)
  <2>1. m - s + 1 \in 1..(q - 1) /\ s + (m - s + 1) - 1 = m /\ m - s + 1 \in 1..q
    BY <1>1
  <2> QED
    BY <1>1, <2>1
<1>4. /\ n \in s..Len(text) /\ text[n] = Sym(close)
      /\ \A m \in s..(n - 1) : text[m] # Sym(close)
  BY <1>2, <1>3 DEF Find
<1>5. Elements(s, close, width) = (n - s) \div width
  BY DEF Elements
<1> HIDE DEF n, e
<1>6. ~(n < e) /\ ~(e < n)
  BY <1>2, <1>3, <1>4
<1>7. n = e
  BY <1>2, <1>4, <1>6
<1>8. n - s = q - 1
  BY <1>1, <1>7 DEF e
<1> QED
  BY <1>5, <1>8

\* A search for a key of the reader ends at the value written for it.
LEMMA ValueFound ==
  ASSUME NEW c, ConfigShape(c), text = Json(c), NEW i \in 1..12, KeyName[i] \notin Words(c)
  PROVE  Placed(Members(c)[i][2], valueStart(KeyName[i]))
<1> DEFINE key == KeyName[i]
<1> PICK p \in 1..Len(text) : MemberAt(c, i, p)
  BY MemberPlaced
<1>1. /\ text[p] = Str(key) /\ text[p + 1] = Sym(":") /\ p + 1 <= Len(text)
      /\ Placed(Members(c)[i][2], p + 2)
      /\ \A m \in 1..(p - 1) :
           \/ text[m] \in Tokens(Words(c))
           \/ \E j \in 1..(i - 1) : text[m] = Str(KeyName[j])
  BY DEF MemberAt
<1>2. Len(text) \in Nat /\ p \in Nat
  BY <1>1 DEF Placed
<1>3. ASSUME NEW m \in 1..(p - 1) PROVE text[m] # Str(key)
  <2>1. CASE text[m] \in Tokens(Words(c))
    <3>1. \A w : Str(w) \in Tokens(Words(c)) => w \in Words(c)
      <4>1. \A w : /\ Str(w) # Comma /\ Str(w) # Sym(":") /\ Str(w) # Sym("[")
                   /\ Str(w) # Sym("]") /\ Str(w) # Sym("null")
        BY TokenKinds DEF Comma
      <4>2. \A w, u : Str(w) = Str(u) => w = u
        BY TokenKinds
      <4> QED
        BY <4>1, <4>2, Braces DEF Tokens
    <3> QED
      BY <2>1, <3>1
  <2>2. CASE \E j \in 1..(i - 1) : text[m] = Str(KeyName[j])
    <3>1. PICK j \in 1..(i - 1) : text[m] = Str(KeyName[j])
      BY <2>2
    <3>2. KeyName[j] # key
      BY <3>1, KeysDiffer
    <3>3. \A w, u : Str(w) = Str(u) => w = u
      BY TokenKinds
    <3> QED
      BY <3>1, <3>2, <3>3, Zenon
  <2> QED
    BY <1>1, <2>1, <2>2
<1>4. Find(1, LAMBDA token : token = Str(key)) = p
  BY <1>1, <1>2, <1>3, KeyFirst
<1>5. HasColon(text[p + 1])
  <2>1. ~IsString(Sym(":")) /\ Sym(":").word = ":"
    BY TokenKinds
  <2> QED
    BY <1>1, <2>1, Zenon DEF HasColon
<1>6. Find(p + 1, HasColon) = p + 1
  <2>1. p + 1 \in 1..Len(text)
    BY <1>1, <1>2
  <2> QED
    BY <1>2, <1>5, <2>1, ColonFirst, Zenon
<1>7. valueStart(key) = p + 2
  <2>1. valueStart(key) = (p + 1) + 1
    BY <1>4, <1>6 DEF valueStart
  <2> QED
    BY <1>2, <2>1
<1> QED
  BY <1>1, <1>7

(***************************************************************************)
(* Each reader returns what was written.                                   *)
(***************************************************************************)
\* A reader starts at the first token of the value, not inside a string.
LEMMA FirstToken ==
  ASSUME NEW v, NEW s, Placed(v, s), Len(v) \in Nat, Len(v) > 0
  PROVE  TokenAt(s) = v[1]
<1>1. 1 \in 1..Len(v) /\ s + 1 - 1 = s
  BY DEF Placed
<1>2. ~Inside(s) /\ text[s] = v[1]
  BY <1>1 DEF Placed, Inside
<1> QED
  BY <1>2 DEF TokenAt

\* A string that is not garbled is read as it is.
LEMMA WordRead ==
  ASSUME NEW key, NEW w, w \notin Garbled, Placed(One(w), valueStart(key))
  PROVE  stringValue(key) = Value(w)
<1> DEFINE s == Str(w)
           v == One(w)
           pos == valueStart(key)
<1>1. v = <<s>>
  BY DEF One
<1>2. s # Sym("null") /\ IsString(s) /\ s.word = w
  BY TokenKinds
<1> HIDE DEF s, v, pos
<1>3. Len(v) \in Nat /\ Len(v) > 0 /\ v[1] = s
  BY <1>1
<1>4. TokenAt(pos) = s
  BY <1>3, FirstToken DEF v, pos
<1>5. parseString(s) = Value(w)
  BY <1>2 DEF parseString, Unescaped
<1>6. stringValue(key) = IF TokenAt(pos) = Sym("null") THEN Value(Empty)
                         ELSE parseString(TokenAt(pos))
  BY Zenon DEF stringValue, pos
<1> QED
  BY <1>2, <1>4, <1>5, <1>6

\* A value that is not there is written as null and read as no value.
LEMMA NullRead ==
  ASSUME NEW key, NEW w, w \notin Garbled, Placed(OrNull(w), valueStart(key))
  PROVE  stringValue(key) = Value(w)
<1>1. CASE w # Empty
  BY <1>1, WordRead DEF OrNull
<1>2. CASE w = Empty
  <2> DEFINE s == Sym("null")
             v == OrNull(w)
             pos == valueStart(key)
  <2>1. v = <<s>>
    BY <1>2 DEF OrNull
  <2> HIDE DEF s, v, pos
  <2>2. Len(v) \in Nat /\ Len(v) > 0 /\ v[1] = s
    BY <2>1
  <2>3. TokenAt(pos) = s
    BY <2>2, FirstToken DEF v, pos
  <2>4. stringValue(key) = IF TokenAt(pos) = s THEN Value(Empty)
                           ELSE parseString(TokenAt(pos))
    BY Zenon DEF stringValue, pos, s
  <2> QED
    BY <1>2, <2>3, <2>4
<1> QED
  BY <1>1, <1>2

\* A list is read element by element.
LEMMA ArrayRead ==
  ASSUME NEW W, NEW key, NEW words \in Seq(W), W \cap Garbled = {},
         Placed(Array(words), valueStart(key))
  PROVE  stringArray(key) = Value(words)
<1> DEFINE v == Array(words)
           pos == valueStart(key)
           n == Len(words)
<1>1. Counted(words) /\ n \in Nat /\ \A i \in 1..n : words[i] \in W
  BY DEF Counted
<1>2. /\ v[1] = Sym("[") /\ \A i \in 1..n : v[2 * i] = Str(words[i])
      /\ v \in Seq(Tokens(W))
  BY <1>1, ArrayLaid
<1>3. PICK q : Closed(v, Sym("]"), q) /\ (q - 1) \div 2 = n
  BY <1>1, ArrayLaid
<1>4. q \in Nat /\ q > 1 /\ Len(v) = q
  BY <1>3 DEF Closed
<1>5. Elements(pos, "]", 2) = n
  BY <1>3, CloseFirst
<1>6. TokenAt(pos) = Sym("[")
  BY <1>2, <1>4, FirstToken
<1>7. ASSUME NEW i \in 1..n PROVE StringAt(pos + 2 * i - 1) = words[i]
  <2>1. pos \in Nat /\ \A k \in 1..Len(v) : text[pos + k - 1] = v[k]
    BY DEF Placed
  <2>2. 2 * i \in 1..Len(v)
    <3> HIDE DEF v, pos, n
    <3>1. 2 * i <= q - 1 /\ 2 * i \in Nat /\ 2 * i >= 1
      BY <1>1, <1>3, <1>4
    <3> QED
      BY <1>4, <3>1
  <2>3. text[pos + 2 * i - 1] = Str(words[i])
    <3> HIDE DEF v, pos
    <3> QED
      BY <1>2, <2>1, <2>2
  <2>4. words[i] \notin Garbled
    BY <1>1
  <2>5. Str(words[i]).word = words[i]
    BY TokenKinds
  <2> HIDE DEF pos
  <2> QED
    BY <2>3, <2>4, <2>5 DEF StringAt, Unescaped
<1>8. stringArray(key) = Value([i \in 1..n |-> StringAt(pos + 2 * i - 1)])
  BY <1>5, <1>6 DEF stringArray
<1>9. [i \in 1..n |-> StringAt(pos + 2 * i - 1)] = words
  <2>1. words = [i \in 1..n |-> words[i]]
    OBVIOUS
  <2> HIDE DEF pos
  <2> QED
    BY <1>7, <2>1
<1> QED
  BY <1>8, <1>9

\* A mapping is read pair by pair.
LEMMA MapRead ==
  ASSUME NEW W, NEW key, NEW pairs \in Seq(W \X W), W \cap Garbled = {},
         Placed(Dict(pairs), valueStart(key))
  PROVE  stringMap(key) = Value(Pairs(pairs))
<1> DEFINE v == Dict(pairs)
           pos == valueStart(key)
           n == Len(pairs)
           Found == {<<StringAt(pos + 4 * i - 3), StringAt(pos + 4 * i - 1)>> : i \in 1..n}
<1>1. /\ Counted(pairs) /\ n \in Nat /\ DOMAIN pairs = 1..n
      /\ \A i \in 1..n : pairs[i][1] \in W /\ pairs[i][2] \in W
                         /\ pairs[i] = <<pairs[i][1], pairs[i][2]>>
  BY DEF Counted
<1>2. /\ v[1] = LeftBrace /\ \A i \in 1..n : /\ v[4 * i - 2] = Str(pairs[i][1])
                                              /\ v[4 * i] = Str(pairs[i][2])
      /\ v \in Seq(Tokens(W))
  <2>1. v[1] = LeftBrace /\ v \in Seq(Tokens(W)) /\ PairsLaid(v, pairs)
    BY <1>1, DictLaid
  <2> QED
    BY <2>1 DEF PairsLaid
<1>3. PICK q : Closed(v, RightBrace, q) /\ (q - 1) \div 4 = n
  BY <1>1, DictLaid
<1>4. q \in Nat /\ q > 1 /\ Len(v) = q
  BY <1>3 DEF Closed
<1>5. Elements(pos, "}", 4) = n
  <2>1. Closed(v, Sym("}"), q)
    BY <1>3, Zenon DEF RightBrace
  <2>2. Elements(pos, "}", 4) = (q - 1) \div 4
    BY <2>1, CloseFirst, Zenon
  <2> QED
    BY <1>3, <2>2
<1>6. TokenAt(pos) = LeftBrace
  BY <1>2, <1>4, FirstToken
<1>7. ASSUME NEW i \in 1..n
      PROVE  /\ StringAt(pos + 4 * i - 3) = pairs[i][1]
             /\ StringAt(pos + 4 * i - 1) = pairs[i][2]
  <2>1. pos \in Nat /\ \A k \in 1..Len(v) : text[pos + k - 1] = v[k]
    BY DEF Placed
  <2>2. 4 * i \in 1..Len(v) /\ 4 * i - 2 \in 1..Len(v)
    <3> HIDE DEF v, pos, n
    <3>1. 4 * i <= q - 1 /\ 4 * i \in Nat /\ 4 * i >= 4
      BY <1>1, <1>3, <1>4
    <3> QED
      BY <1>4, <3>1
  <2>3. text[pos + 4 * i - 1] = Str(pairs[i][2]) /\ text[pos + 4 * i - 3] = Str(pairs[i][1])
    <3> HIDE DEF v, pos
    <3>1. pos + (4 * i - 2) - 1 = pos + 4 * i - 3
      BY <2>1
    <3> QED
      BY <1>2, <2>1, <2>2, <3>1
  <2>4. pairs[i][1] \notin Garbled /\ pairs[i][2] \notin Garbled
    BY <1>1
  <2>5. \A w : Str(w).word = w
    BY TokenKinds
  <2> HIDE DEF pos
  <2> QED
    BY <2>3, <2>4, <2>5 DEF StringAt, Unescaped
<1>8. stringMap(key) = Value(Found)
  <2>1. TokenAt(pos) = Sym("{")
    BY <1>6, Zenon DEF LeftBrace
  <2>2. stringMap(key) = Value({<<StringAt(pos + 4 * i - 3), StringAt(pos + 4 * i - 1)>> :
                                 i \in 1..Elements(pos, "}", 4)})
    BY <2>1, Zenon DEF stringMap
  <2> QED
    BY <1>5, <2>2, Zenon
<1>9. Found = Pairs(pairs)
  <2>1. \A i \in 1..n : <<StringAt(pos + 4 * i - 3), StringAt(pos + 4 * i - 1)>> = pairs[i]
    <3> HIDE DEF pos
    <3> QED
      BY <1>1, <1>7
  <2>2. Found = {pairs[i] : i \in 1..n}
    BY <2>1, Zenon
  <2> QED
    BY <1>1, <2>2 DEF Pairs
<1> QED
  BY <1>8, <1>9

(***************************************************************************)
(* From the Axisfile to what axis-runtime runs.                            *)
(***************************************************************************)
\* What a configuration that was parsed is made of.
LEMMA ParsedShape ==
  ASSUME PInv, override \in Overrides, phase \notin {"parse", "rejected"}
  PROVE  /\ ConfigShape(config)
         /\ \A i \in DOMAIN config.volumes : isSafeContainerPath(config.volumes[i][2])
<1> DEFINE W == WordsOf(config)
           command == config.command
           env == config.env
           volumes == config.volumes
<1>1. /\ Reading /\ FileOK /\ EnvRead /\ ~CauseToReject /\ CommandDeclared
      /\ \A n \in DOMAIN file : Accepted(file[n])
  BY DEF PInv, Reading, Finished, CauseToReject
<1>2. /\ \A i \in DOMAIN command : command[i] \in W
      /\ \A i \in DOMAIN env : env[i][1] \in W /\ env[i][2] \in W
      /\ \A i \in DOMAIN volumes : volumes[i][1] \in W /\ volumes[i][2] \in W
  BY DEF WordsOf, Pairs
<1> HIDE DEF W, command, env, volumes
<1>3. command \in Seq(W)
  <2>1. command \in Seq({command[i] : i \in DOMAIN command})
    <3>1. CASE override # <<>>
      BY <1>1, <3>1, OverridesAssumption DEF CommandDeclared, command
    <3>2. CASE override = <<>>
      <4>1. PICK n \in Lines("CMD") : file[n].value = command
        BY <1>1, <3>2 DEF CommandDeclared, Said, command
      <4>2. n \in DOMAIN file /\ file \in Files /\ file[n].instruction = "CMD"
        BY <1>1, <4>1 DEF Lines, FileOK
      <4> DEFINE v == file[n].value
      <4>3. v \in Seq({v[i] : i \in DOMAIN v})
        BY <4>2, FilesAssumption, Zenon
      <4> QED
        BY <4>1, <4>3, Zenon
    <3> QED
      BY <3>1, <3>2
  <2> QED
    BY <1>2, <2>1
<1>4. env \in Seq(W \X W)
  <2>1. env \in Seq(Variables)
    BY <1>1 DEF EnvRead, env
  <2>2. \A v \in Variables : v = <<v[1], v[2]>>
    <3> TAKE v \in Variables
    <3>1. PICK n \in Lines("ENV") : v = file[n].value
      BY DEF Variables
    <3>2. n \in DOMAIN file /\ file \in Files /\ file[n].instruction = "ENV"
      BY <1>1, <3>1 DEF Lines, FileOK
    <3>3. v # <<>>
      BY <1>1, <3>1, <3>2, AcceptedLines
    <3> QED
      BY <3>1, <3>2, <3>3, FilesAssumption
  <2>3. Len(env) \in Nat /\ DOMAIN env = 1..Len(env) /\ \A i \in 1..Len(env) : env[i] \in Variables
    BY <2>1
  <2>4. env \in [1..Len(env) -> W \X W]
    <3>1. env = [i \in 1..Len(env) |-> env[i]]
      BY <2>1
    <3>2. \A i \in 1..Len(env) : env[i] \in W \X W
      BY <1>2, <2>2, <2>3
    <3> QED
      BY <3>1, <3>2
  <2> QED
    BY <2>3, <2>4, Enumerated
<1>5. /\ volumes \in Seq(W \X W)
      /\ \A i \in DOMAIN volumes : isSafeContainerPath(volumes[i][2])
  <2>1. ListField["VOLUME"] = "volumes" /\ "VOLUME" \in Lists
    BY DEF ListField, Lists
  <2>2. ListRead("VOLUME")
    BY <1>1, <2>1 DEF Reading
  <2>3. volumes \in Seq(Values("VOLUME"))
    BY <2>1, <2>2 DEF ListRead, volumes
  <2>4. ASSUME NEW v \in Values("VOLUME")
        PROVE  v = <<v[1], v[2]>> /\ isSafeContainerPath(v[2])
    <3>1. PICK n \in Lines("VOLUME") : v = file[n].value
      BY DEF Values, ListValue
    <3>2. n \in DOMAIN file /\ file \in Files /\ file[n].instruction = "VOLUME"
      BY <1>1, <3>1 DEF Lines, FileOK
    <3>3. _parse_volume(v)
      BY <1>1, <3>1, <3>2, FieldsApart DEF Accepted
    <3>4. v # <<>> /\ v[2] \in Absolute \ Outside
      BY <3>3 DEF _parse_volume
    <3> QED
      BY <3>1, <3>2, <3>4, FilesAssumption DEF isSafeContainerPath
  <2>5. /\ Len(volumes) \in Nat /\ DOMAIN volumes = 1..Len(volumes)
        /\ \A i \in 1..Len(volumes) : volumes[i] \in Values("VOLUME")
    BY <2>3
  <2>6. volumes \in [1..Len(volumes) -> W \X W]
    <3>1. volumes = [i \in 1..Len(volumes) |-> volumes[i]]
      BY <2>3
    <3>2. \A i \in 1..Len(volumes) : volumes[i] \in W \X W
      BY <1>2, <2>4, <2>5
    <3> QED
      BY <3>1, <3>2
  <2> QED
    BY <2>4, <2>5, <2>6, Enumerated
<1>6. Counted(config.ports)
  <2>1. ListField["PORT"] = "ports" /\ "PORT" \in Lists
    BY DEF ListField, Lists
  <2>2. config.ports \in Seq(Values("PORT"))
    BY <1>1, <2>1 DEF Reading, ListRead
  <2> QED
    BY <2>2 DEF Counted
<1>7. config.restart \in {"always", Empty}
  <2>1. "RESTART" \in Scalars \ {"CMD"} /\ Field["RESTART"] = "restart"
    BY DEF Scalars, Field
  <2>2. ScalarRead("RESTART")
    BY <1>1, <2>1 DEF Reading
  <2>3. CASE Read("RESTART") = {}
    BY <2>1, <2>2, <2>3 DEF ScalarRead, Defaults
  <2>4. CASE Read("RESTART") # {}
    <3>1. PICK n \in Read("RESTART") : file[n].value = config.restart
      BY <2>1, <2>2, <2>4 DEF ScalarRead
    <3>2. Accepted(file[n]) /\ file[n].instruction = "RESTART"
      BY <1>1, <3>1 DEF Read, Before
    <3> QED
      BY <3>1, <3>2, FieldsApart DEF Accepted
  <2> QED
    BY <2>3, <2>4
<1> QED
  BY <1>3, <1>4, <1>5, <1>6, <1>7 DEF ConfigShape, W, command, env, volumes

\* No word a user did not choose is a key of the reader.
LEMMA OtherWords ==
  ASSUME NEW c, WordsOf(c) \cap Keys = {}, NEW i \in (1..12) \ {7, 9}
  PROVE  KeyName[i] \notin Words(c)
<1>1. KeyName[i] \in Keys
  BY DEF KeyName, Keys
<1>2. "HOST:CONTAINER" \notin Keys /\ "CGROUP" \notin Keys /\ "always" \notin Keys
  BY DEF Keys
<1> QED
  BY <1>1, <1>2 DEF Words

\* The reader gets the fields of a configuration whose words it can read.
LEMMA ReaderGets ==
  ASSUME NEW c, ConfigShape(c), text = Json(c), WordsOf(c) \cap (Keys \cup Garbled) = {}
  PROVE  loadRuntimeConfig =
           [name |-> Value(c.name), rootfs |-> Value("ROOTFS"),
            hostname |-> Value(resolved_hostname(c)), workdir |-> Value(c.workdir),
            command |-> Value(c.command), env |-> Value(Pairs(c.env)),
            bindMounts |-> Value(Mounts(c.volumes)), cgroupPath |-> Value("CGROUP"),
            memory |-> Value(c.memory), cpu |-> Value(c.cpu)]
<1> DEFINE W == WordsOf(c)
           M == Members(c)
<1>1. \A i \in (1..12) \ {7, 9} : Placed(M[i][2], valueStart(KeyName[i]))
  BY OtherWords, ValueFound
<1>2. /\ KeyName[1] = "name" /\ KeyName[2] = "rootfs" /\ KeyName[3] = "hostname"
      /\ KeyName[4] = "workdir" /\ KeyName[5] = "command" /\ KeyName[6] = "env"
      /\ KeyName[8] = "bind_mounts" /\ KeyName[10] = "cgroup_path"
      /\ KeyName[11] = "memory" /\ KeyName[12] = "cpu"
  BY DEF KeyName
<1>3. /\ M[1][2] = One(c.name) /\ M[2][2] = One("ROOTFS")
      /\ M[3][2] = One(resolved_hostname(c)) /\ M[4][2] = One(c.workdir)
      /\ M[5][2] = Array(c.command) /\ M[6][2] = Dict(c.env)
      /\ M[8][2] = Dict(BindMounts(c)) /\ M[10][2] = One("CGROUP")
      /\ M[11][2] = OrNull(c.memory) /\ M[12][2] = OrNull(c.cpu)
  BY DEF Members
<1>4. W \cap Garbled = {} /\ "CGROUP" \notin Garbled
  BY CgroupAssumption
<1>5. /\ c.name \in W /\ "ROOTFS" \in W /\ resolved_hostname(c) \in W /\ c.workdir \in W
      /\ c.memory \in W /\ c.cpu \in W
  BY DEF WordsOf, resolved_hostname
<1>6. c.command \in Seq(W) /\ c.env \in Seq(W \X W) /\ c.volumes \in Seq(W \X W)
  BY DEF ConfigShape
<1> HIDE DEF W, M
<1>7. BindMounts(c) \in Seq(W \X W) /\ Pairs(BindMounts(c)) = Mounts(c.volumes)
  <2>1. Counted(c.volumes)
        /\ \A i \in 1..Len(c.volumes) : c.volumes[i][1] \in W /\ c.volumes[i][2] \in W
    <3> DEFINE volumes == c.volumes
    <3>1. volumes \in Seq(W \X W)
      BY <1>6
    <3> HIDE DEF volumes
    <3>2. Counted(volumes)
          /\ \A i \in 1..Len(volumes) : volumes[i][1] \in W /\ volumes[i][2] \in W
      BY <3>1 DEF Counted
    <3> QED
      BY <3>2 DEF volumes
  <2> QED
    BY <2>1, MountsWritten
<1>8. ASSUME NEW i \in (1..12) \ {7, 9}, NEW w \in W \cup {"CGROUP"}
      PROVE  /\ M[i][2] = One(w) => stringValue(KeyName[i]) = Value(w)
             /\ M[i][2] = OrNull(w) => stringValue(KeyName[i]) = Value(w)
  <2>1. w \notin Garbled
    BY <1>4
  <2>2. Placed(M[i][2], valueStart(KeyName[i]))
    BY <1>1
  <2>3. M[i][2] = One(w) => stringValue(KeyName[i]) = Value(w)
    <3> SUFFICES ASSUME M[i][2] = One(w) PROVE stringValue(KeyName[i]) = Value(w)
      OBVIOUS
    <3>1. Placed(One(w), valueStart(KeyName[i]))
      BY <2>2, Zenon
    <3> QED
      BY <2>1, <3>1, WordRead, Zenon
  <2>4. M[i][2] = OrNull(w) => stringValue(KeyName[i]) = Value(w)
    <3> SUFFICES ASSUME M[i][2] = OrNull(w) PROVE stringValue(KeyName[i]) = Value(w)
      OBVIOUS
    <3>1. Placed(OrNull(w), valueStart(KeyName[i]))
      BY <2>2, Zenon
    <3> QED
      BY <2>1, <3>1, NullRead, Zenon
  <2> QED
    BY <2>3, <2>4
<1>9. /\ stringValue("name") = Value(c.name) /\ stringValue("rootfs") = Value("ROOTFS")
      /\ stringValue("hostname") = Value(resolved_hostname(c))
      /\ stringValue("workdir") = Value(c.workdir)
      /\ stringValue("cgroup_path") = Value("CGROUP")
      /\ stringValue("memory") = Value(c.memory) /\ stringValue("cpu") = Value(c.cpu)
  BY <1>2, <1>3, <1>5, <1>8
<1>10. stringArray("command") = Value(c.command)
  <2>1. Placed(Array(c.command), valueStart("command"))
    BY <1>1, <1>2, <1>3
  <2> QED
    BY <1>4, <1>6, <2>1, ArrayRead
<1>11. stringMap("env") = Value(Pairs(c.env))
  <2>1. Placed(Dict(c.env), valueStart("env"))
    BY <1>1, <1>2, <1>3
  <2> QED
    BY <1>4, <1>6, <2>1, MapRead
<1>12. stringMap("bind_mounts") = Value(Mounts(c.volumes))
  <2>1. Placed(Dict(BindMounts(c)), valueStart("bind_mounts"))
    BY <1>1, <1>2, <1>3
  <2>2. stringMap("bind_mounts") = Value(Pairs(BindMounts(c)))
    BY <1>4, <1>7, <2>1, MapRead
  <2> QED
    BY <1>7, <2>2
<1> QED
  BY <1>9, <1>10, <1>11, <1>12 DEF loadRuntimeConfig

\* So it finds all of them, and every mount is one it accepts.
LEMMA LoadGetsConfig ==
  ASSUME PInv, override \in Overrides, text = Json(config), LoadRuntimeConfig
  PROVE  RuntimeGetsConfig'
<1>1. config' = config /\ phase \notin {"parse", "rejected"} /\ loaded' = loadRuntimeConfig
  BY DEF LoadRuntimeConfig
<1>2. SUFFICES ASSUME WordsOf(config) \cap (Keys \cup Garbled) = {}
      PROVE  /\ phase' = "loaded"
             /\ \A f \in DOMAIN loaded' : loaded'[f].value = Expected(config)[f]
             /\ \A m \in loaded'.bindMounts.value : isSafeContainerPath(m[1])
  BY <1>1 DEF RuntimeGetsConfig
<1>3. /\ ConfigShape(config)
      /\ \A i \in DOMAIN config.volumes : isSafeContainerPath(config.volumes[i][2])
  BY <1>1, ParsedShape
<1>4. loaded' =
        [name |-> Value(config.name), rootfs |-> Value("ROOTFS"),
         hostname |-> Value(resolved_hostname(config)), workdir |-> Value(config.workdir),
         command |-> Value(config.command), env |-> Value(Pairs(config.env)),
         bindMounts |-> Value(Mounts(config.volumes)), cgroupPath |-> Value("CGROUP"),
         memory |-> Value(config.memory), cpu |-> Value(config.cpu)]
  BY <1>1, <1>2, <1>3, ReaderGets
<1>5. \A v : Value(v).ok = TRUE /\ Value(v).value = v
  BY DEF Value
<1>6. \A f \in DOMAIN loaded' : loaded'[f].ok = TRUE
  BY <1>4, <1>5
<1>7. phase' = "loaded"
  BY <1>6 DEF LoadRuntimeConfig
<1>8. \A f \in DOMAIN loaded' : loaded'[f].value = Expected(config)[f]
  BY <1>4, <1>5 DEF Expected
<1>9. \A m \in loaded'.bindMounts.value : isSafeContainerPath(m[1])
  <2>1. loaded'.bindMounts.value = Mounts(config.volumes)
    BY <1>4, <1>5
  <2> QED
    BY <1>3, <2>1 DEF Mounts
<1> QED
  BY <1>7, <1>8, <1>9

RInv ==
  /\ PInv /\ override \in Overrides
  /\ phase = "written" => text = Json(config)
  /\ RuntimeGetsConfig

\* THEOREM 4.  axis-runtime reads back exactly the configuration the Axisfile
\* gives, for Axisfiles, commands, environments and mounts of any length, as
\* long as no word of it is a key of runtime.json or has characters the reader
\* does not decode; a later volume takes the place of an earlier one with the
\* same destination, and setupBindMounts accepts every mount.
THEOREM RuntimeReadsConfig == Spec => []RuntimeGetsConfig
<1>1. Init => RInv
  BY InitPInv DEF Init, ParseInit, RInv, RuntimeGetsConfig
<1>2. ASSUME RInv, PInv', [Next]_vars PROVE RInv'
  <2>1. CASE Parse /\ UNCHANGED <<text, loaded>>
    BY <1>2, <2>1 DEF Parse, ParseLine, ParseEnd, RInv, RuntimeGetsConfig
  <2>2. CASE WriteRuntimeConfig
    BY <1>2, <2>2 DEF WriteRuntimeConfig, RInv, RuntimeGetsConfig
  <2>3. CASE LoadRuntimeConfig
    <3>1. RuntimeGetsConfig'
      BY <1>2, <2>3, LoadGetsConfig DEF RInv, LoadRuntimeConfig
    <3>2. phase' # "written" /\ UNCHANGED override
      BY <2>3 DEF LoadRuntimeConfig
    <3> QED
      BY <1>2, <3>1, <3>2 DEF RInv
  <2>4. CASE UNCHANGED vars
    BY <1>2, <2>4 DEF vars, parseVars, RInv, RuntimeGetsConfig
  <2> QED
    BY <1>2, <2>1, <2>2, <2>3, <2>4 DEF Next
<1>3. RInv => RuntimeGetsConfig
  BY DEF RInv
<1> QED
  BY <1>1, <1>2, <1>3, ParsingInductive, PTL DEF Spec

=============================================================================
