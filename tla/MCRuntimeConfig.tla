-------------------------- MODULE MCRuntimeConfig ----------------------------
(***************************************************************************)
(* The Axisfiles that TLC checks: a line of each kind, well-formed and     *)
(* not, in every order, alone and after a complete file.                   *)
(***************************************************************************)
EXTENDS RuntimeConfig

Line(i, v) == [instruction |-> i, value |-> v]

From == Line("FROM", "alpine")
Cmd == Line("CMD", <<"sh", "-c">>)

Good ==
  {From, Cmd, Line("CMD", <<"serve", "memory">>), Line("CMD", <<"env", "a:b">>),
   Line("NAME", "web"), Line("NAME", "cpu"), Line("HOSTNAME", "web"), Line("WORKDIR", "/srv"),
   Line("MEMORY", "64M"), Line("MEMORY", "1G"), Line("CPU", "max"),
   Line("RESTART", "always"), Line("ENV", <<"A", "1">>), Line("ENV", <<"A", "">>),
   Line("ENV", <<"B", "x:y">>), Line("ENV", <<"memory", "2G">>), Line("ENV", <<"A", "e'">>),
   Line("COPY", <<"src", "/app">>), Line("VOLUME", <<"data", "/data">>),
   Line("VOLUME", <<"other", "/data">>), Line("VOLUME", <<"nodir", "/data">>),
   Line("EXPOSE", 80), Line("PORT", [ports |-> <<80>>, protocol |-> "tcp"]),
   Line("PORT", [ports |-> <<8080, 65535>>, protocol |-> "tcp"])}

Bad ==
  {Line("FROM", ""), Line("RUN", ""), Line("COPY", <<"src">>), Line("CMD", <<>>),
   Line("ENV", <<>>), Line("ENV", <<"", "1">>), Line("RESTART", "on-failure"),
   Line("VOLUME", <<>>), Line("VOLUME", <<"data", "data">>), Line("VOLUME", <<"data", "/..">>),
   Line("EXPOSE", 0), Line("EXPOSE", 65536),
   Line("PORT", [ports |-> <<0>>, protocol |-> "tcp"]),
   Line("PORT", [ports |-> <<80>>, protocol |-> "udp"]),
   Line("PORT", [ports |-> <<1, 2, 3>>, protocol |-> "tcp"])}

Short(lines, n) == UNION {[1..m -> lines] : m \in 0..n}

MCFiles ==
  Short(Good \cup Bad, 2) \cup {<<From, Cmd>> \o f : f \in Short(Good, 2)}
  \cup {<<l, From, m>> : l \in Good, m \in Bad}

MCOverrides == {<<>>, <<<<>>>>, <<<<"sh">>>>}
=============================================================================
