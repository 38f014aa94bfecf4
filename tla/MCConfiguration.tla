--------------------------- MODULE MCConfiguration ---------------------------
(* Configuration with command lines, files and environments in which every *)
(* source gives a value, and in which the values contradict each other.    *)
EXTENDS Configuration, TLC

Flags ==
  {<<"mode", "bridge">>, <<"mode", "vlan">>, <<"subnet", "other">>, <<"gateway", "other">>,
   <<"container", "other">>, <<"fileSize", 5>>, <<"fileSize", -1>>, <<"unknown", "">>,
   <<"interactive", TRUE>>, <<"interactive", FALSE>>, <<"i", TRUE>>, <<"i", FALSE>>,
   <<"whitelist", <<"LANG", "">>>>, <<"whitelist", <<"LANG", "LANG">>>>}

MCArguments ==
  UNION {[1..n -> Flags] : n \in 0..2} \cup
  {<<<<"mode", "bridge">>, <<"subnet", "other">>, <<"gateway", "other">>, <<"container", "other">>>>}

MCCommands == {<<>>, <<"sh">>, <<"sh", "latin1">>}

MCHosts ==
  {<<>>,
   <<<<"LANG", "C">>, <<"TERM", "xterm">>, <<"HOME", "root">>>>,
   <<<<"LANG", "latin1">>, <<"TERM", "a b">>>>}

With(f, g) == f @@ g
Cmd == [command |-> <<"prog">>]
Base == [command |-> <<"prog">>, whitelist |-> <<"LANG", "TERM">>, fileSize |-> 7,
         interactive |-> TRUE]

MCFiles ==
  {Cmd, [fileSize |-> 7], Base,
   With([mode |-> "bridge", subnet |-> "other"], Base),
   With([mode |-> "bridge", subnet |-> "other", gateway |-> "other", container |-> "other"], Base),
   With([env |-> <<<<"TERM", "vt100">>, <<"LANG", "de">>>>], Base),
   With([env |-> <<<<"LANG", "de">>, <<"LANG", "fr">>>>], Base),
   With([env |-> <<<<"1X", "de">>>>], Base),
   With([others |-> FALSE], Cmd)}
  \cup {With([rootfs |-> p, readOnly |-> FALSE], Cmd) : p \in {"", "absolute", "relative", "dotdot"}}
  \cup {With([remote |-> [total |-> t, file |-> f], readOnly |-> ro, rootfs |-> p], Cmd) :
          t \in {0, 1, 4, 15, 16}, f \in {0, 2, 4, 16}, ro \in BOOLEAN, p \in {"", "absolute"}}
  \cup {With([remote |-> [total |-> -2, file |-> 0]], Cmd)}

\* All command lines over the files that contradict them, and all files under
\* the command lines that set nothing or little.
FewArguments == {<<>>, <<<<"i", TRUE>>>>, <<<<"whitelist", <<"LANG", "">>>>>>}
FewFiles == {f \in MCFiles : "remote" \notin DOMAIN f}

MCInputs ==
  (MCArguments \X (FewFiles \cup {NoFile})) \cup (FewArguments \X (MCFiles \cup {NoFile}))
=============================================================================
