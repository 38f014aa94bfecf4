---------------------------- MODULE Configuration ----------------------------
(***************************************************************************)
(* The way of a configuration: the command line is parsed a first time to  *)
(* find the file (args.go), the file is read over the defaults and         *)
(* validated (config/config_loader.go, config/config.go), the command line *)
(* is parsed again over the result; the parent adds to the environment,    *)
(* provisions the root (parent/parent.go), sends the snapshot              *)
(* (internal/ipc/ipc.go), and the child validates it once more.            *)
(*                                                                         *)
(* A configuration is a record.  Fields that no step but Validate looks at *)
(* (system calls, capabilities, resource limits, bind mounts, DNS, working *)
(* directory) are one field, others, that is valid or not; MountIsolation, *)
(* Confinement and ResourceLimits have their contents.  Strings are model  *)
(* values, of which some are not UTF-8.                                    *)
(***************************************************************************)
EXTENDS Integers, Sequences, SequencesExt, FiniteSetsExt

CONSTANTS
  Inputs,        \* pairs of a command line, a sequence of <<flag, value>>, and
                 \* what the YAML file sets, a record of some of the fields, or NoFile
  Commands,      \* commands after the flags, <<>> for none
  Hosts,         \* environments of the caller: sequences of <<key, value>>
  BadNames,      \* environment keys that environmentName does not match
  NotUTF8,       \* strings that are not UTF-8
  TerminalNames, \* values that terminalNamePattern matches
  UnitBytes, MaxWord,         \* one MiB; the largest int64
  DefaultTotal, DefaultFile   \* defaultRemoteExtractedSizeMB, defaultRemoteFileSizeMB

NoFile == [rootfs |-> "no file"]
NoRemote == [total |-> -1, file |-> -1]
Dumb == "dumb"
Replacement == "replaced"

ASSUME UnitsAssumption ==
  /\ UnitBytes \in Nat \ {0} /\ {MaxWord, DefaultTotal, DefaultFile} \subseteq Nat
  /\ DefaultFile <= DefaultTotal /\ DefaultTotal <= MaxWord \div UnitBytes

\* Strings, those that the program itself puts into an environment by name.
Text == STRING \cup {"", "TERM", "PATH", "bin", Dumb}
Entries == Text \X Text

\* What package flag and the YAML decoder let through: a flag and a field have
\* values of their type.
ASSUME InputsAssumption ==
  \A in \in Inputs :
    LET flags == in[1]
        fields == in[2]
    IN  /\ flags \in Seq(Range(flags))
        /\ \A i \in DOMAIN flags :
             /\ flags[i][1] \in {"interactive", "i"} => flags[i][2] \in BOOLEAN
             /\ flags[i][1] = "fileSize" => flags[i][2] \in Int
        /\ "interactive" \in DOMAIN fields => fields.interactive \in BOOLEAN
        /\ "fileSize" \in DOMAIN fields => fields.fileSize \in Int
        /\ "remote" \in DOMAIN fields => fields.remote \in [total : Int, file : Int]
        /\ "env" \in DOMAIN fields => fields.env \in Seq(Entries)
        /\ "command" \in DOMAIN fields => fields.command \in Seq(Text)

ASSUME HostAssumption == Hosts \subseteq Seq(Entries) /\ Commands \subseteq Seq(Text)

\* TERM matches environmentName, and the empty string is UTF-8.
ASSUME NamesAssumption == "TERM" \notin BadNames /\ "" \notin NotUTF8

VARIABLES
  argv,      \* the flags, in order
  args,      \* the arguments after them
  file,      \* the file --config names, or NoFile
  hostEnv,   \* the caller's environment
  stage,     \* what comes next
  cfg,       \* the configuration so far
  limits,    \* what remoteRootfsLimits returned
  message    \* the snapshot in the pipe

inputs == <<argv, args, file, hostEnv>>
configVars == <<inputs, stage, cfg, limits, message>>

DefaultConfig ==
  [mode |-> "none", subnet |-> "default", gateway |-> "default", container |-> "default",
   whitelist |-> <<>>, fileSize |-> 100, interactive |-> FALSE,
   command |-> <<>>, env |-> <<<<"PATH", "bin">>>>, readOnly |-> TRUE,
   rootfs |-> "", remote |-> NoRemote, others |-> TRUE]

ConfigInit ==
  /\ \E in \in Inputs : argv = in[1] /\ file = in[2]
  /\ args \in Commands
  /\ hostEnv \in Hosts
  /\ stage = "discover" /\ cfg = DefaultConfig /\ limits = NoRemote /\ message = DefaultConfig

-----------------------------------------------------------------------------
(* Validate.                                                               *)

\* BridgeConfig.Validate, of addresses of which some belong together
ValidBridge(c) == c.subnet # "bad" /\ c.gateway = c.subnet /\ c.container = c.subnet

\* What the two sizes of a remote root are when they are not set.
Total(r) == IF r.total = 0 THEN DefaultTotal ELSE r.total
File(r) == IF r.file = 0 THEN DefaultFile ELSE r.file

\* validateRemoteLimits
ValidRemoteLimits(r) ==
  /\ r.total >= 0 /\ r.file >= 0
  /\ {Total(r), File(r)} \subseteq 0..(MaxWord \div UnitBytes)
  /\ File(r) <= Total(r)

\* validateEnvironment, given the keys
ValidKeys(keys) == IsInjective(keys) /\ \A i \in DOMAIN keys : keys[i] \notin BadNames

KeysOf(entries) == [i \in DOMAIN entries |-> entries[i][1]]

Validate(c) ==
  /\ c.mode \in {"none", "host", "bridge"} /\ (c.mode = "bridge" => ValidBridge(c))
  /\ c.command # <<>> /\ c.others /\ c.fileSize >= 0
  /\ c.rootfs \in {"", "absolute"} /\ (c.rootfs # "" => c.remote = NoRemote)
  /\ c.remote # NoRemote => c.readOnly /\ ValidRemoteLimits(c.remote)
  /\ c.rootfs = "" => c.readOnly
  /\ ValidKeys(KeysOf(c.env)) /\ ValidKeys(c.whitelist)

-----------------------------------------------------------------------------
(* args.go and config_loader.go.                                           *)

\* registerFlags: the variable each flag sets; two flags share one.
Variable == [f \in {"mode", "subnet", "gateway", "container", "whitelist", "fileSize",
                    "interactive", "i"} |-> IF f = "i" THEN "interactive" ELSE f]

\* parseCLI: the values after the flags were set in order, and the flags seen.
\* A flag that is not registered, or whose value does not parse, is an error.
ParseError(flags) == \E i \in DOMAIN flags : flags[i][1] \notin DOMAIN Variable
Values(flags, defaults) ==
  FoldLeft(LAMBDA v, f : [v EXCEPT ![Variable[f[1]]] = f[2]], defaults, flags)
Seen(flags) == {flags[i][1] : i \in DOMAIN flags}

\* splitCSV
SplitCSV(parts) == SelectSeq(parts, LAMBDA p : p # "")

Refuse == stage' = "refused" /\ UNCHANGED <<inputs, cfg, limits, message>>

\* The first pass looks for --config only.
Discover ==
  /\ stage = "discover"
  /\ IF ParseError(argv) THEN Refuse
     ELSE /\ stage' = IF file = NoFile THEN "override" ELSE "load"
          /\ UNCHANGED <<inputs, cfg, limits, message>>

\* resolveConfigPaths: a relative path is joined to the directory of the file,
\* which also removes its dots.
ResolveConfigPaths(c) == IF c.rootfs = "relative" THEN [c EXCEPT !.rootfs = "absolute"] ELSE c

\* Decoding over the defaults.
Decoded == [f \in DOMAIN cfg |-> IF f \in DOMAIN file THEN file[f] ELSE cfg[f]]

\* LoadConfig; a file that cannot be read or parsed is refused.
LoadConfig ==
  /\ stage = "load"
  /\ \/ Refuse
     \/ LET c == ResolveConfigPaths(Decoded) IN
        IF Validate(c)
        THEN stage' = "override" /\ cfg' = c /\ UNCHANGED <<inputs, limits, message>>
        ELSE Refuse

\* The second pass has the file's values as defaults; flags seen are applied.
Overridden ==
  LET v == Values(argv, cfg)
      variables == {Variable[f] : f \in Seen(argv)}
  IN  [f \in DOMAIN cfg |->
         IF f \notin variables THEN cfg[f]
         ELSE IF f = "whitelist" THEN SplitCSV(v[f]) ELSE v[f]]

\* The command of the command line goes where the file gave none.
ParseArgs ==
  /\ stage = "override"
  /\ LET c == IF args = <<>> THEN Overridden ELSE [Overridden EXCEPT !.command = args] IN
     IF (args # <<>> /\ cfg.command # <<>>) \/ ~Validate(c) THEN Refuse
     ELSE stage' = "parent" /\ cfg' = c /\ UNCHANGED <<inputs, limits, message>>

-----------------------------------------------------------------------------
(* The parent.                                                             *)

\* Mutant: what is whitelisted is copied, whether env_vars has it or not.
EnvironmentAll(c) ==
  SelectSeq(hostEnv, LAMBDA e : e[1] \in Range(c.whitelist)) \o
  SelectSeq(c.env, LAMBDA e : e[1] \notin Range(c.whitelist) \cap Range(KeysOf(hostEnv)))

\* Config.Environment: env_vars, then the whitelisted variables of the host that
\* are not there yet.
Environment(c) ==
  FoldLeft(LAMBDA result, e :
             IF e[1] \in Range(c.whitelist) /\ e[1] \notin Range(KeysOf(result))
             THEN Append(result, e) ELSE result,
           c.env, hostEnv)

\* The value an environment gives a key, "" for none.
Lookup(entries, key) ==
  LET found == {i \in DOMAIN entries : entries[i][1] = key}
  IN  IF found = {} THEN "" ELSE entries[Min(found)][2]

\* interactiveEnvironment: TERM of env_vars, or the host's if it is a good name.
Term(c) ==
  IF "TERM" \in Range(KeysOf(c.env)) THEN Lookup(c.env, "TERM")
  ELSE IF Lookup(hostEnv, "TERM") \in TerminalNames THEN Lookup(hostEnv, "TERM") ELSE Dumb

WithTerm(entries, term) ==
  Append(FoldLeft(LAMBDA kept, e : IF e[1] = "TERM" THEN kept ELSE Append(kept, e),
                  <<>>, entries),
         <<"TERM", term>>)

\* Parent up to the provisioning; without a terminal an interactive run ends here.
SnapshotEnvironment ==
  \/ /\ stage = "parent" /\ stage' = "resolve"
     /\ cfg' = [cfg EXCEPT !.whitelist = <<>>,
          !.env = IF cfg.interactive THEN WithTerm(Environment(cfg), Term(cfg))
                  ELSE Environment(cfg)]
     /\ UNCHANGED <<inputs, limits, message>>
  \/ stage = "parent" /\ cfg.interactive /\ Refuse

\* remoteRootfsLimits, with int64 products that wrap
LimitsOf(r) == [total |-> (Total(r) * UnitBytes) % (MaxWord + 1),
                file |-> (File(r) * UnitBytes) % (MaxWord + 1)]
LimitsRefused(r) ==
  \/ r.total < 0 \/ r.file < 0 \/ File(r) > Total(r)
  \/ Total(r) > MaxWord \div UnitBytes \/ File(r) > MaxWord \div UnitBytes

\* Mutant: the snapshot still has remote_rootfs.
ResolveKeepsRemote ==
  /\ stage = "resolve"
  /\ \/ Refuse
     \/ /\ stage' = "write" /\ cfg' = [cfg EXCEPT !.rootfs = "absolute"]
        /\ limits' = IF cfg.remote = NoRemote THEN NoRemote ELSE LimitsOf(cfg.remote)
        /\ UNCHANGED <<inputs, message>>

\* ResolveRemote or Resolve: the path of a tree, always absolute, or an error.
Resolve ==
  /\ stage = "resolve"
  /\ IF cfg.remote # NoRemote /\ LimitsRefused(cfg.remote)
     THEN stage' = "limits" /\ UNCHANGED <<inputs, cfg, limits, message>>
     ELSE \/ Refuse
          \/ /\ stage' = "write"
             /\ cfg' = [cfg EXCEPT !.rootfs = "absolute", !.remote = NoRemote]
             /\ limits' = IF cfg.remote = NoRemote THEN NoRemote ELSE LimitsOf(cfg.remote)
             /\ UNCHANGED <<inputs, message>>

\* json.Marshal writes text: it replaces what is not UTF-8.
Encoded(s) == IF s \in NotUTF8 THEN Replacement ELSE s
Marshal(c) ==
  [c EXCEPT !.command = [i \in DOMAIN @ |-> Encoded(@[i])],
            !.env = [i \in DOMAIN @ |-> <<@[i][1], Encoded(@[i][2])>>]]

\* WriteConfig; a snapshot of more than 1 MiB is refused.
WriteConfig ==
  \/ /\ stage = "write" /\ stage' = "read" /\ message' = Marshal(cfg)
     /\ UNCHANGED <<inputs, cfg, limits>>
  \/ stage = "write" /\ Refuse

\* ReadConfig, in the child
ReadConfig ==
  /\ stage = "read" /\ stage' = IF Validate(message) THEN "payload" ELSE "rejected"
  /\ UNCHANGED <<inputs, cfg, limits, message>>

Finished == stage \in {"payload", "refused", "rejected", "limits"} /\ UNCHANGED configVars

ConfigNext ==
  \/ Discover \/ LoadConfig \/ ParseArgs \/ SnapshotEnvironment \/ Resolve
  \/ WriteConfig \/ ReadConfig
  \/ Finished

ConfigSpec == ConfigInit /\ [][ConfigNext]_configVars

-----------------------------------------------------------------------------
(* Properties.                                                             *)

\* The values have their types; the root the parent works with is
\* an absolute path without dots, or none yet.
ConfigTypeOK ==
  /\ stage \in {"discover", "load", "override", "parent", "resolve", "write", "read",
             "payload", "refused", "rejected", "limits"}
  /\ DOMAIN cfg = DOMAIN DefaultConfig /\ DOMAIN message = DOMAIN DefaultConfig
  /\ cfg.interactive \in BOOLEAN /\ cfg.fileSize \in Int
  /\ stage \in {"parent", "resolve", "write", "read", "payload"} =>
       cfg.rootfs \in {"", "absolute"} /\ cfg.fileSize >= 0

\* What the file says of a field, or the program's default.
Before(f) == IF file # NoFile /\ f \in DOMAIN file THEN file[f] ELSE DefaultConfig[f]

\* The value of the last flag that sets a field, else what was before.
Effective(f) ==
  LET setting == {i \in DOMAIN argv :
                    argv[i][1] = f \/ (f = "interactive" /\ argv[i][1] = "i")}
  IN  IF setting = {} THEN Before(f)
      ELSE IF f = "whitelist" THEN SplitCSV(argv[Max(setting)][2])
      ELSE argv[Max(setting)][2]

\* Each value that a flag can set is that of the last flag that sets it, else
\* that of the file, else the default, although the command line is parsed
\* twice over different defaults and -i and --interactive are one value.
Precedence ==
  stage = "parent" =>
    \A f \in {"mode", "subnet", "gateway", "container", "fileSize", "interactive", "whitelist"} :
      cfg[f] = Effective(f)

\* What the parent accepted, completed and sent, the child accepts too: the two
\* validations never disagree once the host has been changed for the run.
SnapshotAccepted == stage # "rejected"

\* A remote root that Validate let pass is not refused by the provisioner, and its
\* limits in bytes are those asked for, with no bit lost.
LimitsAgree ==
  /\ stage # "limits"
  /\ limits # NoRemote =>
       /\ limits = [total |-> Total(file.remote) * UnitBytes, file |-> File(file.remote) * UnitBytes]
       /\ limits.file <= limits.total

\* What the payload is to get for a key, "" for nothing: what env_vars says, else
\* for TERM in interactive mode a terminal name, else what the host has if the
\* key is whitelisted.
Expected(key) ==
  LET host == Lookup(hostEnv, key) IN
  IF key \in Range(KeysOf(Before("env"))) THEN Lookup(Before("env"), key)
  ELSE IF key = "TERM" /\ Effective("interactive")
       THEN IF host \in TerminalNames THEN host ELSE Dumb
  ELSE IF key \in Range(Effective("whitelist")) THEN host ELSE ""

\* The payload's environment is exactly the one expected, each key once, and
\* nothing else of the host's gets in; text that is not UTF-8 is changed.
PayloadEnvironment ==
  stage = "payload" =>
    /\ IsInjective(KeysOf(message.env))
    /\ \A key \in Range(KeysOf(message.env)) \cup Range(KeysOf(hostEnv)) \cup {"TERM"} :
         Lookup(message.env, key) = Encoded(Expected(key))

\* Every setting and every variable of the environment comes from the source that
\* goes first, through two parses, the file, the parent and the pipe.
AsConfigured == Precedence /\ PayloadEnvironment

\* What the parent accepted and completed, with the limits it resolved, the child
\* accepts too: the copies of the rules agree.
ChildAgrees == ConfigTypeOK /\ SnapshotAccepted /\ LimitsAgree
=============================================================================
