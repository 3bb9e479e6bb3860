-------------------------------- MODULE Front --------------------------------
(***************************************************************************)
(* The way from a command line to the policy's question, and from the      *)
(* verdict to the command's environment: cli.cyr, the validation and       *)
(* resolution of validate.cyr, and env.cyr, each beside what the original  *)
(* (main.rs, validate.rs, env.rs) makes of the same input, with the scan   *)
(* of module Policy between them.  What no later stage reads is forgotten  *)
(* at the end of a stage.                                                  *)
(***************************************************************************)
EXTENDS OldPolicy

CONSTANTS
    Caller,        \* who called shakti
    Words,         \* arguments that are no option
    Spelling,      \* what an argument is when it is taken for a command
    Lines,         \* argument vectors, without the program's name
    DefaultPolicy, \* the policy file without -p
    Limits,        \* max_command_len
    Disks,         \* the executable files, as pairs of directory and name
    PATH,          \* the directories a bare name is looked for in
    Prefixed,      \* variables whose names begin with LD_ or BASH_FUNC_
    Environs,      \* environments of the caller
    Keeps,         \* env_keep
    NoName         \* an entry without "="

Flags == {"-k", "-l", "-c", "-h", "-V"}
Options == Flags \cup {"-u", "-p", "--", "-x"}
Arguments == Words \cup Options

Kind == {"empty", "absolute", "relative", "bare"}

ASSUME FrontAssumption ==
    /\ DOMAIN Spelling = Arguments
    /\ \A a \in Arguments : Spelling[a].kind \in Kind /\ Spelling[a].length \in Nat
    /\ Lines \subseteq Seq(Arguments)
    /\ Arguments \subseteq Names /\ Words \cap Options = {}
    /\ PATH \in Seq(STRING)
    /\ Questions # {} /\ Defaults # {}

AnyDefault == CHOOSE d \in Defaults : TRUE
AnyQuestion == CHOOSE q \in Questions : TRUE

VARIABLES
    stage,    \* the part of the way the invocation is on
    line,     \* input: the arguments
    at,       \* the place in the line, in PATH or in the environment
    cli,      \* the CliArgs read so far
    does,     \* what the invocation is for, "none" while that is open
    limit, disk, \* input: read from the policy and from the file system
    found,    \* the command with its resolved path
    environ, keep, \* input: the caller's environment, env_keep
    envp      \* the environment of the command

lineVars == <<line, cli, does, limit, disk, found>>
envVars == <<environ, keep, envp>>
frontVars == <<polVars, stage, at, lineVars, envVars>>

------------------------------------------------------------------------------
(* _parse_cli_from, one argument at a time.                                *)
NoCli == [wants |-> "option", user |-> "root", policy |-> DefaultPolicy,
          flags |-> {}, command |-> <<>>]

HasNext == stage = "parse" /\ at <= Len(line)
Read(c) == cli' = c /\ at' = at + 1
           /\ UNCHANGED <<polVars, stage, line, does, limit, disk, found, envVars>>
Settle(d) == stage' = "settled" /\ does' = d
             /\ UNCHANGED <<polVars, line, at, cli, limit, disk, found, envVars>>

Operand ==
    HasNext /\ cli.wants \in {"user", "policy"}
    /\ Read([cli EXCEPT ![cli.wants] = line[at], !.wants = "option"])

AtOption == HasNext /\ cli.wants = "option"
Flag == AtOption /\ line[at] \in Flags /\ Read([cli EXCEPT !.flags = @ \cup {line[at]}])
Wants(a, what) == AtOption /\ line[at] = a /\ Read([cli EXCEPT !.wants = what])
UnknownOption == AtOption /\ line[at] = "-x" /\ Settle("refuse")

CommandWord ==
    HasNext /\ (cli.wants = "command" \/ (cli.wants = "option" /\ line[at] \in Words))
    /\ Read([cli EXCEPT !.wants = "command", !.command = Append(@, line[at])])

LineEnds == stage = "parse" /\ at > Len(line)
NoOperand == LineEnds /\ cli.wants \in {"user", "policy"} /\ Settle("refuse")

(* shk_run: the first of these flags that is given, else the command.      *)
First(places) == CHOOSE k \in places : \A j \in places : k <= j
FirstOf(order, flags) == order[First({k \in DOMAIN order : order[k] \in flags})]
PurposeCheckFirst(c) ==
    IF c.flags # {} THEN FirstOf(<<"-h", "-V", "-c", "-k", "-l">>, c.flags)
    ELSE IF c.command = <<>> THEN "refuse" ELSE "run"
Purpose(c) ==
    IF c.flags # {} THEN FirstOf(<<"-h", "-V", "-k", "-c", "-l">>, c.flags)
    ELSE IF c.command = <<>> THEN "refuse" ELSE "run"

Decide ==
    /\ LineEnds /\ cli.wants \notin {"user", "policy"}
    /\ IF Purpose(cli) # "run" THEN Settle(Purpose(cli))
       ELSE /\ stage' = "validate"
            /\ limit' \in Limits /\ disk' \in Disks
            /\ UNCHANGED <<polVars, line, at, cli, does, found, envVars>>

------------------------------------------------------------------------------
(* validate_command: one byte for every argument, and what it holds.       *)
Sizes(start, command) ==
    LET upto[n \in 0..Len(command)] ==
            IF n = 0 THEN start ELSE upto[n - 1] + Spelling[command[n]].length
    IN  upto
LengthOf(command) == Sizes(Len(command), command)[Len(command)]
validate_command(command, max) ==
    /\ command # <<>> /\ LengthOf(command) <= max
    /\ Spelling[command[1]].kind # "empty" /\ ~Spelling[command[1]].meta

Validate ==
    /\ stage = "validate"
    /\ IF validate_command(cli.command, limit)
       THEN stage' = "resolve" /\ at' = 1
            /\ UNCHANGED <<polVars, lineVars, envVars>>
       ELSE Settle("refuse")

(* resolve_command.  A path too long for its buffer is none stat can find. *)
Executable(d, w) == <<d, Spelling[w].name>> \in disk
Command == cli.command[1]
Found(dir) ==
    /\ stage' = "settled" /\ does' = "ask"
    /\ found' = [dir |-> dir, name |-> Spelling[Command].name, words |-> Tail(cli.command)]
    /\ UNCHANGED <<polVars, line, at, cli, limit, disk, envVars>>

Resolving(kind) == stage = "resolve" /\ Spelling[Command].kind = kind

ResolveAbsolute ==
    /\ Resolving("absolute")
    /\ IF Executable(Plain[Spelling[Command].dir], Command)
       THEN Found(Spelling[Command].dir) ELSE Settle("refuse")

RejectRelative == Resolving("relative") /\ Settle("refuse")

SearchPath ==
    /\ Resolving("bare")
    /\ IF at > Len(PATH) THEN Settle("refuse")
       ELSE IF Executable(PATH[at], Command) THEN Found(PATH[at])
       ELSE at' = at + 1 /\ UNCHANGED <<polVars, stage, lineVars, envVars>>

------------------------------------------------------------------------------
(* The original: parse_args reads the line in one pass, in which -h, -V    *)
(* and an error end the program at once.                                   *)
OldCli == [wants |-> "option", user |-> "root", policy |-> DefaultPolicy,
           flags |-> {}, command |-> <<>>, does |-> "none"]
OldTake(c, a) ==
    IF c.does # "none" THEN c
    ELSE IF c.wants \in {"user", "policy"} THEN [c EXCEPT ![c.wants] = a, !.wants = "option"]
    ELSE IF c.wants = "command" \/ a \in Words
    THEN [c EXCEPT !.wants = "command", !.command = Append(@, a)]
    ELSE IF a \in {"-h", "-V"} THEN [c EXCEPT !.does = a]
    ELSE IF a = "-x" THEN [c EXCEPT !.does = "refuse"]
    ELSE IF a \in Flags THEN [c EXCEPT !.flags = @ \cup {a}]
    ELSE [c EXCEPT !.wants = IF a = "-u" THEN "user" ELSE IF a = "-p" THEN "policy" ELSE "command"]
OldReads(args) ==
    LET upto[n \in 0..Len(args)] == IF n = 0 THEN OldCli ELSE OldTake(upto[n - 1], args[n])
    IN  upto
parse_args(args) == OldReads(args)[Len(args)]

OldPurpose(c) ==
    IF c.does # "none" THEN c.does
    ELSE IF c.wants \in {"user", "policy"} THEN "refuse"
    ELSE IF c.flags # {} THEN FirstOf(<<"-k", "-c", "-l">>, c.flags)
    ELSE IF c.command = <<>> THEN "refuse" ELSE "run"

old_validate_command(args, max) ==
    /\ args # <<>>
    /\ Sizes(0, args)[Len(args)] + Len(args) <= max
    /\ Spelling[args[1]].kind # "empty" /\ ~Spelling[args[1]].meta

(* The directories in which resolve_command finds the command, one at most.*)
old_resolve_command(w) ==
    LET hits == {k \in DOMAIN PATH : Executable(PATH[k], w)} IN
    IF Spelling[w].kind = "absolute"
    THEN {d \in {Spelling[w].dir} : Executable(Plain[d], w)}
    ELSE IF Spelling[w].kind = "relative" \/ hits = {} THEN {} ELSE {PATH[First(hits)]}

OldFound(c) ==
    IF OldPurpose(c) # "run" \/ ~old_validate_command(c.command, limit) THEN {}
    ELSE {[dir |-> d, name |-> Spelling[c.command[1]].name, words |-> Tail(c.command)] :
             d \in old_resolve_command(c.command[1])}
OldDoes(c) ==
    IF OldPurpose(c) # "run" THEN OldPurpose(c)
    ELSE IF OldFound(c) = {} THEN "refuse" ELSE "ask"

------------------------------------------------------------------------------
(* The question, and what load_policy and the group database hold; what    *)
(* the line said is done with.  Of the questions a line leads to, those in *)
(* Questions are followed.                                                 *)
Unfound == [dir |-> NoDir, name |-> "", words |-> <<>>]
QuestionOf(c, text) == [caller |-> Caller, target |-> c.user, command |-> text]

Ask ==
    /\ stage = "settled" /\ does = "ask" /\ QuestionOf(cli, found) \in Questions
    /\ stage' = "load" /\ asked' = QuestionOf(cli, found)
    /\ line' = <<>> /\ cli' = NoCli /\ does' = "none" /\ at' = 1
    /\ limit' = 0 /\ disk' = {} /\ found' = Unfound
    /\ UNCHANGED <<rules, defaults, listed, member, ppc, groups, i, answer, envVars>>

LoadPolicy ==
    /\ stage = "load" /\ stage' = "policy"
    /\ rules' \in Policies /\ defaults' \in Defaults
    /\ member' \in SUBSET Groups /\ listed' \in SUBSET member'
    /\ UNCHANGED <<asked, ppc, groups, i, answer, at, lineVars, envVars>>

Decision == stage = "policy" /\ PolNext /\ UNCHANGED <<stage, at, lineVars, envVars>>

------------------------------------------------------------------------------
(* sanitize_environment.  One name stands for each section of the tables.  *)
FixedVars == <<"USER", "LOGNAME", "HOME", "SHELL", "PATH", "SUDO_USER", "SUDO_UID", "SUDO_GID">>
shk_unsafe_env_vars == {"LD_PRELOAD", "LOCALDOMAIN", "IFS", "PYTHONPATH"}
shk_safe_env_vars == {"TERM", "LANG"}
is_unsafe_env_by_table(name) == name \in shk_unsafe_env_vars
is_unsafe_env(name) == name \in Prefixed \cup shk_unsafe_env_vars

EnvEntry == [name : STRING, value : STRING]
ASSUME EnvironmentAssumption ==
    /\ Environs \subseteq Seq(EnvEntry)
    /\ \A k \in DOMAIN FixedVars : FixedVars[k] \notin Prefixed

Variable(name, value) == [name |-> name, value |-> value]
Fixed == [k \in DOMAIN FixedVars |-> Variable(FixedVars[k], "shakti")]
NamesIn(env) == {env[k].name : k \in DOMAIN env}

(* The environment is made once the policy has allowed the command; an     *)
(* entry without "=" has no name and is left out.                          *)
Permitted ==
    /\ stage = "policy" /\ answer.status = "allowed" /\ stage' = "read"
    /\ rules' = <<>> /\ defaults' = AnyDefault /\ asked' = AnyQuestion
    /\ member' = {} /\ listed' = {} /\ groups' = {} /\ i' = 1
    /\ ppc' = "lookup" /\ answer' = NoAnswer
    /\ UNCHANGED <<at, lineVars, envVars>>

ReadEnvironment ==
    /\ stage = "read" /\ stage' = "environment"
    /\ environ' \in Environs /\ keep' \in Keeps /\ envp' = Fixed
    /\ UNCHANGED <<polVars, at, lineVars>>

Passes(v) ==
    v.name # NoName /\ ~is_unsafe_env(v.name) /\ v.name \in shk_safe_env_vars \cup keep

PassVariable ==
    /\ stage = "environment" /\ at <= Len(environ)
    /\ at' = at + 1
    /\ envp' = IF Passes(environ[at]) THEN Append(envp, environ[at]) ELSE envp
    /\ UNCHANGED <<polVars, stage, lineVars, environ, keep>>

EnvironmentReady ==
    /\ stage = "environment" /\ at > Len(environ) /\ stage' = "ready"
    /\ UNCHANGED <<polVars, at, lineVars, envVars>>

(* The original hands its list on name by name, so that a later entry      *)
(* replaces an earlier one of that name: what is left is a value for each. *)
UNSAFE_ENV_VARS == {"LD_PRELOAD", "LOCALDOMAIN", "IFS", "PYTHONPATH"}
SAFE_ENV_VARS == {"TERM", "LANG"}
OldPasses(v) ==
    /\ v.name # NoName /\ v.name \notin Prefixed
    /\ v.name \in SAFE_ENV_VARS \cup keep /\ v.name \notin UNSAFE_ENV_VARS
old_sanitize_environment(env) ==
    LET passed == {k \in DOMAIN env : OldPasses(env[k])}
        of(name) == {k \in passed : env[k].name = name}
        last(name) == CHOOSE k \in of(name) : \A j \in of(name) : j <= k
    IN  [name \in NamesIn(Fixed) \cup {env[k].name : k \in passed} |->
            IF of(name) = {} THEN "shakti" ELSE env[last(name)].value]

------------------------------------------------------------------------------
FrontInit ==
    /\ stage = "parse" /\ at = 1 /\ line \in Lines
    /\ cli = NoCli /\ does = "none" /\ limit = 0 /\ disk = {} /\ found = Unfound
    /\ environ = <<>> /\ keep = {} /\ envp = <<>>
    /\ rules = <<>> /\ defaults = AnyDefault /\ asked = AnyQuestion
    /\ member = {} /\ listed = {} /\ groups = {} /\ i = 1
    /\ ppc = "lookup" /\ answer = NoAnswer

ParseStep ==
    \/ Operand \/ Flag \/ UnknownOption \/ CommandWord \/ NoOperand \/ Decide
    \/ Wants("-u", "user") \/ Wants("-p", "policy") \/ Wants("--", "command")

FrontNext ==
    \/ ParseStep \/ Validate \/ ResolveAbsolute \/ RejectRelative \/ SearchPath
    \/ Ask \/ LoadPolicy \/ Decision
    \/ Permitted \/ ReadEnvironment \/ PassVariable \/ EnvironmentReady

FrontSpec == FrontInit /\ [][FrontNext]_frontVars

------------------------------------------------------------------------------
(* What a line leads to is what it led to before the port, the policy      *)
(* file, the target and the resolved command included; only after -h or -V *)
(* may the port, which reads on, find an error or the other of the two.    *)
CommandLineAgrees ==
    stage = "settled" =>
    LET old == parse_args(line) IN
    IF OldDoes(old) \in {"-h", "-V"} THEN does \in {"-h", "-V", "refuse"}
    ELSE /\ does = OldDoes(old)
         /\ does \in {"-c", "-l", "ask"} => cli.policy = old.policy
         /\ does = "ask" => cli.user = old.user /\ found \in OldFound(old)

(* The command sees what it saw under the original.  Both hand on the same *)
(* names, and nothing unsafe among them whatever env_keep says (ADR-004);  *)
(* a name that comes once has the value the original left it.  The port    *)
(* does not remove the second of two entries, but shakti's own come first, *)
(* which is what getenv finds.                                             *)
IsFirst(env, k) == \A j \in DOMAIN env : env[j].name = env[k].name => k <= j
ComesOnce(env, k) == \A j \in DOMAIN env : env[j].name = env[k].name => j = k
EnvironmentAgrees ==
    stage = "ready" =>
    LET old == old_sanitize_environment(environ) IN
    /\ NamesIn(envp) = DOMAIN old
    /\ DOMAIN old \cap (Prefixed \cup UNSAFE_ENV_VARS) = {}
    /\ \A k \in DOMAIN envp :
          /\ envp[k].name \in NamesIn(Fixed) /\ IsFirst(envp, k) => envp[k].value = "shakti"
          /\ ComesOnce(envp, k) => envp[k].value = old[envp[k].name]

------------------------------------------------------------------------------
(* The inductive invariant behind it: envp is shakti's own entries and, in *)
(* their order, those of environ that pass and have been read.             *)
Sources == {Fixed[k] : k \in DOMAIN Fixed} \cup {environ[k] : k \in DOMAIN environ}
Copied ==
    stage \in {"environment", "ready"} =>
        /\ environ \in Seq(EnvEntry) /\ envp \in Seq(Sources)
        /\ at \in 1..(Len(environ) + 1) /\ Len(envp) >= Len(Fixed)
        /\ \A k \in 1..Len(Fixed) : envp[k] = Fixed[k]
        /\ \A k \in (Len(Fixed) + 1)..Len(envp) :
              \E j \in 1..(at - 1) : Passes(environ[j]) /\ envp[k] = environ[j]
        /\ \A j \in 1..(at - 1) : Passes(environ[j]) =>
              \E k \in (Len(Fixed) + 1)..Len(envp) : envp[k] = environ[j]
        /\ \A j, m \in 1..(at - 1) :
              j < m /\ Passes(environ[j]) /\ Passes(environ[m]) =>
              \E k, l \in (Len(Fixed) + 1)..Len(envp) :
                  k < l /\ envp[k] = environ[j] /\ envp[l] = environ[m]

(* Outside the scan, module Policy is as it was at first.                  *)
AtRest ==
    /\ stage # "policy" => ppc = "lookup" /\ groups = {} /\ i = 1
    /\ stage \in {"load", "policy", "read"} => at = 1
    /\ stage = "ready" => at = Len(environ) + 1

FrontIInv == PolIInv /\ AtRest /\ Copied

(* The line up to at as the two readers have taken it: alike, until the    *)
(* original stops at a -h or a -V that the port notes as a flag.           *)
Fields == {"wants", "user", "policy", "flags", "command"}
CliArgs == [wants : {"option", "user", "policy", "command"},
            user : Arguments \cup {"root"}, policy : Arguments \cup {DefaultPolicy},
            flags : SUBSET Flags, command : Seq(Arguments)]
ReadAlike(c, old) ==
    /\ c \in CliArgs /\ DOMAIN old = Fields \cup {"does"}
    /\ \/ /\ old.does = "none" /\ c.flags \cap {"-h", "-V"} = {}
          /\ \A f \in Fields : c[f] = old[f]
       \/ old.does \in {"-h", "-V"} /\ old.does \in c.flags

(* Then the original would run the command, too, and has found it nowhere  *)
(* that the port has looked.                                               *)
TakenAlike(c, old) ==
    /\ c \in CliArgs /\ OldPurpose(old) = "run" /\ c.command # <<>>
    /\ c.user = old.user /\ c.policy = old.policy /\ c.command = old.command
SoughtAlike ==
    /\ old_validate_command(cli.command, limit)
    /\ at \in 1..(Len(PATH) + 1)
    /\ Spelling[Command].kind = "bare" => \A k \in 1..(at - 1) : ~Executable(PATH[k], Command)

ParsedAlike ==
    /\ stage = "parse" =>
          line \in Seq(Arguments) /\ at \in 1..(Len(line) + 1)
          /\ ReadAlike(cli, OldReads(line)[at - 1])
    /\ stage \in {"validate", "resolve"} => TakenAlike(cli, parse_args(line))
    /\ stage = "resolve" => SoughtAlike

LineIInv == ParsedAlike /\ CommandLineAgrees
==============================================================================
