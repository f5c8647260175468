------------------------- MODULE IntegrationFiles -------------------------
(***************************************************************************)
(* The command line interface over the directory nango-integrations: the   *)
(* configuration nango.yaml, the scripts, models.ts generated from the     *)
(* configuration, and dist/ compiled from the scripts.                     *)
(*                                                                         *)
(*   cli/lib/sync.ts     init, generate, tsc, dev, dryrun, deploy          *)
(*   cli/lib/index.ts    the commands                                      *)
(*   cli/lib/utils.ts    verifyNecessaryFiles, buildInterfaces             *)
(*   shared/lib/services/nango-config.service.ts, file/local.service.ts    *)
(*                                                                         *)
(* `nango dev` watches while the developer edits and runs one command at a *)
(* time.  Each action is the code of a process up to its next await.       *)
(***************************************************************************)
EXTENDS Integers, Sequences

CONSTANTS
    Scripts,        \* the names of the syncs and actions
    Configs,        \* the contents of nango.yaml
    Default,        \* the one that init writes
    MaxEdits,       \* bound: the files the developer saves or removes
    MaxCommands,    \* bound: the commands run, beside dev
    MaxStarts       \* bound: the starts of dev

\* A configuration says what each script is and what its runs: is (an interval of at least
\* five minutes is fine), what its models: key holds (the model, the model without an id,
\* others; broken: the file is no YAML), whether the flows return the model, and whether
\* their names are unique.
FlowTypes == {"none", "sync", "action"}
ConfigType == [flows : [Scripts -> FlowTypes], runs : [Scripts -> {"missing", "short", "fine"}],
               models : {"absent", "other", "model", "keyless", "broken"},
               returns : BOOLEAN, unique : BOOLEAN]

ASSUME ConfigsAssumption ==
    /\ Configs \subseteq ConfigType /\ Default \in Configs
    /\ Default.models = "model" /\ Default.returns /\ Default.unique
ASSUME BoundsAssumption == MaxEdits \in Nat /\ MaxCommands \in Nat /\ MaxStarts \in Nat

VARIABLES
    yaml,       \* nango.yaml
    ts,         \* script -> its .ts file
    models,     \* models.ts: its interfaces, its NangoFlows
    dist,       \* script -> its .js file: the text it was compiled from
    dev,        \* nango dev
    events,     \* script -> the watcher's events to be handled
    changes,    \* the changes of nango.yaml to be handled by tscWatch, by configWatch
    command,    \* the command under way
    edits, commands, starts,    \* bounds
    doubts      \* history: why models.ts or dist may lag

files == <<yaml, ts, models, dist>>
watched == <<dev, events, changes>>
bounds == <<edits, commands, starts>>
filesVars == <<files, watched, command, bounds, doubts>>

None == "none"
Missing == [flows |-> [s \in Scripts |-> "none"], runs |-> [s \in Scripts |-> "missing"],
            models |-> "absent", returns |-> FALSE, unique |-> FALSE]
Yamls == Configs \cup {Missing}

ASSUME MissingAssumption == Missing \notin Configs  \* without flows the names are unique

\* What a script does that the checks tell apart: it saves records of the model, it is
\* wrong (a call that is not awaited, a type error), or neither.
Kinds == {"plain", "saves", "wrong"}
NoFile == [kind |-> None, edit |-> 0]
Text(k, n) == [kind |-> k, edit |-> n]
Texts == [kind : Kinds, edit : 0..MaxEdits] \cup {NoFile}

\* models.ts: an interface for the model, the configuration in its last NangoFlows and
\* how many there are, up to two.
NoModels == [interface |-> FALSE, of |-> Missing, flows |-> 0, written |-> FALSE]

Doubts == {"interfaces", "away", "absent", "beside", "scaffold", "refused"}
-----------------------------------------------------------------------------
(* The compiler.                                                           *)

Declared(c) == {s \in Scripts : c.flows[s] # "none"}
Existing == {s \in Scripts : ts[s] # NoFile}

Returned(c) == c.returns /\ Declared(c) # {}

\* getConfig throws: a model is returned, and there is no models: to look it up in.
Unreadable(c) == c.models = "broken" \/ (c.models = "absent" /\ Returned(c))

\* buildInterfaces throws: a sync returns a model that has no id.
BuildFails(c) ==
    \/ c.models = "broken"
    \/ c.models = "keyless" /\ c.returns /\ \E s \in Scripts : c.flows[s] = "sync"

\* A model is known by the flows that return it, defined or not.
GetModelNamesFromConfig(c) == IF Returned(c) THEN {"model"} ELSE {}

\* Mutant: calls need not be awaited.
NangoCallsNotAwaited(text, type, names) ==
    text.kind = "saves" => type # "action" /\ "model" \in names

\* Every call is awaited, an action saves nothing, what is saved is a known model.
NangoCallsAreUsedCorrectly(text, type, names) ==
    /\ text.kind # "wrong"
    /\ text.kind = "saves" => type # "action" /\ "model" \in names

\* Compiling s under the configuration c succeeds: a script that imports the model
\* needs its interface.
Compiles(s, c) ==
    /\ s \in Existing /\ s \in Declared(c)
    /\ NangoCallsAreUsedCorrectly(ts[s], c.flows[s], GetModelNamesFromConfig(c))
    /\ models.written
    /\ ts[s].kind = "saves" => models.interface

Compiled(S, c) == [s \in Scripts |-> IF s \in S /\ Compiles(s, c) THEN ts[s] ELSE dist[s]]
-----------------------------------------------------------------------------
(* models.ts, in two steps: the interfaces, then NangoFlows, from a        *)
(* configuration read again.                                               *)

Defined(c) == c.models \in {"model", "keyless"}

\* Without models: nothing is overwritten.
BuildInterfaces(c) ==
    models' = IF c.models = "absent" THEN [models EXCEPT !.written = TRUE]
              ELSE [interface |-> Defined(c), of |-> Missing, flows |-> 0, written |-> TRUE]

AppendFlows(n) ==
    models' = [models EXCEPT !.of = yaml, !.flows = IF @ + n > 2 THEN 2 ELSE @ + n]

Watching == dev.pc = "watching"
Running == dev.pc \in {"watching", "interfaces", "flows"}

\* beside: the other process is between its two steps.
DoubtsAboutModels(c, beside) ==
    (IF c.models = "absent" THEN doubts \cup {"absent"}
     ELSE doubts \ {"absent", "away", "beside", "scaffold", "refused"})
    \cup (IF beside THEN {"beside"} ELSE {})
    \cup (IF Running /\ models'.interface # models.interface THEN {"interfaces"} ELSE {})

\* models.ts, or its NangoFlows, cannot be made of the configuration.
Refused == doubts' = doubts \cup {"refused"}

\* dev's watchers are told of a file; of nango.yaml configWatch, if dev started it.
Told(s, e) == events' = IF Running THEN [events EXCEPT ![s] = Append(@, e)] ELSE events
ToldOfConfig ==
    changes' = IF Running THEN [tsc |-> changes.tsc + 1,
                                config |-> changes.config + (IF dev.watch THEN 1 ELSE 0)]
               ELSE changes
Now(s) == IF ts[s] = NoFile THEN "add" ELSE "change"
-----------------------------------------------------------------------------
(* The state.                                                              *)

DevOff == [pc |-> "off", config |-> Missing, watch |-> FALSE]
Nothing == [s \in Scripts |-> [js |-> NoFile, ts |-> NoFile]]
Flows == Scripts \X {"sync", "action"}
NoCommand == [pc |-> "idle", name |-> None, only |-> Scripts, named |-> {},
              config |-> Missing, todo |-> {}, sent |-> Nothing, body |-> Missing, flows |-> 1, compiled |-> {},
              touched |-> {}, changed |-> FALSE]

FilesInit ==
    /\ \/ yaml = Missing
       \/ yaml \in Configs
    /\ ts \in [Scripts -> {NoFile, Text("saves", 0)}]
    /\ dist = [s \in Scripts |-> NoFile] /\ models = NoModels
    /\ dev = DevOff /\ events = [s \in Scripts |-> <<>>] /\ changes = [tsc |-> 0, config |-> 0]
    /\ command = NoCommand
    /\ edits = 0 /\ commands = 0 /\ starts = 0
    /\ doubts = {}
-----------------------------------------------------------------------------
(* The developer.                                                          *)

Touch(S) == command' = IF command.name \in {"dryrun", "deploy", "admin"}
                       THEN [command EXCEPT !.touched = @ \cup S] ELSE command

Edit ==
    /\ edits < MaxEdits /\ edits' = edits + 1
    /\ UNCHANGED <<models, dist, dev, commands, starts>>

SaveScript(s, k) ==
    /\ Edit
    /\ ts' = [ts EXCEPT ![s] = Text(k, edits + 1)]
    /\ Told(s, Now(s)) /\ Touch({s})
    /\ UNCHANGED <<yaml, changes, doubts>>

RemoveScript(s) ==
    /\ Edit /\ s \in Existing
    /\ ts' = [ts EXCEPT ![s] = NoFile]
    /\ Told(s, "unlink") /\ Touch({s})
    /\ UNCHANGED <<yaml, changes, doubts>>

SaveConfig(c) ==
    /\ Edit /\ yaml # Missing /\ c # yaml
    /\ yaml' = c
    /\ ToldOfConfig
    /\ command' = [command EXCEPT !.changed = (command.name \in {"deploy", "admin"})]
    /\ doubts' = IF Running /\ dev.watch THEN doubts ELSE doubts \cup {"away"}
    /\ UNCHANGED <<ts, events>>
-----------------------------------------------------------------------------
(* nango dev.                                                              *)

Handling == UNCHANGED <<yaml, ts, command, bounds>>
Appending == command.pc \in {"flows", "scripts"}

Crash ==
    /\ dev' = [DevOff EXCEPT !.pc = "crashed"]
    /\ events' = [s \in Scripts |-> <<>>] /\ changes' = [tsc |-> 0, config |-> 0]

\* Mutant: the files that are there already are not compiled.
StartWithoutInitial(w) ==
    /\ dev.pc \in {"off", "crashed"} /\ starts < MaxStarts /\ yaml # Missing
    /\ starts' = starts + 1
    /\ IF Unreadable(yaml) THEN Crash
       ELSE /\ dev' = [pc |-> IF models.written THEN "watching" ELSE "interfaces",
                       config |-> yaml, watch |-> w]
            /\ UNCHANGED <<events, changes>>
    /\ UNCHANGED <<files, command, edits, commands, doubts>>

\* The configuration is read once; every script is an add to the watcher.  With
\* --no-compile-interfaces (~w) there is no configWatch.
StartDev(w) ==
    /\ dev.pc \in {"off", "crashed"} /\ starts < MaxStarts /\ yaml # Missing
    /\ starts' = starts + 1
    /\ IF Unreadable(yaml) THEN Crash
       ELSE /\ dev' = [pc |-> IF models.written THEN "watching" ELSE "interfaces",
                       config |-> yaml, watch |-> w]
            /\ events' = [s \in Scripts |-> IF s \in Existing THEN <<"add">> ELSE <<>>]
            /\ UNCHANGED changes
    /\ UNCHANGED <<files, command, edits, commands, doubts>>

StopDev ==
    /\ dev.pc # "off"
    /\ dev' = DevOff
    /\ events' = [s \in Scripts |-> <<>>] /\ changes' = [tsc |-> 0, config |-> 0]
    /\ doubts' = IF changes.config > 0 \/ dev.pc = "flows" THEN doubts \cup {"away"} ELSE doubts
    /\ UNCHANGED <<files, command, bounds>>

CompileFile(s) ==
    /\ Watching /\ events[s] # <<>> /\ Head(events[s]) \in {"add", "change"}
    /\ events' = [events EXCEPT ![s] = Tail(@)]
    /\ dist' = Compiled({s}, dev.config)
    /\ Handling /\ UNCHANGED <<models, dev, changes, doubts>>

\* Without a compiled file the removal throws, and nothing catches it.
UnlinkFile(s) ==
    /\ Watching /\ events[s] # <<>> /\ Head(events[s]) = "unlink"
    /\ IF dist[s] = NoFile
       THEN /\ Crash
            /\ doubts' = IF changes.config > 0 THEN doubts \cup {"away"} ELSE doubts
            /\ UNCHANGED dist
       ELSE /\ events' = [events EXCEPT ![s] = Tail(@)]
            /\ dist' = [dist EXCEPT ![s] = NoFile]
            /\ UNCHANGED <<dev, changes, doubts>>
    /\ Touch({s})
    /\ UNCHANGED <<yaml, ts, models, bounds>>

\* tscWatch: nango.yaml changed, every script is compiled under the configuration of
\* the start.
RecompileAll ==
    /\ Watching /\ changes.tsc > 0
    /\ changes' = [changes EXCEPT !.tsc = @ - 1]
    /\ dist' = Compiled(Scripts, dev.config)
    /\ doubts' = doubts \ {"interfaces"}
    /\ Handling /\ UNCHANGED <<models, dev, events>>

\* createModelFile, for configWatch or as tscWatch starts.  Nothing catches what it throws.
CreateModelFile ==
    /\ dev.pc = "interfaces" \/ (Watching /\ changes.config > 0)
    /\ IF BuildFails(yaml)
       THEN Crash /\ Refused /\ UNCHANGED models
       ELSE /\ changes' = IF Watching THEN [changes EXCEPT !.config = @ - 1] ELSE changes
            /\ dev' = [dev EXCEPT !.pc = "flows"]
            /\ BuildInterfaces(yaml)
            /\ doubts' = DoubtsAboutModels(yaml, Appending)
            /\ UNCHANGED events
    /\ Handling /\ UNCHANGED dist

ModelFileFlows ==
    /\ dev.pc = "flows"
    /\ IF Unreadable(yaml)
       THEN Crash /\ Refused /\ UNCHANGED models
       ELSE /\ dev' = [dev EXCEPT !.pc = "watching"]
            /\ AppendFlows(1)
            /\ UNCHANGED <<events, changes, doubts>>
    /\ Handling /\ UNCHANGED dist

Dev ==
    \/ \E w \in BOOLEAN : StartDev(w)
    \/ StopDev
    \/ \E s \in Scripts : CompileFile(s) \/ UnlinkFile(s)
    \/ RecompileAll
    \/ CreateModelFile
    \/ ModelFileFlows
-----------------------------------------------------------------------------
(* The commands.                                                           *)

Names == {"init", "generate", "compile", "dryrun", "deploy", "admin", "dev"}
Set(pc) == command' = [command EXCEPT !.pc = pc]
End == command' = NoCommand
Working == UNCHANGED <<yaml, ts, dist, watched, bounds>>

\* What follows the scaffold and generate.
First(name) == CASE name \in {"init", "generate", "dev"} -> "idle"
                 [] name = "compile" -> "check"
                 [] name = "dryrun" -> "lookup"
                 [] OTHER -> "tsc"

\* dryrun is given a name.  What dev does without a nango.yaml, before it watches, is a
\* command here.
Begin(name, S) ==
    /\ command.pc = "idle" /\ commands < MaxCommands /\ commands' = commands + 1
    /\ name = "generate" => yaml # Missing
    /\ name = "dev" => yaml = Missing
    /\ IF name = "dryrun" THEN \E s \in Scripts : S = {s} ELSE S = Scripts
    /\ command' = [NoCommand EXCEPT !.name = name, !.only = S,
                     !.pc = CASE yaml = Missing -> "scaffold"
                              [] yaml # Missing /\ name \in {"init", "generate"} -> "generate"
                              [] OTHER -> First(name)]
    /\ UNCHANGED <<files, watched, edits, starts, doubts>>

\* init, called by itself or by verifyNecessaryFiles.  The latter does not wait for it and
\* generates beside it, so that NangoFlows is appended twice.
Scaffold ==
    /\ command.pc = "scaffold"
    /\ yaml' = Default
    /\ BuildInterfaces(Default)
    /\ doubts' = DoubtsAboutModels(Default, dev.pc = "flows")
                     \cup (IF command.name = "init" THEN {} ELSE {"scaffold"})
    /\ command' = [command EXCEPT !.pc = "scripts", !.config = Default,
                     !.flows = IF command.name = "init" THEN 1 ELSE 2]
    /\ UNCHANGED <<ts, dist, watched, bounds>>

Generate ==
    /\ command.pc = "generate"
    /\ IF BuildFails(yaml)
       THEN End /\ UNCHANGED <<models, doubts>>
       ELSE /\ BuildInterfaces(yaml)
            /\ doubts' = DoubtsAboutModels(yaml, dev.pc = "flows")
            /\ command' = [command EXCEPT !.pc = "scripts", !.config = yaml]
    /\ Working

\* generate stops at a name that is there twice, and at a flow that returns nothing.
Stops(c) == ~c.unique \/ (~c.returns /\ Declared(c) # {})

\* A script is written for every flow that has none, up to where generate stops.
\* verifyNecessaryFiles then compiles them, and does not wait for that either.
GenerateScripts ==
    /\ command.pc = "scripts"
    /\ IF Unreadable(yaml)
       THEN End /\ Refused /\ UNCHANGED <<files, events>>
       ELSE /\ AppendFlows(command.flows)
            /\ \E new \in SUBSET (Declared(command.config) \ Existing) :
                  /\ Stops(command.config) \/ new = Declared(command.config) \ Existing
                  /\ ts' = [s \in Scripts |-> IF s \in new THEN Text("plain", 0) ELSE ts[s]]
                  /\ events' = [s \in Scripts |-> IF Running /\ s \in new
                                                  THEN Append(events[s], "add") ELSE events[s]]
            /\ IF Stops(command.config) \/ First(command.name) = "idle"
               THEN End ELSE Set(First(command.name))
            /\ UNCHANGED <<yaml, doubts>>
            /\ dist' = [s \in Scripts |-> IF command.flows = 2 /\ Compiles(s, yaml)'
                                          THEN ts'[s] ELSE dist[s]]
    /\ UNCHANGED <<dev, changes, bounds>>

CheckYamlMatchesTsFiles ==
    /\ command.pc = "check"
    /\ IF ~Unreadable(yaml) /\ Declared(yaml) = Existing THEN Set("tsc") ELSE End
    /\ Working /\ UNCHANGED <<models, doubts>>

\* dryrun: the script is declared, the server has the connection.
LookUp ==
    /\ command.pc = "lookup"
    /\ \/ ~Unreadable(yaml) /\ command.only \subseteq Declared(yaml) /\ Set("tsc")
       \/ End
    /\ Working /\ UNCHANGED <<models, doubts>>

Tsc ==
    /\ command.pc = "tsc"
    /\ CASE models.written -> Set("glob") /\ UNCHANGED <<models, doubts>>
         [] ~models.written /\ BuildFails(yaml) -> End /\ UNCHANGED <<models, doubts>>
         [] OTHER -> /\ Set("flows")
                     /\ BuildInterfaces(yaml)
                     /\ doubts' = DoubtsAboutModels(yaml, dev.pc = "flows")
    /\ Working

TscFlows ==
    /\ command.pc = "flows"
    /\ IF Unreadable(yaml)
       THEN End /\ Refused /\ UNCHANGED models
       ELSE AppendFlows(1) /\ Set("glob") /\ UNCHANGED doubts
    /\ Working

Glob ==
    /\ command.pc = "glob"
    /\ IF Unreadable(yaml) THEN End
       ELSE command' = [command EXCEPT !.pc = "compiling", !.config = yaml,
                          !.todo = IF command.name = "dryrun" THEN command.only ELSE Existing]
    /\ Working /\ UNCHANGED <<models, doubts>>

TscFile(s) ==
    /\ command.pc = "compiling" /\ s \in command.todo
    /\ dist' = Compiled({s}, command.config)
    /\ LET done == IF Compiles(s, command.config) THEN {s} ELSE {}
       IN  command' = [command EXCEPT !.todo = @ \ {s}, !.compiled = @ \cup done, !.touched = @ \ done]
    /\ UNCHANGED <<yaml, ts, models, watched, bounds, doubts>>

\* deploy reads the configuration again, whatever did not compile.  A script that is no
\* flow of the configuration read by tsc is passed over, and is no failure.
TscEnds ==
    /\ command.pc = "compiling" /\ command.todo = {}
    /\ CASE command.name = "compile" -> End
         [] command.name = "dryrun" ->
               IF command.only \cap Declared(command.config) \subseteq command.compiled
               THEN Set("run") ELSE End
         [] OTHER -> IF Unreadable(yaml) THEN End
                     ELSE command' = [command EXCEPT !.pc = "package", !.config = yaml,
                                        !.changed = FALSE]
    /\ Working /\ UNCHANGED <<models, doubts>>

\* The configuration is read once more.  The script that runs is the compiled one.
DryRun ==
    /\ command.pc = "run"
    /\ IF \/ yaml.models = "broken"
          \/ \E s \in command.only : s \notin Declared(yaml) \/ dist[s] = NoFile
       THEN End
       ELSE command' = [command EXCEPT !.pc = "running",
                          !.sent = [s \in Scripts |-> IF s \in command.only
                                                      THEN [js |-> dist[s], ts |-> ts[s]]
                                                      ELSE Nothing[s]]]
    /\ Working /\ UNCHANGED <<models, doubts>>

DryRunEnds ==
    /\ command.pc = "running"
    /\ End
    /\ Working /\ UNCHANGED <<models, doubts>>

\* The flows the options name, without the syncs that have no runs.
Chosen(c, N) ==
    {s \in Declared(c) : <<s, c.flows[s]>> \in N /\ (c.flows[s] = "sync" => c.runs[s] # "missing")}

\* Mutant: every script is sent, compiled or not.
PackageEvery(N) ==
    /\ command.pc = "package"
    /\ command' = [command EXCEPT !.pc = "confirm", !.named = N, !.body = yaml,
                      !.sent = [s \in Scripts |-> [js |-> NoFile, ts |-> ts[s]]]]
    /\ Working /\ UNCHANGED <<models, doubts>>

\* deploy may be given the name of a sync, of an action, or of both.  A flow without a
\* compiled file is left out; an interval that is too short stops the command.
PackageIntegrationData(N) ==
    /\ command.pc = "package"
    /\ \/ N = Flows
       \/ command.name = "deploy" /\ \E s, a \in Scripts :
              N \in {{<<s, "sync">>}, {<<a, "action">>}, {<<s, "sync">>, <<a, "action">>}}
    /\ LET c     == command.config
           flows == {s \in Chosen(c, N) : dist[s] # NoFile}
       IN  IF \E s \in flows : c.flows[s] = "sync" /\ c.runs[s] = "short" THEN End
           ELSE command' = [command EXCEPT !.pc = "confirm", !.named = N, !.body = yaml,
                              !.sent = [s \in Scripts |-> IF s \in flows
                                                          THEN [js |-> dist[s], ts |-> ts[s]]
                                                          ELSE Nothing[s]]]
    /\ Working /\ UNCHANGED <<models, doubts>>

\* The differences are shown and confirmed, or confirmed beforehand; admin:deploy asks for
\* the account, and reads the text of nango.yaml only then.
Confirm ==
    /\ command.pc = "confirm"
    /\ \/ command' = [command EXCEPT !.pc = "send",
                        !.body = IF command.name = "admin" THEN yaml ELSE @]
       \/ End
    /\ Working /\ UNCHANGED <<models, doubts>>

DeploySyncs ==
    /\ command.pc = "send"
    /\ End
    /\ Working /\ UNCHANGED <<models, doubts>>

Command ==
    \/ \E name \in Names, S \in SUBSET Scripts : Begin(name, S)
    \/ Scaffold
    \/ Generate
    \/ GenerateScripts
    \/ CheckYamlMatchesTsFiles
    \/ LookUp
    \/ Tsc
    \/ TscFlows
    \/ Glob
    \/ \E s \in Scripts : TscFile(s)
    \/ TscEnds
    \/ DryRun
    \/ DryRunEnds
    \/ \E N \in SUBSET Flows : PackageIntegrationData(N)
    \/ Confirm
    \/ DeploySyncs

Developer ==
    \/ \E s \in Scripts : RemoveScript(s) \/ \E k \in Kinds : SaveScript(s, k)
    \/ \E c \in Configs : SaveConfig(c)

FilesNext == Developer \/ Dev \/ Command

FilesSpec == FilesInit /\ [][FilesNext]_filesVars
-----------------------------------------------------------------------------
(* The properties.                                                         *)

\* The type of every variable; dist holds nothing that is newer than, or that no check
\* would have let through from, what the developer saved.
FilesTypeOK ==
    /\ yaml \in Yamls /\ ts \in [Scripts -> Texts] /\ dist \in [Scripts -> Texts]
    /\ models \in [interface : BOOLEAN, of : Yamls, flows : 0..2, written : BOOLEAN]
    /\ dev \in [pc : {"off", "crashed", "watching", "interfaces", "flows"}, config : Yamls,
               watch : BOOLEAN]
    /\ \A s \in Scripts : events[s] \in Seq({"add", "change", "unlink"})
    /\ changes \in [tsc : 0..MaxEdits, config : 0..MaxEdits]
    /\ command.pc \in {"idle", "scaffold", "generate", "scripts", "check", "lookup", "tsc", "flows",
                       "glob", "compiling", "run", "running", "package", "confirm", "send"}
    /\ command.config \in Yamls /\ command.todo \cup command.compiled \subseteq Scripts
    /\ edits \in 0..MaxEdits /\ commands \in 0..MaxCommands /\ starts \in 0..MaxStarts
    /\ doubts \subseteq Doubts
    /\ \A s \in Scripts : dist[s].kind # "wrong"

DevQuiet ==
    /\ Watching /\ command.pc = "idle"
    /\ \A s \in Scripts : events[s] = <<>>
    /\ changes = [tsc |-> 0, config |-> 0]

\* With nothing left to handle, what dev compiles under the configuration it has read is
\* compiled, unless the interfaces changed since the scripts were last compiled.
DistIsCurrent ==
    DevQuiet /\ "interfaces" \notin doubts =>
        \A s \in Scripts : Compiles(s, dev.config) => dist[s] = ts[s]

\* models.ts is made of nango.yaml, unless this has no models, was refused, was saved while
\* dev did not watch it, was scaffolded, or two processes wrote models.ts side by side.
ModelsAgree ==
    DevQuiet /\ doubts \subseteq {"interfaces"} =>
        /\ models.of = yaml /\ models.flows = 1
        /\ models.interface = Defined(yaml)

\* What a deployment sends: of the flows it is to send, every script that compiled during it,
\* and was not touched since, with the file compiled from it; and the text of the
\* configuration that the flows were chosen by.
DeploymentMatches ==
    command.pc \in {"confirm", "send"} =>
        /\ \A s \in Chosen(command.config, command.named) :
               s \in command.compiled \ command.touched =>
                   command.sent[s].js = ts[s] /\ command.sent[s].ts = ts[s]
        /\ \A s \in Scripts \ Chosen(command.config, command.named) :
               command.sent[s] = Nothing[s]
        /\ ~command.changed => command.body = command.config

\* A dry run runs the script as it is, unless it was touched meanwhile or is no flow of the
\* configuration it was to be compiled under.
DryRunIsFaithful ==
    command.pc = "running" =>
        \A s \in command.only \cap Declared(command.config) :
            s \notin command.touched => command.sent[s].js = ts[s]

\* dev keeps up with what is edited.
DevKeepsUp == DistIsCurrent /\ ModelsAgree

\* What runs, on the server or here, is what is written.
RunsWhatIsWritten == DeploymentMatches /\ DryRunIsFaithful
=============================================================================
