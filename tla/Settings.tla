------------------------------- MODULE Settings -------------------------------
(* The stored options: config.json and one template. `config set`, `config     *)
(* unset`, `template save`, `unset` and `delete` read a file, change it in     *)
(* memory and write it back in place; a run reads both files and lays them     *)
(* under its command line. Commands of several processes may overlap.          *)
(* Code: src/src/cmd/config_store.cpp, config_command.cpp, template_store.cpp, *)
(* template_command.cpp, cmd.cpp.                                              *)
EXTENDS Naturals, FiniteSets

CONSTANTS
  OptionKeys,   \* options both files may hold
  Flags,        \* those of kind Boolean
  TheKey,       \* the one the commands name, a value option
  MaxCommands   \* bound: commands started in a behaviour, each a process

ASSUME SettingsAssumption ==
  TheKey \in OptionKeys /\ TheKey \notin Flags /\ MaxCommands \in Nat

SetProcs == 1..MaxCommands

VARIABLES
  stores,      \* per file: NoFile, Garbled, or what it holds
  setPc,       \* per process: where its command is
  asked,       \* per process: what the user typed
  asRead,      \* per process: the two files as it read them
  exitCode,    \* per process: its exit status
  startedWith, \* per process: the options a run started with
  others,      \* per process: bodies written by others since it truncated its file
  wanted,      \* history: what the files hold if every command is done as told
  calm,        \* history: no two commands overlapped, none was cut short
  typed        \* number of commands typed

setVars ==
  <<stores, setPc, asked, asRead, exitCode, startedWith, others, wanted, calm, typed>>

StoreFiles == {"config", "template"}
Unset == "unset"
Bad == "bad"              \* a value the option's validator refuses
Builtin == "builtin"
Running == 99             \* no exit status yet

NoValues == [k \in OptionKeys |-> Unset]
\* What a file holds: the options it stores, and whether it has keys nobody knows.
NoJson == "no JSON"
NoFile == [form |-> "absent", vals |-> NoValues, extra |-> FALSE]
Garbled == [form |-> NoJson, vals |-> NoValues, extra |-> FALSE]
StoreOf(vals, extra) == [form |-> "store", vals |-> vals, extra |-> extra]
Stored(first, flag) ==
  StoreOf([k \in OptionKeys |-> IF k = TheKey THEN first ELSE IF k \in Flags THEN flag ELSE "old"],
          TRUE)

\* Files a user may have written by hand: with keys nobody knows, refused values, and
\* flags that are no JSON Boolean ("yes", 1), which a run takes for true.
HandWritten ==
  {NoFile, Garbled} \union {Stored(first, flag) : first \in {"old", Bad}, flag \in {"true", "yes"}}

Changes == {[kind |-> "set", file |-> f, value |-> v] : f \in StoreFiles, v \in {"new", Bad}}
           \union {[kind |-> "unset", file |-> f] : f \in StoreFiles}
           \union {[kind |-> "delete", file |-> "template"]}
\* main: --crf of the command line; twin: --crf after the preview subcommand;
\* template: -T was given.
Runs == [kind: {"run"}, main: {Unset, "main"}, twin: {Unset, "twin"}, template: BOOLEAN]
\* -T beside a subcommand that reads no stored option.
Mistakes == {[kind |-> "mistake"]}
Commands == Changes \union Runs \union Mistakes

SetInit ==
  /\ stores = [f \in StoreFiles |-> NoFile]
  /\ setPc = [p \in SetProcs |-> "none"]
  /\ asked = [p \in SetProcs |-> [kind |-> "none"]]
  /\ asRead = [p \in SetProcs |-> [f \in StoreFiles |-> NoFile]]
  /\ exitCode = [p \in SetProcs |-> Running]
  /\ startedWith = [p \in SetProcs |-> NoValues]
  /\ others = [p \in SetProcs |-> {}]
  /\ wanted = stores /\ calm = TRUE /\ typed = 0

\* The user edits the files before the first command.
HandEdit ==
  /\ typed = 0 /\ stores = [f \in StoreFiles |-> NoFile]
  /\ stores' \in [StoreFiles -> HandWritten]
  /\ wanted' = stores'
  /\ UNCHANGED <<setPc, asked, asRead, exitCode, startedWith, others, calm, typed>>

Busy(p) == setPc[p] \notin {"none", "done"}

ExitWith(p, status) ==
  /\ setPc' = [setPc EXCEPT ![p] = "done"]
  /\ exitCode' = [exitCode EXCEPT ![p] = status]

\* commandLineInit: the first parse injects nothing, so a store full of refused
\* values does not stop the commands that repair it; -T is refused beside them,
\* and a value `template save` was given passes the option's validators here.
Refused(c) == c.kind = "mistake" \/ (c.kind = "set" /\ c.file = "template" /\ c.value = Bad)

First(c) == IF c.kind = "run" THEN "config" ELSE "load"

\* A command is typed and its command line parsed.
TypeCommand(p) ==
  /\ setPc[p] = "none" /\ p = typed + 1
  /\ \E c \in Commands :
       /\ asked' = [asked EXCEPT ![p] = c]
       /\ IF Refused(c) THEN ExitWith(p, 1)
          ELSE setPc' = [setPc EXCEPT ![p] = First(c)] /\ UNCHANGED exitCode
  /\ calm' = (calm /\ \A q \in SetProcs : ~Busy(q))
  /\ typed' = p
  /\ UNCHANGED <<stores, asRead, startedWith, others, wanted>>

\* What a command knows of a file that could not be read.
Unreadable_Fresh(content) == FALSE
Unreadable(content) == content.form = NoJson

Readable(content) == content.form = "store"

\* Only known keys of a config file are written back; a template's others are kept.
KeepsExtra_Never(f) == FALSE
KeepsExtra(f) == f = "template"

\* `template save` starts from the template there is; so does `config set`.
BaseOf_New(content) == NoValues
BaseOf(content) == content.vals

NewValue(c) == IF c.kind = "set" THEN c.value ELSE Unset

\* scalarJsonText: every known key is written anew, in its kind's form. A flag that is
\* not `true` is written as `false`; numbers and texts keep the value they are read
\* back as.
AsSaved_Off(k, v) == IF k \in Flags /\ v # Unset THEN "false" ELSE v
AsSaved(k, v) == IF k \in Flags /\ v \notin {Unset, "true"} THEN "false" ELSE v

\* The content a change leads to, from the one it read.
Changed(c, content) ==
  StoreOf([k \in OptionKeys |->
             AsSaved(k, IF k = TheKey THEN NewValue(c) ELSE BaseOf(content)[k])],
          KeepsExtra(c.file) /\ content.extra)

NotThere(c, content) == c.file = "template" /\ c.kind # "set" /\ content = NoFile
Nothing(c, content) == c.kind = "unset" /\ content.vals[TheKey] = Unset

\* setAction, unsetAction, saveAction, deleteAction up to the first write.
ReadStore(p) ==
  LET c == asked[p]
      content == stores[c.file]
  IN
  /\ setPc[p] = "load"
  /\ asRead' = [asRead EXCEPT ![p][c.file] = content]
  /\ IF NotThere(c, content) \/ (c.kind # "delete" /\ Unreadable(content))
          \/ (c.kind = "set" /\ c.value = Bad)
       THEN ExitWith(p, 1)
     ELSE IF Nothing(c, content) THEN ExitWith(p, 0)
     ELSE /\ setPc' = [setPc EXCEPT ![p] = IF c.kind = "delete" THEN "delete" ELSE "open"]
          /\ UNCHANGED exitCode
  /\ UNCHANGED <<stores, asked, startedWith, others, wanted, calm, typed>>

\* What the command asks for, done at one go on what its user sees.
AsTold(c) ==
  [wanted EXCEPT ![c.file] =
     IF c.kind = "delete" THEN NoFile
     ELSE IF @.form = NoJson THEN @
     ELSE StoreOf([k \in OptionKeys |-> IF k = TheKey THEN NewValue(c) ELSE @.vals[k]], @.extra)]

DeleteTemplate(p) ==
  /\ setPc[p] = "delete"
  /\ stores' = [stores EXCEPT !["template"] = NoFile]
  /\ wanted' = AsTold(asked[p])
  /\ ExitWith(p, 0)
  /\ UNCHANGED <<asked, asRead, startedWith, others, calm, typed>>

\* std::ofstream truncates the file as it opens it: there is no partial file
\* beside it and no rename.
TruncateStore(p) ==
  /\ setPc[p] = "open"
  /\ stores' = [stores EXCEPT ![asked[p].file] = Garbled]
  /\ setPc' = [setPc EXCEPT ![p] = "write"]
  /\ others' = [others EXCEPT ![p] = {}]
  /\ UNCHANGED <<asked, asRead, exitCode, startedWith, wanted, calm, typed>>

\* The text goes over the file from its start: a longer one written by another
\* process in between keeps its tail.
WriteStore(p) ==
  LET c == asked[p]
      body == Changed(c, asRead[p][c.file])
      left == {body} \union (IF others[p] \subseteq {body} THEN {} ELSE {Garbled})
  IN
  /\ setPc[p] = "write"
  /\ \E content \in left : stores' = [stores EXCEPT ![c.file] = content]
  /\ others' = [q \in SetProcs |->
       IF setPc[q] = "write" /\ q # p /\ asked[q].file = c.file
         THEN others[q] \union {body} ELSE others[q]]
  /\ wanted' = AsTold(c)
  /\ IF c.file = "template" /\ c.kind = "set"
       THEN setPc' = [setPc EXCEPT ![p] = "schema"] /\ UNCHANGED exitCode
       ELSE ExitWith(p, 0)
  /\ UNCHANGED <<asked, asRead, startedWith, calm, typed>>

\* The file cannot be opened: it stays as it was. The write fails half way: it
\* does not.
OpenFails(p) ==
  /\ setPc[p] = "open"
  /\ ExitWith(p, 1)
  /\ UNCHANGED <<stores, asked, asRead, startedWith, others, wanted, calm, typed>>

WriteFails(p) ==
  /\ setPc[p] = "write"
  /\ calm' = FALSE
  /\ ExitWith(p, 1)
  /\ UNCHANGED <<stores, asked, asRead, startedWith, others, wanted, typed>>

\* The schema beside the templates is written last; when that fails the command
\* does too, with the template saved.
WriteSchema(p) ==
  /\ setPc[p] = "schema"
  /\ \E ok \in BOOLEAN : ExitWith(p, IF ok THEN 0 ELSE 1)
  /\ UNCHANGED <<stores, asked, asRead, startedWith, others, wanted, calm, typed>>

\* injectStoredDefaults, first half: the config file.
ReadConfig(p) ==
  /\ setPc[p] = "config"
  /\ asRead' = [asRead EXCEPT ![p]["config"] = stores["config"]]
  /\ IF Unreadable(stores["config"]) THEN ExitWith(p, 1)
     ELSE /\ setPc' = [setPc EXCEPT ![p] = IF asked[p].template THEN "overlay" ELSE "start"]
          /\ UNCHANGED exitCode
  /\ UNCHANGED <<stores, asked, startedWith, others, wanted, calm, typed>>

\* Second half: the selected template, over it.
ReadTemplate(p) ==
  /\ setPc[p] = "overlay"
  /\ asRead' = [asRead EXCEPT ![p]["template"] = stores["template"]]
  /\ IF ~Readable(stores["template"]) THEN ExitWith(p, 1)
       ELSE setPc' = [setPc EXCEPT ![p] = "start"] /\ UNCHANGED exitCode
  /\ UNCHANGED <<stores, asked, startedWith, others, wanted, calm, typed>>

\* The merged layer of stored values.
Layer_ConfigLast(first, second) == IF first # Unset THEN first ELSE second
Layer(first, second) == IF second # Unset THEN second ELSE first

\* Only the main option is forced to take a stored value; its twin of a
\* subcommand just shows it.
TwinForced_Too == TRUE
TwinForced == FALSE

\* An option's callback, at its place in the order of registration: a given
\* value, or a forced default, is written to the shared binding.
Fired(given, forced, stored, bound) ==
  IF given # Unset THEN given ELSE IF forced /\ stored # Unset THEN stored ELSE bound

OptionsOf(p) ==
  LET c == asked[p] IN
  [k \in OptionKeys |->
     LET stored == Layer(asRead[p]["config"].vals[k], asRead[p]["template"].vals[k])
         given(v) == IF k = TheKey THEN v ELSE Unset
     IN  Fired(given(c.twin), TwinForced, stored,
               Fired(given(c.main), TRUE, stored, Builtin))]

\* The second parse: a refused value that would be used fails it.
StartRun(p) ==
  /\ setPc[p] = "start"
  /\ startedWith' = [startedWith EXCEPT ![p] = OptionsOf(p)]
  /\ ExitWith(p, IF \E k \in OptionKeys : OptionsOf(p)[k] = Bad THEN 1 ELSE 0)
  /\ UNCHANGED <<stores, asked, asRead, others, wanted, calm, typed>>

\* A crash while the file is open; at other places it leaves the files as they are.
SetCrash(p) ==
  /\ setPc[p] = "write"
  /\ setPc' = [setPc EXCEPT ![p] = "done"]
  /\ calm' = FALSE
  /\ UNCHANGED <<stores, asked, asRead, exitCode, startedWith, others, wanted, typed>>

SetStep(p) ==
  \/ TypeCommand(p) \/ ReadStore(p) \/ DeleteTemplate(p) \/ TruncateStore(p)
  \/ WriteStore(p) \/ OpenFails(p)
  \/ WriteFails(p) \/ WriteSchema(p) \/ ReadConfig(p) \/ ReadTemplate(p) \/ StartRun(p)
  \/ SetCrash(p)

SetNext == HandEdit \/ \E p \in SetProcs : SetStep(p)

SetSpec == SetInit /\ [][SetNext]_setVars

NoCommand == \A p \in SetProcs : ~Busy(p)

\* The first of the values that is given.
FirstGiven(a, b, c, d) ==
  IF a # Unset THEN a ELSE IF b # Unset THEN b ELSE IF c # Unset THEN c
  ELSE IF d # Unset THEN d ELSE Builtin

\* An option has the value it was told, but for a flag that was given, by hand, a value
\* that is neither true nor false: any rewrite of its file turns it off.
Kept(is, told) ==
  \A k \in OptionKeys :
    \/ is.vals[k] = told.vals[k]
    \/ /\ k \in Flags /\ told.vals[k] \notin {Unset, "true", "false"}
       /\ is.vals[k] = "false"

Alike(f, is, told) ==
  /\ is.form = told.form /\ Kept(is, told)
  /\ f = "template" => is.extra = told.extra

\* Commands typed one after another, none cut short, do to each file what they were
\* told: an option they do not name keeps its value (see Kept for the flags that do
\* not), a template keeps the keys the program does not know (a config file's are
\* dropped by a rewrite and are not compared), a file that cannot be read stays as its
\* author left it, and a command that fails changes nothing, save one: `template save`
\* that cannot write the schema reports a failure with the template saved.
CommandsDoAsTold ==
  (calm /\ NoCommand) => \A f \in StoreFiles : Alike(f, stores[f], wanted[f])

\* What the command line, the stores as the run read them and the built-in value
\* give an option, in this order.
Expected(p, k) ==
  LET c == asked[p]
      given(v) == IF k = TheKey THEN v ELSE Unset
      stored(f) == asRead[p][f].vals[k]
  IN  FirstGiven(given(c.twin), given(c.main), stored("template"), stored("config"))

StoresReadable(p) ==
  /\ asRead[p]["config"].form # NoJson
  /\ asked[p].template => Readable(asRead[p]["template"])

\* A run whose stores can be read starts unless an option's value is one its
\* validator refuses, and starts with those values: the command line's, or the
\* selected template's, the config file's, the built-in one. A refused value that
\* is overridden does no harm.
RunsStartAsTyped ==
  \A p \in SetProcs :
    (setPc[p] = "done" /\ asked[p].kind = "run" /\ exitCode[p] # Running) =>
      LET usable == StoresReadable(p) /\ \A k \in OptionKeys : Expected(p, k) # Bad
      IN  /\ (exitCode[p] = 0) = usable
          /\ usable => startedWith[p] = [k \in OptionKeys |-> Expected(p, k)]

SettingsAreSound == CommandsDoAsTold /\ RunsStartAsTyped
=============================================================================
