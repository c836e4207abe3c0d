------------------------------ MODULE Plugins ------------------------------
(***************************************************************************)
(* Loading and unloading plugins: the PluginManager (system/plugins/       *)
(* manager), the Python loader, and the command and event registrations    *)
(* that a plugin's setup() makes and its unloading takes back.             *)
(*                                                                         *)
(* load_plugin, unload_plugin and reload_plugin are inlineCallbacks: they  *)
(* run on the reactor thread until a setup() or deactivate() returns a     *)
(* Deferred, and other operations run meanwhile.  An operation is a record *)
(* of `op`; `running` is the one the reactor is executing.                 *)
(***************************************************************************)
EXTENDS Sequences, FiniteSets, Naturals

CONSTANTS
  Name,            \* plugin names
  Generation,      \* numbers, one per plugin object a name may get
  Op,              \* operations that can be under way at once
  None,            \* no plugin object; no operation
  DependsOn,       \* info.dependencies, as names
  Boot,            \* the order load_plugins computed for the configured plugins
  SlowSetup,       \* names whose setup() returns a Deferred
  SlowDeactivate,  \* names whose deactivate() returns a Deferred
  Registers,       \* what the setup() of each name registers, in its order
  GivesUp          \* names whose setup() may return before it has registered that

Object == Name \X Generation

ASSUME NoneAssumption == None \notin Object \cup Op
ASSUME GenerationAssumption == Generation \subseteq Nat
ASSUME DependsOnAssumption == DependsOn \in [Name -> SUBSET Name]
ASSUME BootAssumption == Boot \in Seq(Name)
ASSUME SlowAssumption == SlowSetup \subseteq Name /\ SlowDeactivate \subseteq Name
\* One command and one handler stand for any of a plugin's: a setup() may end
\* before or after each.
ASSUME RegistersAssumption ==
  Registers \in [Name -> {<<>>, <<"command">>, <<"handler">>,
                          <<"command", "handler">>, <<"handler", "command">>}]
ASSUME GivesUpAssumption == GivesUp \subseteq Name

VARIABLES
  objects,   \* PluginManager.plugin_objects
  life,      \* what became of each plugin object; gaveUp: loaded half set up
  command,   \* owner of the command each plugin registers
  handler,   \* object behind the event handlers registered under each name
  op,        \* the operations under way
  running,   \* the operation the reactor is in, or None
  reply,     \* the result of the latest load, unload or reload
  stopped    \* the reactor has stopped

vars == <<objects, life, command, handler, op, running, reply, stopped>>

Kind == {"idle", "boot", "load", "unload", "reload", "signal", "shutdown"}
\* sets: the object whose setup() is under way; made: how far it got in
\* Registers; waits: the object whose setup() or deactivate() is waited for.
Fresh(kind, todo) ==
  [kind |-> kind, todo |-> todo, sets |-> None, made |-> 0, waits |-> None]
Idle == Fresh("idle", <<>>)
Operation == [kind : Kind, todo : Seq(Name), sets : Object \cup {None}, made : 0 .. 2,
              waits : Object \cup {None}]
Result == {"Loaded", "AlreadyLoaded", "NotExists", "DependencyMissing", "LoadError",
           "Unloaded", "None", "KeyError"}
NoReply == [kind |-> "idle", name |-> None, result |-> "None"]

TypeOK ==
  /\ objects \in [Name -> Object \cup {None}]
  /\ life \in [Object -> {"unused", "settingUp", "loaded", "gaveUp", "failed",
                       "unloaded"}]
  /\ command \in [Name -> Object \cup {None}]
  /\ handler \in [Name -> Object \cup {None}]
  /\ op \in [Op -> Operation]
  /\ running \in Op \cup {None}
  /\ reply \in [kind : Kind, name : Name \cup {None}, result : Result]
  /\ stopped \in BOOLEAN

\* FactoryManager.setup() starts loading the configured plugins.
Init ==
  /\ objects = [n \in Name |-> None]
  /\ life = [o \in Object |-> "unused"]
  /\ command = [n \in Name |-> None]
  /\ handler = [n \in Name |-> None]
  /\ \E p \in Op :
       /\ op = [q \in Op |-> IF q = p THEN Fresh("boot", Boot) ELSE Idle]
       /\ running = p
  /\ reply = NoReply
  /\ stopped = FALSE

-----------------------------------------------------------------------------
Loading(p) == op[p].kind \in {"boot", "load"}
Present(n) == objects[n] # None

\* The name operation p is at.
At(p) == Head(op[p].todo)

\* p is executing and begins with a name.
Busy(p) ==
  ~stopped /\ running = p /\ op[p].todo # <<>> /\ op[p].sets = None /\ op[p].waits = None

\* p is done with its name, with result r.
Answer(p, r) ==
  /\ reply' = [kind |-> op[p].kind, name |-> At(p), result |-> r]
  /\ op' = [op EXCEPT ![p] = Fresh(op[p].kind, Tail(op[p].todo))]
  /\ running' = p

\* p stays at its name.
Stay(p, sets, made, waits) ==
  op' = [op EXCEPT ![p] = [kind |-> op[p].kind, todo |-> op[p].todo, sets |-> sets,
                           made |-> made, waits |-> waits]]

\* p yields the Deferred of object o.
Wait(p, o) ==
  /\ Stay(p, op[p].sets, op[p].made, o)
  /\ running' = None
  /\ UNCHANGED reply

-----------------------------------------------------------------------------
(***************************************************************************)
(* load_plugin and PythonPluginLoader.load_plugin                          *)
(***************************************************************************)
\* Faulty variants named ...Bug are used by the mutants of PROJECT.json only.
LoadRejected(p) ==
  /\ Busy(p) /\ Loading(p)
  /\ \/ Present(At(p)) /\ Answer(p, "AlreadyLoaded")
     \/ /\ ~Present(At(p))
        /\ ~(DependsOn[At(p)] \subseteq {n \in Name : Present(n)})
        /\ Answer(p, "DependencyMissing")
  /\ UNCHANGED <<objects, life, command, handler, stopped>>

\* The checks passed, the class is instantiated and setup() is called.  (A
\* class that is missing or raises ends as a setup() that raises at once.  With
\* no loader for the plugin's type the answer is UnknownType, to the same
\* effect.)
Instantiate(p, o) ==
  /\ Busy(p) /\ Loading(p)
  /\ ~Present(At(p))
  /\ DependsOn[At(p)] \subseteq {n \in Name : Present(n)}
  /\ o[1] = At(p)
  /\ life[o] = "unused"
  /\ \A g \in Generation : g < o[2] => life[<<o[1], g>>] # "unused"
  /\ life' = [life EXCEPT ![o] = "settingUp"]
  /\ Stay(p, o, 0, None)
  /\ UNCHANGED <<objects, command, handler, running, reply, stopped>>

\* The setup() of o is executing, or goes on because what it waited for has
\* happened, or failed.
SettingUp(p, o) ==
  /\ ~stopped
  /\ op[p].sets = o
  /\ \/ running = p /\ op[p].waits = None
     \/ running = None /\ op[p].waits = o

\* What it registers next.
NextIs(p, what) ==
  /\ op[p].made < Len(Registers[At(p)])
  /\ Registers[At(p)][op[p].made + 1] = what

Made(p) ==
  /\ Stay(p, op[p].sets, op[p].made + 1, None)
  /\ running' = p
  /\ UNCHANGED <<objects, life, reply, stopped>>

\* register_command refuses a name that is taken; the plugins ignore that.
RegistersCommand(p, o) ==
  /\ SettingUp(p, o) /\ NextIs(p, "command")
  /\ command' = [command EXCEPT ![o[1]] = IF @ = None THEN o ELSE @]
  /\ Made(p)
  /\ UNCHANGED handler

RegistersHandler(p, o) ==
  /\ SettingUp(p, o) /\ NextIs(p, "handler")
  /\ handler[o[1]] = None
  /\ handler' = [handler EXCEPT ![o[1]] = o]
  /\ Made(p)
  /\ UNCHANGED command

\* setup() has raised; what it has registered stays.
SetupFails(p, o) ==
  /\ life' = [life EXCEPT ![o] = "failed"]
  /\ Answer(p, "LoadError")
  /\ UNCHANGED <<objects, command, stopped>>

\* add_callback raises when the plugin's name already has the handler.
Clashes(p, o) == SettingUp(p, o) /\ NextIs(p, "handler") /\ handler[o[1]] # None

ClashTakesOverBug(p, o) ==
  /\ Clashes(p, o)
  /\ handler' = [handler EXCEPT ![o[1]] = None]
  /\ SetupFails(p, o)

ClashIsIgnoredBug(p, o) == Clashes(p, o) /\ Made(p) /\ UNCHANGED <<command, handler>>

SetupClashes(p, o) == Clashes(p, o) /\ SetupFails(p, o) /\ UNCHANGED handler

\* setup() raises anywhere else, or the Deferred it waits for fails.
SetupRaises(p, o) == SettingUp(p, o) /\ SetupFails(p, o) /\ UNCHANGED handler

Succeeds(p, o, how) ==
  /\ objects' = [objects EXCEPT ![o[1]] = o]
  /\ life' = [life EXCEPT ![o] = how]
  /\ Answer(p, "Loaded")
  /\ UNCHANGED <<command, handler, stopped>>

SetupReturns(p, o) ==
  /\ SettingUp(p, o) /\ op[p].made = Len(Registers[At(p)])
  /\ Succeeds(p, o, "loaded")

\* setup() gives up and returns: after _disable_self(), for which unload_plugin
\* answers NotExists, the object not being in plugin_objects yet; or because
\* there is an auth handler already.  load_plugin goes on.
SetupGivesUp(p, o) ==
  /\ SettingUp(p, o) /\ op[p].made < Len(Registers[At(p)])
  /\ o[1] \in GivesUp
  /\ Succeeds(p, o, "gaveUp")

\* setup() returns a Deferred: it goes on later, from where it is.
SetupWaits(p, o) ==
  /\ SettingUp(p, o) /\ running = p
  /\ o[1] \in SlowSetup
  /\ Wait(p, o)
  /\ UNCHANGED <<objects, life, command, handler, stopped>>

-----------------------------------------------------------------------------
(***************************************************************************)
(* unload_plugin, and reload_plugin, whose second half is never reached    *)
(***************************************************************************)
UnloadRejected(p) ==
  /\ Busy(p) /\ ~Loading(p)
  /\ ~Present(At(p))
  /\ Answer(p, "NotExists")
  /\ UNCHANGED <<objects, life, command, handler, stopped>>

\* What unload_plugin(p) answers when it has unloaded; reload_plugin drops it.
UnloadedAnswer(p) == IF op[p].kind = "reload" THEN "None" ELSE "Unloaded"

KeepsCommandsBug(o) ==
  /\ command' = command
  /\ handler' = [handler EXCEPT ![o[1]] = None]

\* Commands go by the identity of their owner, handlers by the plugin's name.
Unregister(o) ==
  /\ command' = [n \in Name |-> IF command[n] = o THEN None ELSE command[n]]
  /\ handler' = [handler EXCEPT ![o[1]] = None]

Unload(p) ==
  /\ Busy(p) /\ ~Loading(p)
  /\ Present(At(p))
  /\ LET o == objects[At(p)]
     IN /\ Unregister(o)
        /\ \/ /\ o[1] \notin SlowDeactivate
              /\ objects' = [objects EXCEPT ![o[1]] = None]
              /\ life' = [life EXCEPT ![o] = "unloaded"]
              /\ Answer(p, UnloadedAnswer(p))
           \/ /\ o[1] \in SlowDeactivate
              /\ Wait(p, o)
              /\ UNCHANGED <<objects, life>>
  /\ UNCHANGED stopped

\* The Deferred of deactivate() fires and the entry is deleted by name.
DeactivateEnds(p) ==
  /\ ~stopped /\ running = None
  /\ op[p].waits # None /\ ~Loading(p)
  /\ Present(At(p))
  /\ LET o == op[p].waits
     IN /\ objects' = [objects EXCEPT ![o[1]] = None]
        /\ life' = [life EXCEPT ![o] = "unloaded"]
  /\ Answer(p, UnloadedAnswer(p))
  /\ UNCHANGED <<command, handler, stopped>>

\* The entry is gone: KeyError leaves unload_plugin and its callers, but for
\* signal_callback, which stops the reactor.
DeactivateRaises(p) ==
  /\ ~stopped /\ running = None
  /\ op[p].waits # None /\ ~Loading(p)
  /\ ~Present(At(p))
  /\ reply' = [kind |-> op[p].kind, name |-> At(p), result |-> "KeyError"]
  /\ op' = [op EXCEPT ![p] = Idle]
  /\ stopped' = (op[p].kind = "signal")
  /\ UNCHANGED <<objects, life, command, handler, running>>

-----------------------------------------------------------------------------
StopsOnSignalBug(p) ==
  /\ ~stopped /\ running = p
  /\ op[p].todo = <<>>
  /\ op' = [op EXCEPT ![p] = Idle]
  /\ running' = None
  /\ stopped' = (op[p].kind = "signal")
  /\ UNCHANGED <<objects, life, command, handler, reply>>

\* p has been through its names; unload() ends by stopping the reactor.
Finish(p) ==
  /\ ~stopped /\ running = p
  /\ op[p].todo = <<>>
  /\ op' = [op EXCEPT ![p] = Idle]
  /\ running' = None
  /\ stopped' = (op[p].kind \in {"signal", "shutdown"})
  /\ UNCHANGED <<objects, life, command, handler, reply>>

Begin(p, kind, todo) ==
  /\ ~stopped /\ running = None
  /\ op[p].kind = "idle"
  /\ op' = [op EXCEPT ![p] = Fresh(kind, todo)]
  /\ running' = p
  /\ UNCHANGED <<objects, life, command, handler, reply, stopped>>

\* Commands come once the protocols are up, so after the configured plugins.
Ready == \A p \in Op : op[p].kind # "boot"

\* plugins_command: load, unload and reload of one plugin.  Generation bounds
\* the objects a name gets.
PluginsCommand(p, kind, n) ==
  /\ Ready
  /\ kind = "load" => \E g \in Generation : life[<<n, g>>] = "unused"
  /\ Begin(p, kind, <<n>>)

\* plugin_objects.keys() in the order of the dictionary.
Keys == {s \in UNION {[1..k -> Name] : k \in 0..Cardinality(Name)} :
           /\ {s[i] : i \in DOMAIN s} = {n \in Name : Present(n)}
           /\ \A i, j \in DOMAIN s : s[i] = s[j] => i = j}

\* unload_plugins at a signal or by the shutdown command.
UnloadPlugins(p, kind, todo) == (kind = "shutdown" => Ready) /\ Begin(p, kind, todo)

SetupStep(p, o) ==
  \/ RegistersCommand(p, o) \/ RegistersHandler(p, o)
  \/ SetupClashes(p, o) \/ SetupRaises(p, o)
  \/ SetupReturns(p, o) \/ SetupGivesUp(p, o)

LoadStep(p) ==
  \/ LoadRejected(p)
  \/ \E o \in Object : Instantiate(p, o) \/ SetupStep(p, o) \/ SetupWaits(p, o)

UnloadStep(p) ==
  \/ UnloadRejected(p)
  \/ Unload(p)
  \/ DeactivateEnds(p)
  \/ DeactivateRaises(p)

Progress(p) == LoadStep(p) \/ UnloadStep(p) \/ Finish(p)

Request(p) ==
  \/ \E kind \in {"load", "unload", "reload"}, n \in Name : PluginsCommand(p, kind, n)
  \/ \E kind \in {"signal", "shutdown"} : \E todo \in Keys : UnloadPlugins(p, kind, todo)

Next == \E p \in Op : Progress(p) \/ Request(p)

Spec == Init /\ [][Next]_vars

\* The reactor goes on with what it is doing, and Deferreds fire even though
\* commands keep coming: a turn of the reactor serves every ready event.
Fairness ==
  \A p \in Op :
    /\ WF_vars(Progress(p))
    /\ SF_vars(\/ \E o \in {op[p].waits} \ {None} : SetupStep(p, o)
               \/ DeactivateEnds(p) \/ DeactivateRaises(p))

FairSpec == Spec /\ Fairness
=============================================================================
