----------------------------- MODULE Connection -----------------------------
(***************************************************************************)
(* The life of a protocol's connection in Ultros: the FactoryManager that  *)
(* loads, reloads and unloads protocols by name (system/factory_manager),  *)
(* the BaseFactory that reconnects them (system/protocols/generic/factory) *)
(* and the Twisted connector each factory owns (external).                 *)
(*                                                                         *)
(* Everything runs on one reactor thread, so an action is one callback of  *)
(* the reactor, one operator command or one signal.  A factory is a pair   *)
(* <<n, g>>: the g-th Factory object made for the protocol name n.  An old *)
(* generation can outlive its entry in the table, which is what makes      *)
(* unloading and reloading hard.                                           *)
(***************************************************************************)
EXTENDS Integers

CONSTANTS
  Name,         \* protocol names
  Generation,   \* one element per Factory object a name may get
  NoFactory,    \* "name not in self.factories"
  Configured,   \* main_config["protocols"]
  MumbleNames,  \* names whose protocol-type is mumble; the others are irc
  Options,      \* per name, the effective values of the reconnections section
  GlobalReset,  \* main_config["reconnections"]["reset-on-success"]
  AttemptCap    \* bound: the network stops failing a factory that got here

Option == [failure: BOOLEAN, drop: BOOLEAN, attempts: Int,
           delay: Nat, maxDelay: Nat, reset: BOOLEAN]

ASSUME NameAssumption      == Configured \subseteq Name /\ MumbleNames \subseteq Name
ASSUME OptionsAssumption   == Options \in [Name -> Option]
ASSUME ResetAssumption     == GlobalReset \in BOOLEAN
ASSUME CapAssumption       == AttemptCap \in Nat

Factory == Name \X Generation
ASSUME NoFactoryAssumption == NoFactory \notin Factory

VARIABLES
  table,         \* FactoryManager.factories
  link,          \* state of the factory's connector and transport
  timer,         \* delay of the pending call to connector.connect, or NoTimer
  attempts,      \* BaseFactory.reconnection_attempts
  shuttingDown,  \* BaseFactory.shutting_down
  protocol,      \* BaseFactory.protocol is not None
  setUp,         \* load_protocols has run
  reactor,       \* "ready" before reactor.run(), "running", "stopped"
  unloading      \* an unload() is waiting for plugman.unload_plugins()

vars == <<table, link, timer, attempts, shuttingDown, protocol, setUp,
          reactor, unloading>>
facVars == <<timer, attempts, shuttingDown, protocol>>
sysVars == <<setUp, reactor, unloading>>

NoTimer == -1
DefaultMaxDelay == 300  \* the code asks for "max_delay"; settings say "max-delay"

\* "open" is a transport that is up but not usable for commands yet: irc
\* before signedOn, mumble before its own UserState.  "closing" has had
\* loseConnection called on it.
LinkState == {"new", "connecting", "open", "online", "closing", "down"}

TypeOK ==
  /\ table \in [Name -> Factory \cup {NoFactory}]
  /\ link \in [Factory -> LinkState]
  /\ timer \in [Factory -> Nat \cup {NoTimer}]
  /\ attempts \in [Factory -> Nat]
  /\ shuttingDown \in [Factory -> BOOLEAN]
  /\ protocol \in [Factory -> BOOLEAN]
  /\ setUp \in BOOLEAN
  /\ reactor \in {"ready", "running", "stopped"}
  /\ unloading \in BOOLEAN

Init ==
  /\ table = [n \in Name |-> NoFactory]
  /\ link = [f \in Factory |-> "new"]
  /\ timer = [f \in Factory |-> NoTimer]
  /\ attempts = [f \in Factory |-> 0]
  /\ shuttingDown = [f \in Factory |-> FALSE]
  /\ protocol = [f \in Factory |-> FALSE]
  /\ setUp = FALSE
  /\ reactor = "ready"
  /\ unloading = FALSE

-----------------------------------------------------------------------------
Loaded == {table[n] : n \in Name} \ {NoFactory}
IsMumble(f) == f[1] \in MumbleNames
Opt(f) == Options[f[1]]
Lesser(a, b) == IF a <= b THEN a ELSE b

\* A command reaches the bot through a protocol that is online.
CanCommand == reactor = "running" /\ \E f \in Factory : link[f] = "online"

(***************************************************************************)
(* BaseFactory                                                             *)
(***************************************************************************)
\* Faulty variants named ...Bug are used by the mutants of PROJECT.json only.
ExhaustedEarlyBug(f) == Opt(f).attempts > 0 /\ attempts[f] + 1 >= Opt(f).attempts

ExhaustedLateBug(f) == Opt(f).attempts > 0 /\ attempts[f] > Opt(f).attempts

Exhausted(f) == Opt(f).attempts > 0 /\ attempts[f] >= Opt(f).attempts

RetiredReconnectsBug(f, enabled) == enabled /\ ~Exhausted(f)

ShouldReconnect(f, enabled) == ~shuttingDown[f] /\ enabled /\ ~Exhausted(f)

\* maybe_reconnect, and the assignment of its result to self.task.
MaybeReconnect(f, enabled) ==
  \/ /\ ShouldReconnect(f, enabled)
     /\ attempts' = [attempts EXCEPT ![f] = @ + 1]
     /\ timer' = [timer EXCEPT ![f] =
                    Lesser(Opt(f).delay * (attempts[f] + 1), DefaultMaxDelay)]
  \/ /\ ~ShouldReconnect(f, enabled)
     /\ timer' = [timer EXCEPT ![f] = NoTimer]
     /\ UNCHANGED attempts

\* clientConnected reads the main section only.
CountAfterSuccess(f) == IF GlobalReset THEN 0 ELSE attempts[f]

\* protocol.shutdown(): irc sends QUIT and closes; mumble first sends a text
\* message to its own channel, which raises before its own UserState arrived,
\* and the factory swallows the exception with the transport still up.
\* A connector that is still connecting is left alone.
ProtocolShutdown(f) ==
  IF protocol[f] /\ (link[f] = "online" \/ (link[f] = "open" /\ ~IsMumble(f)))
  THEN "closing" ELSE link[f]

ShutdownKeepsTimerBug(F) ==
  /\ shuttingDown' = [f \in Factory |-> shuttingDown[f] \/ f \in F]
  /\ timer' = timer
  /\ protocol' = [f \in Factory |-> protocol[f] /\ f \notin F]

\* shutdown() of every factory of F.
ShutdownAll(F) ==
  /\ shuttingDown' = [f \in Factory |-> shuttingDown[f] \/ f \in F]
  /\ timer' = [f \in Factory |-> IF f \in F THEN NoTimer ELSE timer[f]]
  /\ protocol' = [f \in Factory |-> protocol[f] /\ f \notin F]

LinksAfterShutdown(F) ==
  [f \in Factory |-> IF f \in F THEN ProtocolShutdown(f) ELSE link[f]]

-----------------------------------------------------------------------------
(***************************************************************************)
(* FactoryManager                                                          *)
(***************************************************************************)
\* load_protocol: a failure (no config, connect() false or raising) leaves
\* the table as it was.
LoadProtocol(n, g) ==
  /\ CanCommand
  /\ table[n] = NoFactory
  /\ link[<<n, g>>] = "new"
  /\ table' = [table EXCEPT ![n] = <<n, g>>]
  /\ link' = [link EXCEPT ![<<n, g>>] = "connecting"]
  /\ UNCHANGED <<facVars, sysVars>>

UnloadKeepsEntryBug(n) ==
  /\ CanCommand
  /\ table[n] # NoFactory
  /\ ShutdownAll({table[n]})
  /\ link' = LinksAfterShutdown({table[n]})
  /\ UNCHANGED <<table, attempts, sysVars>>

UnloadProtocol(n) ==
  /\ CanCommand
  /\ table[n] # NoFactory
  /\ ShutdownAll({table[n]})
  /\ link' = LinksAfterShutdown({table[n]})
  /\ table' = [table EXCEPT ![n] = NoFactory]
  /\ UNCHANGED <<attempts, sysVars>>

\* reload_protocol is an unload and a load in one call; when the load fails
\* the step is that of UnloadProtocol.
ReloadProtocol(n, g) ==
  /\ CanCommand
  /\ table[n] # NoFactory
  /\ link[<<n, g>>] = "new"
  /\ ShutdownAll({table[n]})
  /\ link' = [LinksAfterShutdown({table[n]}) EXCEPT ![<<n, g>>] = "connecting"]
  /\ table' = [table EXCEPT ![n] = <<n, g>>]
  /\ UNCHANGED <<attempts, sysVars>>

\* The synchronous part of unload(), up to its yield.
UnloadBegin ==
  /\ ShutdownAll(Loaded)
  /\ link' = LinksAfterShutdown(Loaded)
  /\ table' = [n \in Name |-> NoFactory]
  /\ unloading' = TRUE
  /\ UNCHANGED attempts

\* The rest of unload(): stops the reactor only if it is running.
UnloadEnd ==
  /\ unloading
  /\ reactor # "stopped"
  /\ unloading' = FALSE
  /\ reactor' = IF reactor = "running" THEN "stopped" ELSE reactor
  /\ UNCHANGED <<table, link, facVars, setUp>>

\* signal_callback
Signal ==
  /\ reactor # "stopped"
  /\ UnloadBegin
  /\ UNCHANGED <<setUp, reactor>>

\* deferred_callback: the plugins are loaded, every configured protocol is
\* set up (those of ok successfully), and with none loaded the bot unloads.
LoadProtocols(ok, g) ==
  /\ ~setUp
  /\ reactor # "stopped"
  /\ setUp' = TRUE
  /\ \/ /\ ok # {}
        /\ table' = [n \in Name |-> IF n \in ok THEN <<n, g>> ELSE table[n]]
        /\ link' = [f \in Factory |->
                      IF f[1] \in ok /\ f[2] = g THEN "connecting" ELSE link[f]]
        /\ UNCHANGED <<facVars, unloading>>
     \/ /\ ok = {}
        /\ UnloadBegin
  /\ UNCHANGED reactor

\* run(): setup() has returned, though the plugins may still be loading.
Run ==
  /\ reactor = "ready"
  /\ reactor' = "running"
  /\ UNCHANGED <<table, link, facVars, setUp, unloading>>

-----------------------------------------------------------------------------
(***************************************************************************)
(* The reactor's callbacks.                                                *)
(***************************************************************************)
TimerChecksTableBug(f) ==
  /\ reactor = "running"
  /\ timer[f] # NoTimer
  /\ table[f[1]] = f
  /\ timer' = [timer EXCEPT ![f] = NoTimer]
  /\ link' = [link EXCEPT ![f] = "connecting"]
  /\ UNCHANGED <<table, attempts, shuttingDown, protocol, sysVars>>

TimerFires(f) ==
  /\ reactor = "running"
  /\ timer[f] # NoTimer
  /\ timer' = [timer EXCEPT ![f] = NoTimer]
  /\ link' = [link EXCEPT ![f] = "connecting"]
  /\ UNCHANGED <<table, attempts, shuttingDown, protocol, sysVars>>

BuiltResetsBug(f) ==
  /\ reactor = "running"
  /\ link[f] = "connecting"
  /\ link' = [link EXCEPT ![f] = "open"]
  /\ protocol' = [protocol EXCEPT ![f] = TRUE]
  /\ attempts' = [attempts EXCEPT ![f] = 0]
  /\ UNCHANGED <<table, timer, shuttingDown, sysVars>>

\* The connector connected and buildProtocol succeeded; it does not look at
\* shutting_down.  Mumble's connectionMade calls clientConnected at once.
Built(f) ==
  /\ reactor = "running"
  /\ link[f] = "connecting"
  /\ link' = [link EXCEPT ![f] = "open"]
  /\ protocol' = [protocol EXCEPT ![f] = TRUE]
  /\ attempts' = [attempts EXCEPT ![f] =
                    IF IsMumble(f) THEN CountAfterSuccess(f) ELSE @]
  /\ UNCHANGED <<table, timer, shuttingDown, sysVars>>

\* irc: signedOn calls clientConnected.  mumble: the own UserState arrives.
SignedOn(f) ==
  /\ reactor = "running"
  /\ link[f] = "open"
  /\ link' = [link EXCEPT ![f] = "online"]
  /\ attempts' = [attempts EXCEPT ![f] =
                    IF IsMumble(f) THEN @ ELSE CountAfterSuccess(f)]
  /\ UNCHANGED <<table, timer, shuttingDown, protocol, sysVars>>

\* buildProtocol raised: remove_protocol takes out whatever factory has the
\* name now, and Twisted reports the connection as failed.
BuildFails(f) ==
  /\ reactor = "running"
  /\ link[f] = "connecting"
  /\ attempts[f] < AttemptCap
  /\ table' = [table EXCEPT ![f[1]] = NoFactory]
  /\ protocol' = [protocol EXCEPT ![f] = FALSE]
  /\ link' = [link EXCEPT ![f] = "down"]
  /\ MaybeReconnect(f, Opt(f).failure)
  /\ UNCHANGED <<shuttingDown, sysVars>>

\* clientConnectionFailed
ConnectionFailed(f) ==
  /\ reactor = "running"
  /\ link[f] = "connecting"
  /\ attempts[f] < AttemptCap
  /\ link' = [link EXCEPT ![f] = "down"]
  /\ MaybeReconnect(f, Opt(f).failure)
  /\ UNCHANGED <<table, shuttingDown, protocol, sysVars>>

\* clientConnectionLost: self.protocol keeps pointing at the dead protocol.
ConnectionLost(f) ==
  /\ reactor = "running"
  /\ link[f] \in {"open", "online", "closing"}
  /\ attempts[f] < AttemptCap
  /\ link' = [link EXCEPT ![f] = "down"]
  /\ MaybeReconnect(f, Opt(f).drop)
  /\ UNCHANGED <<table, shuttingDown, protocol, sysVars>>

FactoryStep(f) ==
  \/ TimerFires(f)
  \/ Built(f)
  \/ SignedOn(f)
  \/ BuildFails(f)
  \/ ConnectionFailed(f)
  \/ ConnectionLost(f)

ManagerStep ==
  \/ \E n \in Name, g \in Generation : LoadProtocol(n, g) \/ ReloadProtocol(n, g)
  \/ \E n \in Name : UnloadProtocol(n)
  \/ \E ok \in SUBSET Configured, g \in Generation : LoadProtocols(ok, g)
  \/ UnloadEnd
  \/ Signal
  \/ Run

Next == ManagerStep \/ \E f \in Factory : FactoryStep(f)

Spec == Init /\ [][Next]_vars

\* The reactor runs the calls that are due, and a connection attempt resolves:
\* connectTCP has a timeout.  Nothing is assumed of the network, of the server,
\* of operators or of signals.
Fairness ==
  \A f \in Factory :
    /\ WF_vars(TimerFires(f))
    /\ WF_vars(Built(f) \/ BuildFails(f) \/ ConnectionFailed(f))

FairSpec == Spec /\ Fairness
=============================================================================
