---------------------------- MODULE PluginsProps ----------------------------
(* Properties of Plugins: what overlapping loads, unloads and shutdowns    *)
(* must do to the table of plugins and to their registrations.             *)
EXTENDS Plugins

Owns(o) == command[o[1]] = o \/ handler[o[1]] = o

\* Some operation has unregistered o and waits for its deactivate().
Deactivating(o) == \E p \in Op : op[p].waits = o /\ ~Loading(p)

Has(n, what) == what \in {Registers[n][i] : i \in DOMAIN Registers[n]}

\* An add_callback that clashes is all that keeps two plugins of a name apart
\* while one is slow: that needs a set-up that comes to register a handler.
Guarded(n) == Has(n, "handler") /\ n \notin GivesUp

\* A plugin in plugin_objects gets its events until an unload of it begins: no
\* failing, clashing or overlapping operation takes its handlers away or keeps
\* them from it.  It answers its command too, unless one of its name that failed
\* has kept it: register_command only warns (commands/manager.py:110).  A slow
\* one that asks before its handler may also be refused for one that is unloaded
\* by the time it goes on.  None of this holds for a plugin that gave up, nor
\* for slow names without a guard, nor for those that are slow both ways: with
\* them an unload, which removes handlers by name, takes those of an object
\* that is still setting up.
LoadedKeepsRegistrations ==
  \A n \in Name :
    /\ n \in SlowSetup \cup SlowDeactivate => Guarded(n)
    /\ n \notin SlowSetup \cap SlowDeactivate
    /\ Present(n) /\ ~Deactivating(objects[n]) /\ life[objects[n]] = "loaded"
    => /\ Has(n, "handler") => handler[n] = objects[n]
       /\ Has(n, "command") =>
            \/ command[n] = objects[n]
            \/ command[n] # None /\ life[command[n]] = "failed"
            \/ n \in SlowSetup /\ Registers[n][1] = "command"

\* An unloaded plugin is never called again: not by a command, not by an
\* event, whichever operations ran between its unregistering and its end.
UnloadedOwnsNothing ==
  \A o \in Object : life[o] = "unloaded" => ~Owns(o)

\* plugin_objects is exactly the objects whose loading succeeded and that were
\* not unloaded: overlapping operations do not overwrite each other's entry.
\* Only failed set-ups leave registrations behind for an object that is not in
\* it and so cannot be unloaded.  Two things break this.  With a slow
\* deactivate(), the second of two overlapping unloads deletes what was loaded
\* in between.  And two slow set-ups of a name may both end as loaded when
\* neither comes to add_callback: plugins with commands only, or that give up.
TableIsExact ==
  \A o \in Object :
    /\ o[1] \notin SlowDeactivate
    /\ o[1] \in SlowSetup => Guarded(o[1])
    => /\ life[o] \in {"loaded", "gaveUp"} <=> objects[o[1]] = o
       /\ Owns(o) => objects[o[1]] = o \/ life[o] \in {"settingUp", "failed"}

\* unload() ends: whatever is under way when a signal or the shutdown command
\* arrives, the reactor stops.  The one exception is a shutdown command whose
\* unload_plugin loses its entry to an overlapping one and raises KeyError; a
\* signal stops the reactor even then.
ShutdownStops ==
  \A p \in Op :
    /\ op[p].kind = "signal" ~> stopped
    /\ op[p].kind = "shutdown"
         ~> (stopped \/ (reply.kind = "shutdown" /\ reply.result = "KeyError"))
=============================================================================
