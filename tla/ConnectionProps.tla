-------------------------- MODULE ConnectionProps --------------------------
(* Properties of Connection: what a factory's reconnections, the table of  *)
(* loaded protocols and the shutdown paths must never get wrong.           *)
EXTENDS Connection

\* A pending retry belongs to a factory whose connector is disconnected, so
\* connector.connect never raises "can't connect in this state", and which is
\* not shut down: shutdown() cancels the one call maybe_reconnect scheduled
\* and no callback arriving later schedules another.
RetryIsSafe ==
  \A f \in Factory : timer[f] # NoTimer => link[f] = "down" /\ ~shuttingDown[f]

\* A factory that was not shut down and is configured to reconnect is never
\* left idle before its attempts are used up (maybe_reconnect), whichever
\* order connections fail, open and drop in.
NeverStranded ==
  \A f \in Factory :
    /\ link[f] = "down" /\ timer[f] = NoTimer /\ ~shuttingDown[f]
    /\ Opt(f).failure /\ Opt(f).drop
    => Opt(f).attempts > 0 /\ attempts[f] = Opt(f).attempts

\* Every factory in the table was set up under that name and has not been
\* shut down: unload_protocol removes what it shuts down, and nothing puts an
\* old generation back.
TableIsCurrent ==
  \A n \in Name : table[n] # NoFactory =>
    LET f == table[n] IN f[1] = n /\ link[f] # "new" /\ ~shuttingDown[f]

Stage == [new |-> 0, connecting |-> 1, open |-> 2, online |-> 3, closing |-> 4, down |-> 5]

\* A factory that has been shut down begins no connection.  One that was being
\* made is completed and used all the same, for buildProtocol does not look at
\* shutting_down; but a connection of such a factory only gets nearer its end,
\* and when it is down it stays so, however it failed or was lost.
RetiredStaysDown ==
  [][\A f \in Factory :
       shuttingDown[f] => Stage[link[f]] <= Stage[link'[f]]]_vars

\* The abstract view of a factory's connection.
Mode(f) ==
  CASE link[f] = "new"                              -> "unused"
    [] link[f] = "connecting"                       -> "trying"
    [] link[f] \in {"open", "online", "closing"}    -> "up"
    [] link[f] = "down" /\ timer[f] # NoTimer       -> "planned"
    [] OTHER                                        -> "idle"

Sup == INSTANCE Supervisor WITH
         Conn    <- Factory,
         Limit   <- [f \in Factory |-> Opt(f).attempts],
         mode    <- [f \in Factory |-> Mode(f)],
         plans   <- attempts,
         retired <- {f \in Factory : shuttingDown[f]}

\* Loading, unloading, reloading and every callback of the reactor together
\* implement the abstract supervisor.
ImplementsSupervisor == Sup!SupSpec

\* A scheduled retry is made unless the bot or the protocol is shut down.
RetryHappens ==
  \A f \in Factory :
    timer[f] # NoTimer ~>
      (link[f] = "connecting" \/ shuttingDown[f] \/ reactor = "stopped")

\* The attempts limit ends a connection that never gets anywhere: a factory
\* with a limit that starts connecting again and again gets online again and
\* again (config/settings.yml.example:27).
NoEndlessRetries ==
  \A f \in Factory :
    /\ Opt(f).attempts > 0
    /\ []<>(link[f] = "connecting" /\ reactor = "running")
    => []<>(link[f] = "online")
=============================================================================
