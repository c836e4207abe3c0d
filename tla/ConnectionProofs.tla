-------------------------- MODULE ConnectionProofs --------------------------
(* Proofs about Connection for every set of protocol names, any number of  *)
(* factories per name and every reconnections section.                     *)
EXTENDS ConnectionProps, TLAPS

USE NameAssumption, OptionsAssumption, ResetAssumption, NoFactoryAssumption

\* A factory's first component is its name, and has an options record.
LEMMA FactoryHasName ==
  ASSUME NEW f \in Factory
  PROVE  /\ f[1] \in Name
         /\ Opt(f) \in Option
         /\ Opt(f).attempts \in Int
         /\ Opt(f).delay \in Nat
         /\ Opt(f).failure \in BOOLEAN
         /\ Opt(f).drop \in BOOLEAN
  BY DEF Factory, Opt, Option

\* What the assignment of maybe_reconnect's result does to a typed state.
LEMMA MaybeReconnectTypes ==
  ASSUME NEW f \in Factory, NEW enabled \in BOOLEAN, TypeOK,
         MaybeReconnect(f, enabled)
  PROVE  /\ timer' \in [Factory -> Nat \cup {NoTimer}]
         /\ attempts' \in [Factory -> Nat]
  BY FactoryHasName
  DEF TypeOK, MaybeReconnect, Lesser, DefaultMaxDelay, NoTimer

\* shutdown() of any set of factories keeps the types it touches.
LEMMA ShutdownTypes ==
  ASSUME NEW F, TypeOK, ShutdownAll(F)
  PROVE  /\ timer' \in [Factory -> Nat \cup {NoTimer}]
         /\ shuttingDown' \in [Factory -> BOOLEAN]
         /\ protocol' \in [Factory -> BOOLEAN]
         /\ LinksAfterShutdown(F) \in [Factory -> LinkState]
  BY DEF TypeOK, ShutdownAll, LinksAfterShutdown, ProtocolShutdown, NoTimer, LinkState

\* The state before setup() is typed.
LEMMA InitTypes == Init => TypeOK
<1> SUFFICES ASSUME Init PROVE TypeOK
  OBVIOUS
<1>1. table \in [Name -> Factory \cup {NoFactory}]
  BY DEF Init
<1>2. link \in [Factory -> LinkState]
  BY DEF Init, LinkState
<1>3. timer \in [Factory -> Nat \cup {NoTimer}]
  BY DEF Init
<1>4. attempts \in [Factory -> Nat]
  BY DEF Init
<1>5. shuttingDown \in [Factory -> BOOLEAN] /\ protocol \in [Factory -> BOOLEAN]
  BY DEF Init
<1> QED
  BY <1>1, <1>2, <1>3, <1>4, <1>5 DEF Init, TypeOK

\* Every command, callback and signal keeps the types.
LEMMA StepTypes == TypeOK /\ [Next]_vars => TypeOK'
<1> SUFFICES ASSUME TypeOK, [Next]_vars PROVE TypeOK'
  OBVIOUS
<1> USE DEF sysVars, facVars
<1>1. ASSUME NEW n \in Name, NEW g \in Generation, LoadProtocol(n, g)
      PROVE TypeOK'
  BY <1>1 DEF LoadProtocol, TypeOK, Factory, LinkState
<1>2. ASSUME NEW n \in Name, NEW g \in Generation, ReloadProtocol(n, g)
      PROVE TypeOK'
  BY <1>2, ShutdownTypes DEF ReloadProtocol, TypeOK, Factory, LinkState
<1>3. ASSUME NEW n \in Name, UnloadProtocol(n)
      PROVE TypeOK'
  BY <1>3, ShutdownTypes DEF UnloadProtocol, TypeOK
<1>4. ASSUME UnloadBegin
      PROVE /\ table' \in [Name -> Factory \cup {NoFactory}]
            /\ link' \in [Factory -> LinkState]
            /\ timer' \in [Factory -> Nat \cup {NoTimer}]
            /\ attempts' \in [Factory -> Nat]
            /\ shuttingDown' \in [Factory -> BOOLEAN]
            /\ protocol' \in [Factory -> BOOLEAN]
            /\ unloading' \in BOOLEAN
  BY <1>4, ShutdownTypes DEF UnloadBegin, TypeOK
<1>5. ASSUME NEW ok \in SUBSET Configured, NEW g \in Generation, LoadProtocols(ok, g)
      PROVE TypeOK'
  BY <1>5, <1>4 DEF LoadProtocols, TypeOK, Factory, LinkState
<1>6. CASE UnloadEnd
  BY <1>6 DEF UnloadEnd, TypeOK
<1>7. CASE Signal
  BY <1>7, <1>4 DEF Signal, TypeOK
<1>8. CASE Run
  BY <1>8 DEF Run, TypeOK
<1>9. ASSUME NEW f \in Factory, TimerFires(f)
      PROVE TypeOK'
  BY <1>9 DEF TimerFires, TypeOK, LinkState, NoTimer
<1>10. ASSUME NEW f \in Factory, Built(f)
       PROVE TypeOK'
  BY <1>10 DEF Built, TypeOK, LinkState, CountAfterSuccess
<1>11. ASSUME NEW f \in Factory, SignedOn(f)
       PROVE TypeOK'
  BY <1>11 DEF SignedOn, TypeOK, LinkState, CountAfterSuccess
<1>12. ASSUME NEW f \in Factory, BuildFails(f)
       PROVE TypeOK'
  BY <1>12, FactoryHasName, MaybeReconnectTypes DEF BuildFails, TypeOK, LinkState
<1>13. ASSUME NEW f \in Factory, ConnectionFailed(f)
       PROVE TypeOK'
  BY <1>13, FactoryHasName, MaybeReconnectTypes DEF ConnectionFailed, TypeOK, LinkState
<1>14. ASSUME NEW f \in Factory, ConnectionLost(f)
       PROVE TypeOK'
  BY <1>14, FactoryHasName, MaybeReconnectTypes DEF ConnectionLost, TypeOK, LinkState
<1>15. CASE UNCHANGED vars
  BY <1>15 DEF vars, TypeOK
<1> QED
  BY <1>1, <1>2, <1>3, <1>5, <1>6, <1>7, <1>8, <1>9, <1>10, <1>11, <1>12,
     <1>13, <1>14, <1>15 DEF Next, ManagerStep, FactoryStep

\* Every variable keeps its type, through every operation of the manager and
\* every callback of the reactor.
THEOREM TypeCorrect == Spec => []TypeOK
<1> QED
  BY InitTypes, StepTypes, PTL DEF Spec

-----------------------------------------------------------------------------
(* The steps by what they do to a factory, so that each invariant is       *)
(* argued once per kind of step.                                           *)

\* A connection that was being tried or was up ends.
Ended(f) ==
  /\ link[f] \in {"connecting", "open", "online", "closing"}
  /\ link' = [link EXCEPT ![f] = "down"]
  /\ MaybeReconnect(f, Opt(f).failure) \/ MaybeReconnect(f, Opt(f).drop)
  /\ shuttingDown' = shuttingDown
  /\ table' = table \/ table' = [table EXCEPT ![f[1]] = NoFactory]

\* A connection gets further.
Advanced(f) ==
  /\ \/ link[f] = "down" /\ timer[f] # NoTimer
        /\ timer' = [timer EXCEPT ![f] = NoTimer]
        /\ link' = [link EXCEPT ![f] = "connecting"]
     \/ link[f] \in {"connecting", "open"} /\ timer' = timer
        /\ link' \in {[link EXCEPT ![f] = "open"], [link EXCEPT ![f] = "online"]}
  /\ \/ attempts' = attempts
     \/ attempts' = [attempts EXCEPT ![f] = 0] /\ link[f] \in {"connecting", "open"}
  /\ UNCHANGED <<table, shuttingDown>>

\* Factories R are shut down and leave the table, new ones C are set up.
Replaced(R, C) ==
  /\ R \subseteq Loaded
  /\ C \subseteq Factory
  /\ \A c \in C : link[c] = "new"
  /\ R # {} => ShutdownAll(R)
  /\ R = {} => UNCHANGED <<timer, shuttingDown>>
  /\ link' = [f \in Factory |-> IF f \in C THEN "connecting" ELSE LinksAfterShutdown(R)[f]]
  /\ attempts' = attempts
  /\ \A n \in Name : \/ table'[n] = table[n] /\ table[n] \notin R
                     \/ table'[n] = NoFactory
                     \/ table'[n] \in C /\ table'[n][1] = n

\* No factory exists before the configured protocols are loaded.
NothingBeforeSetUp == ~setUp => \A f \in Factory : link[f] = "new"

\* Every step is of one of the three kinds, or touches no connection.
LEMMA StepKinds ==
  ASSUME TypeOK, RetryIsSafe, TableIsCurrent, NothingBeforeSetUp, [Next]_vars
  PROVE  \/ \E f \in Factory : Ended(f)
         \/ \E f \in Factory : Advanced(f)
         \/ \E R \in SUBSET Factory, C \in SUBSET Factory : Replaced(R, C)
         \/ UNCHANGED <<table, link, timer, attempts, shuttingDown>>
<1> USE DEF sysVars, facVars
<1>0. \A m \in Name : table[m] # NoFactory => table[m] \in Factory /\ table[m][1] = m
  BY DEF TableIsCurrent, TypeOK
<1>1. ASSUME NEW n \in Name, NEW g \in Generation, LoadProtocol(n, g)
      PROVE Replaced({}, {<<n, g>>})
  BY <1>1 DEF LoadProtocol, Replaced, TypeOK, Factory, LinksAfterShutdown
<1>2. ASSUME NEW n \in Name, NEW g \in Generation, ReloadProtocol(n, g)
      PROVE Replaced({table[n]}, {<<n, g>>})
  <2>1. table[n] \in Loaded /\ <<n, g>> \in Factory
    BY <1>2 DEF ReloadProtocol, TypeOK, Factory, Loaded
  <2>2. \A m \in Name : m # n => table'[m] = table[m] /\ table[m] # table[n]
    BY <1>0, <1>2 DEF ReloadProtocol, TypeOK
  <2>3. table'[n] = <<n, g>>
    BY <1>2 DEF ReloadProtocol, TypeOK
  <2>4. link' = [f \in Factory |-> IF f \in {<<n, g>>} THEN "connecting"
                                   ELSE LinksAfterShutdown({table[n]})[f]]
    BY <1>2, <2>1 DEF ReloadProtocol, LinksAfterShutdown
  <2>5. \A m \in Name : \/ table'[m] = table[m] /\ table[m] \notin {table[n]}
                        \/ table'[m] = NoFactory
                        \/ table'[m] \in {<<n, g>>} /\ table'[m][1] = m
    <3>1. <<n, g>>[1] = n
      OBVIOUS
    <3>2. table'[n] \in {<<n, g>>} /\ table'[n][1] = n
      BY <2>3, <3>1
    <3> QED
      BY <2>2, <3>2
  <2>6. ShutdownAll({table[n]}) /\ link[<<n, g>>] = "new" /\ attempts' = attempts
    BY <1>2 DEF ReloadProtocol
  <2> QED
    BY <2>1, <2>4, <2>5, <2>6 DEF Replaced
<1>3. ASSUME NEW n \in Name, UnloadProtocol(n)
      PROVE Replaced({table[n]}, {})
  <2>1. table[n] \in Loaded
    BY <1>3 DEF UnloadProtocol, TypeOK, Loaded
  <2>2. \A m \in Name : m # n => table'[m] = table[m] /\ table[m] # table[n]
    BY <1>0, <1>3 DEF UnloadProtocol, TypeOK
  <2>3. table'[n] = NoFactory
    BY <1>3 DEF UnloadProtocol, TypeOK
  <2>4. link' = [f \in Factory |-> IF f \in {} THEN "connecting"
                                   ELSE LinksAfterShutdown({table[n]})[f]]
    BY <1>3 DEF UnloadProtocol, LinksAfterShutdown
  <2> QED
    BY <1>3, <2>1, <2>2, <2>3, <2>4 DEF UnloadProtocol, Replaced
<1>4. ASSUME UnloadBegin
      PROVE Replaced(Loaded, {})
  <2>1. link' = [f \in Factory |-> IF f \in {} THEN "connecting"
                                   ELSE LinksAfterShutdown(Loaded)[f]]
    BY <1>4 DEF UnloadBegin, LinksAfterShutdown
  <2>2. CASE Loaded # {}
    BY <1>4, <2>1, <2>2 DEF UnloadBegin, Replaced
  <2>3. CASE Loaded = {}
    <3>1. timer' = timer /\ shuttingDown' = shuttingDown
      BY <1>4, <2>3 DEF UnloadBegin, ShutdownAll, TypeOK
    <3> QED
      BY <1>4, <2>1, <2>3, <3>1 DEF UnloadBegin, Replaced
  <2> QED
    BY <2>2, <2>3
<1>5. ASSUME NEW ok \in SUBSET Configured, NEW g \in Generation,
             LoadProtocols(ok, g), ok # {}
      PROVE Replaced({}, {f \in Factory : f[1] \in ok /\ f[2] = g})
  <2> DEFINE C == {f \in Factory : f[1] \in ok /\ f[2] = g}
  <2>1. ~setUp /\ \A f \in Factory : link[f] = "new"
    BY <1>5 DEF LoadProtocols, NothingBeforeSetUp
  <2>2. link' = [f \in Factory |-> IF f \in C THEN "connecting"
                                   ELSE LinksAfterShutdown({})[f]]
    BY <1>5 DEF LoadProtocols, LinksAfterShutdown, UnloadBegin
  <2>3. \A n \in Name : n \in ok => table'[n] = <<n, g>> /\ <<n, g>> \in C /\ table'[n][1] = n
    BY <1>5 DEF LoadProtocols, Factory
  <2>4. \A n \in Name : n \notin ok => table'[n] = table[n]
    BY <1>5 DEF LoadProtocols
  <2>5. UNCHANGED <<timer, shuttingDown, attempts>>
    BY <1>5 DEF LoadProtocols
  <2> QED
    BY <2>1, <2>2, <2>3, <2>4, <2>5 DEF Replaced
<1>6. ASSUME NEW ok \in SUBSET Configured, NEW g \in Generation, LoadProtocols(ok, g)
      PROVE \E R \in SUBSET Factory, C \in SUBSET Factory : Replaced(R, C)
  <2>1. CASE ok # {}
    BY <1>5, <1>6, <2>1
  <2>2. CASE ok = {}
    <3>1. UnloadBegin
      BY <1>6, <2>2 DEF LoadProtocols
    <3> QED
      BY <1>4, <3>1, <1>0 DEF Loaded
  <2> QED
    BY <2>1, <2>2
<1>7. ASSUME NEW f \in Factory, TimerFires(f)
      PROVE Advanced(f)
  BY <1>7 DEF TimerFires, Advanced, RetryIsSafe
<1>8. ASSUME NEW f \in Factory, Built(f)
      PROVE Advanced(f)
  BY <1>8 DEF Built, Advanced, CountAfterSuccess, TypeOK
<1>9. ASSUME NEW f \in Factory, SignedOn(f)
      PROVE Advanced(f)
  BY <1>9 DEF SignedOn, Advanced, CountAfterSuccess, TypeOK
<1>10. ASSUME NEW f \in Factory, BuildFails(f) \/ ConnectionFailed(f) \/ ConnectionLost(f)
       PROVE Ended(f)
  BY <1>10 DEF BuildFails, ConnectionFailed, ConnectionLost, Ended
<1>11. ASSUME UnloadEnd \/ Run \/ UNCHANGED vars
       PROVE UNCHANGED <<table, link, timer, attempts, shuttingDown>>
  BY <1>11 DEF UnloadEnd, Run, vars
<1>12. ASSUME NEW n \in Name, NEW g \in Generation, LoadProtocol(n, g) \/ ReloadProtocol(n, g)
       PROVE \E R \in SUBSET Factory, C \in SUBSET Factory : Replaced(R, C)
  <2>1. <<n, g>> \in Factory
    BY DEF Factory
  <2>2. CASE LoadProtocol(n, g)
    BY <1>1, <2>1, <2>2
  <2>3. CASE ReloadProtocol(n, g)
    <3>1. {table[n]} \in SUBSET Factory
      BY <1>0, <2>3 DEF ReloadProtocol
    <3> QED
      BY <1>2, <2>1, <2>3, <3>1
  <2> QED
    BY <1>12, <2>2, <2>3
<1>13. ASSUME NEW n \in Name, UnloadProtocol(n)
       PROVE \E R \in SUBSET Factory, C \in SUBSET Factory : Replaced(R, C)
  BY <1>0, <1>3, <1>13 DEF UnloadProtocol
<1>14. ASSUME Signal
       PROVE \E R \in SUBSET Factory, C \in SUBSET Factory : Replaced(R, C)
  BY <1>0, <1>4, <1>14 DEF Signal, Loaded
<1> QED
  BY <1>6, <1>7, <1>8, <1>9, <1>10, <1>11, <1>12, <1>13, <1>14
  DEF Next, ManagerStep, FactoryStep

-----------------------------------------------------------------------------
(* The inductive invariant: the checked invariants and the facts they need *)
(* (nothing exists before set-up, an unused factory is not shut down, and  *)
(* the counter never passes the limit).                                    *)

UnusedIsFresh == \A f \in Factory : link[f] = "new" => ~shuttingDown[f]

WithinBudget ==
  \A f \in Factory : Opt(f).attempts > 0 => attempts[f] <= Opt(f).attempts

Inv ==
  /\ TypeOK
  /\ NothingBeforeSetUp
  /\ UnusedIsFresh
  /\ RetryIsSafe
  /\ TableIsCurrent
  /\ WithinBudget
  /\ NeverStranded

\* maybe_reconnect concerns one factory: it plans one more retry, or none.
LEMMA MaybeReconnectEffect ==
  ASSUME NEW f \in Factory, NEW enabled, TypeOK, MaybeReconnect(f, enabled)
  PROVE  /\ \A h \in Factory : h # f => timer'[h] = timer[h] /\ attempts'[h] = attempts[h]
         /\ \/ /\ ShouldReconnect(f, enabled)
               /\ attempts'[f] = attempts[f] + 1
            \/ /\ ~ShouldReconnect(f, enabled)
               /\ attempts'[f] = attempts[f]
               /\ timer'[f] = NoTimer
  BY DEF TypeOK, MaybeReconnect

\* A connection that ended, and its new plan if it has one, keep the invariant.
LEMMA EndedKeepsInv ==
  ASSUME NEW f \in Factory, Inv, TypeOK', Ended(f)
  PROVE  UnusedIsFresh' /\ RetryIsSafe' /\ TableIsCurrent' /\ WithinBudget' /\ NeverStranded'
<1>p. PICK enabled \in {Opt(f).failure, Opt(f).drop} : MaybeReconnect(f, enabled)
  BY DEF Ended
<1>0. TypeOK /\ UnusedIsFresh /\ RetryIsSafe /\ TableIsCurrent /\ WithinBudget /\ NeverStranded
  BY DEF Inv
<1>1. /\ \A h \in Factory : h # f => timer'[h] = timer[h] /\ attempts'[h] = attempts[h]
      /\ \/ ShouldReconnect(f, enabled) /\ attempts'[f] = attempts[f] + 1
         \/ /\ ~ShouldReconnect(f, enabled)
            /\ attempts'[f] = attempts[f]
            /\ timer'[f] = NoTimer
  BY <1>0, <1>p, MaybeReconnectEffect
<1>2. /\ link[f] \notin {"new", "down"}
      /\ link'[f] = "down"
      /\ \A h \in Factory : h # f => link'[h] = link[h]
      /\ shuttingDown' = shuttingDown
  BY <1>0 DEF Ended, TypeOK
<1>3. RetryIsSafe'
  BY <1>0, <1>1, <1>2 DEF RetryIsSafe, ShouldReconnect
<1>4. TableIsCurrent'
  <2> SUFFICES ASSUME NEW n \in Name, table'[n] # NoFactory
               PROVE  /\ table'[n][1] = n
                      /\ link'[table'[n]] # "new"
                      /\ ~shuttingDown'[table'[n]]
    BY DEF TableIsCurrent
  <2>1. table'[n] = table[n]
    BY <1>0, FactoryHasName DEF Ended, TypeOK
  <2>2. table[n] \in Factory
    BY <1>0, <2>1 DEF TypeOK
  <2> QED
    BY <1>0, <1>2, <2>1, <2>2 DEF TableIsCurrent
<1>5. WithinBudget'
  <2>1. Opt(f).attempts > 0 => attempts'[f] <= Opt(f).attempts
    BY <1>0, <1>1, FactoryHasName DEF WithinBudget, ShouldReconnect, Exhausted, TypeOK
  <2> QED
    BY <1>0, <1>1, <2>1 DEF WithinBudget, Opt
<1>6. NeverStranded'
  <2> SUFFICES ASSUME NEW h \in Factory,
                      link'[h] = "down", timer'[h] = NoTimer, ~shuttingDown'[h],
                      Opt(h).failure, Opt(h).drop
               PROVE  Opt(h).attempts > 0 /\ attempts'[h] = Opt(h).attempts
    BY DEF NeverStranded, Opt
  <2>1. CASE h # f
    BY <1>0, <1>1, <1>2, <2>1 DEF NeverStranded
  <2>2. CASE h = f
    <3>1. enabled /\ ~shuttingDown[f]
      BY <1>2, <2>2
    <3>2. ~ShouldReconnect(f, enabled)
      <4> SUFFICES ASSUME ShouldReconnect(f, enabled) PROVE FALSE
        OBVIOUS
      <4>1. timer'[f] = Lesser(Opt(f).delay * (attempts[f] + 1), DefaultMaxDelay)
        BY <1>0, <1>p DEF MaybeReconnect, TypeOK
      <4>2. Opt(f).delay * (attempts[f] + 1) \in Nat
        BY <1>0, FactoryHasName DEF TypeOK
      <4> QED
        BY <2>2, <4>1, <4>2 DEF Lesser, DefaultMaxDelay, NoTimer
    <3>3. Exhausted(f) /\ attempts'[f] = attempts[f]
      BY <1>1, <3>1, <3>2 DEF ShouldReconnect
    <3>4. Opt(f).attempts > 0 /\ attempts[f] >= Opt(f).attempts
      BY <3>3 DEF Exhausted
    <3>5. attempts[f] <= Opt(f).attempts
      BY <1>0, <3>4 DEF WithinBudget
    <3>6. attempts[f] \in Int /\ Opt(f).attempts \in Int
      BY <1>0, FactoryHasName DEF TypeOK
    <3> QED
      BY <2>2, <3>3, <3>4, <3>5, <3>6
  <2> QED
    BY <2>1, <2>2
<1>7. UnusedIsFresh'
  BY <1>0, <1>2 DEF UnusedIsFresh
<1> QED
  BY <1>3, <1>4, <1>5, <1>6, <1>7

\* A connection that was tried or came up keeps the invariant.
LEMMA AdvancedKeepsInv ==
  ASSUME NEW f \in Factory, Inv, TypeOK', Advanced(f)
  PROVE  UnusedIsFresh' /\ RetryIsSafe' /\ TableIsCurrent' /\ WithinBudget' /\ NeverStranded'
<1>0. TypeOK /\ UnusedIsFresh /\ RetryIsSafe /\ TableIsCurrent /\ WithinBudget /\ NeverStranded
  BY DEF Inv
<1>1. /\ link'[f] \in {"connecting", "open", "online"}
      /\ timer'[f] = NoTimer
      /\ attempts'[f] \in {0, attempts[f]}
      /\ \A h \in Factory : h # f => /\ link'[h] = link[h]
                                     /\ timer'[h] = timer[h]
                                     /\ attempts'[h] = attempts[h]
      /\ shuttingDown' = shuttingDown /\ table' = table
  BY <1>0 DEF Advanced, TypeOK, RetryIsSafe
<1>2. RetryIsSafe'
  BY <1>0, <1>1 DEF RetryIsSafe
<1>3. TableIsCurrent'
  BY <1>0, <1>1 DEF TableIsCurrent, TypeOK
<1>4. WithinBudget'
  BY <1>0, <1>1, FactoryHasName DEF WithinBudget, Opt
<1>5. NeverStranded'
  BY <1>0, <1>1 DEF NeverStranded, Opt
<1>6. UnusedIsFresh'
  BY <1>0, <1>1 DEF UnusedIsFresh
<1> QED
  BY <1>2, <1>3, <1>4, <1>5, <1>6

\* Shutting factories down and starting new ones keep the invariant.
LEMMA ReplacedKeepsInv ==
  ASSUME NEW R \in SUBSET Factory, NEW C \in SUBSET Factory,
         Inv, TypeOK', Replaced(R, C)
  PROVE  UnusedIsFresh' /\ RetryIsSafe' /\ TableIsCurrent' /\ WithinBudget' /\ NeverStranded'
<1>0. TypeOK /\ UnusedIsFresh /\ RetryIsSafe /\ TableIsCurrent /\ WithinBudget /\ NeverStranded
  BY DEF Inv
<1>1. \A f \in Factory : f \in R =>
        timer'[f] = NoTimer /\ shuttingDown'[f] /\ attempts'[f] = attempts[f]
  BY DEF Replaced, ShutdownAll
<1>2. \A f \in Factory : f \notin R =>
        /\ timer'[f] = timer[f]
        /\ shuttingDown'[f] = shuttingDown[f]
        /\ attempts'[f] = attempts[f]
        /\ f \notin C => link'[f] = link[f]
  BY <1>0 DEF Replaced, ShutdownAll, LinksAfterShutdown, TypeOK
<1>3. \A f \in Factory : f \in C => link[f] = "new" /\ link'[f] = "connecting"
  BY DEF Replaced
<1>4. \A f \in Factory : link'[f] = "new" => link[f] = "new"
  BY <1>0 DEF Replaced, LinksAfterShutdown, ProtocolShutdown, TypeOK
<1>9. \A f \in Factory : f \in C => f \notin R
  BY <1>0, <1>3 DEF Replaced, Loaded, TableIsCurrent
<1>5. RetryIsSafe'
  BY <1>0, <1>1, <1>2, <1>3 DEF RetryIsSafe
<1>6. TableIsCurrent'
  <2> SUFFICES ASSUME NEW n \in Name, table'[n] # NoFactory
               PROVE  /\ table'[n][1] = n
                      /\ link'[table'[n]] # "new"
                      /\ ~shuttingDown'[table'[n]]
    BY DEF TableIsCurrent
  <2>1. CASE table'[n] = table[n] /\ table[n] \notin R
    BY <1>0, <1>2, <1>4, <2>1 DEF TableIsCurrent, TypeOK
  <2>2. CASE table'[n] \in C /\ table'[n][1] = n
    BY <1>0, <1>2, <1>3, <1>9, <2>2 DEF UnusedIsFresh
  <2> QED
    BY <2>1, <2>2 DEF Replaced
<1>7. WithinBudget'
  BY <1>0, <1>1, <1>2 DEF WithinBudget, Opt
<1>8. NeverStranded'
  BY <1>0, <1>1, <1>2, <1>3 DEF NeverStranded, Opt
<1>10. UnusedIsFresh'
  <2> SUFFICES ASSUME NEW f \in Factory, link'[f] = "new" PROVE ~shuttingDown'[f]
    BY DEF UnusedIsFresh
  <2>1. link[f] = "new" /\ f \notin R
    BY <1>0, <1>4 DEF Replaced, Loaded, TableIsCurrent
  <2> QED
    BY <1>0, <1>2, <2>1 DEF UnusedIsFresh
<1> QED
  BY <1>5, <1>6, <1>7, <1>8, <1>10

\* Before set-up only the plugins, the reactor and signals can do anything.
LEMMA SetUpKeepsInv ==
  ASSUME Inv, TypeOK', [Next]_vars
  PROVE  NothingBeforeSetUp'
<1> SUFFICES ASSUME ~setUp' PROVE \A f \in Factory : link'[f] = "new"
  BY DEF NothingBeforeSetUp
<1> USE DEF sysVars, facVars
<1>1. ~setUp
  BY DEF Inv, TypeOK, Next, ManagerStep, FactoryStep, LoadProtocol, ReloadProtocol,
     UnloadProtocol, LoadProtocols, UnloadEnd, Signal, Run, TimerFires, Built,
     SignedOn, BuildFails, ConnectionFailed, ConnectionLost, vars
<1>2. \A f \in Factory : link[f] = "new" /\ timer[f] = NoTimer
  BY <1>1 DEF Inv, NothingBeforeSetUp, RetryIsSafe
<1>3. ~CanCommand
  BY <1>2 DEF CanCommand
<1>4. CASE Signal
  BY <1>2, <1>4 DEF Signal, UnloadBegin, LinksAfterShutdown, ProtocolShutdown
<1>5. CASE UnloadEnd \/ Run \/ UNCHANGED vars
  BY <1>2, <1>5 DEF UnloadEnd, Run, vars
<1>6. ASSUME NEW f \in Factory PROVE ~FactoryStep(f)
  BY <1>2, <1>6 DEF FactoryStep, TimerFires, Built, SignedOn, BuildFails,
     ConnectionFailed, ConnectionLost
<1>7. ASSUME NEW ok \in SUBSET Configured, NEW g \in Generation PROVE ~LoadProtocols(ok, g)
  BY <1>7 DEF LoadProtocols
<1> QED
  BY <1>3, <1>4, <1>5, <1>6, <1>7
  DEF Next, ManagerStep, LoadProtocol, ReloadProtocol, UnloadProtocol

\* The inductive invariant holds in every reachable state.
THEOREM Invariance == Spec => []Inv
<1>1. Init => Inv
  <2> SUFFICES ASSUME Init PROVE Inv
    OBVIOUS
  <2>1. TypeOK
    BY InitTypes
  <2>2. NothingBeforeSetUp /\ UnusedIsFresh /\ RetryIsSafe /\ TableIsCurrent
    BY DEF Init, NothingBeforeSetUp, UnusedIsFresh, RetryIsSafe, TableIsCurrent
  <2>3. WithinBudget
    BY FactoryHasName DEF Init, WithinBudget
  <2>4. NeverStranded
    BY DEF Init, NeverStranded
  <2> QED
    BY <2>1, <2>2, <2>3, <2>4 DEF Inv
<1>2. Inv /\ [Next]_vars => Inv'
  <2> SUFFICES ASSUME Inv, [Next]_vars PROVE Inv'
    OBVIOUS
  <2>1. TypeOK'
    BY StepTypes DEF Inv
  <2>2. NothingBeforeSetUp'
    BY <2>1, SetUpKeepsInv
  <2>3. UnusedIsFresh' /\ RetryIsSafe' /\ TableIsCurrent' /\ WithinBudget' /\ NeverStranded'
    <3>1. CASE \E f \in Factory : Ended(f)
      BY <2>1, <3>1, EndedKeepsInv
    <3>2. CASE \E f \in Factory : Advanced(f)
      BY <2>1, <3>2, AdvancedKeepsInv
    <3>3. CASE \E R \in SUBSET Factory, C \in SUBSET Factory : Replaced(R, C)
      BY <2>1, <3>3, ReplacedKeepsInv
    <3>4. CASE UNCHANGED <<table, link, timer, attempts, shuttingDown>>
      BY <3>4 DEF Inv, UnusedIsFresh, RetryIsSafe, TableIsCurrent, WithinBudget,
                  NeverStranded, Opt
    <3> QED
      BY <3>1, <3>2, <3>3, <3>4, StepKinds DEF Inv
  <2> QED
    BY <2>1, <2>2, <2>3 DEF Inv
<1> QED
  BY <1>1, <1>2, PTL DEF Spec

\* connector.connect is only ever scheduled for a disconnected connector of a
\* factory that is not shut down.
THEOREM RetriesAreSafe == Spec => []RetryIsSafe
<1>1. Inv => RetryIsSafe
  BY DEF Inv
<1> QED
  BY <1>1, Invariance, PTL

\* A reconnecting factory goes idle only with its attempts used up.
THEOREM NoneStranded == Spec => []NeverStranded
<1>1. Inv => NeverStranded
  BY DEF Inv
<1> QED
  BY <1>1, Invariance, PTL

\* The table holds only current factories, under their own names.
THEOREM TableStaysCurrent == Spec => []TableIsCurrent
<1>1. Inv => TableIsCurrent
  BY DEF Inv
<1> QED
  BY <1>1, Invariance, PTL

\* What a factory that is shut down still has of a connection only gets nearer
\* its end.
THEOREM ShutdownIsFinal == Spec => RetiredStaysDown
<1>1. Inv /\ [Next]_vars =>
        [\A f \in Factory : shuttingDown[f] => Stage[link[f]] <= Stage[link'[f]]]_vars
  <2> SUFFICES ASSUME Inv, [Next]_vars, NEW f \in Factory, shuttingDown[f]
               PROVE  Stage[link[f]] <= Stage[link'[f]]
    OBVIOUS
  <2>0. TypeOK /\ timer[f] = NoTimer /\ link[f] \in LinkState
    BY DEF Inv, RetryIsSafe, TypeOK
  <2>1. ASSUME NEW h \in Factory, Ended(h) PROVE link'[f] \in {link[f], "down"}
    BY <2>0, <2>1 DEF Ended, TypeOK
  <2>2. ASSUME NEW h \in Factory, Advanced(h)
        PROVE  \/ link'[f] = link[f]
               \/ link[f] \in {"connecting", "open"} /\ link'[f] = "online"
               \/ link[f] = "connecting" /\ link'[f] = "open"
    BY <2>0, <2>2 DEF Advanced, TypeOK
  <2>3. ASSUME NEW R \in SUBSET Factory, NEW C \in SUBSET Factory, Replaced(R, C)
        PROVE  \/ link'[f] = link[f]
               \/ link[f] = "new" /\ link'[f] = "connecting"
               \/ link[f] \in {"open", "online"} /\ link'[f] = "closing"
    BY <2>0, <2>3 DEF Replaced, LinksAfterShutdown, ProtocolShutdown
  <2>4. \/ link'[f] \in {link[f], "down"}
        \/ link[f] \in {"connecting", "open"} /\ link'[f] = "online"
        \/ link[f] = "connecting" /\ link'[f] = "open"
        \/ link[f] = "new" /\ link'[f] = "connecting"
        \/ link[f] \in {"open", "online"} /\ link'[f] = "closing"
    BY <2>0, <2>1, <2>2, <2>3, StepKinds DEF Inv
  <2> QED
    BY <2>0, <2>4 DEF Stage, LinkState
<1> QED
  BY <1>1, Invariance, PTL DEF Spec, RetiredStaysDown

-----------------------------------------------------------------------------
(***************************************************************************)
(* The refinement: each kind of step is a step of the supervisor           *)
(***************************************************************************)
Modes == [f \in Factory |-> Mode(f)]
Retired == {f \in Factory : shuttingDown[f]}

\* The connection of one factory changes, and nobody is retired.
LEMMA OneModeChanges ==
  ASSUME NEW f \in Factory, TypeOK, TypeOK', shuttingDown' = shuttingDown,
         \A h \in Factory : h # f => link'[h] = link[h] /\ timer'[h] = timer[h]
  PROVE  Modes' = [Modes EXCEPT ![f] = Mode(f)'] /\ Retired' = Retired
<1>1. \A h \in Factory : h # f => Mode(h)' = Mode(h)
  BY DEF Mode
<1> QED
  BY <1>1 DEF Modes, Retired

\* A connection that ended is planned again or given up.
LEMMA EndedMaps ==
  ASSUME NEW f \in Factory, Inv, TypeOK', Ended(f)
  PROVE  Sup!Plan(f) \/ Sup!GiveUp(f)
<1>0. TypeOK
  BY DEF Inv
<1>1. PICK enabled \in {Opt(f).failure, Opt(f).drop} : MaybeReconnect(f, enabled)
  BY DEF Ended
<1>2. \A h \in Factory : h # f => link'[h] = link[h] /\ timer'[h] = timer[h]
  BY <1>0, <1>1, MaybeReconnectEffect DEF Ended, TypeOK
<1>3. Modes' = [Modes EXCEPT ![f] = Mode(f)'] /\ Retired' = Retired
  BY <1>0, <1>2, OneModeChanges DEF Ended
<1>4. Mode(f) \in {"trying", "up"} /\ link'[f] = "down"
  BY <1>0 DEF Ended, Mode, TypeOK
<1>5. CASE ShouldReconnect(f, enabled)
  <2>1. attempts' = [attempts EXCEPT ![f] = @ + 1] /\ timer'[f] # NoTimer
    <3> DEFINE d == Opt(f).delay
               n == attempts[f] + 1
    <3>1. /\ attempts' = [attempts EXCEPT ![f] = @ + 1]
          /\ timer'[f] = Lesser(d * n, DefaultMaxDelay)
      BY <1>0, <1>1, <1>5 DEF MaybeReconnect, TypeOK
    <3>2. d \in Nat /\ n \in Nat
      BY <1>0, FactoryHasName DEF TypeOK
    <3> HIDE DEF d, n
    <3>3. d * n \in Nat
      BY <3>2
    <3> QED
      BY <3>1, <3>3 DEF Lesser, DefaultMaxDelay, NoTimer
  <2>2. Mode(f)' = "planned"
    BY <1>4, <2>1 DEF Mode
  <2>3. ~shuttingDown[f] /\ (Opt(f).attempts > 0 => attempts[f] < Opt(f).attempts)
    BY <1>0, <1>5, FactoryHasName DEF ShouldReconnect, Exhausted, TypeOK
  <2> QED
    BY <1>3, <1>4, <2>1, <2>2, <2>3 DEF Sup!Plan, Modes, Retired
<1>6. CASE ~ShouldReconnect(f, enabled)
  <2>1. attempts' = attempts /\ timer'[f] = NoTimer
    BY <1>0, <1>1, <1>6 DEF MaybeReconnect, TypeOK
  <2>2. Mode(f)' = "idle"
    BY <1>4, <2>1 DEF Mode
  <2> QED
    BY <1>3, <1>4, <2>1, <2>2 DEF Sup!GiveUp, Modes, Retired
<1> QED
  BY <1>5, <1>6

\* A timer that fires is a retry, and what gets further succeeds.
LEMMA AdvancedMaps ==
  ASSUME NEW f \in Factory, Inv, TypeOK', Advanced(f)
  PROVE  Sup!Retry(f) \/ Sup!Succeed(f)
<1>0. TypeOK
  BY DEF Inv
<1>1. \A h \in Factory : h # f => link'[h] = link[h] /\ timer'[h] = timer[h]
  BY <1>0 DEF Advanced, TypeOK
<1>2. Modes' = [Modes EXCEPT ![f] = Mode(f)'] /\ Retired' = Retired
  BY <1>0, <1>1, OneModeChanges DEF Advanced
<1>3. CASE link[f] = "down"
  <2>1. timer[f] # NoTimer /\ link'[f] = "connecting" /\ attempts' = attempts
    BY <1>0, <1>3 DEF Advanced, TypeOK
  <2>2. Mode(f) = "planned" /\ Mode(f)' = "trying"
    BY <1>3, <2>1 DEF Mode
  <2> QED
    BY <1>2, <2>1, <2>2 DEF Sup!Retry, Modes, Retired
<1>4. CASE link[f] # "down"
  <2>1. link[f] \in {"connecting", "open"} /\ link'[f] \in {"open", "online"}
    BY <1>0, <1>4 DEF Advanced, TypeOK
  <2>2. Mode(f)' = "up" /\ (Mode(f) = "trying" \/ Mode(f) = "up")
    BY <2>1 DEF Mode
  <2>3. attempts' \in {attempts, [attempts EXCEPT ![f] = 0]}
    BY DEF Advanced
  <2>4. Mode(f) = "up" => Modes' = Modes
    BY <1>2, <2>2 DEF Modes
  <2> QED
    BY <1>2, <2>2, <2>3, <2>4 DEF Sup!Succeed, Modes, Retired
<1> QED
  BY <1>3, <1>4

\* Unloading and loading retire factories and start others.
LEMMA ReplacedMaps ==
  ASSUME NEW R \in SUBSET Factory, NEW C \in SUBSET Factory, Inv, TypeOK', Replaced(R, C)
  PROVE  Sup!Retire(R, C)
<1>0. TypeOK /\ TableIsCurrent
  BY DEF Inv
<1>1. \A f \in C : link[f] = "new" /\ link'[f] = "connecting"
  BY DEF Replaced
<1>2. R \cap C = {}
  BY <1>0, <1>1 DEF Replaced, Loaded, TableIsCurrent
<1>3. \A f \in Factory : /\ shuttingDown'[f] <=> shuttingDown[f] \/ f \in R
                         /\ timer'[f] = IF f \in R THEN NoTimer ELSE timer[f]
  BY <1>0 DEF Replaced, ShutdownAll, TypeOK
<1>4. Retired' = Retired \cup R
  BY <1>3 DEF Retired
<1>5. \A f \in C : Mode(f) = "unused" /\ Mode(f)' = "trying"
  BY <1>1 DEF Mode
<1>6. \A f \in Factory \ C :
        link'[f] = IF f \in R THEN ProtocolShutdown(f) ELSE link[f]
  BY DEF Replaced, LinksAfterShutdown
<1>7. \A f \in R : f \notin C /\ Mode(f)' = IF Mode(f) = "planned" THEN "idle" ELSE Mode(f)
  <2> TAKE f \in R
  <2>1. f \in Factory \ C /\ timer'[f] = NoTimer /\ link'[f] = ProtocolShutdown(f)
    BY <1>2, <1>3, <1>6
  <2>2. \/ link'[f] = link[f]
        \/ link[f] \in {"open", "online"} /\ link'[f] = "closing"
    BY <2>1 DEF ProtocolShutdown
  <2>3. CASE link[f] \in {"open", "online"} /\ link'[f] = "closing"
    BY <2>1, <2>3 DEF Mode
  <2>4. CASE link'[f] = link[f]
    BY <2>1, <2>4 DEF Mode
  <2> QED
    BY <2>1, <2>2, <2>3, <2>4
<1>8. \A f \in Factory \ (R \cup C) : Mode(f)' = Mode(f)
  BY <1>3, <1>6 DEF Mode
<1>9. Modes' = [f \in Factory |-> IF f \in C THEN "trying"
                   ELSE IF f \in R /\ Modes[f] = "planned" THEN "idle" ELSE Modes[f]]
  BY <1>5, <1>7, <1>8 DEF Modes
<1>10. attempts' = attempts
  BY DEF Replaced
<1> QED
  BY <1>2, <1>4, <1>5, <1>9, <1>10 DEF Sup!Retire, Modes, Retired

\* For any names, factories and settings: the factory manager, the factories
\* and the reactor's callbacks together do nothing the supervisor does not
\* allow, who plans a bounded number of retries for one connection and none
\* for one that is retired.
THEOREM Refinement == Spec => ImplementsSupervisor
<1>1. Init => Sup!SupInit
  BY DEF Init, Sup!SupInit, Mode
<1>2. Inv /\ Inv' /\ [Next]_vars => [Sup!SupNext]_(Sup!supVars)
  <2> SUFFICES ASSUME Inv, Inv', [Next]_vars PROVE [Sup!SupNext]_(Sup!supVars)
    OBVIOUS
  <2>0. TypeOK'
    BY DEF Inv
  <2>1. CASE \E f \in Factory : Ended(f)
    BY <2>0, <2>1, EndedMaps DEF Sup!SupNext
  <2>2. CASE \E f \in Factory : Advanced(f)
    BY <2>0, <2>2, AdvancedMaps DEF Sup!SupNext
  <2>3. CASE \E R \in SUBSET Factory, C \in SUBSET Factory : Replaced(R, C)
    BY <2>0, <2>3, ReplacedMaps DEF Sup!SupNext
  <2>4. CASE UNCHANGED <<table, link, timer, attempts, shuttingDown>>
    BY <2>4 DEF Sup!supVars, Mode
  <2> QED
    BY <2>1, <2>2, <2>3, <2>4, StepKinds DEF Inv
<1> QED
  BY <1>1, <1>2, Invariance, PTL DEF Spec, ImplementsSupervisor, Sup!SupSpec
=============================================================================
