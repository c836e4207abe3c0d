--------------------------- MODULE PluginsProofs ---------------------------
(***************************************************************************)
(* Proofs about plugins.  Loading and Plugins, for any plugins,            *)
(* dependencies and number of overlapping operations: what is loaded comes *)
(* in the right order, plugin_objects is exact, what is in it keeps its    *)
(* registrations, and an unloaded plugin is never called again.            *)
(* Chat, for any links, factoids and requests that overlap: a link is      *)
(* shortened once, a change takes effect, and answers are for who asks.    *)
(***************************************************************************)
EXTENDS Loading, PluginsProps, Chat, FiniteSetTheorems, WellFoundedInduction, TLAPS

-----------------------------------------------------------------------------
(***************************************************************************)
(* What is true of the operations under way                                *)
(***************************************************************************)
\* What plugin_objects has under a name is a plugin of that name that is loaded.
ObjectsKnown ==
  \A n \in Name : Present(n) =>
    objects[n][1] = n /\ life[objects[n]] \in {"loaded", "gaveUp"}

\* An object is set up by one load, which is at its name.
SetUpsAreTrue ==
  \A p \in Op : op[p].sets # None =>
    /\ life[op[p].sets] = "settingUp"
    /\ Loading(p) /\ op[p].todo # <<>> /\ op[p].sets[1] = At(p)
    /\ op[p].made <= Len(Registers[At(p)])
    /\ \A q \in Op : op[q].sets = op[p].sets => q = p

SomeoneSetsUp ==
  \A o \in Object : life[o] = "settingUp" => \E p \in Op : op[p].sets = o

\* A load waits for what it sets up.  An unload waits for what is slow to
\* deactivate, was loaded once, and has lost its registrations.
WaitIsTrue(p) ==
  /\ op[p].todo # <<>>
  /\ Loading(p) => op[p].waits = op[p].sets
  /\ ~Loading(p) => /\ op[p].waits[1] = At(p)
                    /\ life[op[p].waits] \in {"loaded", "gaveUp", "unloaded"}
                    /\ ~Owns(op[p].waits)
                    /\ At(p) \in SlowDeactivate

WaitsAreTrue == \A p \in Op : op[p].waits # None => WaitIsTrue(p)

\* A set-up that never waits is all the reactor does, for a name with no entry.
QuickSetUps ==
  \A p \in Op : op[p].sets # None /\ At(p) \notin SlowSetup =>
    running = p /\ op[p].waits = None /\ ~Present(At(p))

\* An operation that is none has no names to go through.
IdleIsIdle == \A p \in Op : op[p].kind = "idle" => op[p].todo = <<>>

\* What is not set up yet, or unloaded, has no registrations; and what is
\* registered under a name is an object of that name.
SilentOwnNothing ==
  \A o \in Object : life[o] \in {"unused", "unloaded"} => ~Owns(o)

RegisteredByName ==
  \A n \in Name : /\ command[n] # None => command[n][1] = n
                  /\ handler[n] # None => handler[n][1] = n

GivenUp == \A o \in Object : life[o] = "gaveUp" => o[1] \in GivesUp

Inv ==
  /\ TypeOK /\ ObjectsKnown /\ SetUpsAreTrue /\ SomeoneSetsUp /\ WaitsAreTrue
  /\ QuickSetUps /\ IdleIsIdle /\ SilentOwnNothing /\ RegisteredByName /\ GivenUp

-----------------------------------------------------------------------------
(***************************************************************************)
(* What the steps do                                                       *)
(***************************************************************************)
LEMMA OperationIs ==
  ASSUME TypeOK, NEW p \in Op
  PROVE  /\ op[p].kind \in Kind /\ op[p].todo \in Seq(Name) /\ op[p].made \in 0 .. 2
         /\ op[p].sets \in Object \cup {None} /\ op[p].waits \in Object \cup {None}
         /\ op[p].todo # <<>> => At(p) \in Name /\ Tail(op[p].todo) \in Seq(Name)
BY DEF TypeOK, Operation, At

LEMMA ObjectIs ==
  /\ \A o \in Object : o[1] \in Name /\ o # None
  /\ \A p \in Op : p # None
BY NoneAssumption DEF Object

OthersStay(p) == \A q \in Op : q # p => op'[q] = op[q]

\* Nothing is begun or waited for any more by p, and nothing else has changed.
OnlyMoves(p) ==
  /\ OthersStay(p)
  /\ op[p].sets = None /\ op'[p].sets = None /\ op'[p].waits = None
  /\ op'[p].kind = "idle" => op'[p].todo = <<>>
  /\ op[p].waits # None => ~Loading(p) /\ ~Present(At(p))
  /\ running \in {p, None}
  /\ UNCHANGED <<objects, life, command, handler>>

\* p is done with its name.
MovesOn(p) ==
  /\ OthersStay(p)
  /\ op'[p].sets = None /\ op'[p].waits = None
  /\ op'[p].kind = "idle" => op'[p].todo = <<>>

\* p stays at its name, with sets, made and waits.
Onward(p, sets, made, waits) ==
  /\ OthersStay(p)
  /\ op'[p].kind = op[p].kind /\ op'[p].todo = op[p].todo
  /\ op'[p].sets = sets /\ op'[p].made = made /\ op'[p].waits = waits

LEMMA FreshIs ==
  ASSUME NEW k \in Kind, NEW t \in Seq(Name)
  PROVE  /\ Fresh(k, t) \in Operation /\ Fresh(k, t).kind = k /\ Fresh(k, t).todo = t
         /\ Fresh(k, t).sets = None /\ Fresh(k, t).waits = None
BY DEF Fresh, Operation

LEMMA IdleTyped == Idle \in Operation /\ Idle.sets = None /\ Idle.waits = None
                     /\ Idle.kind = "idle" /\ Idle.todo = <<>>
<1>1. "idle" \in Kind /\ <<>> \in Seq(Name)
  BY DEF Kind
<1> QED
  BY <1>1, FreshIs DEF Idle

LEMMA AnswerIs ==
  ASSUME TypeOK, IdleIsIdle, NEW p \in Op, op[p].todo # <<>>, NEW r \in Result, Answer(p, r)
  PROVE  /\ op' \in [Op -> Operation] /\ running' = p
         /\ reply' \in [kind : Kind, name : Name \cup {None}, result : Result]
         /\ MovesOn(p)
<1>1. /\ op[p].kind \in Kind \ {"idle"} /\ At(p) \in Name
      /\ Tail(op[p].todo) \in Seq(Name)
  BY OperationIs DEF IdleIsIdle
<1> DEFINE next == Fresh(op[p].kind, Tail(op[p].todo))
<1>2. /\ next \in Operation
      /\ next.kind = op[p].kind /\ next.sets = None /\ next.waits = None
  BY <1>1, FreshIs
<1>3. op' = [op EXCEPT ![p] = next] /\ op \in [Op -> Operation]
  BY DEF Answer, TypeOK
<1>4. reply' \in [kind : Kind, name : Name \cup {None}, result : Result]
  BY <1>1 DEF Answer
<1> HIDE DEF next
<1>5. op'[p] = next /\ OthersStay(p) /\ op' \in [Op -> Operation]
  BY <1>2, <1>3 DEF OthersStay
<1> QED
  BY <1>1, <1>2, <1>4, <1>5 DEF Answer, MovesOn

\* p goes on with record r.
LEMMA GoesWith ==
  ASSUME TypeOK, NEW p \in Op, NEW r \in Operation, op' = [op EXCEPT ![p] = r]
  PROVE  op' \in [Op -> Operation] /\ op'[p] = r /\ OthersStay(p)
BY DEF TypeOK, OthersStay

LEMMA StayIs ==
  ASSUME TypeOK, NEW p \in Op, NEW s \in Object \cup {None}, NEW m \in 0 .. 2,
         NEW w \in Object \cup {None}, Stay(p, s, m, w)
  PROVE  op' \in [Op -> Operation] /\ Onward(p, s, m, w)
<1> DEFINE r == [kind |-> op[p].kind, todo |-> op[p].todo, sets |-> s, made |-> m, waits |-> w]
<1>1. op[p].kind \in Kind /\ op[p].todo \in Seq(Name)
  BY OperationIs
<1>2. r \in Operation
  BY <1>1 DEF Operation
<1>3. op' = [op EXCEPT ![p] = r]
  BY DEF Stay
<1>4. op' \in [Op -> Operation] /\ op'[p] = r /\ OthersStay(p)
  BY <1>2, <1>3, GoesWith
<1> QED
  BY <1>4 DEF Onward

LEMMA RejectedIs ==
  ASSUME Inv, NEW p \in Op, LoadRejected(p) \/ UnloadRejected(p)
  PROVE  TypeOK' /\ OnlyMoves(p)
<1>1. /\ op[p].todo # <<>> /\ op[p].sets = None /\ op[p].waits = None /\ running = p
      /\ UNCHANGED <<objects, life, command, handler, stopped>>
      /\ \E r \in Result : Answer(p, r)
  BY DEF LoadRejected, UnloadRejected, Busy, Result
<1>2. /\ op' \in [Op -> Operation] /\ running' = p
      /\ reply' \in [kind : Kind, name : Name \cup {None}, result : Result]
      /\ MovesOn(p)
  BY <1>1, AnswerIs DEF Inv
<1> QED
  BY <1>1, <1>2 DEF Inv, TypeOK, OnlyMoves, MovesOn

LEMMA RaisesIs ==
  ASSUME Inv, NEW p \in Op, DeactivateRaises(p)
  PROVE  TypeOK' /\ OnlyMoves(p)
<1>1. op' = [op EXCEPT ![p] = Idle] /\ UNCHANGED <<objects, life, command, handler, running>>
  BY DEF DeactivateRaises
<1>2. op' \in [Op -> Operation] /\ op'[p] = Idle /\ OthersStay(p)
  BY <1>1, IdleTyped, GoesWith DEF Inv
<1>3. /\ op[p].kind \in Kind /\ At(p) \in Name /\ running = None
      /\ ~Loading(p) /\ ~Present(At(p))
  BY OperationIs DEF Inv, WaitsAreTrue, WaitIsTrue, DeactivateRaises
<1>4. op[p].sets = None
  BY <1>3 DEF Inv, SetUpsAreTrue
<1>5. /\ reply' \in [kind : Kind, name : Name \cup {None}, result : Result]
      /\ stopped' \in BOOLEAN
  BY <1>3 DEF DeactivateRaises, Result
<1> QED
  BY <1>1, <1>2, <1>3, <1>4, <1>5, IdleTyped DEF Inv, TypeOK, OnlyMoves

LEMMA FinishIs ==
  ASSUME Inv, NEW p \in Op, Finish(p)
  PROVE  TypeOK' /\ OnlyMoves(p)
<1>1. op' = [op EXCEPT ![p] = Idle] /\ UNCHANGED <<objects, life, command, handler, reply>>
  BY DEF Finish
<1>2. op' \in [Op -> Operation] /\ op'[p] = Idle /\ OthersStay(p)
  BY <1>1, IdleTyped, GoesWith DEF Inv
<1>3. op[p].sets = None /\ op[p].waits = None /\ running = p
  BY DEF Inv, SetUpsAreTrue, WaitsAreTrue, WaitIsTrue, Finish
<1>4. running' \in Op \cup {None} /\ stopped' \in BOOLEAN
  BY DEF Finish
<1> QED
  BY <1>1, <1>2, <1>3, <1>4, IdleTyped DEF Inv, TypeOK, OnlyMoves

LEMMA RequestIs ==
  ASSUME Inv, NEW p \in Op, Request(p)
  PROVE  TypeOK' /\ OnlyMoves(p)
<1>1. PICK kind \in Kind \ {"idle"}, todo \in Seq(Name) : Begin(p, kind, todo)
  <2>1. CASE \E kind \in {"load", "unload", "reload"}, n \in Name : PluginsCommand(p, kind, n)
    <3>1. PICK kind \in {"load", "unload", "reload"}, n \in Name : PluginsCommand(p, kind, n)
      BY <2>1
    <3>2. kind \in Kind \ {"idle"} /\ <<n>> \in Seq(Name) /\ Begin(p, kind, <<n>>)
      BY <3>1 DEF PluginsCommand, Kind
    <3> QED
      BY <3>2
  <2>2. CASE \E kind \in {"signal", "shutdown"} : \E todo \in Keys : UnloadPlugins(p, kind, todo)
    <3>1. PICK kind \in {"signal", "shutdown"}, todo \in Keys : UnloadPlugins(p, kind, todo)
      BY <2>2
    <3>2. PICK k \in 0..Cardinality(Name) : todo \in [1..k -> Name]
      BY <3>1 DEF Keys
    <3>3. k \in Nat
      BY <3>2
    <3>4. todo \in Seq(Name)
      BY <3>2, <3>3
    <3>5. kind \in Kind \ {"idle"} /\ Begin(p, kind, todo)
      BY <3>1 DEF UnloadPlugins, Kind
    <3> QED
      BY <3>4, <3>5
  <2> QED
    BY <2>1, <2>2 DEF Request
<1> DEFINE new == Fresh(kind, todo)
<1>2. /\ new \in Operation /\ new.sets = None /\ new.waits = None
      /\ new.kind = kind /\ new.todo = todo
  BY <1>1, FreshIs
<1>3. /\ op' = [op EXCEPT ![p] = new] /\ op[p].kind = "idle" /\ running = None /\ running' = p
      /\ UNCHANGED <<objects, life, command, handler, reply, stopped>>
  BY <1>1 DEF Begin
<1> HIDE DEF new
<1>4. op' \in [Op -> Operation] /\ op'[p] = new /\ OthersStay(p)
  BY <1>2, <1>3, GoesWith DEF Inv
<1>5. op[p].sets = None /\ op[p].waits = None
  BY <1>3 DEF Inv, IdleIsIdle, SetUpsAreTrue, WaitsAreTrue, WaitIsTrue
<1> QED
  BY <1>1, <1>2, <1>3, <1>4, <1>5 DEF Inv, TypeOK, OnlyMoves

LEMMA InstantiateIs ==
  ASSUME Inv, NEW p \in Op, NEW o \in Object, Instantiate(p, o)
  PROVE  /\ TypeOK' /\ Onward(p, o, 0, None) /\ running = p /\ running' = p
         /\ op[p].sets = None /\ op[p].waits = None
         /\ Loading(p) /\ op[p].todo # <<>> /\ o[1] = At(p) /\ ~Present(At(p))
         /\ life[o] = "unused"
         /\ \A u \in Object : life'[u] = IF u = o THEN "settingUp" ELSE life[u]
         /\ UNCHANGED <<objects, command, handler>>
<1>1. /\ running = p /\ op[p].sets = None /\ op[p].waits = None
      /\ Loading(p) /\ op[p].todo # <<>> /\ o[1] = At(p) /\ ~Present(At(p))
      /\ life[o] = "unused" /\ life' = [life EXCEPT ![o] = "settingUp"]
      /\ Stay(p, o, 0, None)
      /\ UNCHANGED <<objects, command, handler, running, reply, stopped>>
  BY DEF Instantiate, Busy
<1>2. op' \in [Op -> Operation] /\ Onward(p, o, 0, None)
  <2>1. TypeOK /\ 0 \in 0 .. 2 /\ o \in Object \cup {None} /\ None \in Object \cup {None}
    BY DEF Inv
  <2> QED
    BY <1>1, <2>1, StayIs
<1>3. \A u \in Object : life'[u] = IF u = o THEN "settingUp" ELSE life[u]
  BY <1>1 DEF Inv, TypeOK
<1>4. TypeOK'
  BY <1>1, <1>2 DEF Inv, TypeOK
<1> QED
  BY <1>1, <1>2, <1>3, <1>4

\* The facts about a set-up under way.
LEMMA SettingUpIs ==
  ASSUME Inv, NEW p \in Op, NEW o \in Object, SettingUp(p, o)
  PROVE  /\ op[p].sets = o /\ op[p].sets # None /\ life[o] = "settingUp"
         /\ Loading(p) /\ op[p].todo # <<>> /\ o[1] = At(p) /\ At(p) \in Name
         /\ op[p].waits \in {o, None} /\ running \in {p, None} /\ ~stopped
         /\ op[p].made <= Len(Registers[At(p)])
         /\ At(p) \notin SlowSetup => ~Present(At(p))
<1>1. op[p].sets = o /\ o # None /\ ~stopped /\ running \in {p, None} /\ op[p].waits \in {o, None}
  BY ObjectIs DEF SettingUp
<1> QED
  BY <1>1, OperationIs DEF Inv, SetUpsAreTrue, QuickSetUps

LEMMA RegistersIs ==
  ASSUME Inv, NEW p \in Op, op[p].todo # <<>>
  PROVE  /\ Registers[At(p)] \in {<<>>, <<"command">>, <<"handler">>,
                                  <<"command", "handler">>, <<"handler", "command">>}
         /\ Len(Registers[At(p)]) \in 0 .. 2
<1>1. Registers[At(p)] \in {<<>>, <<"command">>, <<"handler">>,
                            <<"command", "handler">>, <<"handler", "command">>}
  BY OperationIs, RegistersAssumption DEF Inv
<1> QED
  BY <1>1

LEMMA MakesAnother ==
  ASSUME Inv, NEW p \in Op, NEW o \in Object, SettingUp(p, o), NEW what, NextIs(p, what),
         Made(p)
  PROVE  /\ op' \in [Op -> Operation] /\ Onward(p, o, op[p].made + 1, None)
         /\ running' = p /\ op[p].made + 1 \in 1 .. Len(Registers[At(p)])
         /\ Registers[At(p)][op[p].made + 1] = what
<1>1. op[p].sets = o /\ op[p].todo # <<>> /\ op[p].made \in 0 .. 2
  BY SettingUpIs, OperationIs DEF Inv
<1>2. Len(Registers[At(p)]) \in 0 .. 2
  BY <1>1, RegistersIs
<1>3. op[p].made + 1 \in 1 .. Len(Registers[At(p)]) /\ op[p].made + 1 \in 0 .. 2
  BY <1>1, <1>2 DEF NextIs
<1>4. op' \in [Op -> Operation] /\ Onward(p, o, op[p].made + 1, None)
  <2>1. TypeOK /\ o \in Object \cup {None} /\ None \in Object \cup {None}
    BY DEF Inv
  <2>2. Stay(p, o, op[p].made + 1, None)
    BY <1>1 DEF Made
  <2> QED
    BY <1>3, <2>1, <2>2, StayIs
<1> QED
  BY <1>3, <1>4 DEF Made, NextIs

LEMMA RegistersCommandIs ==
  ASSUME Inv, NEW p \in Op, NEW o \in Object, RegistersCommand(p, o)
  PROVE  /\ TypeOK' /\ Onward(p, o, op[p].made + 1, None) /\ running' = p
         /\ op[p].made + 1 \in 1 .. Len(Registers[At(p)])
         /\ Registers[At(p)][op[p].made + 1] = "command"
         /\ \A n \in Name : command'[n] = IF n = o[1] /\ command[n] = None THEN o
                                                                           ELSE command[n]
         /\ UNCHANGED <<objects, life, handler>>
<1>1. /\ SettingUp(p, o) /\ NextIs(p, "command") /\ Made(p)
      /\ command' = [command EXCEPT ![o[1]] = IF @ = None THEN o ELSE @]
      /\ UNCHANGED <<objects, life, handler, reply, stopped>>
  BY DEF RegistersCommand, Made
<1>2. /\ op' \in [Op -> Operation] /\ Onward(p, o, op[p].made + 1, None) /\ running' = p
      /\ op[p].made + 1 \in 1 .. Len(Registers[At(p)])
      /\ Registers[At(p)][op[p].made + 1] = "command"
  BY <1>1, MakesAnother
<1>3. /\ command' \in [Name -> Object \cup {None}]
      /\ \A n \in Name : command'[n] = IF n = o[1] /\ command[n] = None THEN o
                                                                        ELSE command[n]
  BY <1>1, ObjectIs DEF Inv, TypeOK
<1> QED
  BY <1>1, <1>2, <1>3 DEF Inv, TypeOK

LEMMA RegistersHandlerIs ==
  ASSUME Inv, NEW p \in Op, NEW o \in Object, RegistersHandler(p, o)
  PROVE  /\ TypeOK' /\ Onward(p, o, op[p].made + 1, None) /\ running' = p
         /\ op[p].made + 1 \in 1 .. Len(Registers[At(p)])
         /\ Registers[At(p)][op[p].made + 1] = "handler"
         /\ handler[o[1]] = None
         /\ \A n \in Name : handler'[n] = IF n = o[1] THEN o ELSE handler[n]
         /\ UNCHANGED <<objects, life, command>>
<1>1. /\ SettingUp(p, o) /\ NextIs(p, "handler") /\ Made(p) /\ handler[o[1]] = None
      /\ handler' = [handler EXCEPT ![o[1]] = o]
      /\ UNCHANGED <<objects, life, command, reply, stopped>>
  BY DEF RegistersHandler, Made
<1>2. /\ op' \in [Op -> Operation] /\ Onward(p, o, op[p].made + 1, None) /\ running' = p
      /\ op[p].made + 1 \in 1 .. Len(Registers[At(p)])
      /\ Registers[At(p)][op[p].made + 1] = "handler"
  BY <1>1, MakesAnother
<1>3. /\ handler' \in [Name -> Object \cup {None}]
      /\ \A n \in Name : handler'[n] = IF n = o[1] THEN o ELSE handler[n]
  BY <1>1, ObjectIs DEF Inv, TypeOK
<1> QED
  BY <1>1, <1>2, <1>3 DEF Inv, TypeOK

LEMMA SetupFailsIs ==
  ASSUME Inv, NEW p \in Op, NEW o \in Object, SetupClashes(p, o) \/ SetupRaises(p, o)
  PROVE  /\ TypeOK' /\ MovesOn(p) /\ running' = p
         /\ \A u \in Object : life'[u] = IF u = o THEN "failed" ELSE life[u]
         /\ UNCHANGED <<objects, command, handler>>
<1>1. /\ SettingUp(p, o) /\ Answer(p, "LoadError") /\ "LoadError" \in Result
      /\ life' = [life EXCEPT ![o] = "failed"]
      /\ UNCHANGED <<objects, command, handler, stopped>>
  BY DEF SetupClashes, SetupRaises, Clashes, SetupFails, Result
<1>2. /\ op' \in [Op -> Operation] /\ running' = p
      /\ reply' \in [kind : Kind, name : Name \cup {None}, result : Result]
      /\ MovesOn(p)
  BY <1>1, SettingUpIs, AnswerIs DEF Inv
<1>3. \A u \in Object : life'[u] = IF u = o THEN "failed" ELSE life[u]
  BY <1>1 DEF Inv, TypeOK
<1> QED
  BY <1>1, <1>2, <1>3 DEF Inv, TypeOK

LEMMA SucceedsIs ==
  ASSUME Inv, NEW p \in Op, NEW o \in Object, NEW how \in {"loaded", "gaveUp"},
         SettingUp(p, o), Succeeds(p, o, how)
  PROVE  /\ TypeOK' /\ MovesOn(p) /\ running' = p
         /\ \A u \in Object : life'[u] = IF u = o THEN how ELSE life[u]
         /\ \A n \in Name : objects'[n] = IF n = o[1] THEN o ELSE objects[n]
         /\ UNCHANGED <<command, handler>>
<1>1. /\ Answer(p, "Loaded") /\ "Loaded" \in Result
      /\ life' = [life EXCEPT ![o] = how] /\ objects' = [objects EXCEPT ![o[1]] = o]
      /\ UNCHANGED <<command, handler, stopped>>
  BY DEF Succeeds, Result
<1>2. /\ op' \in [Op -> Operation] /\ running' = p
      /\ reply' \in [kind : Kind, name : Name \cup {None}, result : Result]
      /\ MovesOn(p)
  BY <1>1, SettingUpIs, AnswerIs DEF Inv
<1>3. \A u \in Object : life'[u] = IF u = o THEN how ELSE life[u]
  BY <1>1 DEF Inv, TypeOK
<1>4. \A n \in Name : objects'[n] = IF n = o[1] THEN o ELSE objects[n]
  BY <1>1 DEF Inv, TypeOK
<1>5. objects' \in [Name -> Object \cup {None}]
  BY <1>1, ObjectIs DEF Inv, TypeOK
<1>6. life' \in [Object -> {"unused", "settingUp", "loaded", "gaveUp", "failed", "unloaded"}]
  BY <1>1 DEF Inv, TypeOK
<1> QED
  BY <1>1, <1>2, <1>3, <1>4, <1>5, <1>6 DEF Inv, TypeOK

LEMMA SetupWaitsIs ==
  ASSUME Inv, NEW p \in Op, NEW o \in Object, SetupWaits(p, o)
  PROVE  /\ TypeOK' /\ Onward(p, o, op[p].made, o) /\ o[1] \in SlowSetup
         /\ UNCHANGED <<objects, life, command, handler>>
<1>1. /\ SettingUp(p, o) /\ o[1] \in SlowSetup /\ Stay(p, op[p].sets, op[p].made, o)
      /\ running' = None
      /\ UNCHANGED <<objects, life, command, handler, reply, stopped>>
  BY DEF SetupWaits, Wait
<1>2. op' \in [Op -> Operation] /\ Onward(p, o, op[p].made, o)
  <2>1. TypeOK /\ op[p].sets = o /\ o \in Object \cup {None} /\ op[p].made \in 0 .. 2
    BY <1>1, SettingUpIs, OperationIs DEF Inv
  <2> QED
    BY <1>1, <2>1, StayIs
<1> QED
  BY <1>1, <1>2 DEF Inv, TypeOK

\* What the unloading of o takes away at once.
Silences(o) ==
  /\ \A n \in Name : command'[n] = IF command[n] = o THEN None ELSE command[n]
  /\ \A n \in Name : handler'[n] = IF n = o[1] THEN None ELSE handler[n]

Unloads(o) ==
  /\ \A u \in Object : life'[u] = IF u = o THEN "unloaded" ELSE life[u]
  /\ \A n \in Name : objects'[n] = IF n = o[1] THEN None ELSE objects[n]

LEMMA UnloadIs ==
  ASSUME Inv, NEW p \in Op, Unload(p)
  PROVE  /\ TypeOK' /\ running = p /\ op[p].sets = None /\ op[p].waits = None
         /\ ~Loading(p) /\ op[p].todo # <<>> /\ At(p) \in Name
         /\ \E o \in Object :
              /\ o = objects[At(p)] /\ o[1] = At(p) /\ life[o] \in {"loaded", "gaveUp"}
              /\ Silences(o)
              /\ \/ MovesOn(p) /\ Unloads(o)
                 \/ /\ o[1] \in SlowDeactivate /\ Onward(p, None, op[p].made, o)
                    /\ UNCHANGED <<objects, life>>
<1>1. /\ running = p /\ op[p].sets = None /\ op[p].waits = None
      /\ ~Loading(p) /\ op[p].todo # <<>> /\ At(p) \in Name /\ Present(At(p))
  BY OperationIs DEF Inv, Unload, Busy
<1>2. PICK o \in Object :
        o = objects[At(p)] /\ o[1] = At(p) /\ life[o] \in {"loaded", "gaveUp"}
  BY <1>1 DEF Inv, TypeOK, ObjectsKnown, Present
<1>3. /\ Unregister(o) /\ UNCHANGED stopped
      /\ \/ /\ objects' = [objects EXCEPT ![o[1]] = None]
            /\ life' = [life EXCEPT ![o] = "unloaded"]
            /\ Answer(p, UnloadedAnswer(p))
         \/ /\ o[1] \in SlowDeactivate /\ Wait(p, o)
            /\ UNCHANGED <<objects, life>>
  BY <1>2 DEF Unload
<1>4. /\ command' \in [Name -> Object \cup {None}] /\ handler' \in [Name -> Object \cup {None}]
      /\ Silences(o)
  BY <1>1, <1>2, <1>3 DEF Unregister, Inv, TypeOK, Silences
<1>5. CASE /\ objects' = [objects EXCEPT ![o[1]] = None]
           /\ life' = [life EXCEPT ![o] = "unloaded"]
           /\ Answer(p, UnloadedAnswer(p))
  <2>1. UnloadedAnswer(p) \in Result
    BY DEF UnloadedAnswer, Result
  <2>2. /\ op' \in [Op -> Operation] /\ running' = p
        /\ reply' \in [kind : Kind, name : Name \cup {None}, result : Result]
        /\ MovesOn(p)
    BY <1>1, <1>5, <2>1, AnswerIs DEF Inv
  <2>3. Unloads(o)
    BY <1>5 DEF Inv, TypeOK, Unloads
  <2>4. /\ objects' \in [Name -> Object \cup {None}]
        /\ life' \in [Object -> {"unused", "settingUp", "loaded", "gaveUp", "failed", "unloaded"}]
    BY <1>1, <1>2, <1>5 DEF Inv, TypeOK
  <2>5. TypeOK'
    BY <1>3, <1>4, <2>2, <2>4 DEF Inv, TypeOK
  <2> QED
    BY <1>1, <1>2, <1>4, <2>2, <2>3, <2>5
<1>6. CASE o[1] \in SlowDeactivate /\ Wait(p, o) /\ UNCHANGED <<objects, life>>
  <2>1. op' \in [Op -> Operation] /\ Onward(p, None, op[p].made, o)
    <3>1. TypeOK /\ None \in Object \cup {None} /\ o \in Object \cup {None} /\ op[p].made \in 0 .. 2
      BY OperationIs DEF Inv
    <3>2. Stay(p, None, op[p].made, o)
      BY <1>1, <1>6 DEF Wait
    <3> QED
      BY <3>1, <3>2, StayIs
  <2>2. TypeOK'
    BY <1>3, <1>4, <1>6, <2>1 DEF Inv, TypeOK, Wait
  <2> QED
    BY <1>1, <1>2, <1>4, <1>6, <2>1, <2>2
<1> QED
  BY <1>3, <1>5, <1>6

LEMMA DeactivateEndsIs ==
  ASSUME Inv, NEW p \in Op, DeactivateEnds(p)
  PROVE  /\ TypeOK' /\ MovesOn(p) /\ running = None /\ op[p].sets = None
         /\ ~Loading(p) /\ Present(At(p)) /\ At(p) \in SlowDeactivate /\ At(p) \in Name
         /\ UNCHANGED <<command, handler>>
         /\ \E o \in Object :
              /\ op[p].waits = o /\ o[1] = At(p) /\ ~Owns(o)
              /\ life[o] \in {"loaded", "gaveUp", "unloaded"}
              /\ Unloads(o)
<1>1. /\ op[p].waits # None /\ ~Loading(p) /\ Present(At(p)) /\ running = None
      /\ UNCHANGED <<command, handler, stopped>>
  BY DEF DeactivateEnds
<1>2. /\ op[p].waits \in Object /\ op[p].waits[1] = At(p) /\ ~Owns(op[p].waits)
      /\ life[op[p].waits] \in {"loaded", "gaveUp", "unloaded"}
      /\ At(p) \in SlowDeactivate /\ op[p].todo # <<>> /\ At(p) \in Name
  BY <1>1, OperationIs DEF Inv, WaitsAreTrue, WaitIsTrue
<1>3. PICK o \in Object : op[p].waits = o
  BY <1>2
<1>4. /\ objects' = [objects EXCEPT ![o[1]] = None] /\ life' = [life EXCEPT ![o] = "unloaded"]
      /\ Answer(p, UnloadedAnswer(p)) /\ UnloadedAnswer(p) \in Result
  BY <1>3 DEF DeactivateEnds, UnloadedAnswer, Result
<1>5. /\ op' \in [Op -> Operation] /\ running' = p
      /\ reply' \in [kind : Kind, name : Name \cup {None}, result : Result]
      /\ MovesOn(p)
  BY <1>2, <1>4, AnswerIs DEF Inv
<1>6. Unloads(o)
  BY <1>4 DEF Inv, TypeOK, Unloads
<1>7. /\ objects' \in [Name -> Object \cup {None}]
      /\ life' \in [Object -> {"unused", "settingUp", "loaded", "gaveUp", "failed", "unloaded"}]
  BY <1>2, <1>3, <1>4 DEF Inv, TypeOK
<1>8. TypeOK'
  BY <1>1, <1>5, <1>7 DEF Inv, TypeOK
<1>9. op[p].sets = None
  BY <1>1 DEF Inv, SetUpsAreTrue
<1> QED
  BY <1>1, <1>2, <1>3, <1>5, <1>6, <1>8, <1>9

-----------------------------------------------------------------------------
(***************************************************************************)
(* The invariant, step by step                                             *)
(***************************************************************************)
LEMMA OthersAre ==
  ASSUME NEW p \in Op, OthersStay(p), NEW q \in Op, q # p
  PROVE  op'[q] = op[q] /\ At(q)' = At(q) /\ Loading(q)' = Loading(q)
BY DEF OthersStay, At, Loading

\* While p is executing, or nothing is, no other operation is in a quick set-up.
LEMMA OthersAreSlow ==
  ASSUME Inv, NEW p \in Op, running \in {p, None}, NEW q \in Op, q # p, op[q].sets # None
  PROVE  At(q) \in SlowSetup
BY ObjectIs DEF Inv, QuickSetUps

LEMMA Initially == Init => Inv
<1> SUFFICES ASSUME Init PROVE Inv
  OBVIOUS
<1>1. TypeOK
  <2>1. "boot" \in Kind /\ Fresh("boot", Boot) \in Operation
    <3>1. "boot" \in Kind
      BY DEF Kind
    <3> QED
      BY <3>1, BootAssumption, FreshIs
  <2>2. op \in [Op -> Operation]
    BY <2>1, IdleTyped DEF Init
  <2>3. reply \in [kind : Kind, name : Name \cup {None}, result : Result]
    BY DEF Init, NoReply, Kind, Result
  <2> QED
    BY <2>2, <2>3 DEF Init, TypeOK
<1>2. \A q \in Op : op[q].sets = None /\ op[q].waits = None
  BY IdleTyped DEF Init, Fresh
<1>3. IdleIsIdle
  BY IdleTyped DEF Init, Fresh, IdleIsIdle
<1>4. \A o \in Object : life[o] = "unused" /\ ~Owns(o)
  BY ObjectIs DEF Init, Owns
<1> QED
  BY <1>1, <1>2, <1>3, <1>4
  DEF Inv, Init, ObjectsKnown, Present, SetUpsAreTrue, SomeoneSetsUp, WaitsAreTrue, QuickSetUps,
      SilentOwnNothing, RegisteredByName, GivenUp

LEMMA QuietKeeps ==
  ASSUME Inv, NEW p \in Op, TypeOK', OnlyMoves(p)
  PROVE  Inv'
<1>1. /\ OthersStay(p) /\ op[p].sets = None /\ op'[p].sets = None /\ op'[p].waits = None
      /\ op'[p].kind = "idle" => op'[p].todo = <<>>
      /\ running \in {p, None} /\ UNCHANGED <<objects, life, command, handler>>
  BY DEF OnlyMoves
<1>2. \A q \in Op : op'[q].sets # None \/ op'[q].waits # None => q # p
  BY <1>1
<1>3. /\ ObjectsKnown' /\ SilentOwnNothing' /\ RegisteredByName' /\ GivenUp'
      /\ \A u \in Object : Owns(u)' = Owns(u)
      /\ \A n \in Name : Present(n)' = Present(n)
  BY <1>1 DEF Inv, ObjectsKnown, Present, SilentOwnNothing, Owns, RegisteredByName, GivenUp
<1>4. SetUpsAreTrue'
  BY <1>1, <1>2, OthersAre DEF Inv, SetUpsAreTrue
<1>5. SomeoneSetsUp'
  BY <1>1, OthersAre, ObjectIs DEF Inv, SomeoneSetsUp
<1>6. WaitsAreTrue'
  <2> SUFFICES ASSUME NEW q \in Op, op'[q].waits # None
               PROVE  WaitIsTrue(q)'
    BY DEF WaitsAreTrue
  <2>1. q # p /\ op'[q] = op[q] /\ At(q)' = At(q) /\ Loading(q)' = Loading(q)
    BY <1>1, <1>2, OthersAre
  <2>2. op[q].waits \in Object /\ WaitIsTrue(q)
    BY <2>1, OperationIs DEF Inv, WaitsAreTrue
  <2> QED
    BY <1>1, <1>3, <2>1, <2>2 DEF WaitIsTrue
<1>7. QuickSetUps'
  BY <1>1, <1>2, OthersAre, OthersAreSlow DEF QuickSetUps
<1>8. IdleIsIdle'
  BY <1>1, OthersAre DEF Inv, IdleIsIdle
<1> QED
  BY <1>3, <1>4, <1>5, <1>6, <1>7, <1>8 DEF Inv

\* The others' waits, when only o, which is being set up, changes.
LEMMA OthersWait ==
  ASSUME Inv, NEW p \in Op, NEW o \in Object, OthersStay(p),
         life[o] \notin {"loaded", "gaveUp", "unloaded"},
         \A u \in Object : u # o => life'[u] = life[u] /\ (Owns(u)' => Owns(u)),
         NEW q \in Op, q # p, op'[q].waits # None
  PROVE  WaitIsTrue(q)'
<1>1. op'[q] = op[q] /\ At(q)' = At(q) /\ Loading(q)' = Loading(q)
  BY OthersAre
<1>2. op[q].waits \in Object /\ WaitIsTrue(q)
  BY <1>1, OperationIs DEF Inv, WaitsAreTrue
<1> QED
  BY <1>1, <1>2 DEF WaitIsTrue

LEMMA InstantiateKeeps ==
  ASSUME Inv, NEW p \in Op, NEW o \in Object, Instantiate(p, o)
  PROVE  Inv'
<1>1. /\ TypeOK' /\ Onward(p, o, 0, None) /\ running = p /\ running' = p
      /\ op[p].sets = None /\ op[p].waits = None
      /\ Loading(p) /\ op[p].todo # <<>> /\ o[1] = At(p) /\ ~Present(At(p))
      /\ life[o] = "unused"
      /\ \A u \in Object : life'[u] = IF u = o THEN "settingUp" ELSE life[u]
      /\ UNCHANGED <<objects, command, handler>>
  BY InstantiateIs
<1>2. /\ OthersStay(p) /\ op'[p].kind = op[p].kind /\ op'[p].todo = op[p].todo
      /\ op'[p].sets = o /\ op'[p].made = 0 /\ op'[p].waits = None
      /\ At(p)' = At(p) /\ Loading(p)' = Loading(p)
  BY <1>1 DEF Onward, At, Loading
<1>3. /\ \A u \in Object : Owns(u)' = Owns(u)
      /\ \A n \in Name : Present(n)' = Present(n)
  BY <1>1 DEF Owns, Present
<1>4. ObjectsKnown'
  BY <1>1, <1>3 DEF Inv, TypeOK, ObjectsKnown, Present
<1>5. SilentOwnNothing' /\ RegisteredByName' /\ GivenUp'
  BY <1>1, <1>3 DEF Inv, SilentOwnNothing, RegisteredByName, GivenUp
<1>6. SetUpsAreTrue'
  <2>1. \A q \in Op : op[q].sets # o
    BY <1>1, ObjectIs DEF Inv, SetUpsAreTrue
  <2>2. Len(Registers[At(p)]) >= 0
    BY <1>1, RegistersIs
  <2>3. ASSUME NEW q \in Op, q # p, op'[q].sets # None
        PROVE  /\ life'[op'[q].sets] = "settingUp"
               /\ Loading(q)' /\ op'[q].todo # <<>> /\ op'[q].sets[1] = At(q)'
               /\ op'[q].made <= Len(Registers[At(q)'])
               /\ \A r \in Op : op'[r].sets = op'[q].sets => r = q
    <3>1. op'[q] = op[q] /\ At(q)' = At(q) /\ Loading(q)' = Loading(q)
      BY <1>2, <2>3, OthersAre
    <3>2. op[q].sets \in Object
      BY <2>3, <3>1, OperationIs DEF Inv
    <3>3. \A r \in Op : op'[r].sets = op[q].sets => r = q
      BY <1>2, <2>1, <2>3, <3>1, OthersAre DEF Inv, SetUpsAreTrue
    <3> QED
      BY <1>1, <2>1, <2>3, <3>1, <3>2, <3>3 DEF Inv, SetUpsAreTrue
  <2>4. \A r \in Op : op'[r].sets = o => r = p
    BY <1>2, <2>1, OthersAre
  <2> QED
    BY <1>1, <1>2, <2>2, <2>3, <2>4 DEF SetUpsAreTrue
<1>7. SomeoneSetsUp'
  <2> SUFFICES ASSUME NEW u \in Object, life'[u] = "settingUp"
               PROVE  \E q \in Op : op'[q].sets = u
    BY DEF SomeoneSetsUp
  <2>1. CASE u = o
    BY <1>2, <2>1
  <2>2. CASE u # o
    <3>1. PICK q \in Op : op[q].sets = u
      BY <1>1, <2>2 DEF Inv, SomeoneSetsUp
    <3> QED
      BY <1>1, <1>2, <3>1, ObjectIs, OthersAre
  <2> QED
    BY <2>1, <2>2
<1>8. WaitsAreTrue'
  <2>1. \A q \in Op : op'[q].waits # None => q # p
    BY <1>2
  <2>2. /\ life[o] \notin {"loaded", "gaveUp", "unloaded"}
        /\ \A u \in Object : u # o => life'[u] = life[u] /\ (Owns(u)' => Owns(u))
    BY <1>1, <1>3
  <2> QED
    BY <1>2, <2>1, <2>2, OthersWait DEF WaitsAreTrue
<1>9. QuickSetUps'
  <2>1. At(p) \in Name /\ ~Present(At(p))'
    BY <1>1, <1>2, <1>3, OperationIs DEF Inv
  <2> QED
    BY <1>1, <1>2, <2>1, OthersAre, OthersAreSlow DEF QuickSetUps
<1>10. IdleIsIdle'
  BY <1>2, OthersAre DEF Inv, IdleIsIdle
<1> QED
  BY <1>1, <1>4, <1>5, <1>6, <1>7, <1>8, <1>9, <1>10 DEF Inv

\* What holds for a step in which a set-up goes on and only registers.
LEMMA OnwardKeeps ==
  ASSUME Inv, NEW p \in Op, NEW o \in Object, SettingUp(p, o), TypeOK',
         NEW m \in Nat, m <= Len(Registers[At(p)]), NEW w \in {o, None}, Onward(p, o, m, w),
         w = None => running' = p, w = o => o[1] \in SlowSetup,
         UNCHANGED <<objects, life>>,
         \A n \in Name : /\ command'[n] = command[n] \/ (command'[n] = o /\ n = o[1])
                         /\ handler'[n] = handler[n] \/ (handler'[n] = o /\ n = o[1])
  PROVE  Inv'
<1>1. /\ op[p].sets = o /\ op[p].sets # None /\ life[o] = "settingUp"
      /\ Loading(p) /\ op[p].todo # <<>> /\ o[1] = At(p) /\ At(p) \in Name
      /\ running \in {p, None} /\ (At(p) \notin SlowSetup => ~Present(At(p)))
  BY SettingUpIs
<1>2. /\ OthersStay(p) /\ op'[p].kind = op[p].kind /\ op'[p].todo = op[p].todo
      /\ op'[p].sets = o /\ op'[p].made = m /\ op'[p].waits = w
      /\ At(p)' = At(p) /\ Loading(p)' = Loading(p)
  BY DEF Onward, At, Loading
<1>3. \A q \in Op : /\ op'[q].sets = op[q].sets /\ op'[q].todo = op[q].todo
                    /\ At(q)' = At(q) /\ Loading(q)' = Loading(q)
                    /\ op'[q].made <= Len(Registers[At(q)]) \/ op[q].sets = None
  BY <1>1, <1>2, OthersAre DEF Inv, SetUpsAreTrue
<1>4. \A u \in Object : u # o => (Owns(u)' => Owns(u))
  BY ObjectIs DEF Owns
<1>5. ObjectsKnown' /\ GivenUp' /\ SomeoneSetsUp'
  BY <1>3 DEF Inv, ObjectsKnown, Present, GivenUp, SomeoneSetsUp
<1>6. SetUpsAreTrue'
  BY <1>3 DEF Inv, SetUpsAreTrue
<1>7. SilentOwnNothing'
  BY <1>1, <1>4 DEF Inv, SilentOwnNothing
<1>8. RegisteredByName'
  BY DEF Inv, RegisteredByName
<1>9. WaitsAreTrue'
  <2>1. /\ life[o] \notin {"loaded", "gaveUp", "unloaded"}
        /\ \A u \in Object : u # o => life'[u] = life[u] /\ (Owns(u)' => Owns(u))
    BY <1>1, <1>4
  <2>2. op'[p].waits # None => WaitIsTrue(p)'
    BY <1>1, <1>2 DEF WaitIsTrue
  <2> QED
    BY <1>2, <2>1, <2>2, OthersWait DEF WaitsAreTrue
<1>10. QuickSetUps'
  <2>1. \A n \in Name : Present(n)' = Present(n)
    BY DEF Present
  <2>2. \A q \in Op : op'[q].sets # None /\ At(q)' \notin SlowSetup => q = p
    BY <1>1, <1>3, OthersAreSlow
  <2>3. w = None \/ w = o
    OBVIOUS
  <2> QED
    BY <1>1, <1>2, <2>1, <2>2, <2>3 DEF QuickSetUps
<1>11. IdleIsIdle'
  BY <1>2, OthersAre DEF Inv, IdleIsIdle
<1> QED
  BY <1>5, <1>6, <1>7, <1>8, <1>9, <1>10, <1>11 DEF Inv

\* The other set-ups, when p sets up nothing any more and their objects stay.
LEMMA OthersSetUp ==
  ASSUME Inv, NEW p \in Op, MovesOn(p),
         \A u \in Object : life[u] = "settingUp" /\ op[p].sets # u => life'[u] = "settingUp",
         \A u \in Object : life'[u] = "settingUp" => life[u] = "settingUp" /\ op[p].sets # u
  PROVE  SetUpsAreTrue' /\ SomeoneSetsUp' /\ IdleIsIdle'
<1>1. /\ OthersStay(p) /\ op'[p].sets = None
      /\ op'[p].kind = "idle" => op'[p].todo = <<>>
  BY DEF MovesOn
<1>2. SetUpsAreTrue'
  <2> SUFFICES ASSUME NEW q \in Op, op'[q].sets # None
               PROVE  /\ life'[op'[q].sets] = "settingUp"
                      /\ Loading(q)' /\ op'[q].todo # <<>> /\ op'[q].sets[1] = At(q)'
                      /\ op'[q].made <= Len(Registers[At(q)'])
                      /\ \A r \in Op : op'[r].sets = op'[q].sets => r = q
    BY DEF SetUpsAreTrue
  <2>1. q # p /\ op'[q] = op[q] /\ At(q)' = At(q) /\ Loading(q)' = Loading(q)
    BY <1>1, OthersAre
  <2>2. op[q].sets \in Object
    BY <2>1, OperationIs DEF Inv
  <2>3. \A r \in Op : op[r].sets = op[q].sets => r = q
    BY <2>1 DEF Inv, SetUpsAreTrue
  <2>4. \A r \in Op : op'[r].sets = op[q].sets => r = q
    BY <1>1, <2>1, <2>3, OthersAre
  <2>5. /\ life[op[q].sets] = "settingUp" /\ Loading(q) /\ op[q].todo # <<>>
        /\ op[q].sets[1] = At(q) /\ op[q].made <= Len(Registers[At(q)])
    BY <2>1 DEF Inv, SetUpsAreTrue
  <2> QED
    BY <2>1, <2>2, <2>3, <2>4, <2>5
<1>3. SomeoneSetsUp'
  <2> SUFFICES ASSUME NEW u \in Object, life'[u] = "settingUp"
               PROVE  \E q \in Op : op'[q].sets = u
    BY DEF SomeoneSetsUp
  <2>1. PICK q \in Op : op[q].sets = u /\ q # p
    BY DEF Inv, SomeoneSetsUp
  <2> QED
    BY <1>1, <2>1, OthersAre
<1>4. IdleIsIdle'
  BY <1>1, OthersAre DEF Inv, IdleIsIdle
<1> QED
  BY <1>2, <1>3, <1>4

LEMMA FailsKeeps ==
  ASSUME Inv, NEW p \in Op, NEW o \in Object, SetupClashes(p, o) \/ SetupRaises(p, o)
  PROVE  Inv'
<1>1. /\ TypeOK' /\ MovesOn(p) /\ running' = p
      /\ \A u \in Object : life'[u] = IF u = o THEN "failed" ELSE life[u]
      /\ UNCHANGED <<objects, command, handler>>
  BY SetupFailsIs
<1>2. /\ op[p].sets = o /\ life[o] = "settingUp" /\ running \in {p, None}
  BY SettingUpIs DEF SetupClashes, SetupRaises, Clashes
<1>3. /\ \A u \in Object : Owns(u)' = Owns(u)
      /\ \A n \in Name : Present(n)' = Present(n)
  BY <1>1 DEF Owns, Present
<1>4. ObjectsKnown'
  BY <1>1, <1>2, <1>3 DEF Inv, TypeOK, ObjectsKnown, Present
<1>5. SilentOwnNothing' /\ RegisteredByName' /\ GivenUp'
  BY <1>1, <1>3 DEF Inv, SilentOwnNothing, RegisteredByName, GivenUp
<1>6. SetUpsAreTrue' /\ SomeoneSetsUp' /\ IdleIsIdle'
  BY <1>1, <1>2, OthersSetUp
<1>7. WaitsAreTrue'
  <2>1. OthersStay(p) /\ \A q \in Op : op'[q].waits # None => q # p
    BY <1>1 DEF MovesOn
  <2>2. /\ life[o] \notin {"loaded", "gaveUp", "unloaded"}
        /\ \A u \in Object : u # o => life'[u] = life[u] /\ (Owns(u)' => Owns(u))
    BY <1>1, <1>2, <1>3
  <2> QED
    BY <2>1, <2>2, OthersWait DEF WaitsAreTrue
<1>8. QuickSetUps'
  <2>1. OthersStay(p) /\ \A q \in Op : op'[q].sets # None => q # p
    BY <1>1 DEF MovesOn
  <2> QED
    BY <1>2, <2>1, OthersAre, OthersAreSlow DEF QuickSetUps
<1> QED
  BY <1>1, <1>4, <1>5, <1>6, <1>7, <1>8 DEF Inv

LEMMA SucceedsKeeps ==
  ASSUME Inv, NEW p \in Op, NEW o \in Object, SetupReturns(p, o) \/ SetupGivesUp(p, o)
  PROVE  Inv'
<1>1. PICK how \in {"loaded", "gaveUp"} :
        SettingUp(p, o) /\ Succeeds(p, o, how) /\ (how = "gaveUp" => o[1] \in GivesUp)
  BY DEF SetupReturns, SetupGivesUp
<1>2. /\ TypeOK' /\ MovesOn(p) /\ running' = p
      /\ \A u \in Object : life'[u] = IF u = o THEN how ELSE life[u]
      /\ \A n \in Name : objects'[n] = IF n = o[1] THEN o ELSE objects[n]
      /\ UNCHANGED <<command, handler>>
  BY <1>1, SucceedsIs
<1>3. /\ op[p].sets = o /\ life[o] = "settingUp" /\ running \in {p, None}
  BY <1>1, SettingUpIs
<1>4. \A u \in Object : Owns(u)' = Owns(u)
  BY <1>2 DEF Owns
<1>5. ObjectsKnown'
  BY <1>2, <1>3 DEF Inv, TypeOK, ObjectsKnown, Present
<1>6. SilentOwnNothing' /\ RegisteredByName' /\ GivenUp'
  BY <1>1, <1>2, <1>4 DEF Inv, SilentOwnNothing, RegisteredByName, GivenUp
<1>7. SetUpsAreTrue' /\ SomeoneSetsUp' /\ IdleIsIdle'
  BY <1>2, <1>3, OthersSetUp
<1>8. OthersStay(p) /\ \A q \in Op : op'[q].waits # None \/ op'[q].sets # None => q # p
  BY <1>2 DEF MovesOn
<1>9. WaitsAreTrue'
  <2>1. /\ life[o] \notin {"loaded", "gaveUp", "unloaded"}
        /\ \A u \in Object : u # o => life'[u] = life[u] /\ (Owns(u)' => Owns(u))
    BY <1>2, <1>3, <1>4
  <2> QED
    BY <1>8, <2>1, OthersWait DEF WaitsAreTrue
<1>10. QuickSetUps'
  BY <1>3, <1>8, OthersAre, OthersAreSlow DEF QuickSetUps
<1> QED
  BY <1>2, <1>5, <1>6, <1>7, <1>9, <1>10 DEF Inv

LEMMA SetUpKeeps ==
  ASSUME Inv, NEW p \in Op, NEW o \in Object, SetupStep(p, o) \/ SetupWaits(p, o)
  PROVE  Inv'
<1>1. ASSUME RegistersCommand(p, o) PROVE Inv'
  <2>1. SettingUp(p, o) /\ op[p].made \in 0 .. 2
    BY <1>1, OperationIs DEF RegistersCommand, Inv
  <2>2. op[p].made + 1 \in Nat
    BY <2>1
  <2>3. /\ TypeOK' /\ Onward(p, o, op[p].made + 1, None) /\ running' = p
        /\ op[p].made + 1 \in 1 .. Len(Registers[At(p)]) /\ UNCHANGED <<objects, life>>
        /\ \A n \in Name : /\ command'[n] = command[n] \/ (command'[n] = o /\ n = o[1])
                           /\ handler'[n] = handler[n] \/ (handler'[n] = o /\ n = o[1])
    BY <1>1, RegistersCommandIs
  <2>4. op[p].made + 1 <= Len(Registers[At(p)]) /\ o # None
    BY <2>3, ObjectIs
  <2> QED
    BY <2>1, <2>2, <2>3, <2>4, OnwardKeeps
<1>2. ASSUME RegistersHandler(p, o) PROVE Inv'
  <2>1. SettingUp(p, o) /\ op[p].made \in 0 .. 2
    BY <1>2, OperationIs DEF RegistersHandler, Inv
  <2>2. op[p].made + 1 \in Nat
    BY <2>1
  <2>3. /\ TypeOK' /\ Onward(p, o, op[p].made + 1, None) /\ running' = p
        /\ op[p].made + 1 \in 1 .. Len(Registers[At(p)]) /\ UNCHANGED <<objects, life>>
        /\ \A n \in Name : /\ command'[n] = command[n] \/ (command'[n] = o /\ n = o[1])
                           /\ handler'[n] = handler[n] \/ (handler'[n] = o /\ n = o[1])
    BY <1>2, RegistersHandlerIs
  <2>4. op[p].made + 1 <= Len(Registers[At(p)]) /\ o # None
    BY <2>3, ObjectIs
  <2> QED
    BY <2>1, <2>2, <2>3, <2>4, OnwardKeeps
<1>3. ASSUME SetupWaits(p, o) PROVE Inv'
  <2>1. SettingUp(p, o) /\ op[p].made \in 0 .. 2
    BY <1>3, OperationIs DEF SetupWaits, Inv
  <2>2. op[p].made \in Nat /\ op[p].made <= Len(Registers[At(p)]) /\ o # None
    BY <2>1, SettingUpIs, ObjectIs
  <2> QED
    BY <1>3, <2>1, <2>2, SetupWaitsIs, OnwardKeeps
<1> QED
  BY <1>1, <1>2, <1>3, FailsKeeps, SucceedsKeeps DEF SetupStep

\* The others, when the unloading of o takes its registrations or its entry.
LEMMA OthersUnload ==
  ASSUME Inv, NEW p \in Op, NEW o \in Object, OthersStay(p),
         op[p].sets = None, op'[p].sets = None,
         op'[p].kind = "idle" => op'[p].todo = <<>>,
         life[o] \in {"loaded", "gaveUp", "unloaded"},
         \A u \in Object : life'[u] = life[u] \/ (u = o /\ life'[u] = "unloaded"),
         \A n \in Name : objects'[n] \in {objects[n], None},
         \A u \in Object : Owns(u)' => Owns(u),
         running \in {p, None}
  PROVE  /\ SetUpsAreTrue' /\ SomeoneSetsUp' /\ QuickSetUps' /\ IdleIsIdle'
         /\ \A q \in Op : q # p /\ op'[q].waits # None => WaitIsTrue(q)'
<1>1. \A q \in Op : op'[q].sets = op[q].sets
  BY OthersAre
<1>2. \A u \in Object : life'[u] = "settingUp" <=> life[u] = "settingUp"
  OBVIOUS
<1>3. \A q \in Op : op'[q].sets # None => q # p
  OBVIOUS
<1>4. SetUpsAreTrue'
  <2> SUFFICES ASSUME NEW q \in Op, op'[q].sets # None
               PROVE  /\ life'[op'[q].sets] = "settingUp"
                      /\ Loading(q)' /\ op'[q].todo # <<>> /\ op'[q].sets[1] = At(q)'
                      /\ op'[q].made <= Len(Registers[At(q)'])
                      /\ \A r \in Op : op'[r].sets = op'[q].sets => r = q
    BY DEF SetUpsAreTrue
  <2>1. q # p /\ op'[q] = op[q] /\ At(q)' = At(q) /\ Loading(q)' = Loading(q)
    BY <1>3, OthersAre
  <2>2. op[q].sets \in Object
    BY <2>1, OperationIs DEF Inv
  <2>3. /\ life[op[q].sets] = "settingUp" /\ Loading(q) /\ op[q].todo # <<>>
        /\ op[q].sets[1] = At(q) /\ op[q].made <= Len(Registers[At(q)])
        /\ \A r \in Op : op[r].sets = op[q].sets => r = q
    BY <2>1 DEF Inv, SetUpsAreTrue
  <2> QED
    BY <1>1, <1>2, <2>1, <2>2, <2>3
<1>5. SomeoneSetsUp'
  BY <1>1, <1>2 DEF Inv, SomeoneSetsUp
<1>6. QuickSetUps'
  BY <1>1, <1>3, OthersAre, OthersAreSlow DEF QuickSetUps
<1>7. IdleIsIdle'
  BY OthersAre DEF Inv, IdleIsIdle
<1>8. ASSUME NEW q \in Op, q # p, op'[q].waits # None
      PROVE  WaitIsTrue(q)'
  <2>1. op'[q] = op[q] /\ At(q)' = At(q) /\ Loading(q)' = Loading(q)
    BY <1>8, OthersAre
  <2>2. op[q].waits \in Object /\ WaitIsTrue(q)
    BY <1>8, <2>1, OperationIs DEF Inv, WaitsAreTrue
  <2> QED
    BY <2>1, <2>2 DEF WaitIsTrue
<1> QED
  BY <1>4, <1>5, <1>6, <1>7, <1>8

LEMMA UnloadKeeps ==
  ASSUME Inv, NEW p \in Op, Unload(p)
  PROVE  Inv'
<1>1. /\ TypeOK' /\ running = p /\ op[p].sets = None /\ op[p].waits = None
      /\ ~Loading(p) /\ op[p].todo # <<>> /\ At(p) \in Name
  BY UnloadIs
<1>2. PICK o \in Object :
        /\ o = objects[At(p)] /\ o[1] = At(p) /\ life[o] \in {"loaded", "gaveUp"}
        /\ Silences(o)
        /\ \/ MovesOn(p) /\ Unloads(o)
           \/ /\ o[1] \in SlowDeactivate /\ Onward(p, None, op[p].made, o)
              /\ UNCHANGED <<objects, life>>
  BY UnloadIs
<1>3. /\ ~Owns(o)' /\ \A u \in Object : Owns(u)' => Owns(u)
      /\ \A n \in Name : /\ command'[n] \in {command[n], None}
                         /\ handler'[n] \in {handler[n], None}
  BY <1>1, <1>2, ObjectIs DEF Silences, Owns
<1>4. /\ OthersStay(p) /\ op'[p].sets = None
      /\ op'[p].kind = "idle" => op'[p].todo = <<>>
  BY <1>1, <1>2 DEF MovesOn, Onward, Inv, IdleIsIdle
<1>5. /\ \A u \in Object : life'[u] = life[u] \/ (u = o /\ life'[u] = "unloaded")
      /\ \A n \in Name : objects'[n] \in {objects[n], None}
  BY <1>2 DEF Unloads
<1>6. /\ SetUpsAreTrue' /\ SomeoneSetsUp' /\ QuickSetUps' /\ IdleIsIdle'
      /\ \A q \in Op : q # p /\ op'[q].waits # None => WaitIsTrue(q)'
  BY <1>1, <1>2, <1>3, <1>4, <1>5, OthersUnload
<1>7. op'[p].waits # None => WaitIsTrue(p)'
  <2>1. CASE MovesOn(p)
    BY <2>1 DEF MovesOn
  <2>2. CASE o[1] \in SlowDeactivate /\ Onward(p, None, op[p].made, o) /\ UNCHANGED <<objects, life>>
    <3>1. /\ op'[p].kind = op[p].kind /\ op'[p].todo = op[p].todo /\ op'[p].waits = o
          /\ At(p)' = At(p) /\ Loading(p)' = Loading(p)
      BY <2>2 DEF Onward, At, Loading
    <3> QED
      BY <1>1, <1>2, <1>3, <2>2, <3>1 DEF WaitIsTrue
  <2> QED
    BY <1>2, <2>1, <2>2
<1>8. ObjectsKnown'
  <2>1. CASE Unloads(o)
    BY <1>2, <1>5, <2>1, ObjectIs DEF Unloads, Inv, TypeOK, ObjectsKnown, Present
  <2>2. CASE UNCHANGED <<objects, life>>
    BY <2>2 DEF Inv, ObjectsKnown, Present
  <2> QED
    BY <1>2, <2>1, <2>2
<1>9. SilentOwnNothing'
  BY <1>3, <1>5 DEF Inv, SilentOwnNothing
<1>10. RegisteredByName' /\ GivenUp'
  BY <1>3, <1>5 DEF Inv, RegisteredByName, GivenUp
<1>11. WaitsAreTrue'
  BY <1>6, <1>7 DEF WaitsAreTrue
<1> QED
  BY <1>1, <1>6, <1>8, <1>9, <1>10, <1>11 DEF Inv

LEMMA DeactivateEndsKeeps ==
  ASSUME Inv, NEW p \in Op, DeactivateEnds(p)
  PROVE  Inv'
<1>1. /\ TypeOK' /\ MovesOn(p) /\ running = None /\ op[p].sets = None
      /\ UNCHANGED <<command, handler>>
  BY DeactivateEndsIs
<1>2. PICK o \in Object :
        /\ op[p].waits = o /\ o[1] = At(p) /\ ~Owns(o)
        /\ life[o] \in {"loaded", "gaveUp", "unloaded"} /\ Unloads(o)
  BY DeactivateEndsIs
<1>3. \A u \in Object : Owns(u)' = Owns(u)
  BY <1>1 DEF Owns
<1>4. /\ OthersStay(p) /\ op'[p].sets = None /\ op'[p].waits = None
      /\ op'[p].kind = "idle" => op'[p].todo = <<>>
  BY <1>1 DEF MovesOn
<1>5. /\ \A u \in Object : life'[u] = life[u] \/ (u = o /\ life'[u] = "unloaded")
      /\ \A n \in Name : objects'[n] \in {objects[n], None}
  BY <1>2 DEF Unloads
<1>6. /\ SetUpsAreTrue' /\ SomeoneSetsUp' /\ QuickSetUps' /\ IdleIsIdle'
      /\ \A q \in Op : q # p /\ op'[q].waits # None => WaitIsTrue(q)'
  BY <1>1, <1>2, <1>3, <1>4, <1>5, OthersUnload
<1>7. WaitsAreTrue'
  BY <1>4, <1>6 DEF WaitsAreTrue
<1>8. ObjectsKnown'
  <2>1. \A n \in Name : Present(n)' => n # o[1] /\ objects'[n] = objects[n] /\ Present(n)
    BY <1>2 DEF Unloads, Present
  <2>2. \A n \in Name : Present(n) => objects[n] \in Object /\ objects[n][1] = n
    BY DEF Inv, TypeOK, ObjectsKnown, Present
  <2> QED
    BY <1>2, <2>1, <2>2 DEF Unloads, Inv, ObjectsKnown
<1>9. SilentOwnNothing'
  BY <1>2, <1>3, <1>5 DEF Inv, SilentOwnNothing
<1>10. RegisteredByName' /\ GivenUp'
  BY <1>1, <1>5 DEF Inv, RegisteredByName, GivenUp
<1> QED
  BY <1>1, <1>6, <1>7, <1>8, <1>9, <1>10 DEF Inv

\* Every step, however operations overlap, keeps the invariant.
LEMMA Steps == Inv /\ [Next]_vars => Inv'
<1> SUFFICES ASSUME Inv, [Next]_vars PROVE Inv'
  OBVIOUS
<1>1. ASSUME NEW p \in Op, LoadRejected(p) \/ UnloadRejected(p) \/ Finish(p) \/ Request(p)
               \/ DeactivateRaises(p)
      PROVE  Inv'
  BY <1>1, RejectedIs, FinishIs, RequestIs, RaisesIs, QuietKeeps
<1>2. ASSUME NEW p \in Op, Unload(p) \/ DeactivateEnds(p)
      PROVE  Inv'
  BY <1>2, UnloadKeeps, DeactivateEndsKeeps
<1>3. ASSUME NEW p \in Op, NEW o \in Object, Instantiate(p, o) \/ SetupStep(p, o) \/ SetupWaits(p, o)
      PROVE  Inv'
  BY <1>3, InstantiateKeeps, SetUpKeeps
<1>4. CASE Next
  BY <1>1, <1>2, <1>3, <1>4 DEF Next, Progress, LoadStep, UnloadStep
<1>5. CASE UNCHANGED vars
  BY <1>5
  DEF vars, Inv, TypeOK, ObjectsKnown, Present, SetUpsAreTrue, SomeoneSetsUp, WaitsAreTrue,
      WaitIsTrue, QuickSetUps, IdleIsIdle, SilentOwnNothing, RegisteredByName, GivenUp, Owns,
      Loading, At
<1> QED
  BY <1>4, <1>5

-----------------------------------------------------------------------------
\* plugin_objects, the registrations and the operations have their types.
THEOREM TypeCorrect == Spec => []TypeOK
<1>1. Inv => TypeOK
  BY DEF Inv
<1> QED
  BY <1>1, Initially, Steps, PTL DEF Spec

\* An unloaded plugin has neither its command nor its event handlers left,
\* whatever was loaded, unloaded or reloaded meanwhile.
THEOREM UnloadedIsSilent == Spec => []UnloadedOwnsNothing
<1>1. Inv => UnloadedOwnsNothing
  BY DEF Inv, SilentOwnNothing, UnloadedOwnsNothing
<1> QED
  BY <1>1, Initially, Steps, PTL DEF Spec

-----------------------------------------------------------------------------
(***************************************************************************)
(* The table of plugins and the registrations, however operations overlap  *)
(***************************************************************************)
\* The set-up under way in p has registered what.
HasMade(p, what) == \E i \in 1 .. op[p].made : Registers[At(p)][i] = what

\* Objects of name n that overlap are kept apart.
Apart(n) ==
  /\ n \in SlowSetup \cup SlowDeactivate => Guarded(n)
  /\ n \notin SlowSetup \cap SlowDeactivate

AsksFirst(n) == n \in SlowSetup /\ Registers[n][1] = "command"

\* A set-up that failed has the command of n.
Left(n) == command[n] # None /\ life[command[n]] = "failed"

\* plugin_objects has n, and no unload of it has begun.
Live(n) == Present(n) /\ life[objects[n]] = "loaded" /\ ~Deactivating(objects[n])

\* A set-up under way has the handler it registered; and its command, unless a
\* failed one has that, or one that will not let it register its handler.
SetUpIsSound(p) ==
  /\ command[At(p)] = op[p].sets => HasMade(p, "command")
  /\ Apart(At(p)) /\ HasMade(p, "handler") => handler[At(p)] = op[p].sets
  /\ Apart(At(p)) /\ ~AsksFirst(At(p)) /\ HasMade(p, "command") =>
       \/ command[At(p)] = op[p].sets
       \/ Left(At(p))
       \/ Has(At(p), "handler") /\ ~HasMade(p, "handler") /\ handler[At(p)] # None

\* What is in plugin_objects has its registrations.  Where add_callback keeps
\* objects apart, one that is loaded has its handler as long as it has its
\* command, and no other has it while one is in plugin_objects.
NameIsSound(n) ==
  Apart(n) =>
    /\ Guarded(n) /\ command[n] # None /\ life[command[n]] = "loaded"
         => handler[n] = command[n]
    /\ Guarded(n) /\ Present(n) /\ handler[n] # None => handler[n] = objects[n]
    /\ Live(n) => /\ Has(n, "handler") => handler[n] = objects[n]
                  /\ Has(n, "command") => \/ command[n] = objects[n]
                                          \/ Left(n)
                                          \/ AsksFirst(n)

EntryIsExact(o) ==
  /\ o[1] \notin SlowDeactivate
  /\ o[1] \in SlowSetup => Guarded(o[1])
  => (life[o] \in {"loaded", "gaveUp"} <=> objects[o[1]] = o)

SetUpsAreSound(n) == \A p \in Op : op[p].sets # None /\ At(p) = n => SetUpIsSound(p)
EntriesAreExact(n) == \A o \in Object : o[1] = n => EntryIsExact(o)

Sound(n) == SetUpsAreSound(n) /\ NameIsSound(n) /\ EntriesAreExact(n)

TableInv == Inv /\ \A n \in Name : Sound(n)

\* A set-up that nothing happens to stays sound.
LEMMA SetUpStays ==
  ASSUME NEW q \in Op, op'[q].made = op[q].made, op'[q].sets = op[q].sets, At(q)' = At(q),
         command'[At(q)] = command[At(q)], handler'[At(q)] = handler[At(q)],
         Left(At(q)) => life'[command[At(q)]] = "failed",
         SetUpIsSound(q)
  PROVE  SetUpIsSound(q)'
<1>1. \A w : HasMade(q, w)' = HasMade(q, w)
  BY DEF HasMade
<1>2. Left(At(q)) => Left(At(q))'
  BY DEF Left
<1> QED
  BY <1>1, <1>2 DEF SetUpIsSound

\* And so does a name.
LEMMA NameStays ==
  ASSUME NEW n \in Name, NameIsSound(n),
         objects'[n] = objects[n], command'[n] = command[n], handler'[n] = handler[n],
         Live(n)' => Live(n),
         Left(n) => Left(n)',
         command[n] # None /\ life'[command[n]] = "loaded" => life[command[n]] = "loaded"
  PROVE  NameIsSound(n)'
<1>1. Present(n)' = Present(n)
  BY DEF Present
<1> QED
  BY <1>1 DEF NameIsSound

\* A step of p begins no unloading that has begun.
LEMMA LiveStays ==
  ASSUME NEW p \in Op, OthersStay(p), NEW n \in Name,
         objects'[n] = objects[n],
         Present(n) => life[objects[n]] = "loaded" \/ life'[objects[n]] # "loaded",
         Present(n) /\ op[p].waits = objects[n] => Loading(p)
  PROVE  Live(n)' => Live(n)
<1>1. \A q \in Op : q # p => op'[q] = op[q] /\ Loading(q)' = Loading(q)
  BY OthersAre
<1> QED
  BY <1>1 DEF Live, Present, Deactivating

\* The names a step does not touch stay sound.
LEMMA Elsewhere ==
  ASSUME TableInv, NEW p \in Op, OthersStay(p), NEW m,
         op'[p].sets # None => At(p)' = m,
         op[p].waits # None => Loading(p) \/ At(p) = m \/ ~Present(At(p)),
         \A n \in Name : n # m =>
           objects'[n] = objects[n] /\ command'[n] = command[n] /\ handler'[n] = handler[n],
         \A u \in Object : u[1] # m => life'[u] = life[u],
         NEW n \in Name, n # m
  PROVE  Sound(n)'
<1>1. Sound(n) /\ Inv
  BY DEF TableInv
<1>2. command[n] # None => command[n] \in Object /\ life'[command[n]] = life[command[n]]
  BY <1>1 DEF Inv, TypeOK, RegisteredByName
<1>3. Present(n) => objects[n] \in Object /\ objects[n][1] = n
                      /\ life'[objects[n]] = life[objects[n]]
  BY <1>1 DEF Inv, TypeOK, ObjectsKnown, Present
<1>4. Left(n) => Left(n)' /\ life'[command[n]] = "failed"
  BY <1>2 DEF Left
<1>5. SetUpsAreSound(n)'
  <2> SUFFICES ASSUME NEW q \in Op, op'[q].sets # None, At(q)' = n PROVE SetUpIsSound(q)'
    BY DEF SetUpsAreSound
  <2>1. q # p /\ op'[q] = op[q] /\ At(q)' = At(q)
    BY OthersAre
  <2> QED
    BY <1>1, <1>4, <2>1, SetUpStays DEF Sound, SetUpsAreSound
<1>6. NameIsSound(n)'
  <2>1. Present(n) /\ op[p].waits = objects[n] => Loading(p)
    <3> SUFFICES ASSUME Present(n), op[p].waits = objects[n], ~Loading(p) PROVE FALSE
      OBVIOUS
    <3>1. op[p].waits # None /\ op[p].waits[1] = At(p)
      BY <1>1 DEF Present, Inv, WaitsAreTrue, WaitIsTrue
    <3> QED
      BY <1>3, <3>1
  <2>2. Live(n)' => Live(n)
    BY <1>3, <2>1, LiveStays
  <2>3. NameIsSound(n) /\ objects'[n] = objects[n] /\ command'[n] = command[n]
          /\ handler'[n] = handler[n]
    BY <1>1 DEF Sound
  <2> QED
    BY <1>2, <1>4, <2>2, <2>3, NameStays
<1>7. EntriesAreExact(n)'
  BY <1>1 DEF Sound, EntriesAreExact, EntryIsExact
<1> QED
  BY <1>5, <1>6, <1>7 DEF Sound

\* How far a set-up has come, and what it has registered.
LEMMA HasMadeIs ==
  ASSUME Inv, NEW q \in Op, op[q].sets # None
  PROVE  /\ \A w : HasMade(q, w) => Has(At(q), w)
         /\ op[q].made = Len(Registers[At(q)]) => \A w : Has(At(q), w) => HasMade(q, w)
         /\ Has(At(q), "handler") /\ Registers[At(q)][1] # "command" /\ HasMade(q, "command")
              => HasMade(q, "handler")
<1>1. /\ op[q].made \in 0 .. 2 /\ op[q].made <= Len(Registers[At(q)])
      /\ Registers[At(q)] \in {<<>>, <<"command">>, <<"handler">>,
                               <<"command", "handler">>, <<"handler", "command">>}
  BY OperationIs, RegistersIs DEF Inv, SetUpsAreTrue
<1> DEFINE r == Registers[At(q)]
<1>2. /\ r = <<>> \/ r = <<"command">> \/ r = <<"handler">>
           \/ r = <<"command", "handler">> \/ r = <<"handler", "command">>
      /\ op[q].made \in {0, 1, 2} /\ op[q].made <= Len(r)
  BY <1>1
<1>3. Len(r) \in Nat /\ DOMAIN r = 1 .. Len(r)
  BY <1>1
<1>4. \A w : HasMade(q, w) => Has(At(q), w)
  BY <1>2, <1>3 DEF HasMade, Has
<1>5. op[q].made = Len(r) => \A w : Has(At(q), w) => HasMade(q, w)
  BY <1>3 DEF HasMade, Has
<1>6. Has(At(q), "handler") /\ r[1] # "command" /\ HasMade(q, "command") => HasMade(q, "handler")
  BY <1>2 DEF HasMade, Has
<1> QED
  BY <1>4, <1>5, <1>6

\* In a set-up that goes on, what is registered is added to what was.
LEMMA HasMadeGrows ==
  ASSUME Inv, NEW p \in Op, op[p].sets # None, NEW o, Onward(p, o, op[p].made + 1, None),
         NEW what, Registers[At(p)][op[p].made + 1] = what
  PROVE  \A w : HasMade(p, w)' <=> HasMade(p, w) \/ w = what
<1>1. op[p].made \in 0 .. 2 /\ op'[p].made = op[p].made + 1 /\ At(p)' = At(p)
  BY OperationIs DEF Inv, Onward, At
<1>2. 1 .. op[p].made + 1 = (1 .. op[p].made) \cup {op[p].made + 1}
  BY <1>1
<1> QED
  BY <1>1, <1>2 DEF HasMade

\* Another set-up under a name while p does something to it: it is a slow one.
LEMMA AnotherIsSlow ==
  ASSUME Inv, NEW p \in Op, running \in {p, None}, NEW q \in Op, q # p, op[q].sets # None,
         Apart(At(q))
  PROVE  At(q) \in SlowSetup /\ At(q) \notin SlowDeactivate /\ Guarded(At(q))
BY OthersAreSlow DEF Apart

\* A name that is present, guarded and not slow to deactivate is live.
LEMMA PresentIsLive ==
  ASSUME Inv, NEW n \in Name, Present(n), Guarded(n), n \notin SlowDeactivate
  PROVE  Live(n)
<1>1. objects[n] \in Object /\ objects[n][1] = n /\ life[objects[n]] = "loaded"
  BY DEF Inv, TypeOK, ObjectsKnown, GivenUp, Guarded, Present
<1>2. ASSUME Deactivating(objects[n]) PROVE FALSE
  <2>1. PICK q \in Op : op[q].waits = objects[n] /\ ~Loading(q)
    BY <1>2 DEF Deactivating
  <2>2. op[q].waits # None /\ op[q].waits[1] = At(q) /\ At(q) \in SlowDeactivate
    BY <1>1, <2>1, ObjectIs DEF Inv, WaitsAreTrue, WaitIsTrue
  <2> QED
    BY <1>1, <2>1, <2>2
<1> QED
  BY <1>1, <1>2 DEF Live

\* Nothing is registered, begun or ended in a step that only moves operations.
LEMMA QuietKeepsTable ==
  ASSUME TableInv, NEW p \in Op, OnlyMoves(p), NEW n \in Name
  PROVE  Sound(n)'
<1>1. Sound(n) /\ Inv /\ OthersStay(p) /\ UNCHANGED <<objects, life, command, handler>>
      /\ op[p].sets = None /\ op'[p].sets = None
  BY DEF TableInv, OnlyMoves
<1>2. SetUpsAreSound(n)'
  <2> SUFFICES ASSUME NEW q \in Op, op'[q].sets # None, At(q)' = n PROVE SetUpIsSound(q)'
    BY DEF SetUpsAreSound
  <2>1. op'[q] = op[q] /\ At(q)' = At(q)
    BY <1>1, OthersAre
  <2> QED
    BY <1>1, <2>1, SetUpStays DEF Sound, SetUpsAreSound, Left
<1>3. NameIsSound(n)'
  <2>1. Present(n) /\ op[p].waits = objects[n] => Loading(p)
    <3> SUFFICES ASSUME Present(n), op[p].waits = objects[n], ~Loading(p) PROVE FALSE
      OBVIOUS
    <3>1. op[p].waits # None /\ op[p].waits[1] = At(p) /\ ~Present(At(p))
      BY <1>1 DEF Present, OnlyMoves, Inv, WaitsAreTrue, WaitIsTrue
    <3> QED
      BY <1>1, <3>1 DEF Inv, ObjectsKnown
  <2>2. Live(n)' => Live(n)
    BY <1>1, <2>1, LiveStays
  <2>3. Left(n)' = Left(n)
    BY <1>1 DEF Left
  <2>4. NameIsSound(n)
    BY <1>1 DEF Sound
  <2> QED
    BY <1>1, <2>2, <2>3, <2>4, NameStays
<1>4. EntriesAreExact(n)'
  BY <1>1 DEF Sound, EntriesAreExact, EntryIsExact
<1> QED
  BY <1>2, <1>3, <1>4 DEF Sound

LEMMA InstantiateKeepsTable ==
  ASSUME TableInv, NEW p \in Op, NEW o \in Object, Instantiate(p, o), NEW n \in Name
  PROVE  Sound(n)'
<1>1. /\ Onward(p, o, 0, None) /\ op[p].sets = None /\ op[p].waits = None
      /\ Loading(p) /\ op[p].todo # <<>> /\ o[1] = At(p) /\ ~Present(At(p))
      /\ life[o] = "unused"
      /\ \A u \in Object : life'[u] = IF u = o THEN "settingUp" ELSE life[u]
      /\ UNCHANGED <<objects, command, handler>>
  BY InstantiateIs DEF TableInv
<1>2. /\ OthersStay(p) /\ op'[p].sets = o /\ op'[p].made = 0 /\ op'[p].waits = None
      /\ At(p)' = At(p)
  BY <1>1 DEF Onward, At
<1>3. Inv /\ Sound(n)
  BY DEF TableInv
<1>4. CASE n # At(p)
  BY <1>1, <1>2, <1>4, Elsewhere
<1>5. CASE n = At(p)
  <2>1. command[n] # o /\ handler[n] # o
    BY <1>1, <1>3, <1>5 DEF Inv, SilentOwnNothing, Owns
  <2>2. command[n] # None => command[n] \in Object /\ life'[command[n]] = life[command[n]]
    BY <1>1, <1>3, <2>1 DEF Inv, TypeOK
  <2>3. Left(n) => Left(n)' /\ life'[command[n]] = "failed"
    BY <1>1, <2>2 DEF Left
  <2>4. SetUpsAreSound(n)'
    <3> SUFFICES ASSUME NEW q \in Op, op'[q].sets # None, At(q)' = n PROVE SetUpIsSound(q)'
      BY DEF SetUpsAreSound
    <3>1. CASE q = p
      <4>1. \A w : ~HasMade(p, w)'
        BY <1>2 DEF HasMade
      <4> QED
        BY <1>1, <1>2, <1>5, <2>1, <3>1, <4>1 DEF SetUpIsSound
    <3>2. CASE q # p
      <4>1. op'[q] = op[q] /\ At(q)' = At(q)
        BY <1>2, <3>2, OthersAre
      <4> QED
        BY <1>1, <1>3, <2>3, <4>1, SetUpStays DEF Sound, SetUpsAreSound
    <3> QED
      BY <3>1, <3>2
  <2>5. NameIsSound(n)'
    <3>1. Live(n)' => Live(n)
      BY <1>1, <1>5 DEF Live, Present
    <3>2. NameIsSound(n)
      BY <1>3 DEF Sound
    <3> QED
      BY <1>1, <2>2, <2>3, <3>1, <3>2, NameStays
  <2>6. EntriesAreExact(n)'
    <3>1. \A u \in Object : objects[n] # u
      BY <1>1, <1>5, ObjectIs DEF Present
    <3> QED
      BY <1>1, <1>3, <3>1 DEF Sound, EntriesAreExact, EntryIsExact
  <2> QED
    BY <2>4, <2>5, <2>6 DEF Sound
<1> QED
  BY <1>4, <1>5

\* A step of the set-up of o touches no other name.
LEMMA SetUpElsewhere ==
  ASSUME TableInv, NEW p \in Op, NEW o \in Object, SettingUp(p, o), OthersStay(p),
         op'[p].sets # None => At(p)' = At(p),
         \A n \in Name : n # o[1] =>
           objects'[n] = objects[n] /\ command'[n] = command[n] /\ handler'[n] = handler[n],
         \A u \in Object : u # o => life'[u] = life[u],
         NEW n \in Name, n # o[1]
  PROVE  Sound(n)'
<1>1. Loading(p) /\ o[1] = At(p)
  BY SettingUpIs DEF TableInv
<1>2. \A u \in Object : u[1] # o[1] => life'[u] = life[u]
  OBVIOUS
<1> QED
  BY <1>1, <1>2, Elsewhere

LEMMA SetupWaitsKeepsTable ==
  ASSUME TableInv, NEW p \in Op, NEW o \in Object, SetupWaits(p, o), NEW n \in Name
  PROVE  Sound(n)'
<1>1. /\ Onward(p, o, op[p].made, o) /\ SettingUp(p, o)
      /\ UNCHANGED <<objects, life, command, handler>>
  BY SetupWaitsIs DEF TableInv, SetupWaits
<1>2. /\ OthersStay(p) /\ op'[p].sets = o /\ op'[p].made = op[p].made /\ At(p)' = At(p)
      /\ op[p].sets = o /\ Loading(p)
  BY <1>1, SettingUpIs DEF Onward, At, TableInv
<1>3. Inv /\ Sound(n) /\ Left(n)' = Left(n)
  BY <1>1 DEF TableInv, Left
<1>4. SetUpsAreSound(n)'
  <2> SUFFICES ASSUME NEW q \in Op, op'[q].sets # None, At(q)' = n PROVE SetUpIsSound(q)'
    BY DEF SetUpsAreSound
  <2>1. op'[q].made = op[q].made /\ op'[q].sets = op[q].sets /\ At(q)' = At(q)
    BY <1>2, OthersAre
  <2> QED
    BY <1>1, <1>3, <2>1, SetUpStays DEF Sound, SetUpsAreSound, Left
<1>5. NameIsSound(n)'
  <2>1. Live(n)' => Live(n)
    BY <1>1, <1>2, LiveStays
  <2>2. NameIsSound(n)
    BY <1>3 DEF Sound
  <2> QED
    BY <1>1, <1>3, <2>1, <2>2, NameStays
<1>6. EntriesAreExact(n)'
  BY <1>1, <1>3 DEF Sound, EntriesAreExact, EntryIsExact
<1> QED
  BY <1>4, <1>5, <1>6 DEF Sound

LEMMA FailsKeepsTable ==
  ASSUME TableInv, NEW p \in Op, NEW o \in Object, SetupClashes(p, o) \/ SetupRaises(p, o),
         NEW n \in Name
  PROVE  Sound(n)'
<1>1. /\ MovesOn(p) /\ SettingUp(p, o)
      /\ \A u \in Object : life'[u] = IF u = o THEN "failed" ELSE life[u]
      /\ UNCHANGED <<objects, command, handler>>
  BY SetupFailsIs DEF TableInv, SetupClashes, SetupRaises, Clashes
<1>2. /\ OthersStay(p) /\ op'[p].sets = None /\ op[p].sets = o /\ Loading(p)
      /\ life[o] = "settingUp"
  BY <1>1, SettingUpIs DEF MovesOn, TableInv
<1>3. Inv /\ Sound(n)
  BY DEF TableInv
<1>4. command[n] # None => command[n] \in Object
  BY <1>3 DEF Inv, TypeOK
<1>5. Left(n) => Left(n)' /\ life'[command[n]] = "failed"
  BY <1>1, <1>4 DEF Left
<1>6. SetUpsAreSound(n)'
  <2> SUFFICES ASSUME NEW q \in Op, op'[q].sets # None, At(q)' = n PROVE SetUpIsSound(q)'
    BY DEF SetUpsAreSound
  <2>1. op'[q] = op[q] /\ At(q)' = At(q)
    BY <1>2, OthersAre
  <2> QED
    BY <1>1, <1>3, <1>5, <2>1, SetUpStays DEF Sound, SetUpsAreSound
<1>7. NameIsSound(n)'
  <2>1. Present(n) => objects[n] \in Object
    BY <1>3 DEF Inv, TypeOK, Present
  <2>2. Live(n)' => Live(n)
    BY <1>1, <1>2, <2>1, LiveStays
  <2>3. NameIsSound(n)
    BY <1>3 DEF Sound
  <2> QED
    BY <1>1, <1>4, <1>5, <2>2, <2>3, NameStays
<1>8. EntriesAreExact(n)'
  <2>1. objects[n] # o
    BY <1>2, <1>3, ObjectIs DEF Inv, ObjectsKnown, Present
  <2> QED
    BY <1>1, <1>2, <1>3, <2>1 DEF Sound, EntriesAreExact, EntryIsExact
<1> QED
  BY <1>6, <1>7, <1>8 DEF Sound

\* What keeps o, setting up, from its command, if it is not one that failed.
LEMMA CommandIsTaken ==
  ASSUME TableInv, NEW p \in Op, NEW o \in Object, SettingUp(p, o), NextIs(p, "command"),
         Apart(o[1]), ~AsksFirst(o[1]),
         command[o[1]] # None, command[o[1]] # o, ~Left(o[1])
  PROVE  Has(o[1], "handler") /\ ~HasMade(p, "handler") /\ handler[o[1]] # None
<1> DEFINE n == o[1]
           c == command[n]
<1>1. Inv /\ n \in Name /\ Sound(n)
  BY ObjectIs DEF TableInv
<1>2. /\ op[p].sets = o /\ life[o] = "settingUp" /\ running \in {p, None} /\ o # None
      /\ n = At(p) /\ op[p].todo # <<>> /\ (n \notin SlowSetup => ~Present(n))
  BY <1>1, SettingUpIs
<1>3. c \in Object /\ c[1] = n
  BY <1>1 DEF Inv, TypeOK, RegisteredByName
<1>4. SetUpIsSound(p)
  BY <1>1, <1>2 DEF Sound, SetUpsAreSound
<1>5. HasMade(p, "handler") => handler[n] = o
  BY <1>2, <1>4 DEF SetUpIsSound
<1>6. n \in SlowSetup => Guarded(n) /\ n \notin SlowDeactivate
  BY DEF Apart
<1>7. n \in SlowSetup => HasMade(p, "handler")
  <2> SUFFICES ASSUME n \in SlowSetup PROVE HasMade(p, "handler")
    OBVIOUS
  <2>1. Has(n, "handler") /\ Registers[n][1] # "command"
    BY <1>6 DEF Guarded, AsksFirst
  <2>2. /\ Registers[n] \in {<<>>, <<"command">>, <<"handler">>,
                              <<"command", "handler">>, <<"handler", "command">>}
        /\ op[p].made \in 0 .. 2 /\ op[p].made < Len(Registers[n])
        /\ Registers[n][op[p].made + 1] = "command"
    BY <1>1, <1>2, RegistersIs, OperationIs DEF NextIs, Inv
  <2>3. Registers[n] = <<"handler", "command">>
    BY <2>1, <2>2 DEF Has
  <2>4. op[p].made = 1
    BY <2>2, <2>3
  <2> QED
    BY <1>2, <2>3, <2>4 DEF HasMade
<1>8. ASSUME life[c] = "settingUp" PROVE FALSE
  <2>1. PICK q \in Op : op[q].sets = c
    BY <1>1, <1>3, <1>8 DEF Inv, SomeoneSetsUp
  <2>2. q # p /\ op[q].sets # None /\ At(q) = n
    BY <1>1, <1>2, <1>3, <2>1, ObjectIs DEF Inv, SetUpsAreTrue
  <2>3. n \in SlowSetup
    BY <1>1, <1>2, <2>2, OthersAreSlow
  <2>4. SetUpIsSound(q)
    BY <1>1, <2>2 DEF Sound, SetUpsAreSound
  <2>5. HasMade(q, "command") /\ Has(n, "handler") /\ Registers[n][1] # "command"
    BY <1>6, <2>1, <2>2, <2>3, <2>4 DEF SetUpIsSound, Guarded, AsksFirst
  <2>6. HasMade(q, "handler")
    BY <1>1, <2>2, <2>5, HasMadeIs
  <2>7. handler[n] = c
    BY <2>1, <2>2, <2>4, <2>6 DEF SetUpIsSound
  <2> QED
    BY <1>5, <1>7, <2>3, <2>7
<1>9. life[c] \notin {"unused", "unloaded"}
  BY <1>1, <1>3 DEF Inv, SilentOwnNothing, Owns
<1>10. life[c] \in {"loaded", "gaveUp"}
  BY <1>1, <1>3, <1>8, <1>9 DEF Inv, TypeOK, Left
<1>11. Guarded(n)
  <2> SUFFICES ASSUME ~Guarded(n) PROVE FALSE
    OBVIOUS
  <2>1. n \notin SlowSetup /\ n \notin SlowDeactivate
    BY DEF Apart
  <2>2. objects[n] = c
    BY <1>1, <1>3, <1>10, <2>1 DEF Sound, EntriesAreExact, EntryIsExact
  <2> QED
    BY <1>2, <1>3, <2>1, <2>2, ObjectIs DEF Present
<1>12. life[c] = "loaded"
  BY <1>1, <1>3, <1>10, <1>11 DEF Inv, GivenUp, Guarded
<1>13. handler[n] = c
  BY <1>1, <1>11, <1>12 DEF Sound, NameIsSound
<1> QED
  BY <1>3, <1>5, <1>11, <1>13, ObjectIs DEF Guarded

LEMMA RegistersCommandKeepsTable ==
  ASSUME TableInv, NEW p \in Op, NEW o \in Object, RegistersCommand(p, o), NEW n \in Name
  PROVE  Sound(n)'
<1>1. /\ Onward(p, o, op[p].made + 1, None) /\ Registers[At(p)][op[p].made + 1] = "command"
      /\ \A m \in Name : command'[m] = IF m = o[1] /\ command[m] = None THEN o ELSE command[m]
      /\ UNCHANGED <<objects, life, handler>>
      /\ SettingUp(p, o) /\ NextIs(p, "command")
  BY RegistersCommandIs DEF TableInv, RegistersCommand
<1>2. /\ OthersStay(p) /\ op'[p].sets = o /\ At(p)' = At(p) /\ op[p].sets = o /\ o # None
      /\ o[1] = At(p) /\ Loading(p) /\ life[o] = "settingUp" /\ running \in {p, None}
  BY <1>1, SettingUpIs DEF Onward, At, TableInv
<1>3. Inv /\ Sound(n)
  BY DEF TableInv
<1>4. CASE n # o[1]
  BY <1>1, <1>2, <1>4, SetUpElsewhere
<1>5. CASE n = o[1]
  <2>1. \A w : HasMade(p, w)' <=> HasMade(p, w) \/ w = "command"
    BY <1>1, <1>2, <1>3, HasMadeGrows
  <2>2. Left(n) => Left(n)' /\ command'[n] = command[n]
    BY <1>1 DEF Left
  <2>3. SetUpsAreSound(n)'
    <3> SUFFICES ASSUME NEW q \in Op, op'[q].sets # None, At(q)' = n PROVE SetUpIsSound(q)'
      BY DEF SetUpsAreSound
    <3>1. CASE q = p
      <4>1. SetUpIsSound(p)
        BY <1>2, <1>3, <1>5 DEF Sound, SetUpsAreSound
      <4>2. Apart(n) /\ HasMade(p, "handler")' => handler'[n] = o
        BY <1>1, <1>2, <1>5, <2>1, <4>1 DEF SetUpIsSound
      <4>3. Apart(n) /\ ~AsksFirst(n) =>
              \/ command'[n] = o
              \/ Left(n)'
              \/ Has(n, "handler") /\ ~HasMade(p, "handler")' /\ handler'[n] # None
        BY <1>1, <1>5, <2>1, <2>2, CommandIsTaken
      <4> QED
        BY <1>2, <1>5, <2>1, <3>1, <4>2, <4>3 DEF SetUpIsSound
    <3>2. CASE q # p
      <4>1. op'[q] = op[q] /\ At(q)' = At(q) /\ op[q].sets # None /\ At(q) = n
        BY <1>2, <3>2, OthersAre
      <4>2. SetUpIsSound(q) /\ op[q].sets # o
        BY <1>2, <1>3, <3>2, <4>1 DEF Sound, SetUpsAreSound, Inv, SetUpsAreTrue
      <4>3. \A w : HasMade(q, w)' = HasMade(q, w)
        BY <4>1 DEF HasMade
      <4>4. command'[n] = op[q].sets <=> command[n] = op[q].sets
        BY <1>1, <4>1, <4>2
      <4> QED
        BY <1>1, <2>2, <4>1, <4>2, <4>3, <4>4 DEF SetUpIsSound
    <3> QED
      BY <3>1, <3>2
  <2>4. NameIsSound(n)'
    <3>1. Live(n)' => Live(n)
      BY <1>1, <1>2, LiveStays
    <3>2. Present(n)' = Present(n) /\ NameIsSound(n)
      BY <1>1, <1>3 DEF Present, Sound
    <3>3. command'[n] # None /\ life'[command'[n]] = "loaded" =>
            command'[n] = command[n] /\ life[command[n]] = "loaded"
      BY <1>1, <1>2
    <3>4. Live(n) => objects[n] # None
      BY DEF Live, Present
    <3>5. command[n] # None => command'[n] = command[n]
      BY <1>1
    <3> QED
      BY <1>1, <2>2, <3>1, <3>2, <3>3, <3>4, <3>5 DEF NameIsSound
  <2>5. EntriesAreExact(n)'
    BY <1>1, <1>3 DEF Sound, EntriesAreExact, EntryIsExact
  <2> QED
    BY <2>3, <2>4, <2>5 DEF Sound
<1> QED
  BY <1>4, <1>5

LEMMA RegistersHandlerKeepsTable ==
  ASSUME TableInv, NEW p \in Op, NEW o \in Object, RegistersHandler(p, o), NEW n \in Name
  PROVE  Sound(n)'
<1>1. /\ Onward(p, o, op[p].made + 1, None) /\ Registers[At(p)][op[p].made + 1] = "handler"
      /\ handler[o[1]] = None
      /\ \A m \in Name : handler'[m] = IF m = o[1] THEN o ELSE handler[m]
      /\ UNCHANGED <<objects, life, command>>
      /\ SettingUp(p, o)
  BY RegistersHandlerIs DEF TableInv, RegistersHandler
<1>2. /\ OthersStay(p) /\ op'[p].sets = o /\ At(p)' = At(p) /\ op[p].sets = o /\ o # None
      /\ o[1] = At(p) /\ Loading(p) /\ life[o] = "settingUp" /\ running \in {p, None}
      /\ At(p) \notin SlowSetup => ~Present(At(p))
  BY <1>1, SettingUpIs DEF Onward, At, TableInv
<1>3. Inv /\ Sound(n)
  BY DEF TableInv
<1>4. CASE n # o[1]
  BY <1>1, <1>2, <1>4, SetUpElsewhere
<1>5. CASE n = o[1]
  <2>1. \A w : HasMade(p, w)' <=> HasMade(p, w) \/ w = "handler"
    BY <1>1, <1>2, <1>3, HasMadeGrows
  <2>2. Left(n) => Left(n)'
    BY <1>1 DEF Left
  <2>3. SetUpsAreSound(n)'
    <3> SUFFICES ASSUME NEW q \in Op, op'[q].sets # None, At(q)' = n PROVE SetUpIsSound(q)'
      BY DEF SetUpsAreSound
    <3>1. CASE q = p
      <4>1. SetUpIsSound(p)
        BY <1>2, <1>3, <1>5 DEF Sound, SetUpsAreSound
      <4>2. handler'[n] = o
        BY <1>1, <1>5
      <4>3. HasMade(p, "command")' <=> HasMade(p, "command")
        BY <2>1
      <4> QED
        BY <1>1, <1>2, <1>5, <2>2, <3>1, <4>1, <4>2, <4>3 DEF SetUpIsSound
    <3>2. CASE q # p
      <4>1. op'[q] = op[q] /\ At(q)' = At(q) /\ op[q].sets # None /\ At(q) = n
        BY <1>2, <3>2, OthersAre
      <4>2. SetUpIsSound(q)
        BY <1>3, <4>1 DEF Sound, SetUpsAreSound
      <4>3. \A w : HasMade(q, w)' = HasMade(q, w)
        BY <4>1 DEF HasMade
      <4> QED
        BY <1>1, <1>5, <2>2, <4>1, <4>2, <4>3 DEF SetUpIsSound
    <3> QED
      BY <3>1, <3>2
  <2>4. NameIsSound(n)'
    <3>1. NameIsSound(n)
      BY <1>3 DEF Sound
    <3>2. Apart(n) => (Guarded(n) => ~Present(n))
      <4> SUFFICES ASSUME Apart(n), Guarded(n), Present(n) PROVE FALSE
        OBVIOUS
      <4>1. n \notin SlowDeactivate
        BY <1>2, <1>5 DEF Apart
      <4>2. Live(n) /\ Has(n, "handler")
        BY <1>3, <4>1, PresentIsLive DEF Guarded
      <4> QED
        BY <1>1, <1>5, <3>1, <4>2 DEF NameIsSound, Present
    <3>3. Apart(n) => (Present(n) => Guarded(n))
      BY <1>2, <1>5 DEF Apart
    <3>4. Present(n)' = Present(n) /\ (Live(n)' => Present(n))
      BY <1>1 DEF Present, Live
    <3>5. Apart(n) /\ Guarded(n) => ~(command[n] # None /\ life[command[n]] = "loaded")
      BY <1>1, <1>5, <3>1 DEF NameIsSound
    <3> QED
      BY <1>1, <3>2, <3>3, <3>4, <3>5 DEF NameIsSound
  <2>5. EntriesAreExact(n)'
    BY <1>1, <1>3 DEF Sound, EntriesAreExact, EntryIsExact
  <2> QED
    BY <2>3, <2>4, <2>5 DEF Sound
<1> QED
  BY <1>4, <1>5

LEMMA SucceedsKeepsTable ==
  ASSUME TableInv, NEW p \in Op, NEW o \in Object, SetupReturns(p, o) \/ SetupGivesUp(p, o),
         NEW n \in Name
  PROVE  Sound(n)'
<1>1. PICK how \in {"loaded", "gaveUp"} :
        /\ SettingUp(p, o) /\ Succeeds(p, o, how) /\ (how = "gaveUp" => o[1] \in GivesUp)
        /\ how = "loaded" => op[p].made = Len(Registers[At(p)])
  BY DEF SetupReturns, SetupGivesUp
<1>2. /\ MovesOn(p)
      /\ \A u \in Object : life'[u] = IF u = o THEN how ELSE life[u]
      /\ \A m \in Name : objects'[m] = IF m = o[1] THEN o ELSE objects[m]
      /\ UNCHANGED <<command, handler>>
  BY <1>1, SucceedsIs DEF TableInv
<1>3. /\ OthersStay(p) /\ op'[p].sets = None /\ op[p].sets = o /\ o # None
      /\ o[1] = At(p) /\ life[o] = "settingUp" /\ running \in {p, None}
      /\ At(p) \notin SlowSetup => ~Present(At(p))
  BY <1>1, <1>2, SettingUpIs DEF MovesOn, TableInv
<1>4. Inv /\ Sound(n)
  BY DEF TableInv
<1>5. CASE n # o[1]
  BY <1>1, <1>2, <1>3, <1>5, SetUpElsewhere
<1>6. CASE n = o[1]
  <2>1. command[n] # None => command[n] \in Object
    BY <1>4 DEF Inv, TypeOK
  <2>2. Left(n) => Left(n)' /\ life'[command[n]] = "failed"
    BY <1>2, <1>3, <2>1 DEF Left
  <2>3. SetUpIsSound(p)
    BY <1>3, <1>4, <1>6 DEF Sound, SetUpsAreSound
  <2>4. how = "loaded" => \A w : HasMade(p, w) <=> Has(n, w)
    BY <1>1, <1>3, <1>4, <1>6, HasMadeIs
  <2>5. how = "loaded" /\ Apart(n) =>
          /\ Has(n, "handler") => handler[n] = o
          /\ Has(n, "command") => command[n] = o \/ Left(n) \/ AsksFirst(n)
    BY <1>3, <1>6, <2>3, <2>4 DEF SetUpIsSound
  <2>6. SetUpsAreSound(n)'
    <3> SUFFICES ASSUME NEW q \in Op, op'[q].sets # None, At(q)' = n PROVE SetUpIsSound(q)'
      BY DEF SetUpsAreSound
    <3>1. op'[q] = op[q] /\ At(q)' = At(q)
      BY <1>3, OthersAre
    <3> QED
      BY <1>2, <1>4, <2>2, <3>1, SetUpStays DEF Sound, SetUpsAreSound
  <2>7. Guarded(n) => how = "loaded" /\ Has(n, "handler")
    BY <1>1, <1>6 DEF Guarded
  <2>8. NameIsSound(n)'
    <3>1. NameIsSound(n)
      BY <1>4 DEF Sound
    <3>2. Apart(n) /\ Guarded(n) /\ command[n] # None /\ life'[command[n]] = "loaded"
            => handler[n] = command[n]
      BY <1>2, <2>1, <2>5, <2>7, <3>1 DEF NameIsSound
    <3>3. Apart(n) /\ Guarded(n) => handler[n] = o
      BY <2>5, <2>7
    <3>4. Live(n)' => how = "loaded"
      BY <1>2, <1>3, <1>6 DEF Live
    <3>5. objects'[n] = o
      BY <1>2, <1>6
    <3> QED
      BY <1>2, <2>2, <2>5, <3>2, <3>3, <3>4, <3>5 DEF NameIsSound
  <2>9. EntriesAreExact(n)'
    <3>1. ASSUME n \notin SlowDeactivate, n \in SlowSetup => Guarded(n)
          PROVE  ~Present(n)
      <4>1. CASE n \in SlowSetup
        <5>1. Apart(n) /\ Guarded(n)
          BY <3>1, <4>1 DEF Apart
        <5>2. handler[n] = o
          BY <2>5, <2>7, <5>1
        <5>3. Present(n) => objects[n] = o
          BY <1>3, <1>4, <5>1, <5>2 DEF Sound, NameIsSound
        <5> QED
          BY <1>3, <1>4, <5>3 DEF Inv, ObjectsKnown
      <4>2. CASE n \notin SlowSetup
        BY <1>3, <1>6, <4>2
      <4> QED
        BY <4>1, <4>2
    <3>2. \A u \in Object : ~Present(n) => objects[n] # u
      BY ObjectIs DEF Present
    <3> SUFFICES ASSUME NEW u \in Object, u[1] = n,
                        n \notin SlowDeactivate, n \in SlowSetup => Guarded(n)
                 PROVE  life'[u] \in {"loaded", "gaveUp"} <=> objects'[n] = u
      BY DEF EntriesAreExact, EntryIsExact
    <3>3. objects[n] # u /\ life[u] \notin {"loaded", "gaveUp"}
      BY <1>4, <3>1, <3>2 DEF Sound, EntriesAreExact, EntryIsExact
    <3> QED
      BY <1>2, <1>6, <3>3
  <2> QED
    BY <2>6, <2>8, <2>9 DEF Sound
<1> QED
  BY <1>5, <1>6

LEMMA UnloadKeepsTable ==
  ASSUME TableInv, NEW p \in Op, Unload(p), NEW n \in Name
  PROVE  Sound(n)'
<1>1. Inv /\ Sound(n)
  BY DEF TableInv
<1>2. /\ running = p /\ op[p].sets = None /\ op[p].waits = None /\ ~Loading(p) /\ At(p) \in Name
  BY <1>1, UnloadIs
<1>3. PICK o \in Object :
        /\ o = objects[At(p)] /\ o[1] = At(p) /\ life[o] \in {"loaded", "gaveUp"}
        /\ Silences(o)
        /\ \/ MovesOn(p) /\ Unloads(o)
           \/ /\ o[1] \in SlowDeactivate /\ Onward(p, None, op[p].made, o)
              /\ UNCHANGED <<objects, life>>
  BY <1>1, UnloadIs
<1>4. OthersStay(p) /\ op'[p].sets = None /\ o # None
  BY <1>3, ObjectIs DEF MovesOn, Onward
<1>5. CASE n # o[1]
  <2>1. /\ command[n] # None => command[n][1] = n
        /\ command'[n] = command[n] /\ handler'[n] = handler[n]
    BY <1>1, <1>3, <1>5, ObjectIs DEF Silences, Inv, RegisteredByName
  <2>2. \A m \in Name : m # o[1] =>
          objects'[m] = objects[m] /\ command'[m] = command[m] /\ handler'[m] = handler[m]
    BY <1>1, <1>3, <1>4 DEF Silences, Unloads, Inv, RegisteredByName
  <2>3. \A u \in Object : u[1] # o[1] => life'[u] = life[u]
    BY <1>3 DEF Unloads
  <2> QED
    BY <1>2, <1>4, <1>5, <2>2, <2>3, Elsewhere
<1>6. CASE n = o[1]
  <2>1. n = At(p) /\ Present(n) /\ objects[n] = o
    BY <1>3, <1>4, <1>6 DEF Present
  <2>2. command'[n] = (IF command[n] = o THEN None ELSE command[n]) /\ handler'[n] = None
    BY <1>3, <1>6 DEF Silences
  <2>3. command[n] # None => command[n] \in Object
    BY <1>1 DEF Inv, TypeOK
  <2>4. Left(n) => Left(n)'
    BY <1>3, <2>2, <2>3 DEF Left, Unloads
  <2>5. NameIsSound(n)
    BY <1>1 DEF Sound
  <2>6. SetUpsAreSound(n)'
    <3> SUFFICES ASSUME NEW q \in Op, op'[q].sets # None, At(q)' = n PROVE SetUpIsSound(q)'
      BY DEF SetUpsAreSound
    <3>1. q # p /\ op'[q] = op[q] /\ At(q)' = At(q) /\ op[q].sets # None /\ At(q) = n
      BY <1>4, OthersAre
    <3>2. SetUpIsSound(q) /\ life[op[q].sets] = "settingUp"
      BY <1>1, <3>1 DEF Sound, SetUpsAreSound, Inv, SetUpsAreTrue
    <3>3. \A w : HasMade(q, w)' = HasMade(q, w)
      BY <3>1 DEF HasMade
    <3>4. command'[n] = op[q].sets => HasMade(q, "command")
      BY <2>2, <3>1, <3>2 DEF SetUpIsSound
    <3>5. ASSUME Apart(n), HasMade(q, "handler") PROVE FALSE
      <4>1. n \notin SlowDeactivate /\ Guarded(n)
        BY <1>1, <1>2, <3>1, <3>5, AnotherIsSlow
      <4>2. handler[n] = op[q].sets
        BY <3>1, <3>2, <3>5 DEF SetUpIsSound
      <4>3. handler[n] = o
        BY <1>1, <2>1, <2>5, <3>1, <3>5, <4>1, <4>2 DEF NameIsSound
      <4> QED
        BY <1>3, <3>2, <4>2, <4>3
    <3>6. ASSUME Apart(n), ~AsksFirst(n), HasMade(q, "command") PROVE FALSE
      <4>1. n \in SlowSetup /\ Guarded(n)
        BY <1>1, <1>2, <3>1, <3>6, AnotherIsSlow
      <4>2. HasMade(q, "handler")
        BY <1>1, <3>1, <3>6, <4>1, HasMadeIs DEF AsksFirst, Guarded
      <4> QED
        BY <3>5, <3>6, <4>2
    <3> QED
      BY <3>1, <3>3, <3>4, <3>5, <3>6 DEF SetUpIsSound
  <2>7. NameIsSound(n)'
    <3>1. Apart(n) /\ Guarded(n) /\ command'[n] # None => life'[command'[n]] # "loaded"
      <4> SUFFICES ASSUME Apart(n), Guarded(n), command'[n] # None,
                          life'[command'[n]] = "loaded"
                   PROVE  FALSE
        OBVIOUS
      <4>1. command[n] # None /\ command[n] # o /\ command'[n] = command[n]
        BY <2>2
      <4>2. life[command[n]] = "loaded"
        BY <1>3, <2>3, <4>1 DEF Unloads
      <4>3. handler[n] = command[n]
        BY <2>5, <4>1, <4>2 DEF NameIsSound
      <4>4. handler[n] = o
        BY <2>1, <2>5, <4>1, <4>3 DEF NameIsSound
      <4> QED
        BY <4>1, <4>3, <4>4
    <3>2. ~Live(n)'
      <4>1. CASE Unloads(o)
        BY <1>6, <4>1 DEF Unloads, Live, Present
      <4>2. CASE Onward(p, None, op[p].made, o) /\ UNCHANGED <<objects, life>>
        <5>1. op'[p].waits = o /\ op'[p].kind = op[p].kind /\ objects'[n] = o
          BY <2>1, <4>2 DEF Onward
        <5>2. ~Loading(p)'
          BY <1>2, <5>1 DEF Loading
        <5> QED
          BY <5>1, <5>2 DEF Live, Deactivating
      <4> QED
        BY <1>3, <4>1, <4>2
    <3> QED
      BY <2>2, <3>1, <3>2 DEF NameIsSound
  <2>8. EntriesAreExact(n)'
    <3> SUFFICES ASSUME NEW u \in Object, u[1] = n,
                        n \notin SlowDeactivate, n \in SlowSetup => Guarded(n)
                 PROVE  life'[u] \in {"loaded", "gaveUp"} <=> objects'[n] = u
      BY DEF EntriesAreExact, EntryIsExact
    <3>1. Unloads(o)
      BY <1>3, <1>6
    <3>2. objects'[n] = None /\ u # None
      BY <1>6, <3>1, ObjectIs DEF Unloads
    <3>3. u # o => life[u] \notin {"loaded", "gaveUp"}
      BY <1>1, <2>1 DEF Sound, EntriesAreExact, EntryIsExact
    <3> QED
      BY <3>1, <3>2, <3>3 DEF Unloads
  <2> QED
    BY <2>6, <2>7, <2>8 DEF Sound
<1> QED
  BY <1>5, <1>6

LEMMA DeactivateEndsKeepsTable ==
  ASSUME TableInv, NEW p \in Op, DeactivateEnds(p), NEW n \in Name
  PROVE  Sound(n)'
<1>1. Inv /\ Sound(n)
  BY DEF TableInv
<1>2. /\ MovesOn(p) /\ running = None /\ ~Loading(p)
      /\ At(p) \in SlowDeactivate /\ UNCHANGED <<command, handler>>
  BY <1>1, DeactivateEndsIs
<1>3. PICK o \in Object :
        op[p].waits = o /\ o[1] = At(p) /\ life[o] \in {"loaded", "gaveUp", "unloaded"} /\ Unloads(o)
  BY <1>1, DeactivateEndsIs
<1>4. OthersStay(p) /\ op'[p].sets = None
  BY <1>2 DEF MovesOn
<1>5. CASE n # o[1]
  <2>1. \A m \in Name : m # o[1] =>
          objects'[m] = objects[m] /\ command'[m] = command[m] /\ handler'[m] = handler[m]
    BY <1>2, <1>3 DEF Unloads
  <2>2. \A u \in Object : u[1] # o[1] => life'[u] = life[u]
    BY <1>3 DEF Unloads
  <2> QED
    BY <1>3, <1>4, <1>5, <2>1, <2>2, Elsewhere
<1>6. CASE n = o[1]
  <2>1. n \in SlowDeactivate /\ objects'[n] = None
    BY <1>2, <1>3, <1>6 DEF Unloads
  <2>2. command[n] # None => command[n] \in Object
    BY <1>1 DEF Inv, TypeOK
  <2>3. SetUpsAreSound(n)'
    <3> SUFFICES ASSUME NEW q \in Op, op'[q].sets # None, At(q)' = n PROVE SetUpIsSound(q)'
      BY DEF SetUpsAreSound
    <3>1. q # p /\ op'[q] = op[q] /\ At(q)' = At(q) /\ op[q].sets # None /\ At(q) = n
      BY <1>4, OthersAre
    <3>2. ~Apart(n)
      BY <1>1, <1>2, <2>1, <3>1, AnotherIsSlow
    <3>3. SetUpIsSound(q)
      BY <1>1, <3>1 DEF Sound, SetUpsAreSound
    <3>4. HasMade(q, "command")' = HasMade(q, "command")
      BY <3>1 DEF HasMade
    <3> QED
      BY <1>2, <3>1, <3>2, <3>3, <3>4 DEF SetUpIsSound
  <2>4. NameIsSound(n)'
    <3>1. ~Present(n)' /\ ~Live(n)'
      BY <2>1 DEF Present, Live
    <3>2. command[n] # None /\ life'[command[n]] = "loaded" => life[command[n]] = "loaded"
      BY <1>3, <2>2 DEF Unloads
    <3>3. NameIsSound(n)
      BY <1>1 DEF Sound
    <3> QED
      BY <1>2, <3>1, <3>2, <3>3 DEF NameIsSound
  <2>5. EntriesAreExact(n)'
    BY <2>1 DEF EntriesAreExact, EntryIsExact
  <2> QED
    BY <2>3, <2>4, <2>5 DEF Sound
<1> QED
  BY <1>5, <1>6

LEMMA TableStarts == Init => TableInv
<1> SUFFICES ASSUME Init PROVE TableInv
  OBVIOUS
<1>1. Inv
  BY Initially
<1>2. ASSUME NEW n \in Name PROVE Sound(n)
  <2>1. \A q \in Op : op[q].sets = None
    BY IdleTyped DEF Init, Fresh
  <2>2. objects[n] = None /\ command[n] = None /\ handler[n] = None
    BY DEF Init
  <2>3. \A u \in Object : life[u] = "unused" /\ u # None
    BY ObjectIs DEF Init
  <2>4. SetUpsAreSound(n)
    BY <2>1 DEF SetUpsAreSound
  <2>5. NameIsSound(n)
    BY <2>2 DEF NameIsSound, Live, Present
  <2>6. EntriesAreExact(n)
    BY <2>2, <2>3 DEF EntriesAreExact, EntryIsExact
  <2> QED
    BY <2>4, <2>5, <2>6 DEF Sound
<1> QED
  BY <1>1, <1>2 DEF TableInv

LEMMA TableSteps == TableInv /\ [Next]_vars => TableInv'
<1> SUFFICES ASSUME TableInv, [Next]_vars PROVE TableInv'
  OBVIOUS
<1>1. Inv /\ Inv'
  BY Steps DEF TableInv
<1>2. ASSUME NEW n \in Name PROVE Sound(n)'
  <2>1. ASSUME NEW p \in Op, LoadRejected(p) \/ UnloadRejected(p) \/ Finish(p) \/ Request(p)
                 \/ DeactivateRaises(p)
        PROVE  Sound(n)'
    BY <1>1, <2>1, RejectedIs, FinishIs, RequestIs, RaisesIs, QuietKeepsTable
  <2>2. ASSUME NEW p \in Op, Unload(p) \/ DeactivateEnds(p)
        PROVE  Sound(n)'
    BY <2>2, UnloadKeepsTable, DeactivateEndsKeepsTable
  <2>3. ASSUME NEW p \in Op, NEW o \in Object,
               Instantiate(p, o) \/ SetupStep(p, o) \/ SetupWaits(p, o)
        PROVE  Sound(n)'
    BY <2>3, InstantiateKeepsTable, SetupWaitsKeepsTable, FailsKeepsTable, SucceedsKeepsTable,
       RegistersCommandKeepsTable, RegistersHandlerKeepsTable
    DEF SetupStep
  <2>4. CASE Next
    BY <2>1, <2>2, <2>3, <2>4 DEF Next, Progress, LoadStep, UnloadStep
  <2>5. CASE UNCHANGED vars
    BY <2>5
    DEF vars, TableInv, Sound, SetUpsAreSound, SetUpIsSound, HasMade, NameIsSound, Live, Left,
        Present, Deactivating, EntriesAreExact, EntryIsExact, Loading, At
  <2> QED
    BY <2>4, <2>5
<1> QED
  BY <1>1, <1>2 DEF TableInv

\* plugin_objects has exactly the objects whose loading succeeded and that were
\* not unloaded, and what is not in it has no registration but a failed set-up's
\* or one under way's: where deactivate() does not wait, and for a slow set-up
\* only where add_callback keeps two of a name apart.
THEOREM TableStaysExact == Spec => []TableIsExact
<1>1. TableInv => TableIsExact
  <2> SUFFICES ASSUME TableInv, NEW o \in Object, o[1] \notin SlowDeactivate,
                      o[1] \in SlowSetup => Guarded(o[1])
               PROVE  /\ life[o] \in {"loaded", "gaveUp"} <=> objects[o[1]] = o
                      /\ Owns(o) => objects[o[1]] = o \/ life[o] \in {"settingUp", "failed"}
    BY DEF TableIsExact
  <2>1. life[o] \in {"loaded", "gaveUp"} <=> objects[o[1]] = o
    BY ObjectIs DEF TableInv, Sound, EntriesAreExact, EntryIsExact
  <2> QED
    BY <2>1 DEF TableInv, Inv, TypeOK, SilentOwnNothing
<1> QED
  BY <1>1, TableStarts, TableSteps, PTL DEF Spec

\* A plugin in plugin_objects has the handlers it registered until its unloading
\* begins, and its command unless a failed set-up of its name has kept that,
\* whatever else is loaded, clashes, fails or is unloaded under its name.
THEOREM RegistrationsStay == Spec => []LoadedKeepsRegistrations
<1>1. TableInv => LoadedKeepsRegistrations
  BY DEF TableInv, Sound, NameIsSound, LoadedKeepsRegistrations, Apart, Live, Left, AsksFirst
<1> QED
  BY <1>1, TableStarts, TableSteps, PTL DEF Spec

-----------------------------------------------------------------------------
(***************************************************************************)
(* The order of loading                                                    *)
(***************************************************************************)
Entry == [plugin : Found, deps : SUBSET Found]

OrderTyped ==
  /\ listed \in Seq(Found) /\ dependsOn \in [Found -> SUBSET Found]
  /\ toLoad \in Seq(Entry) /\ loadOrder \in Seq(Found)
  /\ hasLoaded \in BOOLEAN /\ x \in Nat /\ x <= Len(toLoad)

\* What an entry has lost of its dependencies is in the order already.
EntriesAgree ==
  \A i \in DOMAIN toLoad :
    /\ toLoad[i].plugin \in Listed
    /\ toLoad[i].deps \subseteq dependsOn[toLoad[i].plugin]
    /\ \A d \in dependsOn[toLoad[i].plugin] \ toLoad[i].deps :
         d \in Order!Ordered /\ <<toLoad[i].plugin, d>> \notin mismatch

\* Nothing of the list is lost, and nothing comes from elsewhere.
NothingLost ==
  /\ Order!Ordered \subseteq Listed
  /\ \A n \in Listed : n \in Order!Ordered \/ \E i \in DOMAIN toLoad : toLoad[i].plugin = n
  /\ Len(loadOrder) + Len(toLoad) = Len(listed)

\* A pass that has moved nothing has left everything it went by waiting.
StuckSoFar ==
  ~hasLoaded => \A i \in DOMAIN toLoad : i > x => Order!Unmet(toLoad[i]) # {}

OrderInv ==
  /\ OrderTyped
  /\ EntriesAgree
  /\ NothingLost
  /\ StuckSoFar
  /\ DependenciesComeFirst

LEMMA EntryIs ==
  ASSUME NEW e \in Entry
  PROVE  e.plugin \in Found /\ e.deps \in SUBSET Found
BY DEF Entry

LEMMA MadeEntry ==
  ASSUME NEW n \in Found, NEW D \in SUBSET Found
  PROVE  LET e == [plugin |-> n, deps |-> D] IN e \in Entry /\ e.plugin = n /\ e.deps = D
BY DEF Entry

LEMMA EntryWith ==
  ASSUME NEW e \in Entry, NEW D \in SUBSET Found
  PROVE  LET f == [e EXCEPT !.deps = D] IN f \in Entry /\ f.plugin = e.plugin /\ f.deps = D
BY DEF Entry

LEMMA Joining ==
  ASSUME NEW S, NEW s, NEW t, s \in Seq(S), t \in Seq(S)
  PROVE  /\ s \o t \in Seq(S) /\ Len(s \o t) = Len(s) + Len(t)
         /\ \A i \in 1 .. Len(s) : (s \o t)[i] = s[i]
         /\ \A i \in 1 .. Len(t) : (s \o t)[Len(s) + i] = t[i]
OBVIOUS

\* A sequence without one of its entries.
LEMMA LeavesOut ==
  ASSUME NEW S, NEW s \in Seq(S), NEW n \in 1 .. Len(s)
  PROVE  LET t == SubSeq(s, 1, n - 1) \o SubSeq(s, n + 1, Len(s))
         IN /\ t \in Seq(S) /\ Len(t) = Len(s) - 1
            /\ \A i \in 1 .. n - 1 : t[i] = s[i]
            /\ \A i \in n .. Len(s) - 1 : t[i] = s[i + 1]
<1> DEFINE l == Len(s)
           a == SubSeq(s, 1, n - 1)
           b == SubSeq(s, n + 1, Len(s))
<1>1. l \in Nat /\ n \in Nat /\ 1 <= n /\ n <= l
  OBVIOUS
<1>2. a \in Seq(S) /\ Len(a) = n - 1 /\ \A i \in 1 .. n - 1 : a[i] = s[i]
  <2>1. CASE n = 1
    BY <2>1
  <2>2. CASE n > 1
    BY <2>2
  <2> QED
    BY <1>1, <2>1, <2>2
<1>3. b \in Seq(S) /\ Len(b) = l - n /\ \A i \in 1 .. l - n : b[i] = s[n + i]
  <2>1. CASE n = l
    BY <2>1
  <2>2. CASE n < l
    BY <2>2
  <2> QED
    BY <1>1, <2>1, <2>2
<1> HIDE DEF a, b
<1> DEFINE t == a \o b
<1>4. /\ t \in Seq(S) /\ Len(t) = Len(a) + Len(b)
      /\ \A i \in 1 .. Len(a) : t[i] = a[i]
      /\ \A i \in 1 .. Len(b) : t[Len(a) + i] = b[i]
  <2>1. a \in Seq(S) /\ b \in Seq(S)
    BY <1>2, <1>3
  <2> QED
    BY ONLY <2>1, Joining
<1>5. \A i \in 1 .. n - 1 : t[i] = s[i]
  BY <1>2, <1>4
<1>6. \A i \in 1 .. l - n : t[n - 1 + i] = b[i]
  BY <1>2, <1>3, <1>4
<1> HIDE DEF t
<1>7. ASSUME NEW i \in n .. l - 1 PROVE t[i] = s[i + 1]
  <2> DEFINE j == i - n + 1
  <2>1. j \in 1 .. l - n /\ n - 1 + j = i /\ n + j = i + 1
    BY <1>1
  <2> HIDE DEF j
  <2>2. t[n - 1 + j] = b[j] /\ b[j] = s[n + j]
    BY <1>3, <1>6, <2>1
  <2> QED
    BY <2>1, <2>2
<1>8. Len(t) = l - 1
  BY <1>1, <1>2, <1>3, <1>4
<1> QED
  BY <1>4, <1>5, <1>7, <1>8 DEF t, a, b

\* A set of numbers has a least one.
LEMMA LeastNumber ==
  ASSUME NEW S, S \subseteq Nat, S # {}
  PROVE  \E m \in S : \A k \in S : m <= k
<1> DEFINE R == {ss \in Nat \X Nat : ss[1] < ss[2]}
<1>1. IsWellFoundedOn(R, Nat)
  BY NatLessThanWellFounded DEF OpToRel
<1>2. \A j, k \in Nat : <<k, j>> \notin R => j <= k
  OBVIOUS
<1> HIDE DEF R
<1>3. PICK m \in S : \A k \in S : <<k, m>> \notin R
  BY <1>1, WFMin, Zenon
<1>4. ASSUME NEW k \in S PROVE m <= k
  <2>1. m \in Nat /\ k \in Nat
    OBVIOUS
  <2>2. <<k, m>> \notin R
    BY <1>3
  <2> QED
    BY <1>2, <2>1, <2>2
<1> QED
  BY <1>4

LEMMA OrderStarts == LoadingInit => OrderInv
<1> SUFFICES ASSUME LoadingInit PROVE OrderInv
  OBVIOUS
<1>1. /\ listed \in Order!Lists /\ dependsOn \in [Found -> SUBSET Found]
      /\ toLoad = [i \in DOMAIN listed |-> [plugin |-> listed[i], deps |-> dependsOn[listed[i]]]]
      /\ loadOrder = <<>> /\ hasLoaded = TRUE /\ x = 0
  BY Zenon DEF LoadingInit, Order!Init
<1>2. PICK k \in 0 .. MaxList : listed \in [1 .. k -> Found]
  BY <1>1 DEF Order!Lists
<1>3. k \in Nat /\ listed \in Seq(Found) /\ Len(listed) = k /\ DOMAIN listed = 1 .. k
  BY <1>2
<1>4. ASSUME NEW i \in 1 .. k
      PROVE  /\ listed[i] \in Found /\ listed[i] \in Listed
             /\ toLoad[i] \in Entry /\ toLoad[i].plugin = listed[i]
             /\ toLoad[i].deps = dependsOn[listed[i]]
  <2>1. listed[i] \in Found /\ dependsOn[listed[i]] \in SUBSET Found
    BY <1>1, <1>2
  <2>2. toLoad[i] = [plugin |-> listed[i], deps |-> dependsOn[listed[i]]]
    BY <1>1, <1>3
  <2> QED
    BY <1>3, <2>1, <2>2, MadeEntry DEF Listed
<1>5. toLoad \in [1 .. k -> Entry]
  <2>1. toLoad = [i \in 1 .. k |-> toLoad[i]]
    BY <1>1, <1>3
  <2> QED
    BY <1>4, <2>1
<1>6. toLoad \in Seq(Entry) /\ Len(toLoad) = k /\ DOMAIN toLoad = 1 .. k
  BY <1>3, <1>5
<1>7. Order!Ordered = {} /\ DOMAIN loadOrder = {} /\ Len(loadOrder) = 0
  BY <1>1 DEF Order!Ordered
<1>8. OrderTyped
  BY <1>1, <1>3, <1>6 DEF OrderTyped
<1>9. EntriesAgree
  BY <1>4, <1>6 DEF EntriesAgree
<1>10. NothingLost
  BY <1>3, <1>4, <1>6, <1>7 DEF NothingLost, Listed
<1> QED
  BY <1>1, <1>7, <1>8, <1>9, <1>10 DEF OrderInv, StuckSoFar, DependenciesComeFirst

LEMMA PassStarts == OrderInv /\ Order!StartPass => OrderInv'
<1> SUFFICES ASSUME OrderInv, Order!StartPass PROVE OrderInv'
  OBVIOUS
<1>1. /\ x' = Len(toLoad) /\ hasLoaded' = FALSE
      /\ UNCHANGED <<listed, dependsOn, mismatch, toLoad, loadOrder>>
  BY DEF Order!StartPass
<1>2. toLoad \in Seq(Entry) /\ Len(toLoad) \in Nat /\ DOMAIN toLoad = 1 .. Len(toLoad)
  BY DEF OrderInv, OrderTyped
<1>3. Order!Ordered' = Order!Ordered /\ Listed' = Listed
  BY <1>1 DEF Order!Ordered, Listed
<1>4. OrderTyped'
  <2>1. hasLoaded' \in BOOLEAN
    BY <1>1, Zenon
  <2> QED
    BY <1>1, <1>2, <2>1 DEF OrderInv, OrderTyped
<1>5. EntriesAgree' /\ NothingLost' /\ DependenciesComeFirst'
  BY <1>1, <1>3 DEF OrderInv, EntriesAgree, NothingLost, DependenciesComeFirst
<1>6. StuckSoFar'
  BY <1>1, <1>2 DEF StuckSoFar
<1> QED
  BY <1>4, <1>5, <1>6 DEF OrderInv

\* The entry the loop is at has what it needs, and moves to the order.
LEMMA Moves ==
  ASSUME OrderInv, Order!Examine, Order!Unmet(toLoad[x]) = {}
  PROVE  OrderInv'
<1> DEFINE e == toLoad[x]
           l == Len(toLoad)
           m == Len(loadOrder)
<1>1. /\ x > 0 /\ x' = x - 1 /\ hasLoaded' = TRUE
      /\ loadOrder' = Append(loadOrder, e.plugin)
      /\ toLoad' = SubSeq(toLoad, 1, x - 1) \o SubSeq(toLoad, x + 1, Len(toLoad))
      /\ UNCHANGED <<listed, dependsOn, mismatch>>
  BY Zenon DEF Order!Examine
<1>2. /\ toLoad \in Seq(Entry) /\ l \in Nat /\ DOMAIN toLoad = 1 .. l
      /\ loadOrder \in Seq(Found) /\ m \in Nat /\ DOMAIN loadOrder = 1 .. m
      /\ x \in 1 .. l
  BY <1>1 DEF OrderInv, OrderTyped
<1>3. e \in Entry /\ e.plugin \in Found /\ e.deps \in SUBSET Found
  BY <1>2, EntryIs
<1> HIDE DEF e
<1>4. /\ loadOrder' \in Seq(Found) /\ Len(loadOrder') = m + 1
      /\ \A i \in 1 .. m : loadOrder'[i] = loadOrder[i]
      /\ loadOrder'[m + 1] = e.plugin
  BY <1>1, <1>2, <1>3
<1>5. /\ toLoad' \in Seq(Entry) /\ Len(toLoad') = l - 1
      /\ \A i \in 1 .. x - 1 : toLoad'[i] = toLoad[i]
      /\ \A i \in x .. l - 1 : toLoad'[i] = toLoad[i + 1]
  BY <1>1, <1>2, LeavesOut
<1> HIDE DEF l, m
<1>6. DOMAIN loadOrder' = 1 .. m + 1 /\ DOMAIN toLoad' = 1 .. l - 1
  BY <1>2, <1>4, <1>5
<1>7. Order!Ordered' = Order!Ordered \cup {e.plugin} /\ Listed' = Listed
  <2>1. Order!Ordered = {loadOrder[i] : i \in 1 .. m} /\ Order!Ordered' = {loadOrder'[i] : i \in 1 .. m + 1}
    BY <1>2, <1>6 DEF Order!Ordered
  <2>2. 1 .. m + 1 = (1 .. m) \cup {m + 1}
    BY <1>2
  <2> QED
    <3>1. Order!Ordered' = {loadOrder'[i] : i \in 1 .. m} \cup {loadOrder'[m + 1]}
      BY <2>1, <2>2
    <3>2. {loadOrder'[i] : i \in 1 .. m} = {loadOrder[i] : i \in 1 .. m}
      BY <1>4
    <3> QED
      BY <1>1, <1>4, <2>1, <3>1, <3>2 DEF Listed
<1>8. \A i \in DOMAIN toLoad' : \E j \in DOMAIN toLoad : toLoad'[i] = toLoad[j]
  <2> SUFFICES ASSUME NEW i \in 1 .. l - 1 PROVE \E j \in 1 .. l : toLoad'[i] = toLoad[j]
    BY <1>2, <1>6
  <2>1. CASE i < x
    <3>1. i \in 1 .. x - 1 /\ i \in 1 .. l
      BY <1>2, <2>1
    <3> QED
      BY <1>5, <3>1
  <2>2. CASE i >= x
    <3>1. i \in x .. l - 1 /\ i + 1 \in 1 .. l
      BY <1>2, <2>2
    <3> QED
      BY <1>5, <3>1
  <2> QED
    BY <1>2, <2>1, <2>2
<1>9. \A j \in DOMAIN toLoad : j = x \/ \E i \in DOMAIN toLoad' : toLoad'[i] = toLoad[j]
  <2> SUFFICES ASSUME NEW j \in 1 .. l, j # x PROVE \E i \in 1 .. l - 1 : toLoad'[i] = toLoad[j]
    BY <1>2, <1>6
  <2>1. CASE j < x
    <3>1. j \in 1 .. x - 1 /\ j \in 1 .. l - 1
      BY <1>2, <2>1
    <3> QED
      BY <1>5, <3>1
  <2>2. CASE j > x
    <3>1. j - 1 \in x .. l - 1 /\ j - 1 \in 1 .. l - 1 /\ (j - 1) + 1 = j
      BY <1>2, <2>2
    <3> QED
      BY <1>5, <3>1
  <2> QED
    BY <1>2, <2>1, <2>2
<1>10. OrderTyped'
  <2>1. hasLoaded' \in BOOLEAN
    BY <1>1, Zenon
  <2>2. x' \in Nat /\ x' <= Len(toLoad')
    <3>1. x \in 1 .. l /\ l \in Nat /\ x' = x - 1 /\ Len(toLoad') = l - 1
      BY <1>1, <1>2, <1>5
    <3> QED
      BY ONLY <3>1
  <2> QED
    BY <1>1, <1>4, <1>5, <2>1, <2>2 DEF OrderInv, OrderTyped
<1>11. EntriesAgree'
  BY <1>1, <1>7, <1>8 DEF OrderInv, EntriesAgree
<1>12. NothingLost'
  <2>1. Order!Ordered' \subseteq Listed'
    BY <1>2, <1>7 DEF OrderInv, NothingLost, EntriesAgree, e
  <2>2. ASSUME NEW n \in Listed, n \notin Order!Ordered' PROVE \E i \in DOMAIN toLoad' : toLoad'[i].plugin = n
    <3>1. n \notin Order!Ordered /\ n # e.plugin
      BY <1>7, <2>2
    <3>2. PICK j \in DOMAIN toLoad : toLoad[j].plugin = n
      BY <3>1 DEF OrderInv, NothingLost
    <3>3. j # x
      BY <3>1, <3>2 DEF e
    <3> QED
      BY <1>9, <3>2, <3>3
  <2>3. Len(loadOrder') + Len(toLoad') = Len(listed')
    <3>1. m + l = Len(listed)
      BY DEF OrderInv, NothingLost, m, l
    <3>2. /\ m \in Nat /\ l \in Nat /\ listed' = listed
          /\ Len(loadOrder') = m + 1 /\ Len(toLoad') = l - 1
      BY <1>1, <1>2, <1>4, <1>5
    <3> QED
      BY ONLY <3>1, <3>2
  <2> QED
    BY <1>7, <2>1, <2>2, <2>3 DEF NothingLost
<1>13. DependenciesComeFirst'
  <2> SUFFICES ASSUME NEW i \in 1 .. m + 1, NEW d \in dependsOn[loadOrder'[i]]
               PROVE  /\ <<loadOrder'[i], d>> \notin mismatch
                      /\ \E j \in 1 .. i - 1 : loadOrder'[j] = d
    BY <1>1, <1>6 DEF DependenciesComeFirst
  <2>1. CASE i \in 1 .. m
    <3>1. /\ <<loadOrder[i], d>> \notin mismatch
          /\ \E j \in 1 .. i - 1 : loadOrder[j] = d
      BY <1>2, <1>4, <2>1 DEF OrderInv, DependenciesComeFirst
    <3>2. PICK j \in 1 .. i - 1 : loadOrder[j] = d
      BY <3>1
    <3>3. j \in 1 .. m
      BY <1>2, <2>1
    <3>4. loadOrder'[i] = loadOrder[i] /\ loadOrder'[j] = loadOrder[j]
      BY <1>4, <2>1, <3>3
    <3> QED
      BY <3>1, <3>2, <3>4
  <2>2. CASE i = m + 1
    <3>1. d \in dependsOn[e.plugin]
      BY <1>4, <2>2
    <3>2. d \in Order!Ordered /\ <<e.plugin, d>> \notin mismatch
      <4>1. CASE d \in e.deps
        BY <4>1 DEF Order!Unmet, e
      <4>2. CASE d \notin e.deps
        BY <1>2, <3>1, <4>2 DEF OrderInv, EntriesAgree, e
      <4> QED
        BY <4>1, <4>2
    <3>3. PICK j \in 1 .. m : loadOrder[j] = d
      BY <1>2, <3>2 DEF Order!Ordered
    <3>4. loadOrder'[j] = d /\ loadOrder'[i] = e.plugin
      BY <1>4, <2>2, <3>3
    <3>5. j \in 1 .. i - 1
      BY <1>2, <2>2, <3>3
    <3> QED
      BY <3>2, <3>4, <3>5
  <2> QED
    BY <1>2, <2>1, <2>2
<1>14. StuckSoFar'
  BY <1>1, Zenon DEF StuckSoFar
<1> QED
  BY <1>10, <1>11, <1>12, <1>13, <1>14 DEF OrderInv

\* It has to wait, and what is met already is struck out.
LEMMA Waits ==
  ASSUME OrderInv, Order!Examine, Order!Unmet(toLoad[x]) # {}
  PROVE  OrderInv'
<1> DEFINE e == toLoad[x]
           l == Len(toLoad)
           U == Order!Unmet(e)
<1>1. /\ x > 0 /\ x' = x - 1
      /\ toLoad' = [toLoad EXCEPT ![x].deps = U]
      /\ UNCHANGED <<listed, dependsOn, mismatch, loadOrder, hasLoaded>>
  BY DEF Order!Examine
<1>2. toLoad \in Seq(Entry) /\ l \in Nat /\ DOMAIN toLoad = 1 .. l /\ x \in 1 .. l
  BY <1>1 DEF OrderInv, OrderTyped
<1>3. e \in Entry /\ e.plugin \in Found /\ e.deps \in SUBSET Found
  BY <1>2, EntryIs
<1>4. /\ U \in SUBSET Found /\ U # {} /\ U \subseteq e.deps
      /\ \A d \in e.deps \ U : d \in Order!Ordered /\ <<e.plugin, d>> \notin mismatch
      /\ \A d \in U : d \notin Order!Ordered \/ <<e.plugin, d>> \in mismatch
  BY <1>3 DEF Order!Unmet
<1> DEFINE f == [e EXCEPT !.deps = U]
<1>5. toLoad' = [toLoad EXCEPT ![x] = f]
  BY <1>1
<1> HIDE DEF U
<1>6. f \in Entry /\ f.plugin = e.plugin /\ f.deps = U
  BY <1>3, <1>4, EntryWith
<1> HIDE DEF f
<1>7. /\ toLoad' \in Seq(Entry) /\ Len(toLoad') = l /\ DOMAIN toLoad' = 1 .. l
      /\ \A i \in 1 .. l : toLoad'[i] = IF i = x THEN f ELSE toLoad[i]
  BY <1>2, <1>5, <1>6
<1> HIDE DEF l
<1>8. Order!Ordered' = Order!Ordered /\ Listed' = Listed
  BY <1>1 DEF Order!Ordered, Listed
<1>9. OrderTyped'
  BY <1>1, <1>2, <1>7 DEF OrderInv, OrderTyped
<1>10. EntriesAgree'
  <2> SUFFICES ASSUME NEW i \in 1 .. l
               PROVE  /\ toLoad'[i].plugin \in Listed
                      /\ toLoad'[i].deps \subseteq dependsOn[toLoad'[i].plugin]
                      /\ \A d \in dependsOn[toLoad'[i].plugin] \ toLoad'[i].deps :
                           d \in Order!Ordered /\ <<toLoad'[i].plugin, d>> \notin mismatch
    BY <1>1, <1>7, <1>8 DEF EntriesAgree
  <2>1. /\ toLoad[i].plugin \in Listed
        /\ toLoad[i].deps \subseteq dependsOn[toLoad[i].plugin]
        /\ \A d \in dependsOn[toLoad[i].plugin] \ toLoad[i].deps :
             d \in Order!Ordered /\ <<toLoad[i].plugin, d>> \notin mismatch
    BY <1>2 DEF OrderInv, EntriesAgree
  <2>2. CASE i = x
    BY <1>4, <1>6, <1>7, <2>1, <2>2 DEF e
  <2>3. CASE i # x
    BY <1>7, <2>1, <2>3
  <2> QED
    BY <2>2, <2>3
<1>11. \A i \in 1 .. l : toLoad'[i].plugin = toLoad[i].plugin
  BY <1>6, <1>7 DEF e
<1>12. NothingLost' /\ DependenciesComeFirst'
  <2>1. Len(toLoad') = Len(toLoad)
    BY <1>7 DEF l
  <2> QED
    BY <1>1, <1>2, <1>7, <1>8, <1>11, <2>1 DEF OrderInv, NothingLost, DependenciesComeFirst
<1>13. StuckSoFar'
  <2> SUFFICES ASSUME ~hasLoaded, NEW i \in 1 .. l, i > x' PROVE Order!Unmet(toLoad[i])' # {}
    BY <1>1, <1>7 DEF StuckSoFar
  <2>1. CASE i = x
    <3>1. toLoad'[i].plugin = e.plugin /\ toLoad'[i].deps = U
      BY <1>6, <1>7, <2>1
    <3>2. Order!Unmet(toLoad[i])' =
            {d \in toLoad'[i].deps : d \notin Order!Ordered' \/ <<toLoad'[i].plugin, d>> \in mismatch'}
      BY DEF Order!Unmet
    <3>3. PICK d : d \in U
      BY <1>4
    <3>4. d \in toLoad'[i].deps /\ (d \notin Order!Ordered' \/ <<toLoad'[i].plugin, d>> \in mismatch')
      BY <1>1, <1>4, <1>8, <3>1, <3>3
    <3> QED
      BY <3>2, <3>4
  <2>2. CASE i # x
    <3>1. i > x /\ toLoad'[i] = toLoad[i]
      BY <1>1, <1>2, <1>7, <2>2
    <3>2. Order!Unmet(toLoad[i]) # {}
      BY <1>2, <3>1 DEF OrderInv, StuckSoFar
    <3>3. Order!Unmet(toLoad[i])' =
            {d \in toLoad'[i].deps : d \notin Order!Ordered' \/ <<toLoad'[i].plugin, d>> \in mismatch'}
      BY DEF Order!Unmet
    <3>4. Order!Unmet(toLoad[i]) =
            {d \in toLoad[i].deps : d \notin Order!Ordered \/ <<toLoad[i].plugin, d>> \in mismatch}
      BY DEF Order!Unmet
    <3>5. Order!Unmet(toLoad[i])' = Order!Unmet(toLoad[i])
      BY <1>1, <1>8, <3>1, <3>3, <3>4
    <3> QED
      BY <3>2, <3>5
  <2> QED
    BY <2>1, <2>2
<1> QED
  BY <1>9, <1>10, <1>12, <1>13 DEF OrderInv

LEMMA OrderSteps == OrderInv /\ [LoadingNext]_loadingVars => OrderInv'
<1> SUFFICES ASSUME OrderInv, [LoadingNext]_loadingVars PROVE OrderInv'
  OBVIOUS
<1>1. CASE Order!Next
  <2>1. CASE Order!Examine
    BY <2>1, Moves, Waits
  <2> QED
    BY <1>1, <2>1, PassStarts DEF Order!Next
<1>2. CASE UNCHANGED orderVars
  <2>1. UNCHANGED <<listed, dependsOn, mismatch, toLoad, loadOrder, hasLoaded, x>>
    BY <1>2 DEF orderVars
  <2>2. Order!Ordered' = Order!Ordered /\ Listed' = Listed
    BY <2>1 DEF Order!Ordered, Listed
  <2>3. OrderTyped' /\ EntriesAgree'
    BY <2>1, <2>2 DEF OrderInv, OrderTyped, EntriesAgree
  <2>4. NothingLost' /\ DependenciesComeFirst'
    BY <2>1, <2>2 DEF OrderInv, NothingLost, DependenciesComeFirst
  <2>5. StuckSoFar'
    <3> SUFFICES ASSUME ~hasLoaded, NEW i \in DOMAIN toLoad, i > x
                 PROVE  Order!Unmet(toLoad[i])' # {}
      BY <2>1 DEF StuckSoFar
    <3>1. Order!Unmet(toLoad[i])' = Order!Unmet(toLoad[i])
      BY <2>1, <2>2 DEF Order!Unmet
    <3> QED
      BY <3>1 DEF OrderInv, StuckSoFar
  <2> QED
    BY <2>3, <2>4, <2>5 DEF OrderInv
<1> QED
  BY <1>1, <1>2 DEF LoadingNext, loadingVars

-----------------------------------------------------------------------------
(***************************************************************************)
(* What can be loaded                                                      *)
(***************************************************************************)
LEMMA BelowIs ==
  ASSUME OrderInv, NEW n \in Found
  PROVE  /\ Below(n) \subseteq Found /\ dependsOn[n] \subseteq Below(n)
         /\ \A m \in Below(n) : dependsOn[m] \subseteq Below(n)
         /\ \A C \in SUBSET Found :
              dependsOn[n] \subseteq C /\ (\A m \in C : dependsOn[m] \subseteq C) => Below(n) \subseteq C
<1>1. \A m \in Found : dependsOn[m] \in SUBSET Found
  BY DEF OrderInv, OrderTyped
<1>2. \A m \in Below(n) : dependsOn[m] \subseteq Below(n)
  <2> SUFFICES ASSUME NEW m \in Below(n), NEW d \in dependsOn[m], NEW C \in SUBSET Found,
                      dependsOn[n] \subseteq C, \A k \in C : dependsOn[k] \subseteq C
               PROVE  d \in Found /\ d \in C
    BY <1>1 DEF Below
  <2>1. m \in C
    BY DEF Below
  <2> QED
    BY <1>1, <2>1
<1> QED
  BY <1>1, <1>2 DEF Below

\* What something depends on is below whatever that is below.
LEMMA BelowDown ==
  ASSUME OrderInv, NEW n \in Found, NEW m \in Below(n)
  PROVE  Below(m) \subseteq Below(n)
BY BelowIs

\* In a set of plugins that all depend on another of it, one depends on itself.
LEMMA Circle ==
  ASSUME OrderInv, NEW B, B \subseteq Found, IsFiniteSet(B), B # {},
         \A m \in B : \E d \in B : d \in dependsOn[m]
  PROVE  \E m \in B : m \in Below(m)
<1> DEFINE Size(m) == Cardinality(Below(m) \cap B)
           Sizes == {Size(m) : m \in B}
<1>1. \A m \in B : IsFiniteSet(Below(m) \cap B) /\ Size(m) \in Nat
  <2> SUFFICES ASSUME NEW m \in B PROVE IsFiniteSet(Below(m) \cap B) /\ Size(m) \in Nat
    OBVIOUS
  <2>1. IsFiniteSet(Below(m) \cap B)
    BY FS_Subset
  <2> QED
    BY <2>1, FS_CardinalityType
<1>2. Sizes \subseteq Nat /\ Sizes # {}
  BY <1>1
<1>3. PICK s \in Sizes : \A k \in Sizes : s <= k
  BY <1>2, LeastNumber
<1>4. PICK m \in B : s = Size(m)
  OBVIOUS
<1>5. PICK d \in B : d \in dependsOn[m]
  OBVIOUS
<1>6. d \in Below(m) /\ Below(d) \subseteq Below(m) /\ d \in Found
  <2>1. m \in Found /\ d \in Found
    OBVIOUS
  <2>2. d \in Below(m)
    BY <1>5, <2>1, BelowIs
  <2> QED
    BY <2>1, <2>2, BelowDown
<1>7. ASSUME d \notin Below(d) PROVE FALSE
  <2>1. Below(d) \cap B \subseteq Below(m) \cap B /\ Below(d) \cap B # Below(m) \cap B
    BY <1>6, <1>7
  <2>2. Size(d) < Size(m)
    <3> DEFINE P == Below(d) \cap B
               Q == Below(m) \cap B
    <3>1. P \in SUBSET Q /\ P # Q /\ IsFiniteSet(Q) /\ Cardinality(P) \in Nat /\ Cardinality(Q) \in Nat
      BY <1>1, <2>1
    <3> HIDE DEF P, Q
    <3>2. Cardinality(P) <= Cardinality(Q) /\ Cardinality(P) # Cardinality(Q)
      BY <3>1, FS_Subset
    <3>3. Cardinality(P) < Cardinality(Q)
      BY <3>1, <3>2
    <3> QED
      BY <3>3 DEF P, Q
  <2>3. Size(m) <= Size(d) /\ Size(m) \in Nat /\ Size(d) \in Nat
    BY <1>1, <1>3, <1>4
  <2> HIDE DEF Size
  <2> QED
    BY <2>2, <2>3
<1> QED
  BY <1>7

\* What is in the order has its dependencies in it before itself, and so is
\* none of what is below it.
LEMMA OrderedIsLoadable == OrderInv => Order!Ordered \subseteq Loadable
<1> SUFFICES ASSUME OrderInv, NEW n \in Order!Ordered PROVE n \in Loadable
  OBVIOUS
<1> DEFINE m == Len(loadOrder)
<1>1. /\ m \in Nat /\ DOMAIN loadOrder = 1 .. m /\ \A i \in 1 .. m : loadOrder[i] \in Found
      /\ Order!Ordered \subseteq Listed /\ Order!Ordered \subseteq Found
  <2>1. loadOrder \in Seq(Found)
    BY DEF OrderInv, OrderTyped
  <2>2. m \in Nat /\ DOMAIN loadOrder = 1 .. m /\ \A i \in 1 .. m : loadOrder[i] \in Found
    BY <2>1
  <2> QED
    BY <2>2 DEF OrderInv, NothingLost, Order!Ordered
<1> HIDE DEF m
<1>2. \A i \in 1 .. m : \A d \in dependsOn[loadOrder[i]] :
        /\ <<loadOrder[i], d>> \notin mismatch
        /\ \E j \in 1 .. i - 1 : loadOrder[j] = d
  BY <1>1 DEF OrderInv, DependenciesComeFirst
<1>3. ASSUME NEW k \in 1 .. m
      PROVE  LET C == {loadOrder[j] : j \in 1 .. k} IN \A c \in C : dependsOn[c] \subseteq C
  <2> SUFFICES ASSUME NEW j \in 1 .. k, NEW d \in dependsOn[loadOrder[j]]
               PROVE  \E i \in 1 .. k : loadOrder[i] = d
    OBVIOUS
  <2>1. j \in 1 .. m
    BY <1>1
  <2>2. PICK i \in 1 .. j - 1 : loadOrder[i] = d
    BY <1>2, <2>1
  <2>3. i \in 1 .. k
    BY <1>1
  <2> QED
    BY <2>2, <2>3
<1>4. ASSUME NEW c \in Order!Ordered PROVE Below(c) \subseteq Order!Ordered
  <2>1. Order!Ordered = {loadOrder[j] : j \in 1 .. m}
    BY <1>1 DEF Order!Ordered
  <2>2. m \in 1 .. m
    BY <1>1, <2>1
  <2>3. \A d \in Order!Ordered : dependsOn[d] \subseteq Order!Ordered
    BY <1>3, <2>1, <2>2
  <2> QED
    BY <1>1, <2>3, BelowIs
<1>5. ASSUME NEW c \in Order!Ordered, NEW d \in dependsOn[c] PROVE <<c, d>> \notin mismatch
  BY <1>1, <1>2 DEF Order!Ordered
<1>6. ASSUME NEW c \in Order!Ordered PROVE c \notin Below(c)
  <2> DEFINE P == {i \in 1 .. m : loadOrder[i] = c}
  <2>1. P \subseteq Nat /\ P # {}
    BY <1>1 DEF Order!Ordered
  <2>2. PICK i \in P : \A k \in P : i <= k
    BY <2>1, LeastNumber
  <2>3. i \in 1 .. m /\ loadOrder[i] = c /\ c \in Found
    BY <1>1
  <2>4. CASE i = 1
    <3>1. dependsOn[c] = {}
      <4> SUFFICES ASSUME NEW d \in dependsOn[c] PROVE FALSE
        OBVIOUS
      <4>1. dependsOn[c] \subseteq {loadOrder[j] : j \in 1 .. (i - 1)}
        BY <1>2, <2>3
      <4> QED
        BY <2>4, <4>1
    <3> QED
      BY <2>3, <3>1, BelowIs
  <2>5. CASE i > 1
    <3> DEFINE k == i - 1
               C == {loadOrder[j] : j \in 1 .. k}
    <3>1. k \in 1 .. m /\ k \in Nat
      BY <1>1, <2>3, <2>5
    <3>2. \A d \in C : dependsOn[d] \subseteq C
      BY <1>3, <3>1
    <3>3. dependsOn[c] \subseteq C
      BY <1>2, <2>3
    <3>4. c \notin C
      <4> SUFFICES ASSUME NEW j \in 1 .. k, loadOrder[j] = c PROVE FALSE
        OBVIOUS
      <4>1. j \in P
        BY <1>1, <2>3, <3>1
      <4> QED
        BY <2>2, <2>3, <1>1, <4>1
    <3>5. C \in SUBSET Found
      <4>1. \A j \in 1 .. k : j \in 1 .. m
        BY <1>1, <3>1
      <4> QED
        BY <1>1, <4>1
    <3> HIDE DEF C
    <3> QED
      BY <2>3, <3>2, <3>3, <3>4, <3>5, BelowIs
  <2> QED
    BY <1>1, <2>3, <2>4, <2>5
<1> QED
  BY <1>1, <1>4, <1>5, <1>6 DEF Loadable

\* When a pass moves nothing, whatever is left waits for something that is
\* left, is not listed, or has another version.
LEMMA LoadableIsOrdered == OrderInv /\ Order!Ended => Loadable \subseteq Order!Ordered
<1> SUFFICES ASSUME OrderInv, Order!Ended, NEW n \in Loadable, n \notin Order!Ordered PROVE FALSE
  OBVIOUS
<1> DEFINE B == {m \in {n} \cup Below(n) : m \notin Order!Ordered}
<1>1. listed \in Seq(Found) /\ Len(listed) \in Nat /\ Listed \subseteq Found /\ IsFiniteSet(Listed)
  <2>1. listed \in Seq(Found) /\ Len(listed) \in Nat
    BY DEF OrderInv, OrderTyped
  <2>2. Listed = {listed[i] : i \in 1 .. Len(listed)}
    BY <2>1 DEF Listed
  <2>3. IsFiniteSet(1 .. Len(listed))
    BY <2>1, FS_Interval
  <2>4. Listed \subseteq Found
    BY <2>1, <2>2
  <2>5. IsFiniteSet(Listed)
    <3> DEFINE F == [i \in 1 .. Len(listed) |-> listed[i]]
    <3>1. F \in Surjection(1 .. Len(listed), Listed)
      BY <2>2 DEF Surjection
    <3> QED
      BY <2>3, <3>1, FS_Surjection
  <2> QED
    BY <2>1, <2>4, <2>5
<1>2. n \in Listed /\ n \in Found
  BY <1>1 DEF Loadable
<1>3. ASSUME NEW m \in B
      PROVE  /\ m \in Listed /\ m \notin Below(m) /\ \A d \in dependsOn[m] : <<m, d>> \notin mismatch
             /\ m \in Found /\ m \notin Order!Ordered
  BY <1>1 DEF Loadable
<1>4. IsFiniteSet(B) /\ B \subseteq Found /\ n \in B
  <2>1. B \subseteq Listed
    BY <1>3
  <2> QED
    BY <1>1, <1>2, <2>1, FS_Subset
<1>5. ASSUME NEW m \in B PROVE \E d \in B : d \in dependsOn[m]
  <2>1. PICK i \in DOMAIN toLoad : toLoad[i].plugin = m
    BY <1>3 DEF OrderInv, NothingLost
  <2>2. Order!Unmet(toLoad[i]) # {}
    <3>1. toLoad # <<>> /\ i > x
      <4>1. toLoad \in Seq(Entry) /\ i \in 1 .. Len(toLoad) /\ Len(toLoad) \in Nat
        BY DEF OrderInv, OrderTyped
      <4>2. x = 0
        BY DEF Order!Ended
      <4> QED
        BY <4>1, <4>2
    <3> QED
      BY <3>1 DEF OrderInv, StuckSoFar, Order!Ended
  <2>3. PICK d : d \in toLoad[i].deps /\ (d \notin Order!Ordered \/ <<m, d>> \in mismatch)
    BY <2>1, <2>2 DEF Order!Unmet
  <2>4. d \in dependsOn[m]
    BY <2>1, <2>3 DEF OrderInv, EntriesAgree
  <2>5. d \notin Order!Ordered
    BY <1>3, <2>3, <2>4
  <2>6. d \in Below(n)
    BY <1>2, <2>4, BelowIs
  <2> QED
    BY <2>4, <2>5, <2>6
<1>6. PICK m \in B : m \in Below(m)
  <2> HIDE DEF B
  <2>1. B # {}
    BY <1>4
  <2> QED
    BY <1>4, <1>5, <2>1, Circle, Zenon
<1> QED
  BY <1>3, <1>6

\* Nothing that can be loaded is left, not even a second time.
LEMMA NoneLeft ==
  ASSUME OrderInv, Order!Ended, NEW i \in DOMAIN toLoad
  PROVE  toLoad[i].plugin \notin Loadable
<1> SUFFICES ASSUME toLoad[i].plugin \in Loadable PROVE FALSE
  OBVIOUS
<1> DEFINE n == toLoad[i].plugin
<1>1. toLoad # <<>> /\ i > x /\ n \in Found
  <2>1. toLoad \in Seq(Entry) /\ i \in 1 .. Len(toLoad) /\ Len(toLoad) \in Nat
    BY DEF OrderInv, OrderTyped
  <2>2. x = 0 /\ toLoad[i] \in Entry
    BY <2>1 DEF Order!Ended
  <2> QED
    BY <2>1, <2>2, EntryIs
<1>2. PICK d : d \in toLoad[i].deps /\ (d \notin Order!Ordered \/ <<n, d>> \in mismatch)
  BY <1>1 DEF OrderInv, StuckSoFar, Order!Ended, Order!Unmet
<1>3. d \in dependsOn[n]
  BY <1>2 DEF OrderInv, EntriesAgree
<1>4. <<n, d>> \notin mismatch
  BY <1>3 DEF Loadable
<1>5. d \in Below(n) /\ Below(d) \subseteq Below(n) /\ d \in Found
  <2>1. d \in Below(n) /\ Below(n) \subseteq Found
    BY <1>1, <1>3, BelowIs
  <2> QED
    BY <1>1, <2>1, BelowDown
<1>6. d \in Loadable
  BY <1>5 DEF Loadable
<1> QED
  BY <1>2, <1>4, <1>6, LoadableIsOrdered

\* For any plugins and dependencies, circles and versions that do not fit
\* among them, and any configured list: whatever pass it is put in the order
\* in, a plugin comes after all that it depends on, in versions it accepts.
THEOREM OrderIsRight == LoadingSpec => []DependenciesComeFirst
<1>1. OrderInv => DependenciesComeFirst
  BY DEF OrderInv
<1> QED
  BY <1>1, OrderStarts, OrderSteps, PTL DEF LoadingSpec

\* When the passes end, the order has every plugin that can be loaded, as often
\* as it was listed, and nothing else.
THEOREM OrderIsComplete == LoadingSpec => []FindsAllLoadable
<1>1. OrderInv => FindsAllLoadable
  <2> SUFFICES ASSUME OrderInv, Order!Ended PROVE FindsAllLoadable
    BY DEF FindsAllLoadable
  <2>1. Order!Ordered = Loadable
    BY OrderedIsLoadable, LoadableIsOrdered
  <2>2. Len(loadOrder) + Len(toLoad) = Len(listed)
    BY DEF OrderInv, NothingLost
  <2> QED
    BY <2>1, <2>2, NoneLeft DEF FindsAllLoadable
<1> QED
  BY <1>1, OrderStarts, OrderSteps, PTL DEF LoadingSpec

-----------------------------------------------------------------------------
(***************************************************************************)
(* Links that are shortened                                                *)
(***************************************************************************)
ShortTyped ==
  /\ shorteners \subseteq Shortener
  /\ cache \in Seq(Stored) /\ inserts \subseteq Stored /\ shortens \in Seq(Shorten)

\* The first row of a link and a shortener stays the first.  Who asked when
\* there was one is not waiting for the shortener, and gets it.
FirstIsKept ==
  \A i \in DOMAIN shortens :
    shortens[i].known # 0 =>
      /\ LookUp(shortens[i].url, shortens[i].shortener) = shortens[i].known
      /\ shortens[i].stage # "asking"
      /\ shortens[i].stage = "over" => shortens[i].answer = shortens[i].known

ShortInv == ShortTyped /\ FirstIsKept

RowsOf(q, u, s) == {i \in DOMAIN q : q[i].url = u /\ q[i].shortener = s}

\* LookUp in a table q.
FirstOf(q, u, s) ==
  LET at == RowsOf(q, u, s)
  IN IF at = {} THEN 0 ELSE q[CHOOSE i \in at : \A j \in at : i <= j].short

LEMMA FirstIndex ==
  ASSUME NEW q \in Seq(Stored), NEW u, NEW s, RowsOf(q, u, s) # {}
  PROVE  LET f == CHOOSE i \in RowsOf(q, u, s) : \A j \in RowsOf(q, u, s) : i <= j
         IN f \in RowsOf(q, u, s) /\ \A j \in RowsOf(q, u, s) : f <= j
<1>1. RowsOf(q, u, s) \subseteq Nat
  BY DEF RowsOf
<1> QED
  BY <1>1, LeastNumber

LEMMA FirstTyped ==
  ASSUME NEW q \in Seq(Stored), NEW u, NEW s
  PROVE  FirstOf(q, u, s) \in Nat
<1>1. CASE RowsOf(q, u, s) = {}
  BY <1>1 DEF FirstOf
<1>2. CASE RowsOf(q, u, s) # {}
  <2>1. PICK f \in RowsOf(q, u, s) : FirstOf(q, u, s) = q[f].short
    BY <1>2, FirstIndex DEF FirstOf
  <2>2. q[f] \in Stored
    BY <2>1 DEF RowsOf
  <2> QED
    BY <2>1, <2>2 DEF Stored
<1> QED
  BY <1>1, <1>2

LEMMA FirstStays ==
  ASSUME NEW q \in Seq(Stored), NEW row \in Stored, NEW u, NEW s, FirstOf(q, u, s) # 0
  PROVE  FirstOf(Append(q, row), u, s) = FirstOf(q, u, s)
<1> DEFINE more == Append(q, row)
           old == RowsOf(q, u, s)
           new == RowsOf(more, u, s)
<1>1. more \in Seq(Stored) /\ Len(more) = Len(q) + 1 /\ \A i \in 1 .. Len(q) : more[i] = q[i]
  OBVIOUS
<1>2. old # {}
  BY DEF FirstOf
<1>3. PICK f \in old : (\A j \in old : f <= j) /\ FirstOf(q, u, s) = q[f].short
  BY <1>2, FirstIndex DEF FirstOf
<1>4. f \in 1 .. Len(q) /\ f \in new
  BY <1>1, <1>3 DEF RowsOf
<1>5. PICK g \in new : (\A j \in new : g <= j) /\ FirstOf(more, u, s) = more[g].short
  <2>1. new # {}
    BY <1>4
  <2> HIDE DEF more
  <2> QED
    BY <1>1, <2>1, FirstIndex DEF FirstOf
<1>6. g <= f
  BY <1>4, <1>5
<1>7. g \in old
  BY <1>1, <1>4, <1>5, <1>6 DEF RowsOf
<1>8. f <= g /\ g \in Nat /\ f \in Nat
  BY <1>3, <1>7 DEF RowsOf
<1>9. f = g
  BY <1>6, <1>8
<1> QED
  BY <1>1, <1>3, <1>4, <1>5, <1>9

LEMMA LookUpIsFirst ==
  /\ \A u, s : LookUp(u, s) = FirstOf(cache, u, s)
  /\ \A u, s : LookUp(u, s)' = FirstOf(cache', u, s)
BY DEF LookUp, FirstOf, RowsOf

LEMMA ShortInit == ChatInit => ShortInv
BY UrlAssumption DEF ChatInit, UrlInit, ShortInv, ShortTyped, FirstIsKept

\* Whoever asks is told of what is known already, and those who asked before
\* have what they have.
LEMMA AskingKeepsShort ==
  ASSUME ShortInv, NEW c \in UrlChan, NEW u \in Url, AskToShorten(c, u)
  PROVE  ShortInv'
<1> DEFINE by == ShortenerOf(c)
           new == [url |-> u, shortener |-> by, stage |-> "looking",
                   known |-> LookUp(u, by), answer |-> 0]
<1>1. /\ shortens' = Append(shortens, new)
      /\ cache' = cache /\ inserts' = inserts /\ shorteners' = shorteners
  BY DEF AskToShorten
<1>2. by \in Shortener
  BY DEF AskToShorten, ShortInv, ShortTyped
<1>3. LookUp(u, by) \in Nat
  BY FirstTyped, LookUpIsFirst DEF ShortInv, ShortTyped
<1>4. new \in Shorten
  BY <1>2, <1>3 DEF Shorten
<1>5. ShortTyped'
  <2> HIDE DEF new
  <2> QED
    BY <1>1, <1>4 DEF ShortInv, ShortTyped
<1>6. \A v, s : LookUp(v, s)' = LookUp(v, s)
  BY <1>1, LookUpIsFirst
<1>7. ASSUME NEW i \in DOMAIN shortens', shortens'[i].known # 0
      PROVE  /\ LookUp(shortens[i].url, shortens[i].shortener)' = shortens'[i].known
             /\ shortens'[i].stage # "asking"
             /\ shortens'[i].stage = "over" => shortens'[i].answer = shortens'[i].known
  <2>1. CASE i \in DOMAIN shortens
    <3>1. shortens'[i] = shortens[i]
      BY <1>1, <2>1 DEF ShortInv, ShortTyped
    <3> QED
      BY <1>6, <1>7, <2>1, <3>1, LookUpIsFirst, <1>1 DEF ShortInv, FirstIsKept
  <2>2. CASE i \notin DOMAIN shortens
    <3>1. shortens'[i] = new
      BY <1>1, <1>7, <2>2 DEF ShortInv, ShortTyped
    <3>2. LookUp(shortens[i].url, shortens[i].shortener)' = LookUp(u, by)
      BY <3>1, <1>1, LookUpIsFirst DEF LookUp
    <3> QED
      BY <3>1, <3>2
  <2> QED
    BY <2>1, <2>2
<1> QED
  BY <1>5, <1>7 DEF ShortInv, FirstIsKept

LEMMA LookingKeepsShort ==
  ASSUME ShortInv, NEW i \in DOMAIN shortens, Look(i)
  PROVE  ShortInv'
<1> DEFINE s == shortens[i]
           short == LookUp(s.url, s.shortener)
<1>0. s \in Shorten /\ short \in Nat
  BY FirstTyped, LookUpIsFirst DEF ShortInv, ShortTyped
<1>1. PICK stage \in {"asking", "over", "failed"}, answer \in Nat :
        /\ ShortenSteps(i, stage, answer)
        /\ stage = "asking" => short = 0
        /\ stage = "over" => answer = short
  <2> HIDE DEF short
  <2> DEFINE stage == IF short = 0 /\ s.shortener \in shorteners THEN "asking" ELSE "over"
  <2>1. CASE ShortenSteps(i, "failed", 0)
    BY <2>1
  <2>2. CASE ShortenSteps(i, stage, short)
    <3>1. stage \in {"asking", "over"} /\ (stage = "asking" => short = 0)
      OBVIOUS
    <3> HIDE DEF stage
    <3> QED
      BY <1>0, <2>2, <3>1
  <2>3. ShortenSteps(i, stage, short) \/ ShortenSteps(i, "failed", 0)
    BY DEF Look, short
  <2> QED
    BY <2>1, <2>2, <2>3
<1>2. cache' = cache /\ inserts' = inserts /\ shorteners' = shorteners
  BY DEF Look, ShortenSteps
<1>3. s \in Shorten /\ answer \in Nat
  BY <1>0
<1>4. /\ shortens' = [shortens EXCEPT ![i] = [s EXCEPT !.stage = stage, !.answer = answer]]
      /\ [s EXCEPT !.stage = stage, !.answer = answer] \in Shorten
  BY <1>1, <1>3 DEF ShortenSteps, Shorten, ShortInv, ShortTyped
<1>5. ShortTyped'
  <2> DEFINE r == [s EXCEPT !.stage = stage, !.answer = answer]
  <2> HIDE DEF r
  <2> QED
    BY <1>2, <1>4 DEF ShortInv, ShortTyped, r
<1>6. DOMAIN shortens' = DOMAIN shortens /\ \A j \in DOMAIN shortens \ {i} : shortens'[j] = shortens[j]
  BY <1>4 DEF ShortInv, ShortTyped
<1>7. /\ shortens'[i].url = s.url /\ shortens'[i].shortener = s.shortener
      /\ shortens'[i].known = s.known /\ shortens'[i].stage = stage /\ shortens'[i].answer = answer
  BY <1>3, <1>4 DEF ShortInv, ShortTyped, Shorten
<1>8. FirstIsKept'
  <2> SUFFICES ASSUME NEW j \in DOMAIN shortens', shortens'[j].known # 0
               PROVE  /\ LookUp(shortens[j].url, shortens[j].shortener)' = shortens'[j].known
                      /\ shortens'[j].stage # "asking"
                      /\ shortens'[j].stage = "over" => shortens'[j].answer = shortens'[j].known
    BY DEF FirstIsKept
  <2>1. \A u, v : FirstOf(cache', u, v) = LookUp(u, v)
    BY <1>2, LookUpIsFirst
  <2>2. LookUp(shortens[j].url, shortens[j].shortener)' = LookUp(shortens'[j].url, shortens'[j].shortener)
    BY <1>2 DEF LookUp
  <2>3. CASE j = i
    BY <1>1, <1>6, <1>7, <2>2, <2>3 DEF ShortInv, FirstIsKept
  <2>4. CASE j # i
    BY <1>6, <2>2, <2>4 DEF ShortInv, FirstIsKept
  <2> QED
    BY <2>3, <2>4
<1> QED
  BY <1>5, <1>8 DEF ShortInv

LEMMA ShortenedKeepsShort ==
  ASSUME ShortInv, NEW i \in DOMAIN shortens, Shortened(i)
  PROVE  ShortInv'
<1> DEFINE s == shortens[i]
<1>1. PICK short \in Nat : shortens' = [shortens EXCEPT ![i].stage = "over", ![i].answer = short]
  <2>1. i \in Nat /\ 0 \in Nat
    BY DEF ShortInv, ShortTyped
  <2>2. \/ shortens' = [shortens EXCEPT ![i].stage = "over", ![i].answer = i]
        \/ shortens' = [shortens EXCEPT ![i].stage = "over", ![i].answer = 0]
    BY DEF Shortened, ShortenSteps
  <2> QED
    BY <2>1, <2>2
<1>2. /\ cache' = cache /\ shorteners' = shorteners /\ s.stage = "asking"
      /\ inserts' \subseteq inserts \cup {[url |-> s.url, shortener |-> s.shortener, short |-> i]}
  BY DEF Shortened, ShortenSteps
<1>3. s \in Shorten /\ i \in Nat
  BY DEF ShortInv, ShortTyped
<1>4. /\ shortens' = [shortens EXCEPT ![i] = [s EXCEPT !.stage = "over", !.answer = short]]
      /\ [s EXCEPT !.stage = "over", !.answer = short] \in Shorten
  BY <1>1, <1>3 DEF Shorten, ShortInv, ShortTyped
<1>5. ShortTyped'
  <2>1. inserts' \subseteq Stored
    BY <1>2, <1>3 DEF Stored, Shorten, ShortInv, ShortTyped
  <2> DEFINE r == [s EXCEPT !.stage = "over", !.answer = short]
  <2> HIDE DEF r
  <2> QED
    BY <1>2, <1>4, <2>1 DEF ShortInv, ShortTyped, r
<1>6. /\ DOMAIN shortens' = DOMAIN shortens /\ \A j \in DOMAIN shortens \ {i} : shortens'[j] = shortens[j]
      /\ shortens'[i].known = s.known
  BY <1>3, <1>4 DEF ShortInv, ShortTyped, Shorten
<1>7. s.known = 0
  BY <1>2 DEF ShortInv, FirstIsKept
<1>8. FirstIsKept'
  <2> SUFFICES ASSUME NEW j \in DOMAIN shortens', shortens'[j].known # 0
               PROVE  /\ LookUp(shortens[j].url, shortens[j].shortener)' = shortens'[j].known
                      /\ shortens'[j].stage # "asking"
                      /\ shortens'[j].stage = "over" => shortens'[j].answer = shortens'[j].known
    BY DEF FirstIsKept
  <2>1. LookUp(shortens[j].url, shortens[j].shortener)' = LookUp(shortens'[j].url, shortens'[j].shortener)
    BY <1>2 DEF LookUp
  <2> QED
    BY <1>6, <1>7, <2>1 DEF ShortInv, FirstIsKept
<1> QED
  BY <1>5, <1>8 DEF ShortInv

LEMMA StoringKeepsShort ==
  ASSUME ShortInv, NEW row \in inserts, Store(row)
  PROVE  ShortInv'
<1>1. /\ shortens' = shortens /\ shorteners' = shorteners /\ inserts' \subseteq inserts
      /\ cache' \in {cache, Append(cache, row)} /\ row \in Stored
  BY DEF Store, ShortInv, ShortTyped
<1>2. ShortTyped'
  BY <1>1 DEF ShortInv, ShortTyped
<1>3. ASSUME NEW i \in DOMAIN shortens, shortens[i].known # 0
      PROVE  LookUp(shortens[i].url, shortens[i].shortener)' = shortens[i].known
  <2> DEFINE u == shortens[i].url
             s == shortens[i].shortener
  <2>1. FirstOf(cache, u, s) = shortens[i].known
    BY <1>3, LookUpIsFirst DEF ShortInv, FirstIsKept
  <2>2. FirstOf(cache', u, s) = FirstOf(cache, u, s)
    <3>1. CASE cache' = cache
      BY <3>1
    <3>2. CASE cache' = Append(cache, row)
      <4>1. cache \in Seq(Stored) /\ row \in Stored /\ FirstOf(cache, u, s) # 0
        BY <1>1, <1>3, <2>1 DEF ShortInv, ShortTyped
      <4> HIDE DEF u, s
      <4> QED
        BY <3>2, <4>1, FirstStays
    <3> QED
      BY <1>1, <3>1, <3>2
  <2>3. LookUp(shortens[i].url, shortens[i].shortener)' = FirstOf(cache', u, s)
    BY <1>1 DEF LookUp, FirstOf, RowsOf
  <2> QED
    BY <2>1, <2>2, <2>3
<1> QED
  BY <1>1, <1>2, <1>3 DEF ShortInv, FirstIsKept

\* The only other steps that this is about are those of other plugins, which
\* bring and take shorteners.
LEMMA ShortSteps == ShortInv /\ [ChatNext]_chatVars => ShortInv'
<1> SUFFICES ASSUME ShortInv, [ChatNext]_chatVars PROVE ShortInv'
  OBVIOUS
<1>1. ASSUME shorteners' \subseteq Shortener, UNCHANGED <<cache, inserts, shortens>>
      PROVE  ShortInv'
  <2>1. ShortTyped'
    BY <1>1 DEF ShortInv, ShortTyped
  <2>2. FirstIsKept'
    <3> SUFFICES ASSUME NEW i \in DOMAIN shortens', shortens'[i].known # 0
                 PROVE  /\ LookUp(shortens[i].url, shortens[i].shortener)' = shortens'[i].known
                        /\ shortens'[i].stage # "asking"
                        /\ shortens'[i].stage = "over" => shortens'[i].answer = shortens'[i].known
      BY DEF FirstIsKept
    <3>1. LookUp(shortens[i].url, shortens[i].shortener)' = LookUp(shortens[i].url, shortens[i].shortener)
      BY <1>1 DEF LookUp
    <3> QED
      BY <1>1, <3>1 DEF ShortInv, FirstIsKept
  <2> QED
    BY <2>1, <2>2 DEF ShortInv
<1>2. CASE UNCHANGED chatVars
  BY <1>1, <1>2 DEF chatVars, urlVars, ShortInv, ShortTyped
<1>3. CASE \E spot, links : Message(spot, links)
  BY <1>1, <1>3 DEF Message, Hear, ShortInv, ShortTyped
<1>4. CASE UNCHANGED urlVars
  BY <1>1, <1>4 DEF urlVars, ShortInv, ShortTyped
<1>5. CASE PluginStep
  BY <1>1, <1>5 DEF PluginStep, AddHandler, RemoveHandler, AddShortener, RemoveShortener, Deactivate,
                    ShortInv, ShortTyped
<1>6. CASE CommandStep
  <2>1. CASE \E c \in UrlChan, u \in Url : AskToShorten(c, u)
    BY <2>1, AskingKeepsShort
  <2>2. CASE \E c \in UrlChan : (\E on \in BOOLEAN : SetStatus(c, on)) \/ \E s \in Shortener : SetShortener(c, s)
    BY <1>1, <2>2 DEF SetStatus, SetShortener, ShortInv, ShortTyped
  <2> QED
    BY <1>6, <2>1, <2>2 DEF CommandStep
<1>7. CASE RunStep
  <2>1. \A i, r : StepsTo(i, r) => shorteners' = shorteners /\ UNCHANGED <<cache, inserts, shortens>>
    BY DEF StepsTo
  <2>2. shorteners' = shorteners /\ UNCHANGED <<cache, inserts, shortens>>
    BY <1>7, <2>1 DEF RunStep, Check, Answered, Arrived, Match, Called
  <2> QED
    BY <1>1, <2>2 DEF ShortInv, ShortTyped
<1>8. CASE ShortenStep
  BY <1>8, LookingKeepsShort, ShortenedKeepsShort, StoringKeepsShort DEF ShortenStep
<1> QED
  <2>1. \A spot : Command(spot) => UNCHANGED urlVars
    BY DEF Command
  <2> QED
    BY <1>2, <1>3, <1>4, <1>5, <1>6, <1>7, <1>8, <2>1 DEF ChatNext, Say, Change

\* For any links, shorteners and number of requests that overlap: whoever asks
\* for a link that has been shortened gets the result there was then, however
\* many others have come to be stored since.
THEOREM ShortenedOnce == ChatSpec => []ShortOnce
<1>1. ShortInv => ShortOnce
  BY DEF ShortInv, FirstIsKept, ShortOnce
<1> QED
  BY <1>1, ShortInit, ShortSteps, PTL DEF ChatSpec
-----------------------------------------------------------------------------
(***************************************************************************)
(* What is in the table of factoids                                        *)
(***************************************************************************)
\* Only a get may leave out where it looks.
PlaceKnown(t) == t.loc \in Kept \/ (t.loc = "unsaid" /\ t.verb = "get")

TasksTyped ==
  /\ rows \in [Row -> Seq(Nat)] /\ tasks \in Seq(Task)
  /\ \A i \in DOMAIN tasks : PlaceKnown(tasks[i])

\* The lines s are of the row r: requests for that row have written them.
OfRow(ts, s, r) ==
  \A n \in DOMAIN s : s[n] \in DOMAIN ts /\ RowOf(ts[s[n]]) = r

\* The lines s are what g may see, which is of one place.
SeenBy(ts, s, g) ==
  \E loc \in Kept :
    \A n \in DOMAIN s :
      /\ s[n] \in DOMAIN ts
      /\ ts[s[n]].loc = loc /\ ts[s[n]].key = g.key
      /\ loc = "channel" => ts[s[n]].spot = g.spot
      /\ loc = "protocol" => ts[s[n]].spot[1] = g.spot[1]

LinesKnown ==
  /\ \A r \in Row : OfRow(tasks, rows[r], r)
  /\ \A i \in DOMAIN tasks :
       /\ tasks[i].verb = "add" /\ tasks[i].stage = "read" =>
            OfRow(tasks, tasks[i].lines, RowOf(tasks[i]))
       /\ tasks[i].verb = "get" /\ tasks[i].outcome = "ok" =>
            SeenBy(tasks, tasks[i].lines, tasks[i])

FactInv == TasksTyped /\ LinesKnown

\* A request that is made, and the steps of one that is under way.
Asked ==
  \E new \in Task :
    /\ PlaceKnown(new)
    /\ new.stage = "queued" /\ new.outcome = "pending" /\ new.after = Over
    /\ tasks' = Append(tasks, new) /\ rows' = rows

LEMMA AskIs ==
  ASSUME TasksTyped, NEW verb \in Verb, NEW loc \in Location, NEW key \in Key, NEW spot \in Spot,
         Ask(verb, loc, key, spot)
  PROVE  Asked \/ UNCHANGED factVars
<1> DEFINE new == [verb |-> verb, loc |-> loc, key |-> key, spot |-> spot, stage |-> "queued",
                   outcome |-> "pending", lines |-> <<>>, after |-> Over]
<1>1. \/ UNCHANGED factVars
      \/ tasks' = Append(tasks, new) /\ rows' = rows /\ loc # "nowhere" /\ MayAsk(verb, loc)
  BY DEF Ask, Accepted, factVars
<1>2. Over \in SUBSET Nat
  BY DEF Over, TasksTyped
<1>3. new \in Task
  BY <1>2 DEF Task
<1>4. loc # "nowhere" /\ MayAsk(verb, loc) => PlaceKnown(new)
  <2>1. new.loc = loc /\ new.verb = verb
    OBVIOUS
  <2> HIDE DEF new
  <2> QED
    BY <2>1 DEF PlaceKnown, MayAsk, Location
<1>5. new.stage = "queued" /\ new.outcome = "pending" /\ new.after = Over
  OBVIOUS
<1> HIDE DEF new
<1> QED
  BY <1>1, <1>3, <1>4, <1>5 DEF Asked

LEMMA FactMoves ==
  ASSUME TasksTyped, [ChatNext]_chatVars
  PROVE  Asked \/ FactStep \/ UNCHANGED factVars
<1>1. CASE \E spot \in UrlChan, u, v \in Url : Message(spot, <<u>>) \/ Message(spot, <<u, v>>)
  <2>1. UrlChan \subseteq Spot /\ Kept \cup {"unsaid"} \subseteq Location
        /\ Verb \ {"get"} \subseteq Verb /\ "get" \in Verb
    BY InputsAssumption DEF Location, Verb
  <2>2. \A spot \in Spot : ShortGet(spot) \/ ShortChange(spot) => Asked \/ UNCHANGED factVars
    BY <2>1, AskIs DEF ShortGet, ShortChange
  <2> QED
    BY <1>1, <2>1, <2>2 DEF Message
<1>2. CASE \E spot \in Spot : Command(spot)
  BY <1>2, AskIs DEF Command
<1>3. CASE UNCHANGED factVars
  BY <1>3
<1> QED
  <2>1. UNCHANGED chatVars => UNCHANGED factVars
    BY DEF chatVars
  <2> QED
    BY <1>1, <1>2, <1>3, <2>1 DEF ChatNext, Say, Change

-----------------------------------------------------------------------------
\* A request keeps what it asks for.
SameRequest(a, b) ==
  a.verb = b.verb /\ a.loc = b.loc /\ a.key = b.key /\ a.spot = b.spot /\ a.after = b.after

\* The request i goes on to stage and outcome, with these lines.
Goes(i, stage, outcome, lines) ==
  /\ DOMAIN tasks' = DOMAIN tasks
  /\ \A j \in DOMAIN tasks \ {i} : tasks'[j] = tasks[j]
  /\ SameRequest(tasks'[i], tasks[i])
  /\ tasks'[i].stage = stage /\ tasks'[i].outcome = outcome /\ tasks'[i].lines = lines

LEMMA Going ==
  ASSUME TasksTyped, NEW i \in DOMAIN tasks,
         NEW stage \in {"queued", "read", "done", "over"},
         NEW outcome \in {"pending", "ok", "missing", "failed"}, NEW lines \in Seq(Nat),
         tasks' = [tasks EXCEPT ![i] = [tasks[i] EXCEPT !.stage = stage, !.outcome = outcome,
                                                       !.lines = lines]]
  PROVE  /\ Goes(i, stage, outcome, lines) /\ tasks' \in Seq(Task)
         /\ \A j \in DOMAIN tasks' : PlaceKnown(tasks'[j])
<1> DEFINE new == [tasks[i] EXCEPT !.stage = stage, !.outcome = outcome, !.lines = lines]
<1>1. tasks[i] \in Task /\ tasks \in Seq(Task)
  BY DEF TasksTyped
<1>2. /\ new \in Task /\ SameRequest(new, tasks[i])
      /\ new.stage = stage /\ new.outcome = outcome /\ new.lines = lines
  BY <1>1 DEF Task, SameRequest
<1>3. tasks' = [tasks EXCEPT ![i] = new]
  OBVIOUS
<1> HIDE DEF new
<1>4. /\ tasks' \in Seq(Task) /\ DOMAIN tasks' = DOMAIN tasks
      /\ tasks'[i] = new /\ \A j \in DOMAIN tasks \ {i} : tasks'[j] = tasks[j]
  BY <1>1, <1>2, <1>3
<1>5. \A j \in DOMAIN tasks' : PlaceKnown(tasks'[j])
  <2>1. PlaceKnown(tasks[i]) => PlaceKnown(new)
    BY <1>2 DEF PlaceKnown, SameRequest
  <2> QED
    BY <1>4, <2>1 DEF TasksTyped
<1> QED
  BY <1>2, <1>4, <1>5 DEF Goes

LEMMA RowsOfTasks ==
  ASSUME NEW t \in Task
  PROVE  /\ t.loc \in Kept => RowOf(t) \in Row
         /\ t.spot = <<t.spot[1], t.spot[2]>> /\ t.spot \in Spot
BY FactAssumption DEF Task, RowOf, Row

\* The steps, each as what it does to its request and to the rows.
LEMMA ReadIs ==
  ASSUME TasksTyped, NEW i \in DOMAIN tasks, Read(i)
  PROVE  /\ tasks[i].verb = "add" /\ tasks[i].stage = "queued" /\ rows' = rows
         /\ Goes(i, "read", tasks[i].outcome, rows[RowOf(tasks[i])]) /\ TasksTyped'
<1> DEFINE s == rows[RowOf(tasks[i])]
<1>1. /\ tasks[i].verb = "add" /\ tasks[i].stage = "queued" /\ rows' = rows
      /\ tasks' = [tasks EXCEPT ![i].stage = "read", ![i].lines = s]
  BY DEF Read
<1>2. tasks[i] \in Task /\ tasks \in Seq(Task) /\ PlaceKnown(tasks[i])
  BY DEF TasksTyped
<1>3. s \in Seq(Nat)
  BY <1>1, <1>2, RowsOfTasks DEF TasksTyped, PlaceKnown
<1>4. tasks[i].outcome \in {"pending", "ok", "missing", "failed"}
  BY <1>2 DEF Task
<1> HIDE DEF s
<1>5. tasks' = [tasks EXCEPT ![i] = [tasks[i] EXCEPT !.stage = "read", !.outcome = tasks[i].outcome,
                                                    !.lines = s]]
  BY <1>1, <1>2 DEF Task
<1>6. /\ Goes(i, "read", tasks[i].outcome, s) /\ tasks' \in Seq(Task)
      /\ \A j \in DOMAIN tasks' : PlaceKnown(tasks'[j])
  BY <1>3, <1>4, <1>5, Going
<1> QED
  BY <1>1, <1>6 DEF TasksTyped, s

LEMMA EndsIs ==
  ASSUME TasksTyped, NEW i \in DOMAIN tasks, NEW outcome \in {"pending", "ok", "missing", "failed"},
         Ends(i, outcome)
  PROVE  /\ Goes(i, "done", outcome, tasks[i].lines) /\ tasks' \in Seq(Task)
         /\ \A j \in DOMAIN tasks' : PlaceKnown(tasks'[j])
<1>1. tasks[i] \in Task /\ tasks \in Seq(Task)
  BY DEF TasksTyped
<1>2. tasks[i].lines \in Seq(Nat)
  BY <1>1 DEF Task
<1>3. tasks' = [tasks EXCEPT ![i] = [tasks[i] EXCEPT !.stage = "done", !.outcome = outcome,
                                                    !.lines = tasks[i].lines]]
  BY <1>1 DEF Ends, Task
<1> QED
  BY <1>2, <1>3, Going

LEMMA InsertIs ==
  ASSUME TasksTyped, NEW i \in DOMAIN tasks, Insert(i)
  PROVE  /\ \/ tasks[i].verb = "add" /\ tasks[i].stage = "read"
            \/ tasks[i].verb = "set" /\ tasks[i].stage = "queued"
         /\ RowOf(tasks[i]) \in Row /\ Written(i) \in Seq(Nat)
         /\ rows' = [rows EXCEPT ![RowOf(tasks[i])] = Written(i)]
         /\ Goes(i, "done", "ok", tasks[i].lines) /\ TasksTyped'
<1>1. /\ \/ tasks[i].verb = "add" /\ tasks[i].stage = "read"
         \/ tasks[i].verb = "set" /\ tasks[i].stage = "queued"
      /\ rows' = [rows EXCEPT ![RowOf(tasks[i])] = Written(i)]
      /\ Ends(i, "ok")
  BY DEF Insert
<1>2. tasks[i] \in Task /\ PlaceKnown(tasks[i]) /\ i \in Nat
  BY DEF TasksTyped
<1>3. RowOf(tasks[i]) \in Row
  BY <1>1, <1>2, RowsOfTasks DEF PlaceKnown
<1>4. Written(i) \in Seq(Nat)
  <2>1. tasks[i].lines \in Seq(Nat)
    BY <1>2 DEF Task
  <2> QED
    BY <1>2, <2>1 DEF Written
<1>5. rows' \in [Row -> Seq(Nat)]
  BY <1>1, <1>3, <1>4 DEF TasksTyped
<1> QED
  BY <1>1, <1>3, <1>4, <1>5, EndsIs DEF TasksTyped

LEMMA DeleteIs ==
  ASSUME TasksTyped, NEW i \in DOMAIN tasks, Delete(i)
  PROVE  /\ tasks[i].verb = "delete" /\ tasks[i].stage = "queued"
         /\ rows' = [r \in Row |-> IF Deletes(tasks[i], r) THEN <<>> ELSE rows[r]]
         /\ \E outcome \in {"ok", "missing"} : Goes(i, "done", outcome, tasks[i].lines)
         /\ TasksTyped'
<1>1. /\ tasks[i].verb = "delete" /\ tasks[i].stage = "queued"
      /\ rows' = [r \in Row |-> IF Deletes(tasks[i], r) THEN <<>> ELSE rows[r]]
      /\ Ends(i, "ok") \/ Ends(i, "missing")
  BY DEF Delete
<1>2. rows' \in [Row -> Seq(Nat)]
  BY <1>1 DEF TasksTyped
<1> QED
  BY <1>1, <1>2, EndsIs DEF TasksTyped

LEMMA FailsIs ==
  ASSUME TasksTyped, NEW i \in DOMAIN tasks, Fails(i)
  PROVE  /\ tasks[i].stage \in {"queued", "read"} /\ tasks[i].verb # "get" /\ rows' = rows
         /\ Goes(i, "done", "failed", tasks[i].lines) /\ TasksTyped'
BY EndsIs DEF Fails, TasksTyped

LEMMA ReplyIs ==
  ASSUME TasksTyped, NEW i \in DOMAIN tasks, Reply(i)
  PROVE  /\ tasks[i].stage = "done" /\ rows' = rows
         /\ Goes(i, "over", tasks[i].outcome, tasks[i].lines) /\ TasksTyped'
<1>1. tasks[i] \in Task /\ tasks \in Seq(Task)
  BY DEF TasksTyped
<1>2. tasks[i].lines \in Seq(Nat) /\ tasks[i].outcome \in {"pending", "ok", "missing", "failed"}
  BY <1>1 DEF Task
<1>3. tasks' = [tasks EXCEPT ![i] = [tasks[i] EXCEPT !.stage = "over", !.outcome = tasks[i].outcome,
                                                    !.lines = tasks[i].lines]]
  BY <1>1 DEF Reply, Task
<1>4. /\ Goes(i, "over", tasks[i].outcome, tasks[i].lines) /\ tasks' \in Seq(Task)
      /\ \A j \in DOMAIN tasks' : PlaceKnown(tasks'[j])
  BY <1>2, <1>3, Going
<1> QED
  BY <1>4 DEF Reply, TasksTyped

-----------------------------------------------------------------------------
\* Of rows with one name and place, the index has one first.
LEMMA FirstIsIn ==
  ASSUME NEW R, R \subseteq Row, R # {}, NEW k, NEW l, \A r \in R : r[1] = k /\ r[2] = l
  PROVE  First(R) \in R
<1>1. \A r \in R : r = <<k, l, r[3], r[4]>> /\ r[3] \in Nat /\ r[4] \in Nat
  BY FactAssumption DEF Row
<1>2. PICK a \in {r[3] : r \in R} : \A b \in {r[3] : r \in R} : a <= b
  BY <1>1, LeastNumber
<1>3. PICK c \in {r[4] : r \in {s \in R : s[3] = a}} : \A d \in {r[4] : r \in {s \in R : s[3] = a}} : c <= d
  BY <1>1, <1>2, LeastNumber
<1>4. PICK r \in R : r[3] = a /\ r[4] = c
  BY <1>3
<1>5. ASSUME NEW s \in R
      PROVE  r[3] < s[3] \/ (r[3] = s[3] /\ r[4] <= s[4])
  <2>1. a <= s[3]
    BY <1>2
  <2>2. s[3] = a => c <= s[4]
    BY <1>3
  <2>3. s[3] \in Nat /\ s[4] \in Nat /\ r[3] \in Nat /\ r[4] \in Nat
    BY <1>1
  <2> QED
    BY <1>4, <2>1, <2>2, <2>3
<1> QED
  BY <1>4, <1>5 DEF First

\* A get answers with one row of a place its caller may see, or with nothing.
LEMMA GetSees ==
  ASSUME FactInv, NEW i \in DOMAIN tasks, tasks[i].verb = "get", LinesFor(tasks[i]) # <<>>
  PROVE  LinesFor(tasks[i]) \in Seq(Nat) /\ SeenBy(tasks, LinesFor(tasks[i]), tasks[i])
<1> DEFINE g == tasks[i]
<1>1. g \in Task /\ PlaceKnown(g) /\ rows \in [Row -> Seq(Nat)]
  BY DEF FactInv, TasksTyped
<1>2. \A j \in DOMAIN tasks : tasks[j] \in Task
  BY DEF FactInv, TasksTyped
<1>3. ASSUME NEW r \in Row, r[1] = g.key, r[2] = "channel" => <<r[3], r[4]>> = g.spot,
             r[2] = "protocol" => r[3] = g.spot[1], LinesFor(g) = rows[r]
      PROVE  LinesFor(g) \in Seq(Nat) /\ SeenBy(tasks, LinesFor(g), g)
  <2>1. r[2] \in Kept
    BY DEF Row
  <2>2. ASSUME NEW n \in DOMAIN rows[r]
        PROVE  /\ rows[r][n] \in DOMAIN tasks
               /\ tasks[rows[r][n]].loc = r[2] /\ tasks[rows[r][n]].key = g.key
               /\ r[2] = "channel" => tasks[rows[r][n]].spot = g.spot
               /\ r[2] = "protocol" => tasks[rows[r][n]].spot[1] = g.spot[1]
    <3> DEFINE by == tasks[rows[r][n]]
    <3>1. rows[r][n] \in DOMAIN tasks /\ RowOf(by) = r
      BY DEF FactInv, LinesKnown, OfRow
    <3>2. by.key = r[1] /\ by.loc = r[2] /\ by.spot[1] = r[3] /\ by.spot[2] = r[4]
      BY <3>1 DEF RowOf
    <3>3. by.spot = <<by.spot[1], by.spot[2]>>
      BY <1>2, <3>1, RowsOfTasks
    <3> QED
      BY <1>3, <3>1, <3>2, <3>3
  <2> QED
    BY <1>1, <1>3, <2>1, <2>2 DEF SeenBy
<1>4. CASE g.loc # "unsaid"
  <2>1. g.loc \in Kept /\ RowOf(g) \in Row /\ LinesFor(g) = rows[RowOf(g)]
    BY <1>1, <1>4, RowsOfTasks DEF PlaceKnown, LinesFor
  <2>2. /\ RowOf(g)[1] = g.key /\ <<RowOf(g)[3], RowOf(g)[4]>> = g.spot /\ RowOf(g)[3] = g.spot[1]
    BY <1>1, RowsOfTasks DEF RowOf
  <2> QED
    BY <1>3, <2>1, <2>2
<1>5. CASE g.loc = "unsaid"
  <2>1. PICK loc \in Kept : Candidates(g, loc) # {} /\ LinesFor(g) = rows[First(Candidates(g, loc))]
    BY <1>5 DEF LinesFor, Kept
  <2>2. First(Candidates(g, loc)) \in Candidates(g, loc)
    <3> DEFINE R == Candidates(g, loc)
    <3>1. R \subseteq Row /\ R # {} /\ \A r \in R : r[1] = g.key /\ r[2] = loc
      BY <2>1 DEF Candidates
    <3> HIDE DEF R
    <3> QED
      BY <3>1, FirstIsIn DEF R
  <2> QED
    BY <1>3, <2>1, <2>2 DEF Candidates
<1> QED
  BY <1>4, <1>5

LEMMA GetIs ==
  ASSUME FactInv, NEW i \in DOMAIN tasks, Get(i)
  PROVE  /\ tasks[i].verb = "get" /\ tasks[i].stage = "queued" /\ rows' = rows /\ TasksTyped'
         /\ \E outcome \in {"ok", "missing"}, lines \in Seq(Nat) :
              /\ Goes(i, "done", outcome, lines)
              /\ outcome = "ok" => SeenBy(tasks, lines, tasks[i])
<1>1. PICK outcome \in {"ok", "missing"}, lines \in Seq(Nat) :
        /\ tasks' = [tasks EXCEPT ![i].stage = "done", ![i].lines = lines, ![i].outcome = outcome]
        /\ outcome = "ok" => SeenBy(tasks, lines, tasks[i])
  <2>1. CASE LinesFor(tasks[i]) = <<>>
    <3>1. tasks' = [tasks EXCEPT ![i].stage = "done", ![i].lines = <<>>, ![i].outcome = "missing"]
      BY <2>1 DEF Get
    <3>2. <<>> \in Seq(Nat)
      OBVIOUS
    <3> QED
      BY <3>1, <3>2
  <2>2. CASE LinesFor(tasks[i]) # <<>>
    BY <2>2, GetSees DEF Get
  <2> QED
    BY <2>1, <2>2
<1>2. tasks[i].verb = "get" /\ tasks[i].stage = "queued" /\ rows' = rows
  BY DEF Get
<1>3. TasksTyped /\ tasks[i] \in Task /\ tasks \in Seq(Task)
  BY DEF FactInv, TasksTyped
<1>4. tasks' = [tasks EXCEPT ![i] = [tasks[i] EXCEPT !.stage = "done", !.outcome = outcome,
                                                    !.lines = lines]]
  BY <1>1, <1>3 DEF Task
<1>5. /\ Goes(i, "done", outcome, lines) /\ tasks' \in Seq(Task)
      /\ \A j \in DOMAIN tasks' : PlaceKnown(tasks'[j])
  BY <1>3, <1>4, Going
<1> QED
  BY <1>1, <1>2, <1>3, <1>5 DEF TasksTyped
-----------------------------------------------------------------------------
\* What is said of requests stays true as they go on and others are made.
LEMMA LinesStay ==
  ASSUME NEW ts, NEW us,
         \A j \in DOMAIN ts : j \in DOMAIN us /\ SameRequest(us[j], ts[j])
  PROVE  /\ \A s, r : OfRow(ts, s, r) => OfRow(us, s, r)
         /\ \A s, g, h : SeenBy(ts, s, g) /\ SameRequest(h, g) => SeenBy(us, s, h)
<1>1. ASSUME NEW s, NEW r, OfRow(ts, s, r) PROVE OfRow(us, s, r)
  BY <1>1 DEF OfRow, SameRequest, RowOf
<1>2. ASSUME NEW s, NEW g, NEW h, SeenBy(ts, s, g), SameRequest(h, g) PROVE SeenBy(us, s, h)
  <2>1. PICK loc \in Kept : \A n \in DOMAIN s :
          /\ s[n] \in DOMAIN ts
          /\ ts[s[n]].loc = loc /\ ts[s[n]].key = g.key
          /\ loc = "channel" => ts[s[n]].spot = g.spot
          /\ loc = "protocol" => ts[s[n]].spot[1] = g.spot[1]
    BY <1>2 DEF SeenBy
  <2> QED
    BY <1>2, <2>1 DEF SeenBy, SameRequest
<1> QED
  BY <1>1, <1>2

LEMMA GoingKeepsLines ==
  ASSUME FactInv, TasksTyped', NEW i \in DOMAIN tasks, NEW stage, NEW outcome, NEW lines,
         Goes(i, stage, outcome, lines),
         \A r \in Row : OfRow(tasks, rows'[r], r),
         tasks[i].verb = "add" /\ stage = "read" => OfRow(tasks, lines, RowOf(tasks[i])),
         tasks[i].verb = "get" /\ outcome = "ok" => SeenBy(tasks, lines, tasks[i])
  PROVE  FactInv'
<1>1. \A j \in DOMAIN tasks : j \in DOMAIN tasks' /\ SameRequest(tasks'[j], tasks[j])
  BY DEF Goes, SameRequest
<1>2. /\ \A s, r : OfRow(tasks, s, r) => OfRow(tasks', s, r)
      /\ \A s, g, h : SeenBy(tasks, s, g) /\ SameRequest(h, g) => SeenBy(tasks', s, h)
  BY <1>1, LinesStay
<1>3. \A r \in Row : OfRow(tasks', rows'[r], r)
  BY <1>2
<1>4. ASSUME NEW j \in DOMAIN tasks'
      PROVE  /\ tasks'[j].verb = "add" /\ tasks'[j].stage = "read" =>
                  OfRow(tasks', tasks'[j].lines, RowOf(tasks'[j]))
             /\ tasks'[j].verb = "get" /\ tasks'[j].outcome = "ok" =>
                  SeenBy(tasks', tasks'[j].lines, tasks'[j])
  <2>1. j \in DOMAIN tasks /\ SameRequest(tasks'[j], tasks[j])
    BY <1>1 DEF Goes
  <2>2. RowOf(tasks'[j]) = RowOf(tasks[j]) /\ tasks'[j].verb = tasks[j].verb
    BY <2>1 DEF SameRequest, RowOf
  <2>3. CASE j = i
    BY <1>2, <2>1, <2>2, <2>3 DEF Goes
  <2>4. CASE j # i
    <3>1. tasks'[j] = tasks[j]
      BY <2>1, <2>4 DEF Goes
    <3> QED
      BY <1>2, <2>1, <3>1 DEF FactInv, LinesKnown
  <2> QED
    BY <2>3, <2>4
<1>5. LinesKnown'
  BY <1>3, <1>4 DEF LinesKnown, OfRow, SeenBy
<1> QED
  BY <1>5 DEF FactInv

LEMMA AskedKeepsLines ==
  ASSUME FactInv, Asked
  PROVE  FactInv'
<1>1. PICK new \in Task : /\ PlaceKnown(new) /\ new.stage = "queued" /\ new.outcome = "pending"
                          /\ tasks' = Append(tasks, new) /\ rows' = rows
  BY DEF Asked
<1>2. /\ tasks' \in Seq(Task) /\ DOMAIN tasks' = DOMAIN tasks \cup {Len(tasks) + 1}
      /\ tasks'[Len(tasks) + 1] = new /\ \A j \in DOMAIN tasks : tasks'[j] = tasks[j]
  BY <1>1 DEF FactInv, TasksTyped
<1>3. TasksTyped'
  BY <1>1, <1>2 DEF FactInv, TasksTyped
<1>4. \A j \in DOMAIN tasks : j \in DOMAIN tasks' /\ SameRequest(tasks'[j], tasks[j])
  BY <1>2 DEF SameRequest
<1>5. /\ \A s, r : OfRow(tasks, s, r) => OfRow(tasks', s, r)
      /\ \A s, g, h : SeenBy(tasks, s, g) /\ SameRequest(h, g) => SeenBy(tasks', s, h)
  BY <1>4, LinesStay
<1>6. \A r \in Row : OfRow(tasks', rows'[r], r)
  BY <1>1, <1>5 DEF FactInv, LinesKnown
<1>7. ASSUME NEW j \in DOMAIN tasks'
      PROVE  /\ tasks'[j].verb = "add" /\ tasks'[j].stage = "read" =>
                  OfRow(tasks', tasks'[j].lines, RowOf(tasks'[j]))
             /\ tasks'[j].verb = "get" /\ tasks'[j].outcome = "ok" =>
                  SeenBy(tasks', tasks'[j].lines, tasks'[j])
  <2>1. CASE j \in DOMAIN tasks
    BY <1>2, <1>4, <1>5, <2>1 DEF FactInv, LinesKnown
  <2>2. CASE j \notin DOMAIN tasks
    BY <1>1, <1>2, <2>2
  <2> QED
    BY <2>1, <2>2
<1>8. LinesKnown'
  BY <1>6, <1>7 DEF LinesKnown, OfRow, SeenBy
<1> QED
  BY <1>3, <1>8 DEF FactInv

\* What is inserted is what was read and the request itself, or that alone.
LEMMA InsertKeepsLines ==
  ASSUME FactInv, NEW i \in DOMAIN tasks, Insert(i)
  PROVE  FactInv'
<1> DEFINE row == RowOf(tasks[i])
<1>1. TasksTyped
  BY DEF FactInv
<1>2. /\ \/ tasks[i].verb = "add" /\ tasks[i].stage = "read"
         \/ tasks[i].verb = "set" /\ tasks[i].stage = "queued"
      /\ row \in Row /\ Written(i) \in Seq(Nat)
      /\ rows' = [rows EXCEPT ![row] = Written(i)]
      /\ Goes(i, "done", "ok", tasks[i].lines) /\ TasksTyped'
  BY <1>1, InsertIs
<1>3. OfRow(tasks, Written(i), row)
  <2>1. tasks[i].lines \in Seq(Nat)
    <3>1. tasks[i] \in Task
      BY <1>1 DEF TasksTyped
    <3> QED
      BY <3>1 DEF Task
  <2>2. CASE tasks[i].verb = "add"
    <3>1. OfRow(tasks, tasks[i].lines, row) /\ Written(i) = Append(tasks[i].lines, i)
      BY <1>2, <2>2 DEF FactInv, LinesKnown, Written
    <3> QED
      BY <2>1, <3>1 DEF OfRow
  <2>3. CASE tasks[i].verb # "add"
    <3>1. Written(i) = <<i>>
      BY <2>3 DEF Written
    <3> QED
      BY <3>1 DEF OfRow
  <2> QED
    BY <2>2, <2>3
<1>4. \A r \in Row : OfRow(tasks, rows'[r], r)
  <2>1. \A r \in Row : rows'[r] = IF r = row THEN Written(i) ELSE rows[r]
    BY <1>1, <1>2 DEF TasksTyped
  <2> QED
    BY <1>3, <2>1 DEF FactInv, LinesKnown
<1>5. tasks[i].verb # "get"
  BY <1>2
<1> HIDE DEF row
<1> QED
  BY <1>2, <1>4, <1>5, GoingKeepsLines

LEMMA DeleteKeepsLines ==
  ASSUME FactInv, NEW i \in DOMAIN tasks, Delete(i)
  PROVE  FactInv'
<1>1. TasksTyped
  BY DEF FactInv
<1>2. PICK outcome \in {"ok", "missing"} :
        /\ tasks[i].verb = "delete"
        /\ rows' = [r \in Row |-> IF Deletes(tasks[i], r) THEN <<>> ELSE rows[r]]
        /\ Goes(i, "done", outcome, tasks[i].lines) /\ TasksTyped'
  BY <1>1, DeleteIs
<1>3. ASSUME NEW r \in Row PROVE OfRow(tasks, rows'[r], r)
  <2>1. rows'[r] = <<>> \/ rows'[r] = rows[r]
    BY <1>2
  <2> QED
    BY <2>1 DEF FactInv, LinesKnown, OfRow
<1> QED
  BY <1>2, <1>3, GoingKeepsLines

LEMMA FactStarts == ChatInit => FactInv
<1> SUFFICES ASSUME ChatInit PROVE FactInv
  OBVIOUS
<1>1. rows = [r \in Row |-> <<>>] /\ tasks = <<>>
  BY DEF ChatInit, FactInit
<1> QED
  BY <1>1 DEF FactInv, TasksTyped, LinesKnown, OfRow

LEMMA FactSteps == FactInv /\ [ChatNext]_chatVars => FactInv'
<1> SUFFICES ASSUME FactInv, [ChatNext]_chatVars PROVE FactInv'
  OBVIOUS
<1>1. TasksTyped
  BY DEF FactInv
<1>2. \A r \in Row : OfRow(tasks, rows[r], r)
  BY DEF FactInv, LinesKnown
<1>3. CASE Asked
  BY <1>3, AskedKeepsLines
<1>4. CASE FactStep
  <2>1. PICK i \in DOMAIN tasks : Read(i) \/ Insert(i) \/ Delete(i) \/ Get(i) \/ Fails(i) \/ Reply(i)
    BY <1>4 DEF FactStep
  <2>2. CASE Read(i)
    <3>1. /\ tasks[i].verb = "add" /\ rows' = rows
          /\ Goes(i, "read", tasks[i].outcome, rows[RowOf(tasks[i])]) /\ TasksTyped'
      BY <1>1, <2>2, ReadIs
    <3>2. RowOf(tasks[i]) \in Row
      BY <1>1, <3>1, RowsOfTasks DEF TasksTyped, PlaceKnown
    <3>3. OfRow(tasks, rows[RowOf(tasks[i])], RowOf(tasks[i]))
      BY <1>2, <3>2
    <3> QED
      BY <1>2, <3>1, <3>3, GoingKeepsLines
  <2>3. CASE Insert(i)
    BY <2>3, InsertKeepsLines
  <2>4. CASE Delete(i)
    BY <2>4, DeleteKeepsLines
  <2>5. CASE Get(i)
    <3>1. PICK outcome \in {"ok", "missing"}, lines \in Seq(Nat) :
            /\ tasks[i].verb = "get" /\ rows' = rows /\ TasksTyped'
            /\ Goes(i, "done", outcome, lines)
            /\ outcome = "ok" => SeenBy(tasks, lines, tasks[i])
      BY <2>5, GetIs
    <3> QED
      BY <1>2, <3>1, GoingKeepsLines
  <2>6. CASE Fails(i)
    <3>1. rows' = rows /\ Goes(i, "done", "failed", tasks[i].lines) /\ TasksTyped'
      BY <1>1, <2>6, FailsIs
    <3> QED
      BY <1>2, <3>1, GoingKeepsLines
  <2>7. CASE Reply(i)
    <3>1. rows' = rows /\ Goes(i, "over", tasks[i].outcome, tasks[i].lines) /\ TasksTyped'
      BY <1>1, <2>7, ReplyIs
    <3>2. tasks[i].verb = "get" /\ tasks[i].outcome = "ok" => SeenBy(tasks, tasks[i].lines, tasks[i])
      BY DEF FactInv, LinesKnown
    <3> QED
      BY <1>2, <3>1, <3>2, GoingKeepsLines
  <2> QED
    BY <2>1, <2>2, <2>3, <2>4, <2>5, <2>6, <2>7
<1>5. CASE UNCHANGED factVars
  BY <1>5 DEF factVars, FactInv, TasksTyped, LinesKnown, OfRow, SeenBy
<1> QED
  BY <1>1, <1>3, <1>4, <1>5, FactMoves

\* For any keys and places and number of requests that overlap: what a get is
\* answered was written for one place, and for one its caller is in.
THEOREM AnswersStayVisible == ChatSpec => []AnswersAreVisible
<1>1. FactInv => AnswersAreVisible
  <2> SUFFICES ASSUME FactInv, NEW g \in DOMAIN tasks, tasks[g].verb = "get", tasks[g].outcome = "ok"
               PROVE  \E loc \in Kept : \A n \in DOMAIN tasks[g].lines :
                        /\ tasks[tasks[g].lines[n]].loc = loc
                        /\ tasks[tasks[g].lines[n]].key = tasks[g].key
                        /\ loc = "channel" => tasks[tasks[g].lines[n]].spot = tasks[g].spot
                        /\ loc = "protocol" => tasks[tasks[g].lines[n]].spot[1] = tasks[g].spot[1]
    BY DEF AnswersAreVisible
  <2>1. SeenBy(tasks, tasks[g].lines, tasks[g])
    BY DEF FactInv, LinesKnown
  <2> QED
    BY <2>1 DEF SeenBy
<1> QED
  BY <1>1, FactStarts, FactSteps, PTL DEF ChatSpec
-----------------------------------------------------------------------------
(***************************************************************************)
(* What changes of a row make of it                                        *)
(***************************************************************************)
\* Changes, of any list of requests; and those that were carried out.
ChangesIn(ts, i, r) ==
  /\ ts[i].verb # "get" /\ ts[i].outcome \in {"pending", "ok", "missing"}
  /\ IF ts[i].verb = "delete"
       THEN /\ r[1] = ts[i].key /\ r[2] = ts[i].loc /\ r[3] = ts[i].spot[1]
            /\ r[2] = "channel" => r[4] = ts[i].spot[2]
       ELSE r = <<ts[i].key, ts[i].loc, ts[i].spot[1], ts[i].spot[2]>>

Done(ts, i, r) == ChangesIn(ts, i, r) /\ ts[i].outcome # "pending"

Effect(verb, i, s) ==
  CASE verb = "add" -> Append(s, i)
    [] verb = "set" -> <<i>>
    [] verb = "delete" -> <<>>

\* after is what the first n requests make of r, one after another.
Makes(after, ts, r, n) ==
  after = [i \in 0 .. n |->
    IF i = 0 THEN <<>>
    ELSE IF ~ChangesIn(ts, i, r) \/ ts[i].outcome = "pending" THEN after[i - 1]
    ELSE CASE ts[i].verb = "add" -> Append(after[i - 1], i)
           [] ts[i].verb = "set" -> <<i>>
           [] ts[i].verb = "delete" -> <<>>]

StepOf(ts, r, i, s) == IF Done(ts, i, r) THEN Effect(ts[i].verb, i, s) ELSE s

LEMMA MakesIs ==
  ASSUME NEW after, NEW ts, NEW r, NEW n \in Nat
  PROVE  Makes(after, ts, r, n) <=>
           /\ after = [i \in 0 .. n |-> after[i]]
           /\ after[0] = <<>> /\ \A i \in 1 .. n : after[i] = StepOf(ts, r, i, after[i - 1])
<1> DEFINE body == [i \in 0 .. n |-> IF i = 0 THEN <<>> ELSE StepOf(ts, r, i, after[i - 1])]
<1>1. Makes(after, ts, r, n) <=> after = body
  BY DEF Makes, StepOf, Done, Effect
<1>2. ASSUME after = body
      PROVE  /\ after = [i \in 0 .. n |-> after[i]]
             /\ after[0] = <<>> /\ \A i \in 1 .. n : after[i] = StepOf(ts, r, i, after[i - 1])
  BY <1>2
<1>3. ASSUME after = [i \in 0 .. n |-> after[i]],
             after[0] = <<>>, \A i \in 1 .. n : after[i] = StepOf(ts, r, i, after[i - 1])
      PROVE  after = body
  <2>1. \A i \in 0 .. n : after[i] = body[i]
    <3> SUFFICES ASSUME NEW i \in 0 .. n PROVE after[i] = body[i]
      OBVIOUS
    <3>1. body[i] = IF i = 0 THEN <<>> ELSE StepOf(ts, r, i, after[i - 1])
      OBVIOUS
    <3>2. i = 0 \/ i \in 1 .. n
      OBVIOUS
    <3> HIDE DEF body
    <3> QED
      BY <1>3, <3>1, <3>2
  <2>2. body = [i \in 0 .. n |-> body[i]]
    OBVIOUS
  <2> HIDE DEF body
  <2> QED
    BY <1>3, <2>1, <2>2
<1> QED
  BY <1>1, <1>2, <1>3

LEMMA MakesExists ==
  ASSUME NEW ts, NEW r, NEW n \in Nat
  PROVE  \E after : Makes(after, ts, r, n)
<1> DEFINE Bad == {m \in Nat : ~\E after : Makes(after, ts, r, m)}
<1> SUFFICES ASSUME Bad # {} PROVE FALSE
  OBVIOUS
<1>1. PICK m \in Bad : \A k \in Bad : m <= k
  BY LeastNumber
<1>2. m # 0
  <2> DEFINE none == [i \in 0 .. 0 |-> <<>>]
  <2>1. none = [i \in 0 .. 0 |-> none[i]] /\ none[0] = <<>>
    OBVIOUS
  <2> HIDE DEF none
  <2>2. \A i \in 1 .. 0 : none[i] = StepOf(ts, r, i, none[i - 1])
    OBVIOUS
  <2>3. Makes(none, ts, r, 0) <=>
          /\ none = [i \in 0 .. 0 |-> none[i]]
          /\ none[0] = <<>> /\ \A i \in 1 .. 0 : none[i] = StepOf(ts, r, i, none[i - 1])
    BY ONLY 0 \in Nat, MakesIs
  <2> QED
    BY <2>1, <2>2, <2>3
<1>3. m \in Nat /\ m - 1 \in Nat /\ m - 1 \notin Bad
  BY <1>1, <1>2
<1>4. PICK after : Makes(after, ts, r, m - 1)
  BY <1>3
<1>5. after[0] = <<>> /\ \A i \in 1 .. m - 1 : after[i] = StepOf(ts, r, i, after[i - 1])
  BY <1>3, <1>4, MakesIs
<1> DEFINE more == StepOf(ts, r, m, after[m - 1])
           long == [i \in 0 .. m |-> IF i = m THEN more ELSE after[i]]
<1>6. \A i \in 0 .. m - 1 : long[i] = after[i]
  BY <1>3
<1>7. long[m] = more /\ long = [i \in 0 .. m |-> long[i]]
  BY <1>3
<1> HIDE DEF long
<1>8. long[0] = <<>>
  BY <1>3, <1>5, <1>6
<1>9. ASSUME NEW i \in 1 .. m PROVE long[i] = StepOf(ts, r, i, long[i - 1])
  <2>1. i - 1 \in 0 .. m - 1 /\ long[i - 1] = after[i - 1]
    BY <1>3, <1>6
  <2>2. CASE i = m
    BY <1>7, <2>1, <2>2
  <2>3. CASE i # m
    <3>1. i \in 0 .. m - 1 /\ i \in 1 .. m - 1
      BY <1>3, <2>3
    <3> QED
      BY <1>5, <1>6, <2>1, <3>1
  <2> QED
    BY <2>2, <2>3
<1>10. Makes(long, ts, r, m)
  BY <1>3, <1>7, <1>8, <1>9, MakesIs
<1> QED
  BY <1>10, <1>1

\* What the properties of Chat call CarriedOut.
MadeOf(ts, r) == (CHOOSE after : Makes(after, ts, r, Len(ts)))[Len(ts)]

LEMMA CarriedOutIsMade ==
  \A r : CarriedOut(r) = MadeOf(tasks, r)
BY DEF CarriedOut, MadeOf, Makes, Changes, ChangesIn

Along(a, ts, r, n) == \A i \in 1 .. n : a[i] = StepOf(ts, r, i, a[i - 1])

Alike(ts, us, r, n) ==
  \A i \in 1 .. n : ts[i].verb = us[i].verb /\ (Done(ts, i, r) <=> Done(us, i, r))

NoneBeyond(ts, r, k, n) == \A i \in 1 .. n : i > k => ~Done(ts, i, r)

LEMMA MadeIs ==
  ASSUME NEW ts \in Seq(Task), NEW r
  PROVE  \E a : MadeOf(ts, r) = a[Len(ts)] /\ a[0] = <<>> /\ Along(a, ts, r, Len(ts))
<1> DEFINE after == CHOOSE a : Makes(a, ts, r, Len(ts))
<1>1. Len(ts) \in Nat
  OBVIOUS
<1>2. Makes(after, ts, r, Len(ts))
  BY <1>1, MakesExists
<1>3. MadeOf(ts, r) = after[Len(ts)]
  BY DEF MadeOf
<1> HIDE DEF after
<1> QED
  BY <1>1, <1>2, <1>3, MakesIs DEF Along

LEMMA AlongLess ==
  ASSUME NEW n \in Nat, NEW m \in Nat, m <= n, NEW a, NEW ts, NEW r, Along(a, ts, r, n)
  PROVE  Along(a, ts, r, m)
<1>1. \A i \in 1 .. m : i \in 1 .. n
  OBVIOUS
<1> QED
  BY <1>1 DEF Along

\* Two lists that agree on their first n requests make the same of a row.
LEMMA SameSoFar ==
  ASSUME NEW n \in Nat, NEW ts, NEW us, NEW r, NEW a, NEW b, a[0] = b[0],
         Along(a, ts, r, n), Along(b, us, r, n), Alike(ts, us, r, n)
  PROVE  a[n] = b[n]
<1> DEFINE Bad == {i \in 0 .. n : a[i] # b[i]}
<1> SUFFICES ASSUME Bad # {} PROVE FALSE
  BY n \in 0 .. n
<1>1. Bad \subseteq Nat
  OBVIOUS
<1>2. PICK m \in Bad : \A k \in Bad : m <= k
  BY <1>1, LeastNumber
<1>3. m \in 1 .. n /\ m - 1 \in 0 .. n /\ ~(m <= m - 1)
  BY <1>2
<1>4. a[m - 1] = b[m - 1]
  BY <1>2, <1>3
<1>5. StepOf(ts, r, m, a[m - 1]) = StepOf(us, r, m, b[m - 1])
  BY <1>3, <1>4 DEF StepOf, Alike
<1> QED
  BY <1>2, <1>3, <1>5 DEF Along

\* Requests that were not carried out change nothing.
LEMMA NothingSince ==
  ASSUME NEW k \in Nat, NEW n \in Nat, k <= n, NEW ts, NEW r, NEW a,
         Along(a, ts, r, n), NoneBeyond(ts, r, k, n)
  PROVE  a[n] = a[k]
<1> DEFINE Bad == {i \in k .. n : a[i] # a[k]}
<1> SUFFICES ASSUME Bad # {} PROVE FALSE
  BY n \in k .. n
<1>1. Bad \subseteq Nat
  OBVIOUS
<1>2. PICK m \in Bad : \A j \in Bad : m <= j
  BY <1>1, LeastNumber
<1>3. m \in 1 .. n /\ m > k /\ m - 1 \in k .. n /\ ~(m <= m - 1)
  BY <1>2
<1>4. a[m - 1] = a[k]
  BY <1>2, <1>3
<1>5. a[m] = a[m - 1]
  BY <1>3 DEF StepOf, Along, NoneBeyond
<1> QED
  BY <1>2, <1>4, <1>5

LEMMA MadeSame ==
  ASSUME NEW ts \in Seq(Task), NEW us \in Seq(Task), NEW r, Len(us) = Len(ts),
         \A i \in DOMAIN ts : ts[i].verb = us[i].verb /\ (Done(ts, i, r) <=> Done(us, i, r))
  PROVE  MadeOf(us, r) = MadeOf(ts, r)
<1>1. PICK a : MadeOf(ts, r) = a[Len(ts)] /\ a[0] = <<>> /\ Along(a, ts, r, Len(ts))
  BY MadeIs
<1>2. PICK b : MadeOf(us, r) = b[Len(ts)] /\ b[0] = <<>> /\ Along(b, us, r, Len(ts))
  BY MadeIs
<1>3. Len(ts) \in Nat /\ Alike(ts, us, r, Len(ts))
  BY DEF Alike
<1> QED
  BY <1>1, <1>2, <1>3, SameSoFar

LEMMA MadeMore ==
  ASSUME NEW ts \in Seq(Task), NEW new \in Task, new.outcome = "pending", NEW r
  PROVE  MadeOf(Append(ts, new), r) = MadeOf(ts, r)
<1> DEFINE n == Len(ts)
           us == Append(ts, new)
<1>1. /\ n \in Nat /\ us \in Seq(Task) /\ Len(us) = n + 1 /\ us[n + 1] = new
      /\ \A i \in 1 .. n : us[i] = ts[i]
  OBVIOUS
<1>2. PICK a : MadeOf(ts, r) = a[n] /\ a[0] = <<>> /\ Along(a, ts, r, n)
  BY MadeIs
<1> HIDE DEF n, us
<1>3. PICK b : MadeOf(us, r) = b[n + 1] /\ b[0] = <<>> /\ Along(b, us, r, n + 1)
  BY MadeIs, <1>1
<1>4. Alike(ts, us, r, n)
  BY <1>1 DEF Alike, Done, ChangesIn
<1>5. Along(b, us, r, n)
  BY <1>1, <1>3, AlongLess
<1>6. a[n] = b[n]
  BY <1>1, <1>2, <1>3, <1>4, <1>5, SameSoFar
<1>7. NoneBeyond(us, r, n, n + 1)
  <2>1. ASSUME NEW i \in 1 .. n + 1, i > n PROVE ~Done(us, i, r)
    <3>1. i = n + 1
      BY <1>1, <2>1
    <3> QED
      BY <1>1, <3>1 DEF Done
  <2> QED
    BY <2>1 DEF NoneBeyond
<1>8. b[n + 1] = b[n]
  BY <1>1, <1>3, <1>7, NothingSince
<1> QED
  BY <1>2, <1>3, <1>6, <1>8 DEF us

\* One that is carried out after all others changes what they have made.
LEMMA MadeNext ==
  ASSUME NEW ts \in Seq(Task), NEW us \in Seq(Task), NEW r, NEW i \in DOMAIN ts,
         Len(us) = Len(ts),
         \A j \in DOMAIN ts : j # i => us[j] = ts[j],
         \A j \in DOMAIN ts : j >= i => ~Done(ts, j, r), Done(us, i, r)
  PROVE  MadeOf(us, r) = Effect(us[i].verb, i, MadeOf(ts, r))
<1> DEFINE n == Len(ts)
           m == i - 1
<1>1. /\ n \in Nat /\ DOMAIN ts = 1 .. n /\ Len(us) = n /\ i \in 1 .. n
      /\ i \in Nat /\ m \in Nat /\ m <= n /\ i <= n
  OBVIOUS
<1>2. PICK a : MadeOf(ts, r) = a[n] /\ a[0] = <<>> /\ Along(a, ts, r, n)
  BY MadeIs
<1>3. PICK b : MadeOf(us, r) = b[n] /\ b[0] = <<>> /\ Along(b, us, r, n)
  BY MadeIs, <1>1
<1>4. Alike(ts, us, r, m) /\ NoneBeyond(ts, r, m, n) /\ NoneBeyond(us, r, i, n)
  <2>1. \A j \in 1 .. n : j # i => us[j] = ts[j] /\ (Done(ts, j, r) <=> Done(us, j, r))
    BY <1>1 DEF Done, ChangesIn
  <2>2. \A j \in 1 .. m : j \in 1 .. n /\ j # i
    BY <1>1
  <2>3. \A j \in 1 .. n : (j > m <=> j >= i) /\ (j > i => j >= i /\ j # i)
    BY <1>1
  <2> HIDE DEF n, m
  <2> QED
    BY <1>1, <2>1, <2>2, <2>3 DEF Alike, NoneBeyond
<1>5. b[i] = Effect(us[i].verb, i, b[m])
  BY <1>1, <1>3 DEF StepOf, Along
<1> HIDE DEF n, m
<1>6. a[m] = b[m]
  <2>1. Along(a, ts, r, m) /\ Along(b, us, r, m)
    BY <1>1, <1>2, <1>3, AlongLess
  <2> QED
    BY <1>1, <1>2, <1>3, <1>4, <2>1, SameSoFar
<1>7. a[n] = a[m]
  BY <1>1, <1>2, <1>4, NothingSince
<1>8. b[n] = b[i]
  BY <1>1, <1>3, <1>4, NothingSince
<1> QED
  BY <1>2, <1>3, <1>5, <1>6, <1>7, <1>8
-----------------------------------------------------------------------------
\* The changes of r that were carried out did not overlap.
Serial(ts, r) ==
  \A i, j \in DOMAIN ts : i < j /\ Done(ts, i, r) /\ Done(ts, j, r) => i \in ts[j].after

\* All of them were over when i was made.
LastOf(ts, i, r) ==
  \A j \in DOMAIN ts : Done(ts, j, r) => j < i /\ j \in ts[i].after

\* Who was over when another was made came before it.  What waits for the
\* database has changed nothing.
TimesKnown ==
  \A j \in DOMAIN tasks :
    /\ \A i \in tasks[j].after : i \in DOMAIN tasks /\ i < j /\ tasks[i].stage = "over"
    /\ tasks[j].stage \in {"queued", "read"} => tasks[j].outcome = "pending"

\* A row is what the changes that were carried out make of it, unless they
\* overlapped; and what an add has read is the row, unless one came between.
RowsFollow ==
  /\ \A r \in Row : Serial(tasks, r) => rows[r] = MadeOf(tasks, r)
  /\ \A i \in DOMAIN tasks :
       tasks[i].verb = "add" /\ tasks[i].stage = "read"
         /\ Serial(tasks, RowOf(tasks[i])) /\ LastOf(tasks, i, RowOf(tasks[i]))
       => tasks[i].lines = rows[RowOf(tasks[i])]

ChangesInv == FactInv /\ TimesKnown /\ RowsFollow

LEMMA DoneOf ==
  ASSUME NEW ts, NEW us, NEW i, NEW r, SameRequest(us[i], ts[i]),
         us[i].outcome = ts[i].outcome
  PROVE  Done(us, i, r) <=> Done(ts, i, r)
BY DEF SameRequest, Done, ChangesIn

\* The times of a step of one request.
LEMMA GoingKeepsTimes ==
  ASSUME FactInv, TimesKnown, NEW i \in DOMAIN tasks, NEW stage, NEW outcome, NEW lines,
         Goes(i, stage, outcome, lines),
         tasks[i].stage # "over" \/ stage = "over",
         stage \in {"queued", "read"} => outcome = "pending"
  PROVE  TimesKnown'
<1> SUFFICES ASSUME NEW j \in DOMAIN tasks'
             PROVE  /\ \A k \in tasks'[j].after :
                         k \in DOMAIN tasks' /\ k < j /\ tasks'[k].stage = "over"
                    /\ tasks'[j].stage \in {"queued", "read"} => tasks'[j].outcome = "pending"
  BY DEF TimesKnown
<1>1. j \in DOMAIN tasks /\ DOMAIN tasks' = DOMAIN tasks /\ tasks'[j].after = tasks[j].after
  BY DEF Goes, SameRequest
<1>2. ASSUME NEW k \in tasks'[j].after
      PROVE  k \in DOMAIN tasks' /\ k < j /\ tasks'[k].stage = "over"
  <2>1. k \in DOMAIN tasks /\ k < j /\ tasks[k].stage = "over"
    BY <1>1 DEF TimesKnown
  <2>2. k # i => tasks'[k] = tasks[k]
    BY <2>1 DEF Goes
  <2>3. k = i => stage = "over" /\ tasks'[k].stage = stage
    BY <2>1 DEF Goes
  <2> QED
    BY <1>1, <2>1, <2>2, <2>3
<1>3. tasks'[j].stage \in {"queued", "read"} => tasks'[j].outcome = "pending"
  BY <1>1 DEF Goes, TimesKnown
<1> QED
  BY <1>2, <1>3

\* A step that carries nothing out, and leaves the rows.
LEMMA GoingKeepsRows ==
  ASSUME ChangesInv, TasksTyped', rows' = rows,
         NEW i \in DOMAIN tasks, NEW stage, NEW outcome, NEW lines,
         Goes(i, stage, outcome, lines),
         \A r : Done(tasks', i, r) <=> Done(tasks, i, r),
         tasks[i].verb = "add" /\ stage = "read" => lines = rows[RowOf(tasks[i])]
  PROVE  RowsFollow'
<1>1. tasks \in Seq(Task) /\ tasks' \in Seq(Task)
  BY DEF ChangesInv, FactInv, TasksTyped
<1>2. DOMAIN tasks' = DOMAIN tasks /\ \A j \in DOMAIN tasks : SameRequest(tasks'[j], tasks[j])
  BY DEF Goes, SameRequest
<1>3. ASSUME NEW j \in DOMAIN tasks, NEW r PROVE Done(tasks', j, r) <=> Done(tasks, j, r)
  <2>1. CASE j = i
    BY <2>1
  <2>2. CASE j # i
    BY <2>2 DEF Goes, Done, ChangesIn
  <2> QED
    BY <2>1, <2>2
<1>4. ASSUME NEW r PROVE /\ Serial(tasks', r) <=> Serial(tasks, r)
                         /\ \A j \in DOMAIN tasks : LastOf(tasks', j, r) <=> LastOf(tasks, j, r)
  BY <1>2, <1>3 DEF Serial, LastOf, SameRequest
<1>5. \A r : MadeOf(tasks', r) = MadeOf(tasks, r)
  <2>1. Len(tasks') = Len(tasks)
    BY <1>1, <1>2
  <2>2. \A j \in DOMAIN tasks : tasks[j].verb = tasks'[j].verb
    BY <1>2 DEF SameRequest
  <2> QED
    BY <1>1, <1>3, <2>1, <2>2, MadeSame
<1>6. \A r \in Row : Serial(tasks', r) => rows'[r] = MadeOf(tasks', r)
  BY <1>4, <1>5 DEF ChangesInv, RowsFollow
<1>7. ASSUME NEW j \in DOMAIN tasks', tasks'[j].verb = "add", tasks'[j].stage = "read",
             Serial(tasks', RowOf(tasks'[j])), LastOf(tasks', j, RowOf(tasks'[j]))
      PROVE  tasks'[j].lines = rows'[RowOf(tasks'[j])]
  <2>1. RowOf(tasks'[j]) = RowOf(tasks[j]) /\ tasks'[j].verb = tasks[j].verb /\ j \in DOMAIN tasks
    BY <1>2 DEF SameRequest, RowOf
  <2>2. CASE j = i
    BY <1>7, <2>1, <2>2 DEF Goes
  <2>3. CASE j # i
    <3>1. tasks'[j] = tasks[j]
      BY <2>1, <2>3 DEF Goes
    <3>2. Serial(tasks, RowOf(tasks[j])) /\ LastOf(tasks, j, RowOf(tasks[j]))
      BY <1>4, <1>7, <2>1
    <3> QED
      BY <1>7, <2>1, <3>1, <3>2 DEF ChangesInv, RowsFollow
  <2> QED
    BY <2>2, <2>3
<1> QED
  BY <1>6, <1>7 DEF RowsFollow, RowOf

\* A step that carries i out, a change of the rows R only, of which it makes
\* what i makes of those that were right.
LEMMA CarryingKeepsRows ==
  ASSUME ChangesInv, TasksTyped', NEW i \in DOMAIN tasks, NEW outcome \in {"ok", "missing"},
         NEW lines, Goes(i, "done", outcome, lines),
         tasks[i].stage \in {"queued", "read"}, tasks[i].verb # "get",
         NEW R, \A r \in Row : Done(tasks', i, r) <=> r \in R,
         \A r \in Row \ R : rows'[r] = rows[r],
         \A r \in Row \cap R :
           Serial(tasks, r) /\ LastOf(tasks, i, r) => rows'[r] = Effect(tasks[i].verb, i, rows[r])
  PROVE  RowsFollow'
<1>1. tasks \in Seq(Task) /\ tasks' \in Seq(Task)
  BY DEF ChangesInv, FactInv, TasksTyped
<1>2. /\ DOMAIN tasks' = DOMAIN tasks /\ Len(tasks') = Len(tasks)
      /\ \A j \in DOMAIN tasks : SameRequest(tasks'[j], tasks[j])
      /\ \A j \in DOMAIN tasks : j # i => tasks'[j] = tasks[j]
  BY <1>1 DEF Goes, SameRequest
<1>3. \A r : ~Done(tasks, i, r)
  BY DEF ChangesInv, TimesKnown, Done
<1>4. ASSUME NEW j \in DOMAIN tasks, j # i, NEW r PROVE Done(tasks', j, r) <=> Done(tasks, j, r)
  BY <1>2, <1>4 DEF Done, ChangesIn
<1>5. \A j \in DOMAIN tasks : i \notin tasks[j].after
  BY DEF ChangesInv, TimesKnown
<1>6. ASSUME NEW r, Serial(tasks', r) PROVE Serial(tasks, r)
  <2> SUFFICES ASSUME NEW j \in DOMAIN tasks, NEW k \in DOMAIN tasks, j < k,
                      Done(tasks, j, r), Done(tasks, k, r)
               PROVE  j \in tasks[k].after
    BY DEF Serial
  <2>1. j # i /\ k # i
    BY <1>3
  <2>2. Done(tasks', j, r) /\ Done(tasks', k, r)
    BY <1>4, <2>1
  <2> QED
    BY <1>2, <1>6, <2>2 DEF Serial, SameRequest
<1>7. ASSUME NEW r \in Row \cap R, Serial(tasks', r) PROVE LastOf(tasks, i, r)
  <2> SUFFICES ASSUME NEW j \in DOMAIN tasks, Done(tasks, j, r) PROVE j < i /\ j \in tasks[i].after
    BY DEF LastOf
  <2>1. j # i /\ Done(tasks', j, r) /\ Done(tasks', i, r)
    BY <1>3, <1>4
  <2>2. i \in Nat /\ j \in Nat
    BY <1>1
  <2>3. tasks'[i].after = tasks[i].after /\ tasks'[j].after = tasks[j].after
    BY <1>2 DEF SameRequest
  <2>4. CASE j < i
    BY <1>2, <1>7, <2>1, <2>3, <2>4 DEF Serial
  <2>5. CASE i < j
    <3>1. i \in tasks[j].after
      BY <1>2, <1>7, <2>1, <2>3, <2>5 DEF Serial
    <3> QED
      BY <1>5, <3>1
  <2> QED
    BY <2>1, <2>2, <2>4, <2>5
<1>8. ASSUME NEW r \in Row, Serial(tasks', r) PROVE rows'[r] = MadeOf(tasks', r)
  <2>1. Serial(tasks, r) /\ rows[r] = MadeOf(tasks, r)
    BY <1>6, <1>8 DEF ChangesInv, RowsFollow
  <2>2. CASE r \in R
    <3>1. LastOf(tasks, i, r)
      BY <1>7, <1>8, <2>2
    <3>2. \A j \in DOMAIN tasks : j >= i => ~Done(tasks, j, r)
      BY <1>1, <3>1 DEF LastOf
    <3>3. MadeOf(tasks', r) = Effect(tasks'[i].verb, i, MadeOf(tasks, r))
      <4>1. Done(tasks', i, r)
        BY <2>2
      <4> QED
        BY <1>1, <1>2, <3>2, <4>1, MadeNext
    <3>4. tasks'[i].verb = tasks[i].verb
      BY <1>2 DEF SameRequest
    <3> QED
      BY <2>1, <2>2, <3>1, <3>3, <3>4
  <2>3. CASE r \notin R
    <3>1. \A j \in DOMAIN tasks : tasks[j].verb = tasks'[j].verb /\ (Done(tasks, j, r) <=> Done(tasks', j, r))
      BY <1>2, <1>3, <1>4, <2>3 DEF SameRequest
    <3>2. MadeOf(tasks', r) = MadeOf(tasks, r)
      BY <1>1, <1>2, <3>1, MadeSame
    <3> QED
      BY <2>1, <2>3, <3>2
  <2> QED
    BY <2>2, <2>3
<1>9. ASSUME NEW j \in DOMAIN tasks', tasks'[j].verb = "add", tasks'[j].stage = "read",
             Serial(tasks', RowOf(tasks'[j])), LastOf(tasks', j, RowOf(tasks'[j]))
      PROVE  tasks'[j].lines = rows'[RowOf(tasks'[j])]
  <2>1. j # i
    BY <1>9 DEF Goes
  <2>2. j \in DOMAIN tasks /\ tasks'[j] = tasks[j]
    BY <1>2, <2>1
  <2> DEFINE r == RowOf(tasks[j])
  <2>3. r \in Row
    <3>1. tasks[j] \in Task /\ PlaceKnown(tasks[j])
      BY <2>2 DEF ChangesInv, FactInv, TasksTyped
    <3> QED
      BY <1>9, <2>2, <3>1, RowsOfTasks DEF PlaceKnown
  <2> HIDE DEF r
  <2>4. Serial(tasks', r) /\ LastOf(tasks', j, r)
    BY <1>9, <2>2 DEF r
  <2>5. r \notin R
    <3> SUFFICES ASSUME r \in R PROVE FALSE
      OBVIOUS
    <3>1. Done(tasks', i, r)
      BY <2>3
    <3>2. i \in tasks'[j].after
      BY <1>2, <2>4, <3>1 DEF LastOf
    <3> QED
      BY <1>5, <2>2, <3>2
  <2>6. LastOf(tasks, j, r)
    <3> SUFFICES ASSUME NEW k \in DOMAIN tasks, Done(tasks, k, r) PROVE k < j /\ k \in tasks[j].after
      BY DEF LastOf
    <3>1. k # i /\ Done(tasks', k, r)
      BY <1>3, <1>4
    <3> QED
      BY <1>2, <2>2, <2>4, <3>1 DEF LastOf
  <2>7. tasks[j].lines = rows[r]
    BY <1>6, <1>9, <2>2, <2>4, <2>6 DEF ChangesInv, RowsFollow, r
  <2> QED
    BY <2>2, <2>3, <2>5, <2>7 DEF r
<1> QED
  BY <1>8, <1>9 DEF RowsFollow, RowOf

LEMMA InsertKeepsRows ==
  ASSUME ChangesInv, NEW i \in DOMAIN tasks, Insert(i)
  PROVE  RowsFollow' /\ TimesKnown'
<1> DEFINE row == RowOf(tasks[i])
<1>1. TasksTyped
  BY DEF ChangesInv, FactInv
<1>2. /\ \/ tasks[i].verb = "add" /\ tasks[i].stage = "read"
         \/ tasks[i].verb = "set" /\ tasks[i].stage = "queued"
      /\ row \in Row /\ Written(i) \in Seq(Nat)
      /\ rows' = [rows EXCEPT ![row] = Written(i)]
      /\ Goes(i, "done", "ok", tasks[i].lines) /\ TasksTyped'
  BY <1>1, InsertIs
<1>3. ASSUME NEW r PROVE Done(tasks', i, r) <=> r \in {row}
  BY <1>2 DEF Goes, SameRequest, Done, ChangesIn, RowOf
<1>4. \A r \in Row \ {row} : rows'[r] = rows[r]
  BY <1>1, <1>2 DEF TasksTyped
<1>5. ASSUME NEW r \in Row \cap {row}, Serial(tasks, r) /\ LastOf(tasks, i, r)
      PROVE  rows'[r] = Effect(tasks[i].verb, i, rows[r])
  <2>1. r = row /\ rows'[r] = Written(i)
    BY <1>1, <1>2 DEF TasksTyped
  <2>2. CASE tasks[i].verb = "add"
    <3>1. tasks[i].lines = rows[r]
      BY <1>2, <1>5, <2>1, <2>2 DEF ChangesInv, RowsFollow
    <3> QED
      BY <2>1, <2>2, <3>1 DEF Written, Effect
  <2>3. CASE tasks[i].verb = "set"
    BY <2>1, <2>3 DEF Written, Effect
  <2> QED
    BY <1>2, <2>2, <2>3
<1>6. tasks[i].stage \in {"queued", "read"} /\ tasks[i].verb # "get"
  BY <1>2
<1>7. TimesKnown'
  <2>1. FactInv /\ TimesKnown /\ tasks[i].stage # "over"
    BY <1>2 DEF ChangesInv
  <2> QED
    BY <1>2, <2>1, GoingKeepsTimes
<1> HIDE DEF row
<1> QED
  BY <1>2, <1>3, <1>4, <1>5, <1>6, <1>7, CarryingKeepsRows

LEMMA DeleteKeepsRows ==
  ASSUME ChangesInv, NEW i \in DOMAIN tasks, Delete(i)
  PROVE  RowsFollow' /\ TimesKnown'
<1> DEFINE R == {r \in Row : Deletes(tasks[i], r)}
<1>1. TasksTyped
  BY DEF ChangesInv, FactInv
<1>2. PICK outcome \in {"ok", "missing"} :
        /\ tasks[i].verb = "delete" /\ tasks[i].stage = "queued"
        /\ rows' = [r \in Row |-> IF Deletes(tasks[i], r) THEN <<>> ELSE rows[r]]
        /\ Goes(i, "done", outcome, tasks[i].lines) /\ TasksTyped'
  BY <1>1, DeleteIs
<1>3. TimesKnown'
  <2>1. FactInv /\ TimesKnown /\ tasks[i].stage # "over"
    BY <1>2 DEF ChangesInv
  <2> QED
    BY <1>2, <2>1, GoingKeepsTimes
<1>4. ASSUME NEW r \in Row PROVE Done(tasks', i, r) <=> r \in R
  BY <1>2 DEF Goes, SameRequest, Done, ChangesIn, Deletes
<1>5. \A r \in Row \ R : rows'[r] = rows[r]
  BY <1>2
<1>6. \A r \in Row \cap R : rows'[r] = Effect(tasks[i].verb, i, rows[r])
  BY <1>2 DEF Effect
<1>7. tasks[i].stage \in {"queued", "read"} /\ tasks[i].verb # "get"
  BY <1>2
<1> HIDE DEF R
<1> QED
  BY <1>2, <1>3, <1>4, <1>5, <1>6, <1>7, CarryingKeepsRows

LEMMA AskedKeepsRows ==
  ASSUME ChangesInv, Asked
  PROVE  RowsFollow' /\ TimesKnown'
<1>1. PICK new \in Task : /\ new.stage = "queued" /\ new.outcome = "pending" /\ new.after = Over
                          /\ tasks' = Append(tasks, new) /\ rows' = rows
  BY DEF Asked
<1>2. /\ tasks \in Seq(Task) /\ tasks' \in Seq(Task)
      /\ DOMAIN tasks' = DOMAIN tasks \cup {Len(tasks) + 1} /\ DOMAIN tasks = 1 .. Len(tasks)
      /\ tasks'[Len(tasks) + 1] = new /\ \A j \in DOMAIN tasks : tasks'[j] = tasks[j]
  BY <1>1 DEF ChangesInv, FactInv, TasksTyped
<1>3. ASSUME NEW j \in DOMAIN tasks'
      PROVE  /\ \A k \in tasks'[j].after :
                  k \in DOMAIN tasks' /\ k < j /\ tasks'[k].stage = "over"
             /\ tasks'[j].stage \in {"queued", "read"} => tasks'[j].outcome = "pending"
  <2>1. CASE j \in DOMAIN tasks
    BY <1>2, <2>1 DEF ChangesInv, TimesKnown
  <2>2. CASE j = Len(tasks) + 1
    <3>1. tasks'[j] = new
      BY <1>2, <2>2
    <3>2. \A k \in Over : k \in DOMAIN tasks /\ k < j /\ tasks[k].stage = "over"
      BY <1>2, <2>2 DEF Over
    <3> QED
      BY <1>1, <1>2, <3>1, <3>2
  <2> QED
    BY <1>2, <2>1, <2>2
<1>4. \A r : ~Done(tasks', Len(tasks) + 1, r)
  BY <1>1, <1>2 DEF Done
<1>5. \A j \in DOMAIN tasks : \A r : Done(tasks', j, r) <=> Done(tasks, j, r)
  BY <1>2 DEF Done, ChangesIn
<1>6. ASSUME NEW r, Serial(tasks', r) PROVE Serial(tasks, r)
  <2> SUFFICES ASSUME NEW j \in DOMAIN tasks, NEW k \in DOMAIN tasks, j < k,
                      Done(tasks, j, r), Done(tasks, k, r)
               PROVE  j \in tasks[k].after
    BY DEF Serial
  <2>1. Done(tasks', j, r) /\ Done(tasks', k, r) /\ j \in DOMAIN tasks' /\ k \in DOMAIN tasks'
    BY <1>2, <1>5
  <2> QED
    BY <1>2, <1>6, <2>1 DEF Serial
<1>7. \A r : MadeOf(tasks', r) = MadeOf(tasks, r)
  BY <1>1, <1>2, MadeMore
<1>8. \A r \in Row : Serial(tasks', r) => rows'[r] = MadeOf(tasks', r)
  BY <1>1, <1>6, <1>7 DEF ChangesInv, RowsFollow
<1>9. ASSUME NEW j \in DOMAIN tasks', tasks'[j].verb = "add", tasks'[j].stage = "read",
             Serial(tasks', RowOf(tasks'[j])), LastOf(tasks', j, RowOf(tasks'[j]))
      PROVE  tasks'[j].lines = rows'[RowOf(tasks'[j])]
  <2>1. j \in DOMAIN tasks /\ tasks'[j] = tasks[j]
    BY <1>1, <1>2, <1>9
  <2> DEFINE r == RowOf(tasks[j])
  <2>2. Serial(tasks', r) /\ LastOf(tasks', j, r)
    BY <1>9, <2>1
  <2> HIDE DEF r
  <2>3. LastOf(tasks, j, r)
    <3> SUFFICES ASSUME NEW k \in DOMAIN tasks, Done(tasks, k, r) PROVE k < j /\ k \in tasks[j].after
      BY DEF LastOf
    <3>1. Done(tasks', k, r) /\ k \in DOMAIN tasks'
      BY <1>2, <1>5
    <3> QED
      BY <2>1, <2>2, <3>1 DEF LastOf
  <2> QED
    BY <1>1, <1>6, <1>9, <2>1, <2>2, <2>3 DEF ChangesInv, RowsFollow, r
<1>10. RowsFollow'
  BY <1>8, <1>9 DEF RowsFollow, RowOf
<1>11. TimesKnown'
  BY <1>3 DEF TimesKnown
<1> QED
  BY <1>10, <1>11

LEMMA ChangesStart == ChatInit => ChangesInv
<1> SUFFICES ASSUME ChatInit PROVE ChangesInv
  OBVIOUS
<1>1. rows = [r \in Row |-> <<>>] /\ tasks = <<>>
  BY DEF ChatInit, FactInit
<1>2. ASSUME NEW r PROVE MadeOf(tasks, r) = <<>>
  <2>1. tasks \in Seq(Task) /\ Len(tasks) = 0
    BY <1>1
  <2> QED
    BY <2>1, MadeIs
<1> QED
  BY <1>1, <1>2, FactStarts DEF ChangesInv, TimesKnown, RowsFollow

LEMMA ChangesSteps == ChangesInv /\ [ChatNext]_chatVars => ChangesInv'
<1> SUFFICES ASSUME ChangesInv, [ChatNext]_chatVars PROVE ChangesInv'
  OBVIOUS
<1>1. FactInv /\ TasksTyped /\ TimesKnown
  BY DEF ChangesInv, FactInv
<1>2. FactInv' /\ TasksTyped'
  <2>1. FactInv'
    BY <1>1, FactSteps
  <2> QED
    BY <2>1 DEF FactInv
<1> SUFFICES RowsFollow' /\ TimesKnown'
  BY <1>2 DEF ChangesInv
<1>3. CASE Asked
  BY <1>3, AskedKeepsRows
<1>4. CASE FactStep
  <2>1. PICK i \in DOMAIN tasks : Read(i) \/ Insert(i) \/ Delete(i) \/ Get(i) \/ Fails(i) \/ Reply(i)
    BY <1>4 DEF FactStep
  <2>2. CASE Read(i)
    <3>1. /\ tasks[i].verb = "add" /\ tasks[i].stage = "queued" /\ rows' = rows
          /\ Goes(i, "read", tasks[i].outcome, rows[RowOf(tasks[i])])
      BY <1>1, <2>2, ReadIs
    <3>2. \A r : Done(tasks', i, r) <=> Done(tasks, i, r)
      BY <3>1, DoneOf DEF Goes
    <3>3. tasks[i].outcome = "pending"
      BY <1>1, <3>1 DEF TimesKnown
    <3>4. TimesKnown'
      BY <1>1, <3>1, <3>3, GoingKeepsTimes
    <3> QED
      BY <1>2, <3>1, <3>2, <3>4, GoingKeepsRows
  <2>3. CASE Insert(i)
    BY <2>3, InsertKeepsRows
  <2>4. CASE Delete(i)
    BY <2>4, DeleteKeepsRows
  <2>5. CASE Get(i)
    <3>1. PICK outcome \in {"ok", "missing"}, lines \in Seq(Nat) :
            /\ tasks[i].verb = "get" /\ tasks[i].stage = "queued" /\ rows' = rows
            /\ Goes(i, "done", outcome, lines)
      BY <1>1, <2>5, GetIs
    <3>2. \A r : Done(tasks', i, r) <=> Done(tasks, i, r)
      BY <3>1 DEF Goes, SameRequest, Done, ChangesIn
    <3>3. TimesKnown'
      BY <1>1, <3>1, GoingKeepsTimes
    <3> QED
      BY <1>2, <3>1, <3>2, <3>3, GoingKeepsRows
  <2>6. CASE Fails(i)
    <3>1. /\ tasks[i].stage \in {"queued", "read"} /\ rows' = rows
          /\ Goes(i, "done", "failed", tasks[i].lines)
      BY <1>1, <2>6, FailsIs
    <3>2. \A r : Done(tasks', i, r) <=> Done(tasks, i, r)
      BY <1>1, <3>1 DEF Goes, TimesKnown, Done, ChangesIn
    <3>3. TimesKnown'
      BY <1>1, <3>1, GoingKeepsTimes
    <3> QED
      BY <1>2, <3>1, <3>2, <3>3, GoingKeepsRows
  <2>7. CASE Reply(i)
    <3>1. /\ tasks[i].stage = "done" /\ rows' = rows
          /\ Goes(i, "over", tasks[i].outcome, tasks[i].lines)
      BY <1>1, <2>7, ReplyIs
    <3>2. \A r : Done(tasks', i, r) <=> Done(tasks, i, r)
      BY <3>1, DoneOf DEF Goes
    <3>3. TimesKnown'
      BY <1>1, <3>1, GoingKeepsTimes
    <3> QED
      BY <1>2, <3>1, <3>2, <3>3, GoingKeepsRows
  <2> QED
    BY <2>1, <2>2, <2>3, <2>4, <2>5, <2>6, <2>7
<1>5. CASE UNCHANGED factVars
  <2>1. rows' = rows /\ tasks' = tasks
    BY <1>5 DEF factVars
  <2> QED
    BY <1>1, <2>1 DEF ChangesInv, RowsFollow, TimesKnown
<1> QED
  BY <1>1, <1>3, <1>4, <1>5, FactMoves

\* For any keys and places, and whatever requests overlap in the thread pool or
\* fail there: changes of one row that do not overlap all take effect, in the
\* order in which they were made.
THEOREM ChangesStay == ChatSpec => []ChangesTakeEffect
<1>1. ChangesInv => ChangesTakeEffect
  <2> SUFFICES ASSUME ChangesInv, NEW r \in Row,
                      \A i, j \in DOMAIN tasks : i < j /\ Changes(i, r) /\ Changes(j, r) => i \in tasks[j].after
               PROVE  rows[r] = CarriedOut(r)
    BY DEF ChangesTakeEffect
  <2>1. \A i \in DOMAIN tasks : Done(tasks, i, r) => Changes(i, r)
    BY DEF Done, ChangesIn, Changes
  <2>2. Serial(tasks, r)
    BY <2>1 DEF Serial
  <2> QED
    BY <2>2, CarriedOutIsMade DEF ChangesInv, RowsFollow
<1> QED
  BY <1>1, ChangesStart, ChangesSteps, PTL DEF ChatSpec
=============================================================================
