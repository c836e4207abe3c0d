------------------------------ MODULE Factoids ------------------------------
(***************************************************************************)
(* The factoids plugin (plugins/factoids): short texts kept in a database  *)
(* under a key, for one channel, one protocol or everywhere.  A request is *)
(* parsed and checked in the reactor's thread and then runs in a thread    *)
(* pool (adbapi, external), so requests overlap; what it comes to is told  *)
(* to the caller by the reactor again.  Under Python 2 sqlite3 begins a    *)
(* transaction at the first statement that writes: a SELECT before it is   *)
(* not part of it.                                                         *)
(*                                                                         *)
(* A line of a factoid is the number of the request that wrote it.         *)
(***************************************************************************)
EXTENDS Integers, Sequences

CONSTANTS
  Key,       \* names of factoids, in lower case
  Spot,      \* <<p, c>>: where people talk, protocols and channels numbered in
             \* the order in which the index of the table sorts their names
  Users,     \* spots that are no channels, but users in private
  MaxTasks   \* bound: requests in one behaviour

ASSUME FactAssumption ==
  Spot \subseteq Nat \X Nat /\ Users \subseteq Spot /\ MaxTasks \in Nat

Kept == {"channel", "protocol", "global"}
Location == Kept \cup {"nowhere", "unsaid"}  \* a wrong name, and None
Verb == {"add", "set", "delete", "get"}
Row == {<<k, l, s[1], s[2]>> : k \in Key, l \in Kept, s \in Spot}

VARIABLES
  rows,   \* table factoids: the lines of a row, <<>> if there is none
  tasks   \* the requests that were not refused, in the order they were made

factVars == <<rows, tasks>>

Task ==
  [verb : Verb, loc : Location, key : Key, spot : Spot,
   stage : {"queued", "read", "done", "over"},
   outcome : {"pending", "ok", "missing", "failed"},
   lines : Seq(Nat),  \* what a SELECT returned
   after : SUBSET Nat]  \* the requests that were over when this one was made

FactInit ==
  /\ rows = [r \in Row |-> <<>>]
  /\ tasks = <<>>

-----------------------------------------------------------------------------
Over == {i \in DOMAIN tasks : tasks[i].stage = "over"}

\* What the reactor's thread makes of a request: message_handler and the
\* command handlers check that it is complete, valid_location where it is
\* made, and __check_perm what the caller may do.  Whoever is refused is told
\* why, but for a short command whose own permission is missing.
Accepted(loc, spot, complete, allowed) ==
  complete /\ loc # "nowhere" /\ ~(loc = "channel" /\ spot \in Users) /\ allowed

\* What people can ask: only a get may leave the location out.
MayAsk(verb, loc) == loc = "unsaid" => verb = "get"

Ask(verb, loc, key, spot) ==
  /\ Len(tasks) < MaxTasks
  /\ MayAsk(verb, loc)
  /\ \E complete, allowed \in BOOLEAN :
       tasks' = IF ~Accepted(loc, spot, complete, allowed) THEN tasks
                ELSE Append(tasks, [verb |-> verb, loc |-> loc, key |-> key, spot |-> spot,
                                    stage |-> "queued", outcome |-> "pending", lines |-> <<>>,
                                    after |-> Over])
  /\ UNCHANGED rows

-----------------------------------------------------------------------------
\* In a thread of the pool.
RowOf(t) == <<t.key, t.loc, t.spot[1], t.spot[2]>>

\* The rows a DELETE finds: for a protocol and for everywhere the channel does
\* not matter, the protocol does.
Deletes(t, r) ==
  /\ r[1] = t.key /\ r[2] = t.loc /\ r[3] = t.spot[1]
  /\ t.loc = "channel" => r[4] = t.spot[2]

\* The rows a get without a location may answer with, the best ones first.
AnyProtocolBug(t, loc) ==
  {r \in Row : r[1] = t.key /\ r[2] = loc /\ rows[r] # <<>>
               /\ (loc = "channel" => r[4] = t.spot[2])
               /\ (loc = "protocol" => r[3] = t.spot[1])}

Candidates(t, loc) ==
  {r \in Row : r[1] = t.key /\ r[2] = loc /\ rows[r] # <<>>
               /\ (loc = "channel" => <<r[3], r[4]>> = t.spot)
               /\ (loc = "protocol" => r[3] = t.spot[1])}

\* Rows come in the order of the index.
First(R) == CHOOSE r \in R : \A s \in R : r[3] < s[3] \/ (r[3] = s[3] /\ r[4] <= s[4])

LinesFor(t) ==
  LET here == Candidates(t, "channel")
      ours == Candidates(t, "protocol")
      best == IF here # {} THEN here ELSE IF ours # {} THEN ours ELSE Candidates(t, "global")
  IN IF t.loc # "unsaid" THEN rows[RowOf(t)]
     ELSE IF best = {} THEN <<>> ELSE rows[First(best)]

\* The SELECT of _add_factoid_interaction.
Read(i) ==
  /\ tasks[i].verb = "add" /\ tasks[i].stage = "queued"
  /\ tasks' = [tasks EXCEPT ![i].stage = "read", ![i].lines = rows[RowOf(tasks[i])]]
  /\ UNCHANGED rows

\* What is inserted replaces the row of the same key (ON CONFLICT REPLACE).
ForgetsLinesBug(i) == <<i>>

Written(i) == IF tasks[i].verb = "add" THEN Append(tasks[i].lines, i) ELSE <<i>>

Ends(i, outcome) == tasks' = [tasks EXCEPT ![i].stage = "done", ![i].outcome = outcome]

Insert(i) ==
  /\ \/ tasks[i].verb = "add" /\ tasks[i].stage = "read"
     \/ tasks[i].verb = "set" /\ tasks[i].stage = "queued"
  /\ rows' = [rows EXCEPT ![RowOf(tasks[i])] = Written(i)]
  /\ Ends(i, "ok")

\* Nothing deleted is an exception, which rolls back.
Delete(i) ==
  /\ tasks[i].verb = "delete" /\ tasks[i].stage = "queued"
  /\ rows' = [r \in Row |-> IF Deletes(tasks[i], r) THEN <<>> ELSE rows[r]]
  /\ Ends(i, IF rows' = rows THEN "missing" ELSE "ok")

Get(i) ==
  /\ tasks[i].verb = "get" /\ tasks[i].stage = "queued"
  /\ tasks' = [tasks EXCEPT ![i].stage = "done", ![i].lines = LinesFor(tasks[i]),
                            ![i].outcome = IF LinesFor(tasks[i]) = <<>> THEN "missing" ELSE "ok"]
  /\ UNCHANGED rows

\* The database stays locked by another thread, or cannot be written.
Fails(i) ==
  /\ tasks[i].stage \in {"queued", "read"} /\ tasks[i].verb # "get"
  /\ Ends(i, "failed")
  /\ UNCHANGED rows

\* The reactor calls the callback or errback of the request: the caller is
\* told, or _factoid_command_fail raises what it does not know again.
Reply(i) ==
  /\ tasks[i].stage = "done"
  /\ tasks' = [tasks EXCEPT ![i].stage = "over"]
  /\ UNCHANGED rows

FactStep ==
  \E i \in DOMAIN tasks : Read(i) \/ Insert(i) \/ Delete(i) \/ Get(i) \/ Fails(i) \/ Reply(i)

FactTypeOK ==
  /\ rows \in [Row -> Seq(1 .. MaxTasks)]
  /\ tasks \in Seq(Task)
=============================================================================
