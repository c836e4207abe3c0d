------------------------------ MODULE Metrics ------------------------------
(***************************************************************************)
(* The report on the bot that goes to a web site every few minutes         *)
(* (system/metrics/public): whether to send it, not to, or to have what    *)
(* was sent deleted is a setting; that the site has been told is kept in   *)
(* data/metrics.json, together with the ID the site gave out.              *)
(*                                                                         *)
(* A LoopingCall of the reactor hands each report to a thread pool and     *)
(* waits for nothing (callInThread returns None), so reports overlap.  The *)
(* web site is external: a request may fail, be refused, or be carried out *)
(* although its answer is lost.                                            *)
(***************************************************************************)
EXTENDS Integers, Sequences

CONSTANTS
  MaxIds,      \* bound: IDs the web site gives out
  MaxReports   \* bound: reports under way in one run of the bot

ASSUME MetricsAssumption == {MaxIds, MaxReports} \subseteq Nat

Setting == {"on", "off", "destroy"}
NoId == 0

VARIABLES
  setting,   \* Metrics.status of the bot that is running, or "stopped"
  data,      \* metrics.json, in memory and on disk: uuid and status
  ticking,   \* the LoopingCall is running
  reports,   \* what the threads are at
  issued,    \* IDs the web site has given out
  enabled,   \* what it has of each ID: <<>>, or whether it is enabled
  refused,   \* it has refused to disable the present ID
  resumed    \* the bot was switched on when the file said disabled

metricsVars == <<setting, data, ticking, reports, issued, enabled, refused, resumed>>

Data == [uuid : 0 .. MaxIds, status : {"unset", "enabled", "disabled"}]
Report == {"queued", "told", "over"}

MetricsInit ==
  /\ setting = "stopped"
  /\ data = [uuid |-> NoId, status |-> "unset"]
  /\ ticking = FALSE
  /\ reports = <<>>
  /\ issued = 0
  /\ enabled = [i \in 1 .. MaxIds |-> <<>>]
  /\ refused = FALSE
  /\ resumed = FALSE

-----------------------------------------------------------------------------
\* What __init__ makes of the file.  The site may not give an ID, and if the
\* bot is killed before the block ends, it has given one in vain.
Starts(s, answered) ==
  IF s = "on" /\ data.uuid = NoId
  THEN IF answered THEN [uuid |-> issued + 1, status |-> "enabled"] ELSE data
  ELSE IF s # "on" /\ data.uuid = NoId THEN [data EXCEPT !.status = "disabled"]
  ELSE data

\* __init__ starts the LoopingCall, unless there is nothing to do: `is
\* "destroy"` compares identities, and is not relied on.
Reports(s, d) ==
  CASE s = "on" -> d.uuid # NoId
    [] s = "off" -> d.status # "disabled"
    [] s = "destroy" -> TRUE

Start(s) ==
  /\ setting = "stopped"
  /\ \E answered \in BOOLEAN :
       /\ s = "on" /\ data.uuid = NoId => issued < MaxIds
       /\ setting' = s
       /\ data' = Starts(s, answered)
       /\ issued' = IF data'.uuid # data.uuid THEN issued + 1 ELSE issued
       /\ ticking' = Reports(s, data')
  /\ resumed' = (issued' = issued /\ (resumed \/ (s = "on" /\ data.uuid # NoId /\ data.status = "disabled")))
  /\ refused' = (issued' = issued /\ refused)
  /\ reports' = <<>>
  /\ UNCHANGED enabled

\* The bot ends, and its threads with it.
MetricsEnd ==
  /\ setting' = "stopped"
  /\ ticking' = FALSE
  /\ reports' = <<>>
  /\ UNCHANGED <<data, issued, enabled, refused, resumed>>

Tick ==
  /\ ticking /\ Len(reports) < MaxReports
  /\ reports' = Append(reports, "queued")
  /\ UNCHANGED <<setting, data, ticking, issued, enabled, refused, resumed>>

-----------------------------------------------------------------------------
\* A thread posts, under the ID the file has by then: without one there is an
\* exception.
Told(e) ==
  IF data.uuid = NoId THEN e
  ELSE [e EXCEPT ![data.uuid] =
          CASE setting = "on" -> <<TRUE>>
            [] setting = "off" -> IF @ = <<>> THEN @ ELSE <<FALSE>>
            [] setting = "destroy" -> <<>>]

\* What the thread writes once an answer has come, whatever it says.
Answered == 
  CASE setting = "on" -> data
    [] setting = "off" -> [data EXCEPT !.status = "disabled"]
    [] setting = "destroy" -> [uuid |-> NoId, status |-> "disabled"]

\* finally: the loop ends after one report, unless metrics are on.
StopsTicking == IF setting = "on" THEN ticking ELSE FALSE

ForgetsInAnyCaseBug(i) ==
  /\ reports[i] = "queued"
  /\ reports' = [reports EXCEPT ![i] = "over"]
  /\ ticking' = StopsTicking
  /\ data' = IF setting = "destroy" THEN Answered ELSE data
  /\ UNCHANGED <<setting, issued, enabled, refused, resumed>>

\* No ID, no connection, or no answer.
Fails(i) ==
  /\ reports[i] = "queued"
  /\ reports' = [reports EXCEPT ![i] = "over"]
  /\ ticking' = StopsTicking
  /\ enabled' \in {enabled, Told(enabled)}
  /\ UNCHANGED <<setting, data, issued, refused, resumed>>

\* It refuses to delete only what it does not know.
Post(i, accepted) ==
  /\ reports[i] = "queued" /\ data.uuid # NoId
  /\ accepted \/ setting # "destroy"
  /\ reports' = [reports EXCEPT ![i] = "told"]
  /\ enabled' = IF accepted THEN Told(enabled) ELSE enabled
  /\ refused' = (refused \/ (~accepted /\ setting # "on"))
  /\ UNCHANGED <<setting, data, ticking, issued, resumed>>

\* The block that writes what has come of it.  Of two reports, the second one
\* finds no ID to delete, which is an exception; the loop is stopped already.
Note(i) ==
  /\ reports[i] = "told"
  /\ reports' = [reports EXCEPT ![i] = "over"]
  /\ data' = Answered
  /\ ticking' = StopsTicking
  /\ UNCHANGED <<setting, issued, enabled, refused, resumed>>

ReportStep ==
  \E i \in DOMAIN reports : Fails(i) \/ Note(i) \/ \E b \in BOOLEAN : Post(i, b)

MetricsTypeOK ==
  /\ setting \in Setting \cup {"stopped"}
  /\ data \in Data
  /\ ticking \in BOOLEAN
  /\ reports \in Seq(Report) /\ Len(reports) <= MaxReports
  /\ issued \in 0 .. MaxIds
  /\ enabled \in [1 .. MaxIds -> {<<>>, <<TRUE>>, <<FALSE>>}]
  /\ {refused, resumed} \subseteq BOOLEAN
=============================================================================
