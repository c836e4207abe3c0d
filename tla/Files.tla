------------------------------- MODULE Files -------------------------------
(***************************************************************************)
(* What is kept on disk: the bot's files, its metrics among them, the      *)
(* cookies of the sites it looks at, and what the package manager, a       *)
(* program of its own, downloads and notes.  The bot's files, the metrics' *)
(* threads and the cookies' sessions go with the bot when it ends.         *)
(***************************************************************************)
EXTENDS Storage, Metrics, Packages, Cookies

CONSTANTS
  MaxOps,   \* bound: how often each part is used
  MaxMixed  \* bound: how often all of them are, if it is more than one part;
            \* the cookies are only used where there is nothing else

ASSUME FilesAssumption == {MaxOps, MaxMixed} \subseteq Nat

Part == {"storage", "metrics", "packages", "cookies"}

VARIABLE ops  \* how often each part has been used

vars == <<storageVars, metricsVars, packageVars, cookieVars, ops>>

Init == StorageInit /\ MetricsInit /\ PackagesInit /\ CookiesInit /\ ops = [p \in Part |-> 0]

Total == ops["storage"] + ops["metrics"] + ops["packages"] + ops["cookies"]

Use(p) ==
  /\ ops' = [ops EXCEPT ![p] = @ + 1]
  /\ ops[p] < MaxOps
  /\ \/ Total = ops[p]
     \/ Total < MaxMixed /\ p # "cookies" /\ ops["cookies"] = 0

Bot ==
  /\ Use("storage") /\ UNCHANGED <<metricsVars, packageVars, cookieVars>>
  /\ StorageStep

MetricsRun ==
  /\ UNCHANGED <<storageVars, packageVars, cookieVars>>
  /\ \/ Use("metrics") /\ \E s \in Setting : Start(s)
     \/ Tick /\ UNCHANGED ops
     \/ ReportStep /\ UNCHANGED ops

Manage ==
  /\ UNCHANGED <<storageVars, metricsVars, cookieVars>>
  /\ \/ Use("packages") /\ PackageCommand
     \/ JobStep /\ UNCHANGED ops

Browse ==
  /\ UNCHANGED <<storageVars, metricsVars, packageVars>>
  /\ \/ Use("cookies") /\ (\A f \in File : disk[f] = Missing) /\ (StartSessions \/ ReloadSessions \/ \E s \in Site : StartFetch(s))
     \/ FetchStep /\ UNCHANGED ops

\* The bot ends, by itself or not.
End ==
  /\ setting # "stopped" \/ objects # <<>> \/ jars # <<>>
  /\ BotEnds /\ MetricsEnd /\ CookiesEnd
  /\ UNCHANGED <<packageVars, ops>>

Next == Bot \/ MetricsRun \/ Manage \/ Browse \/ End

Spec == Init /\ [][Next]_vars

TypeOK == StorageTypeOK /\ MetricsTypeOK /\ PackagesTypeOK /\ CookiesTypeOK

-----------------------------------------------------------------------------
(***************************************************************************)
(* Properties of what is kept on disk.                                     *)
(***************************************************************************)
\* What the bot has recorded of the web site is true, whatever answers were
\* lost and reports overlapped: an ID that it has given up is forgotten there,
\* and metrics it holds for disabled are.  Two ways to be wrong are known: a
\* refusal counts as an answer, and a bot that was switched on again still has
\* "disabled" in its file, so that a later "off" is not sent.
SiteKnows ==
  /\ \A i \in 1 .. MaxIds : i # data.uuid => enabled[i] = <<>>
  /\ data.uuid # NoId /\ data.status = "disabled" =>
       enabled[data.uuid] # <<TRUE>> \/ refused \/ resumed

\* A file that is passed over for its ETag is the one in the repository, to
\* its end, also after downloads that broke off and runs that were killed -
\* unless it was removed and its ETag kept.
SkippedIsCurrent ==
  \A f \in Path :
    local[f] # Absent /\ etags[f] = published[f] => local[f] = published[f] \/ f \in outlived

\* What a package requires is installed before it is recorded itself, however
\* requirements are nested.
RequirementsComeFirst ==
  [][\A p \in installed' \ installed : Range(Requires[p]) \cap Package \subseteq installed]_vars

\* A file of cookies never goes back to an older one of a site, or to none:
\* sites share its jar, fetches overlap and fail, and the bot is restarted.
\* (A jar that was made for a proxy, or is held by a fetch during a reload, is
\* a copy: whichever is saved last takes back what the others have saved.)
CookiesAreKept ==
  [][\A j \in Jar, s \in Site \ Fleeting :
       j \notin mixed' => cookieFile'[j][s] >= cookieFile[j][s]]_vars
=============================================================================
