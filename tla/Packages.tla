------------------------------ MODULE Packages ------------------------------
(***************************************************************************)
(* The package manager (packages.py, utils/packages): one run of it per    *)
(* command, which installs, updates or removes a package and what it       *)
(* requires, file by file.  packages.yml holds which are installed, and    *)
(* the ETag of each file that was downloaded, so that it need not be       *)
(* again.                                                                  *)
(*                                                                         *)
(* The repository of packages is external: its files change.  A run can be *)
(* killed, and a download can break off, between any two steps.            *)
(***************************************************************************)
EXTENDS Integers, Sequences, SequencesExt

CONSTANTS
  Package,      \* the packages the repository lists
  Unlisted,     \* names that packages require and the repository does not list
  Path,         \* files of packages
  Files,        \* Files[p]: the files of package p, in order, without those that
                \* dont_skip leaves out
  Requires,     \* Requires[p]: the packages that p requires, in order
  MaxVersions,  \* bound: versions of a file
  MaxDepth      \* the recursion limit

ASSUME PackagesAssumption ==
  /\ Package \cap Unlisted = {}
  /\ Files \in [Package -> Seq(Path)]
  /\ Requires \in [Package -> Seq(Package \cup Unlisted)]
  /\ {MaxVersions, MaxDepth} \subseteq Nat \ {0}

\* What may be at a path besides a version of the file.
Absent == 0
Partly == -1

VARIABLES
  published,  \* the version of each file in the repository, its ETag
  local,      \* what is at each path
  installed,  \* packages.yml: installed
  etags,      \* packages.yml: etags, or 0
  outlived,   \* files that were removed while their ETag was kept, and have not
              \* been downloaded since
  job         \* the frames of the run: install_package calls itself

packageVars == <<published, local, installed, etags, outlived, job>>

Frame ==
  [package : Package, overwrite : BOOLEAN,
   stage : {"files", "writing", "noting", "requires", "removing"},
   next : Nat,   \* index of the file, or of the requirement
   etag : Nat,   \* of the answer that is being written
   then : BOOLEAN]  \* update: install it again once it is removed

PackagesInit ==
  /\ published = [f \in Path |-> 1]
  /\ local = [f \in Path |-> Absent]
  /\ installed = {}
  /\ etags = [f \in Path |-> 0]
  /\ outlived = {}
  /\ job = <<>>

-----------------------------------------------------------------------------
Top == job[Len(job)]
Becomes(frame) == job' = [job EXCEPT ![Len(job)] = frame]
Caller == SubSeq(job, 1, Len(job) - 1)

Installing(p, overwrite) ==
  [package |-> p, overwrite |-> overwrite, stage |-> "files", next |-> 1, etag |-> 0,
   then |-> FALSE]
Removing(p, again) ==
  [Installing(p, FALSE) EXCEPT !.stage = "removing", !.next = Len(Files[p]), !.then = again]

\* The commands.  Without the option -o, update removes and installs.
Install(p) ==
  /\ job = <<>> /\ p \notin installed
  /\ job' = <<Installing(p, FALSE)>>
  /\ UNCHANGED <<published, local, installed, etags, outlived>>

Uninstall(p, again) ==
  /\ job = <<>> /\ p \in installed
  /\ job' = <<Removing(p, again)>>
  /\ UNCHANGED <<published, local, installed, etags, outlived>>

Overwrite(p) ==
  /\ job = <<>>
  /\ job' = <<Installing(p, TRUE)>>
  /\ UNCHANGED <<published, local, installed, etags, outlived>>

-----------------------------------------------------------------------------
(***************************************************************************)
(* install_package                                                         *)
(***************************************************************************)
ThisFile == Files[Top.package][Top.next]

\* A file is left alone if it is there and is not to be overwritten, or has
\* the ETag of the one in the repository (304).
Left(f) ==
  local[f] # Absent /\ (~Top.overwrite \/ etags[f] = published[f])

AtFile == Top.stage = "files" /\ Top.next <= Len(Files[Top.package])

Leave ==
  /\ job # <<>> /\ AtFile /\ Left(ThisFile)
  /\ Becomes([Top EXCEPT !.next = @ + 1])
  /\ UNCHANGED <<published, local, installed, etags, outlived>>

NotesEtagFirstBug ==
  /\ job # <<>> /\ AtFile /\ ~Left(ThisFile)
  /\ local' = [local EXCEPT ![ThisFile] = Partly]
  /\ etags' = [etags EXCEPT ![ThisFile] = published[ThisFile]]
  /\ Becomes([Top EXCEPT !.stage = "writing", !.etag = published[ThisFile]])
  /\ UNCHANGED <<published, installed, outlived>>

\* _get_file opens the file for writing once it has the answer's headers.
Open ==
  /\ job # <<>> /\ AtFile /\ ~Left(ThisFile)
  /\ local' = [local EXCEPT ![ThisFile] = Partly]
  /\ Becomes([Top EXCEPT !.stage = "writing", !.etag = published[ThisFile]])
  /\ UNCHANGED <<published, installed, etags, outlived>>

\* The rest of the answer comes and is written ...
WriteFile ==
  /\ job # <<>> /\ Top.stage = "writing"
  /\ local' = [local EXCEPT ![ThisFile] = Top.etag]
  /\ Becomes([Top EXCEPT !.stage = "noting"])
  /\ UNCHANGED <<published, installed, etags, outlived>>

\* ... and packages.yml is saved.
NoteEtag ==
  /\ job # <<>> /\ Top.stage = "noting"
  /\ etags' = [etags EXCEPT ![ThisFile] = Top.etag]
  /\ outlived' = outlived \ {ThisFile}
  /\ Becomes([Top EXCEPT !.stage = "files", !.next = @ + 1, !.etag = 0])
  /\ UNCHANGED <<published, local, installed>>

FilesDone ==
  /\ job # <<>> /\ Top.stage = "files" /\ ~AtFile
  /\ Becomes([Top EXCEPT !.stage = "requires", !.next = 1])
  /\ UNCHANGED <<published, local, installed, etags, outlived>>

Required == Requires[Top.package]

OneLevelBug(r) == r \in installed \cup Unlisted \/ Len(job) > 1

\* Those that are not listed are told to the user, and passed over.
Met(r) == r \in installed \/ r \in Unlisted

Passed ==
  /\ job # <<>> /\ Top.stage = "requires" /\ Top.next <= Len(Required)
  /\ Met(Required[Top.next])
  /\ Becomes([Top EXCEPT !.next = @ + 1])
  /\ UNCHANGED <<published, local, installed, etags, outlived>>

\* install_package calls itself: packages that require each other do so until
\* the recursion limit.
Require ==
  /\ job # <<>> /\ Top.stage = "requires" /\ Top.next <= Len(Required)
  /\ ~Met(Required[Top.next])
  /\ job' = IF Len(job) < MaxDepth THEN Append(job, Installing(Required[Top.next], FALSE))
            ELSE <<>>
  /\ UNCHANGED <<published, local, installed, etags, outlived>>

Record ==
  /\ job # <<>> /\ Top.stage = "requires" /\ Top.next > Len(Required)
  /\ installed' = installed \cup {Top.package}
  /\ job' = Caller
  /\ UNCHANGED <<published, local, etags, outlived>>

-----------------------------------------------------------------------------
\* uninstall_package removes the files, the last one first, of other packages
\* as well; the ETags stay.
RemoveFile ==
  /\ job # <<>> /\ Top.stage = "removing" /\ Top.next > 0
  /\ local' = [local EXCEPT ![ThisFile] = Absent]
  /\ outlived' = IF etags[ThisFile] # 0 THEN outlived \cup {ThisFile} ELSE outlived
  /\ Becomes([Top EXCEPT !.next = @ - 1])
  /\ UNCHANGED <<published, installed, etags>>

Forget ==
  /\ job # <<>> /\ Top.stage = "removing" /\ Top.next = 0
  /\ installed' = installed \ {Top.package}
  /\ job' = IF Top.then THEN <<Installing(Top.package, FALSE)>> ELSE <<>>
  /\ UNCHANGED <<published, local, etags, outlived>>

-----------------------------------------------------------------------------
\* packages.yml is being saved, as a run begins or after a change.
Saving ==
  CASE Top.stage = "files" -> Len(job) = 1 /\ Top.next = 1
    [] Top.stage = "writing" -> FALSE
    [] Top.stage = "noting" -> TRUE
    [] Top.stage = "requires" -> Top.next > Len(Required)
    [] Top.stage = "removing" -> Top.next = 0

\* The repository cannot be reached, a download breaks off, or the run is
\* killed, maybe while it saves packages.yml, which is empty then.
Breaks ==
  /\ job # <<>>
  /\ job' = <<>>
  /\ \/ UNCHANGED <<installed, etags, outlived>>
     \/ /\ Saving
        /\ installed' = {} /\ etags' = [f \in Path |-> 0] /\ outlived' = {}
  /\ UNCHANGED <<published, local>>

\* A new version of a file.
Publish(f) ==
  /\ published[f] < MaxVersions
  /\ published' = [published EXCEPT ![f] = @ + 1]
  /\ UNCHANGED <<local, installed, etags, outlived, job>>

JobStep ==
  \/ Leave \/ Open \/ WriteFile \/ NoteEtag \/ FilesDone
  \/ Passed \/ Require \/ Record \/ RemoveFile \/ Forget

PackageCommand ==
  \/ \E p \in Package :
       Install(p) \/ Overwrite(p) \/ \E again \in BOOLEAN : Uninstall(p, again)
  \/ Breaks
  \/ \E f \in Path : Publish(f)

PackagesTypeOK ==
  /\ published \in [Path -> 1 .. MaxVersions]
  /\ local \in [Path -> Partly .. MaxVersions]
  /\ installed \subseteq Package
  /\ etags \in [Path -> 0 .. MaxVersions]
  /\ outlived \subseteq Path
  /\ job \in Seq(Frame) /\ Len(job) <= MaxDepth
=============================================================================
