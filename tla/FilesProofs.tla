----------------------------- MODULE FilesProofs -----------------------------
(***************************************************************************)
(* Proofs about Files: what plugins share is what the file says, what the  *)
(* package manager passes over is current and what it records has what it  *)
(* requires, what was told of metrics is true, and no cookie is lost.      *)
(***************************************************************************)
EXTENDS Files, TLAPS

(***************************************************************************)
(* The storage manager                                                     *)
(***************************************************************************)
\* An object, however many changes there have been.
SharedData == [file : File, data : Nat]

FilesTyped ==
  /\ disk \in [File -> Int]
  /\ changes \in Nat
  /\ objects \in Seq(SharedData)
  /\ tracked \in [File -> Nat]
  /\ held \in [User -> [File -> Nat]]

\* The object that is tracked for a path, and those that are held for it, are
\* of that path: two paths never share one.
ObjectsOfFiles ==
  /\ \A f \in File : tracked[f] # 0 =>
       tracked[f] \in DOMAIN objects /\ objects[tracked[f]].file = f
  /\ \A u \in User, f \in File : held[u][f] # 0 =>
       held[u][f] \in DOMAIN objects /\ objects[held[u][f]].file = f

\* One object with other data, and one path with something else.
WithData(o, d) == [objects EXCEPT ![o].data = d]
OnDisk(f, c) == [disk EXCEPT ![f] = c]

StorageInv == FilesTyped /\ ObjectsOfFiles /\ SharedIsOnDisk

-----------------------------------------------------------------------------
(***************************************************************************)
(* What is read                                                            *)
(***************************************************************************)
LEMMA ParsedType == ASSUME NEW c \in Int PROVE Parsed(c) \in Nat
BY DEF Parsed

\* Data is parsed as what it is.
LEMMA DataLoads == ASSUME NEW f \in File, NEW d \in Nat PROVE Loads(f, d) /\ Parsed(d) = d
BY DEF Loads, Parsed, Broken, Emptied

\* Making a missing file leaves what it says as it was: nothing.
LEMMA MadeIsSame ==
  ASSUME FilesTyped, NEW f \in File
  PROVE  /\ Made(f) \in Int
         /\ Parsed(Made(f)) = Parsed(disk[f])
         /\ Loads(f, disk[f]) => Loads(f, Made(f))
         /\ ~IsRead(f, Made(f)) /\ Loads(f, disk[f]) => f \in ConfigFile
BY DEF FilesTyped, Made, Parsed, Loads, IsRead, Missing, Broken, Emptied

\* One object gets other data.
LEMMA OneChanged ==
  ASSUME FilesTyped, NEW o \in DOMAIN objects, NEW d \in Nat,
         objects' = WithData(o, d)
  PROVE  /\ objects' \in Seq(SharedData) /\ DOMAIN objects' = DOMAIN objects
         /\ \A i \in DOMAIN objects :
              /\ objects'[i].file = objects[i].file
              /\ objects'[i].data = IF i = o THEN d ELSE objects[i].data
<1>1. objects[o] \in SharedData
  BY DEF FilesTyped
<1>2. objects' = [objects EXCEPT ![o] = [objects[o] EXCEPT !.data = d]]
  BY DEF WithData
<1>3. [objects[o] EXCEPT !.data = d] \in SharedData
  BY <1>1 DEF SharedData
<1>4. /\ [objects[o] EXCEPT !.data = d].file = objects[o].file
      /\ [objects[o] EXCEPT !.data = d].data = d
  BY <1>1 DEF SharedData
<1>5. objects' \in Seq(SharedData) /\ DOMAIN objects' = DOMAIN objects
  BY <1>2, <1>3 DEF FilesTyped
<1>6. \A i \in DOMAIN objects :
        objects'[i] = IF i = o THEN [objects[o] EXCEPT !.data = d] ELSE objects[i]
  BY <1>2
<1> QED
  BY <1>4, <1>5, <1>6

-----------------------------------------------------------------------------
LEMMA StorageInitially == StorageInit => StorageInv
BY DEF StorageInit, StorageInv, FilesTyped, ObjectsOfFiles, SharedIsOnDisk, Missing, Broken

\* Asking for a file: what is tracked is given out, or what was loaded.
LEMMA GetFileSteps ==
  ASSUME StorageInv, NEW u \in User, NEW f \in File, GetFile(u, f)
  PROVE  StorageInv'
<1> USE DEF StorageInv
<1>1. CASE tracked[f] # 0
  <2>1. UNCHANGED <<disk, changes, objects, tracked, astray>>
    BY <1>1 DEF GetFile
  <2>2. held' = [held EXCEPT ![u][f] = tracked[f]]
    BY <1>1 DEF GetFile
  <2>3. /\ held' \in [User -> [File -> Nat]]
        /\ \A v \in User, g \in File :
             held'[v][g] = IF v = u /\ g = f THEN tracked[f] ELSE held[v][g]
    BY <2>2 DEF FilesTyped
  <2> QED
    BY <1>1, <2>1, <2>3 DEF FilesTyped, ObjectsOfFiles, SharedIsOnDisk
<1>2. CASE tracked[f] = 0
  <2>1. disk' = [disk EXCEPT ![f] = Made(f)] /\ UNCHANGED changes
    BY <1>2 DEF GetFile
  <2>2. /\ disk' \in [File -> Int]
        /\ \A g \in File : disk'[g] = IF g = f THEN Made(f) ELSE disk[g]
    BY <2>1, MadeIsSame DEF FilesTyped
  <2>3. CASE ~Loads(f, Made(f))
    <3>1. UNCHANGED <<objects, tracked, held, astray>>
      BY <1>2, <2>3 DEF GetFile
    <3> QED
      BY <1>2, <2>1, <2>2, <3>1 DEF FilesTyped, ObjectsOfFiles, SharedIsOnDisk
  <2>4. CASE Loads(f, Made(f))
    <3> DEFINE new == [file |-> f, data |-> Parsed(Made(f))]
               n == Len(objects) + 1
    <3>1. /\ objects' = Append(objects, new)
          /\ tracked' = [tracked EXCEPT ![f] = Len(objects')]
          /\ astray' = astray \ {f}
          /\ held' = [held EXCEPT ![u][f] = Len(objects')]
      BY <1>2, <2>4 DEF GetFile, Track
    <3>2. new \in SharedData
      BY MadeIsSame, ParsedType DEF SharedData
    <3>3. /\ n \in Nat \ {0} /\ Len(objects') = n /\ objects' \in Seq(SharedData)
          /\ \A i \in DOMAIN objects : i \in DOMAIN objects' /\ objects'[i] = objects[i]
          /\ n \in DOMAIN objects' /\ objects'[n] = new
      BY <3>1, <3>2 DEF FilesTyped
    <3>4. /\ tracked' \in [File -> Nat]
          /\ \A g \in File : tracked'[g] = IF g = f THEN n ELSE tracked[g]
      BY <3>1, <3>3 DEF FilesTyped
    <3>5. /\ held' \in [User -> [File -> Nat]]
          /\ \A v \in User, g \in File :
               held'[v][g] = IF v = u /\ g = f THEN n ELSE held[v][g]
      BY <3>1, <3>3 DEF FilesTyped
    <3>6. FilesTyped'
      BY <2>1, <2>2, <3>3, <3>4, <3>5 DEF FilesTyped
    <3>7. new.file = f /\ new.data = Parsed(Made(f))
      OBVIOUS
    <3>8. ObjectsOfFiles'
      <4>1. ASSUME NEW g \in File, tracked'[g] # 0
            PROVE  tracked'[g] \in DOMAIN objects' /\ objects'[tracked'[g]].file = g
        BY <3>3, <3>4, <3>7, <4>1 DEF ObjectsOfFiles
      <4>2. ASSUME NEW v \in User, NEW g \in File, held'[v][g] # 0
            PROVE  held'[v][g] \in DOMAIN objects' /\ objects'[held'[v][g]].file = g
        <5>1. CASE v = u /\ g = f
          BY <3>3, <3>5, <3>7, <5>1
        <5>2. CASE ~(v = u /\ g = f)
          <6>1. held'[v][g] = held[v][g]
            BY <3>5, <5>2
          <6>2. held[v][g] \in DOMAIN objects /\ objects[held[v][g]].file = g
            BY <4>2, <6>1 DEF ObjectsOfFiles
          <6> QED
            BY <3>3, <6>1, <6>2
        <5> QED
          BY <5>1, <5>2
      <4> QED
        BY <4>1, <4>2 DEF ObjectsOfFiles
    <3>9. SharedIsOnDisk'
      <4>1. SUFFICES ASSUME NEW g \in File, tracked'[g] # 0, g \notin astray'
                     PROVE  Loads(g, disk'[g]) /\ objects'[tracked'[g]].data = Parsed(disk'[g])
        BY DEF SharedIsOnDisk, Loads, Parsed, Broken, Emptied
      <4>2. CASE g = f
        BY <2>2, <2>4, <3>3, <3>4, <3>7, <4>2
      <4>3. CASE g # f
        BY <2>2, <3>1, <3>3, <3>4, <4>1, <4>3 DEF SharedIsOnDisk, ObjectsOfFiles
      <4> QED
        BY <4>2, <4>3
    <3> QED
      BY <3>6, <3>8, <3>9
  <2> QED
    BY <2>3, <2>4
<1> QED
  BY <1>1, <1>2

\* The steps of one who holds a file: its object and its path change, and
\* agree, unless the file has gone astray.
LEMMA HolderSteps ==
  ASSUME StorageInv, NEW f \in File, NEW o \in DOMAIN objects, objects[o].file = f,
         NEW d \in Nat, objects' = WithData(o, d),
         NEW c \in Int, disk' = OnDisk(f, c),
         changes' \in Nat, UNCHANGED <<tracked, held>>,
         \A g \in File \ {f} : g \in astray => g \in astray',
         tracked[f] # 0 /\ f \notin astray' =>
           /\ Loads(f, c)
           /\ (IF tracked[f] = o THEN d ELSE objects[tracked[f]].data) = Parsed(c)
  PROVE  StorageInv'
<1> USE DEF StorageInv
<1>1. /\ objects' \in Seq(SharedData) /\ DOMAIN objects' = DOMAIN objects
      /\ \A i \in DOMAIN objects :
           /\ objects'[i].file = objects[i].file
           /\ objects'[i].data = IF i = o THEN d ELSE objects[i].data
  BY OneChanged
<1>2. disk' \in [File -> Int] /\ \A g \in File : disk'[g] = IF g = f THEN c ELSE disk[g]
  BY DEF FilesTyped, OnDisk
<1>3. FilesTyped'
  BY <1>1, <1>2 DEF FilesTyped
<1>4. ObjectsOfFiles'
  BY <1>1 DEF ObjectsOfFiles
<1>5. SharedIsOnDisk'
  <2>1. SUFFICES ASSUME NEW g \in File, tracked'[g] # 0, g \notin astray'
                 PROVE  Loads(g, disk'[g]) /\ objects'[tracked'[g]].data = Parsed(disk'[g])
    BY DEF SharedIsOnDisk, Loads, Parsed, Broken, Emptied
  <2>2. tracked[g] \in DOMAIN objects /\ objects[tracked[g]].file = g
    BY <2>1 DEF ObjectsOfFiles
  <2>3. CASE g = f
    BY <1>1, <1>2, <2>1, <2>2, <2>3
  <2>4. CASE g # f
    <3>1. Loads(g, disk[g]) /\ objects[tracked[g]].data = Parsed(disk[g])
      BY <2>1, <2>4 DEF SharedIsOnDisk
    <3> QED
      BY <1>1, <1>2, <2>2, <2>4, <3>1
  <2> QED
    BY <2>3, <2>4
<1> QED
  BY <1>3, <1>4, <1>5

\* What somebody holds.
LEMMA HeldObject ==
  ASSUME StorageInv, NEW u \in User, NEW f \in File, held[u][f] # 0
  PROVE  /\ held[u][f] \in DOMAIN objects /\ objects[held[u][f]].file = f
         /\ objects[held[u][f]].data \in Nat
<1>1. held[u][f] \in DOMAIN objects /\ objects[held[u][f]].file = f
  BY DEF StorageInv, ObjectsOfFiles
<1>2. objects[held[u][f]] \in SharedData
  BY <1>1 DEF StorageInv, FilesTyped
<1> QED
  BY <1>1, <1>2 DEF SharedData

LEMMA ReloadSteps ==
  ASSUME StorageInv, NEW u \in User, NEW f \in File, Reload(u, f)
  PROVE  StorageInv'
<1> USE DEF StorageInv
<1>1. PICK o \in DOMAIN objects :
        o = held[u][f] /\ objects[o].file = f /\ objects[o].data \in Nat
  BY HeldObject DEF Reload
<1>2. /\ disk' = OnDisk(f, Made(f))
      /\ objects' = Reread(o, Made(f))
      /\ astray' = IF tracked[f] = o /\ IsRead(f, Made(f)) THEN astray \ {f} ELSE astray
      /\ UNCHANGED <<changes, tracked, held>>
  BY <1>1 DEF Reload, OnDisk
<1>3. /\ Made(f) \in Int /\ Parsed(Made(f)) = Parsed(disk[f]) /\ Parsed(Made(f)) \in Nat
      /\ Loads(f, disk[f]) => Loads(f, Made(f))
  BY MadeIsSame, ParsedType
<1>4. CASE IsRead(f, Made(f))
  <2>1. objects' = WithData(o, Parsed(Made(f)))
    BY <1>1, <1>2, <1>4 DEF Reread, WithData
  <2>2. Loads(f, Made(f))
    BY <1>4 DEF IsRead
  <2>3. tracked[f] # 0 /\ f \notin astray' =>
          (IF tracked[f] = o THEN Parsed(Made(f)) ELSE objects[tracked[f]].data) = Parsed(Made(f))
    BY <1>2, <1>3 DEF SharedIsOnDisk
  <2>4. changes' \in Nat /\ \A g \in File \ {f} : g \in astray => g \in astray'
    BY <1>2 DEF FilesTyped
  <2> QED
    BY <1>1, <1>2, <1>3, <2>1, <2>2, <2>3, <2>4, HolderSteps
<1>5. CASE ~IsRead(f, Made(f))
  <2>1. objects' = WithData(o, objects[o].data)
    BY <1>1, <1>2, <1>5 DEF Reread, WithData
  <2>2. tracked[f] # 0 /\ f \notin astray' =>
          /\ Loads(f, Made(f))
          /\ (IF tracked[f] = o THEN objects[o].data ELSE objects[tracked[f]].data) = Parsed(Made(f))
    BY <1>2, <1>3, <1>5 DEF SharedIsOnDisk
  <2>3. changes' \in Nat /\ \A g \in File \ {f} : g \in astray => g \in astray'
    BY <1>2 DEF FilesTyped
  <2> QED
    BY <1>1, <1>2, <1>3, <2>1, <2>2, <2>3, HolderSteps
<1> QED
  BY <1>4, <1>5

\* The end of a block puts the data of the object into its file, or empties
\* the file, which has gone astray then.
LEMMA BlockSteps ==
  ASSUME StorageInv, NEW u \in User, NEW f \in File,
         BlockFails(u, f) \/ \E b \in BOOLEAN : Block(u, f, b)
  PROVE  StorageInv'
<1> USE DEF StorageInv
<1>1. held[u][f] # 0 /\ changes' = changes + 1 /\ UNCHANGED <<tracked, held>>
  BY DEF Block, BlockFails
<1>2. PICK o \in DOMAIN objects : o = held[u][f] /\ objects[o].file = f
  BY <1>1, HeldObject
<1>3. objects' = WithData(o, changes')
  BY <1>2 DEF Block, BlockFails, WithData
<1>4. changes' \in Nat
  BY <1>1 DEF FilesTyped
<1>5. CASE \E b \in BOOLEAN : Block(u, f, b)
  <2>1. objects'[o].data = changes'
    BY <1>2, <1>3, <1>4, OneChanged
  <2>2. disk' = OnDisk(f, changes') /\ astray' = Marked(o, f)
    BY <1>2, <1>5, <2>1 DEF Block, Saved, OnDisk
  <2>3. /\ \A g \in File \ {f} : g \in astray => g \in astray'
        /\ f \notin astray' => tracked[f] = o
    BY <2>2 DEF Marked
  <2>4. Loads(f, changes') /\ Parsed(changes') = changes'
    BY <1>4, DataLoads
  <2> QED
    BY <1>1, <1>2, <1>3, <1>4, <2>2, <2>3, <2>4, HolderSteps
<1>6. CASE BlockFails(u, f)
  <2>1. disk' = OnDisk(f, Emptied) /\ astray' = astray \cup {f} /\ Emptied \in Int
    BY <1>6 DEF BlockFails, Emptied, OnDisk
  <2> QED
    BY <1>1, <1>2, <1>3, <1>4, <2>1, HolderSteps
<1> QED
  BY <1>5, <1>6

\* write(): what does not parse does not get into a data file, and marks the
\* others as astray.
LEMMA WriteSteps ==
  ASSUME StorageInv, NEW u \in User, NEW f \in File, NEW b \in BOOLEAN, Write(u, f, b)
  PROVE  StorageInv'
<1> USE DEF StorageInv
<1>1. held[u][f] # 0 /\ UNCHANGED <<tracked, held>>
  BY DEF Write
<1>2. PICK o \in DOMAIN objects :
        o = held[u][f] /\ objects[o].file = f /\ objects[o].data \in Nat
  BY <1>1, HeldObject
<1>3. CASE b
  <2>1. /\ changes' = changes /\ objects' = Reread(o, Broken)
        /\ disk' = OnDisk(f, Written(o, f, Broken))
        /\ astray' = IF f \in ConfigFile THEN astray \cup {f} ELSE Marked(o, f)
    BY <1>2, <1>3 DEF Write, OnDisk
  <2>2. objects' = WithData(o, objects[o].data)
    BY <1>2, <2>1 DEF Reread, IsRead, Loads, WithData
  <2>3. objects'[o].data = objects[o].data
    BY <1>2, <2>2, OneChanged
  <2>4. changes' \in Nat /\ \A g \in File \ {f} : g \in astray => g \in astray'
    BY <2>1 DEF Marked, FilesTyped
  <2>5. CASE f \in DataFile
    <3>1. disk' = OnDisk(f, objects[o].data)
      BY <2>1, <2>3, <2>5 DEF Written, OnDisk
    <3>2. f \notin astray' => tracked[f] = o
      BY <2>1, <2>5, StorageAssumption DEF Marked
    <3>3. Loads(f, objects[o].data) /\ Parsed(objects[o].data) = objects[o].data
      BY <1>2, DataLoads
    <3> QED
      BY <1>1, <1>2, <2>2, <2>4, <3>1, <3>2, <3>3, HolderSteps
  <2>6. CASE f \notin DataFile
    <3>1. f \in astray'
      BY <2>1, <2>6 DEF File
    <3>2. disk' = OnDisk(f, Broken) /\ Broken \in Int
      BY <2>1, <2>6 DEF Written, Broken, OnDisk
    <3> QED
      BY <1>1, <1>2, <2>2, <2>4, <3>1, <3>2, HolderSteps
  <2> QED
    BY <2>5, <2>6
<1>4. CASE ~b
  <2> DEFINE text == changes + 1
  <2>1. /\ changes' = text /\ objects' = Reread(o, text)
        /\ disk' = OnDisk(f, Written(o, f, text))
        /\ astray' = Marked(o, f)
    BY <1>2, <1>4 DEF Write, OnDisk
  <2>2. text \in Nat
    BY DEF FilesTyped
  <2>3. Loads(f, text) /\ Parsed(text) = text /\ IsRead(f, text)
    BY <2>2, DataLoads DEF IsRead, Missing
  <2>4. objects' = WithData(o, text)
    BY <1>2, <2>1, <2>3 DEF Reread, WithData
  <2>5. objects'[o].data = text
    BY <1>2, <2>2, <2>4, OneChanged
  <2>6. disk' = OnDisk(f, text)
    BY <2>1, <2>5 DEF Written, OnDisk
  <2>7. /\ \A g \in File \ {f} : g \in astray => g \in astray'
        /\ f \notin astray' => tracked[f] = o
    BY <2>1 DEF Marked
  <2> QED
    BY <1>1, <1>2, <2>1, <2>2, <2>3, <2>4, <2>6, <2>7, HolderSteps
<1> QED
  BY <1>3, <1>4

\* Letting go leaves less to be shared; an edit sends its file astray; and with
\* the bot everything ends.
LEMMA OtherSteps ==
  ASSUME StorageInv,
         \/ \E u \in User : ReleaseFiles(u)
         \/ \E f \in File : ReleaseFile(f) \/ Edit(f)
         \/ BotEnds
  PROVE  StorageInv'
<1> USE DEF StorageInv
<1>1. ASSUME NEW F, LetGo(F)
      PROVE  /\ UNCHANGED <<disk, changes, objects, astray>>
             /\ tracked' \in [File -> Nat]
             /\ \A f \in File : tracked'[f] \in {tracked[f], 0}
  BY <1>1 DEF LetGo, FilesTyped
<1>2. ASSUME NEW u \in User, ReleaseFiles(u)
      PROVE  StorageInv'
  <2>1. \E F : LetGo(F)
    BY <1>2 DEF ReleaseFiles
  <2>2. /\ held' \in [User -> [File -> Nat]]
        /\ \A v \in User, f \in File : held'[v][f] \in {held[v][f], 0}
    BY <1>2 DEF ReleaseFiles, FilesTyped
  <2> QED
    BY <1>1, <2>1, <2>2 DEF FilesTyped, ObjectsOfFiles, SharedIsOnDisk
<1>3. ASSUME NEW f \in File, ReleaseFile(f)
      PROVE  StorageInv'
  <2>1. LetGo({f}) /\ UNCHANGED held
    BY <1>3 DEF ReleaseFile
  <2> QED
    BY <1>1, <2>1 DEF FilesTyped, ObjectsOfFiles, SharedIsOnDisk
<1>4. ASSUME NEW f \in File, Edit(f)
      PROVE  StorageInv'
  <2>1. UNCHANGED <<objects, tracked, held>> /\ astray' = astray \cup {f} /\ changes' \in Nat
    BY <1>4 DEF Edit, FilesTyped
  <2>2. disk' \in [File -> Int] /\ \A g \in File \ {f} : disk'[g] = disk[g]
    BY <1>4 DEF Edit, FilesTyped, Missing, Broken
  <2>3. FilesTyped' /\ ObjectsOfFiles'
    BY <2>1, <2>2 DEF FilesTyped, ObjectsOfFiles
  <2>4. SharedIsOnDisk'
    BY <2>1, <2>2 DEF SharedIsOnDisk
  <2> QED
    BY <2>3, <2>4
<1>5. CASE BotEnds
  <2>1. /\ objects' = <<>> /\ UNCHANGED changes
        /\ tracked' = [f \in File |-> 0] /\ held' = [u \in User |-> [f \in File |-> 0]]
    BY <1>5 DEF BotEnds
  <2>2. disk' \in [File -> Int]
    BY <1>5 DEF BotEnds, FilesTyped, Emptied
  <2> QED
    BY <2>1, <2>2 DEF FilesTyped, ObjectsOfFiles, SharedIsOnDisk
<1> QED
  BY <1>2, <1>3, <1>4, <1>5

LEMMA StorageSteps == StorageInv /\ [StorageStep \/ BotEnds]_storageVars => StorageInv'
<1> SUFFICES ASSUME StorageInv, [StorageStep \/ BotEnds]_storageVars PROVE StorageInv'
  OBVIOUS
<1>1. CASE StorageStep \/ BotEnds
  BY <1>1, GetFileSteps, ReloadSteps, BlockSteps, WriteSteps, OtherSteps DEF StorageStep
<1>2. CASE UNCHANGED storageVars
  BY <1>2
  DEF storageVars, StorageInv, FilesTyped, ObjectsOfFiles, SharedIsOnDisk, Loads, Parsed, Broken, Emptied
<1> QED
  BY <1>1, <1>2

-----------------------------------------------------------------------------
\* For any number of files, plugins, objects and changes: whoever shares a file
\* has what is on disk, and what is on disk can be loaded again, unless an
\* edit, a full disk or a released object came between.
THEOREM SharedStaysOnDisk == Spec => []SharedIsOnDisk
<1>1. Init => StorageInv
  BY StorageInitially DEF Init
<1>2. [Next]_vars => [StorageStep \/ BotEnds]_storageVars
  BY DEF Next, vars, Bot, MetricsRun, Manage, Browse, End
<1>3. StorageInv /\ [Next]_vars => StorageInv'
  BY <1>2, StorageSteps
<1>4. StorageInv => SharedIsOnDisk
  BY DEF StorageInv
<1> QED
  BY <1>1, <1>3, <1>4, PTL DEF Spec

-----------------------------------------------------------------------------
(***************************************************************************)
(* The package manager                                                     *)
(***************************************************************************)
\* What a frame of install_package or uninstall_package has got to: an answer
\* under way is a version there has been, one to be noted is in its file, and
\* the requirements it has been through are met.
FrameOK(r) ==
  LET file == Files[r.package][r.next]
      required == Requires[r.package]
  IN /\ r.stage = "files" => r.next >= 1
     /\ r.stage \in {"writing", "noting"} =>
          r.next \in DOMAIN Files[r.package] /\ r.etag >= 1 /\ r.etag <= published[file]
     /\ r.stage = "writing" => local[file] = Partly
     /\ r.stage = "noting" => local[file] = r.etag
     /\ r.stage = "removing" => r.next <= Len(Files[r.package])
     /\ r.stage = "requires" =>
          /\ r.next >= 1
          /\ \A k \in DOMAIN required : k < r.next => Met(required[k])

\* All frames but the last one wait for a package that they require.
JobOK ==
  /\ job \in Seq(Frame)
  /\ \A i \in DOMAIN job :
       FrameOK(job[i]) /\ (i < Len(job) => job[i].stage = "requires")

VersionsTyped ==
  /\ published \in [Path -> Nat \ {0}]
  /\ local \in [Path -> Int]
  /\ etags \in [Path -> Nat]

\* An ETag is of a version there has been, and of a file that is gone it says
\* that the file was removed.
EtagsKnown ==
  \A f \in Path :
    /\ etags[f] <= published[f]
    /\ local[f] = Absent /\ etags[f] # 0 => f \in outlived

PackagesInv == VersionsTyped /\ JobOK /\ EtagsKnown /\ SkippedIsCurrent

-----------------------------------------------------------------------------
LEMMA TopFrame ==
  ASSUME JobOK, job # <<>>
  PROVE  /\ Len(job) \in DOMAIN job
         /\ Top \in Frame /\ FrameOK(Top)
         /\ Top.package \in Package /\ Top.next \in Nat /\ Top.etag \in Nat
         /\ Files[Top.package] \in Seq(Path)
         /\ Requires[Top.package] \in Seq(Package \cup Unlisted)
<1>1. Len(job) \in DOMAIN job
  BY DEF JobOK
<1>2. Top \in Frame /\ FrameOK(Top)
  BY <1>1 DEF JobOK, Top
<1>3. Top.package \in Package /\ Top.next \in Nat /\ Top.etag \in Nat
  BY <1>2 DEF Frame
<1> QED
  BY <1>1, <1>2, <1>3, PackagesAssumption

\* The last frame goes on, and nothing that others have met is lost.
LEMMA TopAdvances ==
  ASSUME JobOK, job # <<>>, NEW r \in Frame, Becomes(r), FrameOK(r)',
         installed \subseteq installed'
  PROVE  JobOK'
<1>1. /\ job' \in Seq(Frame) /\ DOMAIN job' = DOMAIN job /\ Len(job') = Len(job)
      /\ Len(job) \in DOMAIN job
      /\ \A i \in DOMAIN job : job'[i] = IF i = Len(job) THEN r ELSE job[i]
  BY DEF JobOK, Becomes
<1>2. ASSUME NEW i \in DOMAIN job, i # Len(job)
      PROVE  FrameOK(job[i])' /\ job'[i].stage = "requires"
  <2>1. job[i].stage = "requires" /\ FrameOK(job[i]) /\ job'[i] = job[i]
    BY <1>1, <1>2 DEF JobOK
  <2> QED
    BY <2>1 DEF FrameOK, Met
<1>3. \A i \in DOMAIN job' : FrameOK(job[i])'
  BY <1>1, <1>2 DEF FrameOK, Met
<1> QED
  BY <1>1, <1>2, <1>3 DEF JobOK

\* A command begins with one frame, and a run that ends has none.
LEMMA JobBegins ==
  ASSUME NEW r \in Frame, job' = <<r>>, FrameOK(r)'
  PROVE  JobOK'
BY DEF JobOK

LEMMA JobEnds == ASSUME job' = <<>> PROVE JobOK'
BY DEF JobOK

LEMMA NewFrames ==
  ASSUME NEW p \in Package
  PROVE  /\ \A b \in BOOLEAN : Installing(p, b) \in Frame /\ FrameOK(Installing(p, b))'
                               /\ FrameOK(Installing(p, b))
         /\ \A again \in BOOLEAN : Removing(p, again) \in Frame /\ FrameOK(Removing(p, again))'
<1>1. Files[p] \in Seq(Path)
  BY PackagesAssumption
<1>2. \A b \in BOOLEAN : Installing(p, b) \in Frame
  BY DEF Installing, Frame
<1>3. ASSUME NEW again \in BOOLEAN
      PROVE  /\ Removing(p, again) \in Frame
             /\ Removing(p, again).package = p /\ Removing(p, again).stage = "removing"
             /\ Removing(p, again).next = Len(Files[p])
  <2>1. PICK r \in Frame : r = Installing(p, FALSE) /\ r.package = p
    BY <1>2 DEF Installing
  <2>2. PICK n \in Nat : n = Len(Files[p])
    BY <1>1
  <2>3. Removing(p, again) = [r EXCEPT !.stage = "removing", !.next = n, !.then = again]
    BY <2>1, <2>2 DEF Removing
  <2> QED
    BY <2>1, <2>2, <2>3 DEF Frame
<1> QED
  BY <1>1, <1>2, <1>3 DEF FrameOK, Installing

LEMMA CommandsAgree ==
  ASSUME PackagesInv, NEW p \in Package,
         Install(p) \/ Overwrite(p) \/ \E again \in BOOLEAN : Uninstall(p, again)
  PROVE  PackagesInv'
<1>1. UNCHANGED <<published, local, etags, outlived>>
  BY DEF Install, Overwrite, Uninstall
<1>2. JobOK'
  BY NewFrames, JobBegins DEF Install, Overwrite, Uninstall
<1> QED
  BY <1>1, <1>2 DEF PackagesInv, VersionsTyped, EtagsKnown, SkippedIsCurrent

LEMMA BreaksAgrees == ASSUME PackagesInv, Breaks PROVE PackagesInv'
<1>1. JobOK' /\ UNCHANGED <<published, local>>
  BY JobEnds DEF Breaks
<1>2. CASE UNCHANGED <<installed, etags, outlived>>
  BY <1>1, <1>2 DEF PackagesInv, VersionsTyped, EtagsKnown, SkippedIsCurrent
<1>3. CASE etags' = [f \in Path |-> 0] /\ outlived' = {}
  <2>1. \A f \in Path : etags'[f] = 0 /\ published'[f] \in Nat \ {0}
    BY <1>1, <1>3 DEF PackagesInv, VersionsTyped
  <2> QED
    BY <1>1, <1>3, <2>1 DEF PackagesInv, VersionsTyped, EtagsKnown, SkippedIsCurrent
<1> QED
  BY <1>2, <1>3 DEF Breaks

\* A new version is of no ETag yet.
LEMMA PublishAgrees ==
  ASSUME PackagesInv, NEW f \in Path, Publish(f)
  PROVE  PackagesInv'
<1>1. /\ UNCHANGED <<local, installed, etags, outlived, job>>
      /\ published' \in [Path -> Nat \ {0}]
      /\ \A g \in Path : published'[g] = IF g = f THEN published[f] + 1 ELSE published[g]
  BY DEF Publish, PackagesInv, VersionsTyped
<1>2. ASSUME NEW i \in DOMAIN job
      PROVE  FrameOK(job[i])'
  <2>1. FrameOK(job[i]) /\ job[i] \in Frame
    BY DEF PackagesInv, JobOK
  <2>2. Files[job[i].package] \in Seq(Path) /\ job[i].etag \in Nat
    BY <2>1, PackagesAssumption DEF Frame
  <2>3. job[i].next \in DOMAIN Files[job[i].package] =>
          Files[job[i].package][job[i].next] \in Path
    BY <2>2
  <2>4. \A g \in Path : published[g] <= published'[g] /\ published[g] \in Nat /\ published'[g] \in Nat
    BY <1>1 DEF PackagesInv, VersionsTyped
  <2> QED
    BY <1>1, <2>1, <2>2, <2>3, <2>4 DEF FrameOK, Met
<1>3. JobOK'
  BY <1>1, <1>2 DEF PackagesInv, JobOK
<1>4. \A g \in Path : etags[g] \in Nat /\ published[g] \in Nat /\ etags[g] <= published[g]
  BY DEF PackagesInv, VersionsTyped, EtagsKnown
<1> QED
  BY <1>1, <1>3, <1>4 DEF PackagesInv, VersionsTyped, EtagsKnown, SkippedIsCurrent

-----------------------------------------------------------------------------
(* Files *)

\* The file the last frame is at.
LEMMA AtPath ==
  ASSUME NEW r \in Frame, r.next \in DOMAIN Files[r.package]
  PROVE  Files[r.package][r.next] \in Path
<1>1. r.package \in Package
  BY DEF Frame
<1> QED
  BY <1>1, PackagesAssumption

LEMMA LeaveAgrees ==
  ASSUME PackagesInv, Leave \/ FilesDone \/ Passed
  PROVE  PackagesInv'
<1>1. /\ JobOK /\ job # <<>>
      /\ UNCHANGED <<published, local, installed, etags, outlived>>
  BY DEF PackagesInv, Leave, FilesDone, Passed
<1>2. PICK r \in Frame :
        /\ r = Top /\ FrameOK(r) /\ r.next \in Nat
        /\ Requires[r.package] \in Seq(Package \cup Unlisted)
  BY <1>1, TopFrame
<1>3. PICK q \in Frame : Becomes(q) /\ FrameOK(q)'
  <2>1. CASE Leave
    <3>1. PICK n \in Nat : n = r.next + 1
      BY <1>2
    <3>2. PICK q \in Frame : q = [r EXCEPT !.next = n]
      BY DEF Frame
    <3>3. q.package = r.package /\ q.stage = r.stage /\ q.next = n
      BY <3>2 DEF Frame
    <3>4. r.stage = "files" /\ r.next >= 1
      BY <1>2, <2>1 DEF Leave, AtFile, FrameOK
    <3>5. FrameOK(q)'
      BY <1>2, <3>1, <3>3, <3>4 DEF FrameOK
    <3>6. Becomes(q)
      BY <1>2, <2>1, <3>1, <3>2 DEF Leave
    <3> QED
      BY <3>5, <3>6
  <2>2. CASE FilesDone
    <3>1. PICK q \in Frame : q = [r EXCEPT !.stage = "requires", !.next = 1]
      BY DEF Frame
    <3>2. q.package = r.package /\ q.stage = "requires" /\ q.next = 1
      BY <3>1 DEF Frame
    <3>3. FrameOK(q)'
      BY <1>2, <3>2 DEF FrameOK
    <3>4. Becomes(q)
      BY <1>2, <2>2, <3>1 DEF FilesDone
    <3> QED
      BY <3>3, <3>4
  <2>3. CASE Passed
    <3>1. PICK n \in Nat : n = r.next + 1
      BY <1>2
    <3>2. PICK q \in Frame : q = [r EXCEPT !.next = n]
      BY DEF Frame
    <3>3. q.package = r.package /\ q.stage = r.stage /\ q.next = n
      BY <3>2 DEF Frame
    <3>4. r.stage = "requires" /\ Met(Requires[r.package][r.next])
      BY <1>2, <2>3 DEF Passed, Required
    <3>5. FrameOK(q)'
      BY <1>1, <1>2, <3>1, <3>3, <3>4 DEF FrameOK, Met
    <3>6. Becomes(q)
      BY <1>2, <2>3, <3>1, <3>2 DEF Passed
    <3> QED
      BY <3>5, <3>6
  <2> QED
    BY <2>1, <2>2, <2>3
<1>4. JobOK'
  BY <1>1, <1>3, TopAdvances
<1> QED
  BY <1>1, <1>4 DEF PackagesInv, VersionsTyped, EtagsKnown, SkippedIsCurrent

\* A file that is opened for writing is gone, or has an ETag that is not the
\* repository's.
LEMMA OpenAgrees == ASSUME PackagesInv, Open PROVE PackagesInv'
<1>1. JobOK /\ job # <<>> /\ UNCHANGED <<published, installed, etags, outlived>>
  BY DEF PackagesInv, Open
<1>2. PICK r \in Frame :
        r = Top /\ FrameOK(r) /\ r.next \in Nat /\ Files[r.package] \in Seq(Path)
  BY <1>1, TopFrame
<1>3. r.stage = "files" /\ r.next \in DOMAIN Files[r.package]
  BY <1>2 DEF Open, AtFile, FrameOK
<1>4. PICK f \in Path : f = ThisFile /\ f = Files[r.package][r.next]
  BY <1>2, <1>3, AtPath DEF ThisFile
<1>5. /\ local' \in [Path -> Int]
      /\ \A g \in Path : local'[g] = IF g = f THEN Partly ELSE local[g]
  BY <1>4 DEF Open, PackagesInv, VersionsTyped, Partly
<1>6. published[f] \in Nat \ {0}
  BY DEF PackagesInv, VersionsTyped
<1>7. PICK q \in Frame : q = [r EXCEPT !.stage = "writing", !.etag = published[f]]
  BY <1>6 DEF Frame
<1>8. q.package = r.package /\ q.stage = "writing" /\ q.next = r.next /\ q.etag = published[f]
  BY <1>7 DEF Frame
<1>9. FrameOK(q)'
  BY <1>1, <1>3, <1>4, <1>5, <1>6, <1>8 DEF FrameOK
<1>10. Becomes(q)
  BY <1>2, <1>4, <1>7 DEF Open
<1>11. JobOK'
  BY <1>1, <1>9, <1>10, TopAdvances
<1>12. EtagsKnown'
  BY <1>1, <1>5 DEF PackagesInv, EtagsKnown, Partly, Absent
<1>13. local[f] = Absent \/ etags[f] # published[f]
  BY <1>4 DEF Open, Left
<1>14. SkippedIsCurrent'
  BY <1>1, <1>5, <1>6, <1>13 DEF PackagesInv, EtagsKnown, SkippedIsCurrent
<1> QED
  BY <1>1, <1>5, <1>11, <1>12, <1>14 DEF PackagesInv, VersionsTyped

LEMMA WriteFileAgrees == ASSUME PackagesInv, WriteFile PROVE PackagesInv'
<1>1. JobOK /\ job # <<>> /\ UNCHANGED <<published, installed, etags, outlived>>
  BY DEF PackagesInv, WriteFile
<1>2. PICK r \in Frame : r = Top /\ FrameOK(r) /\ r.etag \in Nat
  BY <1>1, TopFrame
<1>3. r.stage = "writing" /\ r.next \in DOMAIN Files[r.package]
  BY <1>2 DEF WriteFile, FrameOK
<1>4. PICK f \in Path : f = ThisFile /\ f = Files[r.package][r.next]
  BY <1>2, <1>3, AtPath DEF ThisFile
<1>5. r.etag >= 1 /\ r.etag <= published[f] /\ local[f] = Partly
  BY <1>2, <1>3, <1>4 DEF FrameOK
<1>6. /\ local' \in [Path -> Int]
      /\ \A g \in Path : local'[g] = IF g = f THEN r.etag ELSE local[g]
  BY <1>2, <1>4 DEF WriteFile, PackagesInv, VersionsTyped
<1>7. PICK q \in Frame : q = [r EXCEPT !.stage = "noting"]
  BY DEF Frame
<1>8. q.package = r.package /\ q.stage = "noting" /\ q.next = r.next /\ q.etag = r.etag
  BY <1>7 DEF Frame
<1>9. FrameOK(q)'
  BY <1>1, <1>3, <1>4, <1>5, <1>6, <1>8 DEF FrameOK
<1>10. Becomes(q)
  BY <1>2, <1>7 DEF WriteFile
<1>11. JobOK'
  BY <1>1, <1>9, <1>10, TopAdvances
<1>12. EtagsKnown'
  BY <1>1, <1>2, <1>5, <1>6 DEF PackagesInv, EtagsKnown, Absent
<1>13. etags[f] = published[f] => f \in outlived
  BY <1>5 DEF PackagesInv, VersionsTyped, SkippedIsCurrent, Partly, Absent
<1>14. SkippedIsCurrent'
  BY <1>1, <1>6, <1>13 DEF PackagesInv, SkippedIsCurrent
<1> QED
  BY <1>1, <1>6, <1>11, <1>12, <1>14 DEF PackagesInv, VersionsTyped

LEMMA NoteEtagAgrees == ASSUME PackagesInv, NoteEtag PROVE PackagesInv'
<1>1. JobOK /\ job # <<>> /\ UNCHANGED <<published, installed, local>>
  BY DEF PackagesInv, NoteEtag
<1>2. PICK r \in Frame : r = Top /\ FrameOK(r) /\ r.etag \in Nat /\ r.next \in Nat
  BY <1>1, TopFrame
<1>3. r.stage = "noting" /\ r.next \in DOMAIN Files[r.package]
  BY <1>2 DEF NoteEtag, FrameOK
<1>4. PICK f \in Path : f = ThisFile /\ f = Files[r.package][r.next]
  BY <1>2, <1>3, AtPath DEF ThisFile
<1>5. r.etag >= 1 /\ r.etag <= published[f] /\ local[f] = r.etag
  BY <1>2, <1>3, <1>4 DEF FrameOK
<1>6. /\ etags' \in [Path -> Nat]
      /\ \A g \in Path : etags'[g] = IF g = f THEN r.etag ELSE etags[g]
      /\ outlived' = outlived \ {f}
  BY <1>2, <1>4 DEF NoteEtag, PackagesInv, VersionsTyped
<1>7. PICK n \in Nat : n = r.next + 1
  BY <1>2
<1>8. PICK q \in Frame : q = [r EXCEPT !.stage = "files", !.next = n, !.etag = 0]
  BY DEF Frame
<1>9. q.stage = "files" /\ q.next = n
  BY <1>8 DEF Frame
<1>10. n >= 1
  BY <1>2, <1>7
<1>11. FrameOK(q)'
  BY <1>9, <1>10 DEF FrameOK
<1>12. Becomes(q)
  BY <1>2, <1>7, <1>8 DEF NoteEtag
<1>13. JobOK'
  BY <1>1, <1>11, <1>12, TopAdvances
<1>14. EtagsKnown' /\ SkippedIsCurrent'
  BY <1>1, <1>2, <1>5, <1>6 DEF PackagesInv, EtagsKnown, SkippedIsCurrent, Absent
<1> QED
  BY <1>1, <1>6, <1>13, <1>14 DEF PackagesInv, VersionsTyped

-----------------------------------------------------------------------------
(* Requirements and removal *)

LEMMA RequireAgrees == ASSUME PackagesInv, Require PROVE PackagesInv'
<1>1. JobOK /\ job # <<>> /\ UNCHANGED <<published, local, installed, etags, outlived>>
  BY DEF PackagesInv, Require
<1>2. PICK r \in Frame :
        /\ r = Top /\ FrameOK(r) /\ r.next \in Nat /\ Len(job) \in DOMAIN job
        /\ Requires[r.package] \in Seq(Package \cup Unlisted)
  BY <1>1, TopFrame
<1>3. r.stage = "requires" /\ r.next \in DOMAIN Requires[r.package]
  BY <1>2 DEF Require, Required, FrameOK
<1>4. PICK p \in Package : p = Required[Top.next]
  <2>1. Required[Top.next] \in Package \cup Unlisted
    BY <1>2, <1>3 DEF Required
  <2> QED
    BY <2>1 DEF Require, Met
<1>5. CASE job' = <<>>
  BY <1>1, <1>5, JobEnds DEF PackagesInv, VersionsTyped, EtagsKnown, SkippedIsCurrent
<1>6. CASE job' # <<>>
  <2>1. PICK q \in Frame : q = Installing(p, FALSE) /\ FrameOK(q)
    BY NewFrames
  <2>2. job' = Append(job, q)
    BY <1>4, <1>6, <2>1 DEF Require
  <2>3. /\ job' \in Seq(Frame) /\ Len(job') = Len(job) + 1
        /\ \A i \in DOMAIN job' :
             IF i = Len(job) + 1 THEN job'[i] = q ELSE i \in DOMAIN job /\ job'[i] = job[i]
    BY <1>1, <2>2 DEF JobOK
  <2>4. \A i \in DOMAIN job : FrameOK(job[i]) /\ job[i].stage = "requires"
    BY <1>1, <1>2, <1>3 DEF JobOK, Top
  <2>5. ASSUME NEW i \in DOMAIN job'
        PROVE  FrameOK(job'[i]) /\ (i < Len(job') => job'[i].stage = "requires")
    <3>1. CASE i = Len(job) + 1
      <4>1. job'[i] = q /\ ~ (i < Len(job'))
        BY <2>3, <3>1
      <4> QED
        BY <2>1, <4>1
    <3>2. CASE i # Len(job) + 1
      <4>1. job'[i] = job[i] /\ i \in DOMAIN job
        BY <2>3, <3>2
      <4> QED
        BY <2>4, <4>1
    <3> QED
      BY <3>1, <3>2
  <2>6. JobOK'
    BY <1>1, <2>3, <2>5 DEF JobOK, FrameOK, Met
  <2> QED
    BY <1>1, <2>6 DEF PackagesInv, VersionsTyped, EtagsKnown, SkippedIsCurrent
<1> QED
  BY <1>5, <1>6

LEMMA RecordAgrees == ASSUME PackagesInv, Record PROVE PackagesInv'
<1>1. /\ JobOK /\ job # <<>> /\ UNCHANGED <<published, local, etags, outlived>>
      /\ installed \subseteq installed'
      /\ job' = SubSeq(job, 1, Len(job) - 1)
  BY DEF PackagesInv, Record, Caller
<1>2. /\ job' \in Seq(Frame)
      /\ \A i \in DOMAIN job' : i \in DOMAIN job /\ i < Len(job) /\ job'[i] = job[i]
  BY <1>1 DEF JobOK
<1>3. \A i \in DOMAIN job' : FrameOK(job'[i]) /\ job'[i].stage = "requires"
  BY <1>1, <1>2 DEF JobOK
<1>4. JobOK'
  BY <1>1, <1>2, <1>3 DEF JobOK, FrameOK, Met
<1> QED
  BY <1>1, <1>4 DEF PackagesInv, VersionsTyped, EtagsKnown, SkippedIsCurrent

\* The file that is removed is remembered if its ETag is.
LEMMA RemoveFileAgrees == ASSUME PackagesInv, RemoveFile PROVE PackagesInv'
<1>1. JobOK /\ job # <<>> /\ UNCHANGED <<published, installed, etags>>
  BY DEF PackagesInv, RemoveFile
<1>2. PICK r \in Frame :
        r = Top /\ FrameOK(r) /\ r.next \in Nat /\ Files[r.package] \in Seq(Path)
  BY <1>1, TopFrame
<1>3. r.stage = "removing" /\ r.next > 0 /\ r.next \in DOMAIN Files[r.package]
  BY <1>2 DEF RemoveFile, FrameOK
<1>4. PICK f \in Path : f = ThisFile
  BY <1>2, <1>3, AtPath DEF ThisFile
<1>5. /\ local' \in [Path -> Int]
      /\ \A g \in Path : local'[g] = IF g = f THEN Absent ELSE local[g]
      /\ outlived' = IF etags[f] # 0 THEN outlived \cup {f} ELSE outlived
  BY <1>4 DEF RemoveFile, PackagesInv, VersionsTyped, Absent
<1>6. PICK n \in Nat : n = r.next - 1
  BY <1>2, <1>3
<1>7. PICK q \in Frame : q = [r EXCEPT !.next = n]
  BY DEF Frame
<1>8. q.package = r.package /\ q.stage = "removing" /\ q.next = n
  BY <1>3, <1>7 DEF Frame
<1>9. n <= Len(Files[r.package])
  BY <1>2, <1>3, <1>6
<1>10. FrameOK(q)'
  BY <1>8, <1>9 DEF FrameOK
<1>11. Becomes(q)
  BY <1>2, <1>6, <1>7 DEF RemoveFile
<1>12. JobOK'
  BY <1>1, <1>10, <1>11, TopAdvances
<1>13. EtagsKnown' /\ SkippedIsCurrent'
  BY <1>1, <1>5 DEF PackagesInv, EtagsKnown, SkippedIsCurrent
<1> QED
  BY <1>1, <1>5, <1>12, <1>13 DEF PackagesInv, VersionsTyped

LEMMA ForgetAgrees == ASSUME PackagesInv, Forget PROVE PackagesInv'
<1>1. JobOK /\ job # <<>> /\ UNCHANGED <<published, local, etags, outlived>>
  BY DEF PackagesInv, Forget
<1>2. PICK p \in Package : p = Top.package
  BY <1>1, TopFrame
<1>3. JobOK'
  BY <1>2, NewFrames, JobBegins, JobEnds DEF Forget
<1> QED
  BY <1>1, <1>3 DEF PackagesInv, VersionsTyped, EtagsKnown, SkippedIsCurrent

-----------------------------------------------------------------------------
\* The rest of what is on disk has no part in it.
LEMMA PackageSteps ==
  ASSUME [Next]_vars
  PROVE  JobStep \/ PackageCommand \/ UNCHANGED packageVars
BY DEF Next, vars, Bot, MetricsRun, Manage, Browse, End

LEMMA PackagesStep == PackagesInv /\ [Next]_vars => PackagesInv'
<1> SUFFICES ASSUME PackagesInv, [Next]_vars PROVE PackagesInv'
  OBVIOUS
<1>1. CASE JobStep
  BY <1>1, LeaveAgrees, OpenAgrees, WriteFileAgrees, NoteEtagAgrees, RequireAgrees, RecordAgrees,
     RemoveFileAgrees, ForgetAgrees DEF JobStep
<1>2. CASE PackageCommand
  BY <1>2, CommandsAgree, BreaksAgrees, PublishAgrees DEF PackageCommand
<1>3. CASE UNCHANGED packageVars
  BY <1>3 DEF packageVars, PackagesInv, VersionsTyped, JobOK, FrameOK, Met, EtagsKnown, SkippedIsCurrent
<1> QED
  BY <1>1, <1>2, <1>3, PackageSteps

LEMMA PackagesInitially == Init => PackagesInv
BY DEF Init, PackagesInit, PackagesInv, VersionsTyped, JobOK, EtagsKnown, SkippedIsCurrent, Absent

\* Whatever downloads break off, runs are killed and versions published: what
\* the package manager passes over for its ETag is the file in the repository,
\* but for files that were removed and whose ETag was kept.
THEOREM PassedOverIsCurrent == Spec => []SkippedIsCurrent
<1>1. PackagesInv => SkippedIsCurrent
  BY DEF PackagesInv
<1> QED
  BY <1>1, PackagesInitially, PackagesStep, PTL DEF Spec

\* However requirements are nested, and whichever runs break off: a package is
\* recorded when all it requires is.
THEOREM RequirementsAreRecorded == Spec => RequirementsComeFirst
<1>1. ASSUME PackagesInv, [Next]_vars,
             NEW p \in installed' \ installed
      PROVE  Range(Requires[p]) \cap Package \subseteq installed
  <2>1. CASE Record
    <3>1. JobOK /\ job # <<>> /\ p = Top.package
      BY <1>1, <2>1 DEF Record, PackagesInv
    <3>2. FrameOK(Top) /\ Top.next \in Nat /\ Requires[p] \in Seq(Package \cup Unlisted)
      BY <3>1, TopFrame
    <3>3. \A k \in DOMAIN Requires[p] : Met(Requires[p][k])
      BY <2>1, <3>1, <3>2 DEF Record, Required, FrameOK
    <3> QED
      BY <3>3, PackagesAssumption DEF Met, Range
  <2>2. CASE ~Record
    <3>1. installed' \subseteq installed
      BY <1>1, <2>2, PackageSteps
         DEF JobStep, PackageCommand, packageVars, Install, Uninstall, Overwrite, Leave, Open,
             WriteFile, NoteEtag, FilesDone, Passed, Require, RemoveFile, Forget, Breaks, Publish
    <3> QED
      BY <1>1, <3>1
  <2> QED
    BY <2>1, <2>2
<1>2. PackagesInv /\ [Next]_vars =>
        [\A p \in installed' \ installed : Range(Requires[p]) \cap Package \subseteq installed]_vars
  BY <1>1
<1> QED
  BY <1>2, PackagesInitially, PackagesStep, PTL DEF Spec, RequirementsComeFirst

-----------------------------------------------------------------------------
(***************************************************************************)
(* The report on the bot                                                   *)
(***************************************************************************)
MetricsTyped ==
  /\ setting \in Setting \cup {"stopped"}
  /\ data \in Data /\ issued \in Nat /\ data.uuid <= issued
  /\ reports \in Seq(Report)

EnabledTyped == enabled \in [1 .. MaxIds -> {<<>>, <<TRUE>>, <<FALSE>>}]

\* What the site has of an ID.
Gone(i) == enabled[i] = <<>>
Running(i) == enabled[i] = <<TRUE>>

\* A thread that has had its answer has left at the site what it will note, if
\* it was not refused.
ToldIsThere ==
  \A i \in DOMAIN reports : reports[i] = "told" /\ data.uuid # NoId =>
    /\ setting = "destroy" => Gone(data.uuid)
    /\ setting = "off" => ~Running(data.uuid) \/ refused

\* A file that says disabled while the bot reports is one of a bot that was
\* switched on again.
SwitchedOn ==
  /\ setting = "stopped" => reports = <<>> /\ ~ticking
  /\ setting = "on" /\ data.uuid # NoId /\ data.status = "disabled" => resumed

OthersGone == \A i \in 1 .. MaxIds : i # data.uuid => Gone(i)

DisabledThere ==
  data.uuid # NoId /\ data.status = "disabled" => ~Running(data.uuid) \/ refused \/ resumed

MetricsInv ==
  MetricsTyped /\ EnabledTyped /\ ToldIsThere /\ SwitchedOn /\ OthersGone /\ DisabledThere

LEMMA DataFields ==
  ASSUME NEW d \in Data
  PROVE  d.uuid \in 0 .. MaxIds /\ d.status \in {"unset", "enabled", "disabled"}
BY DEF Data

\* What the site has changes only where enabled does.
LEMMA SiteStays ==
  ASSUME EnabledTyped, UNCHANGED enabled
  PROVE  /\ EnabledTyped'
         /\ \A i : (Gone(i)' <=> Gone(i)) /\ (Running(i)' <=> Running(i))
BY DEF EnabledTyped, Gone, Running

\* What the site has of the present ID once a request was carried out.
LEMMA SiteIsTold ==
  ASSUME MetricsTyped, EnabledTyped, setting \in Setting, data.uuid # NoId, UNCHANGED data,
         enabled' = Told(enabled)
  PROVE  /\ EnabledTyped'
         /\ \A i \in 1 .. MaxIds : i # data.uuid => (Gone(i)' <=> Gone(i))
         /\ setting = "off" => ~(Running(data.uuid)')
         /\ setting = "destroy" => Gone(data.uuid)' /\ ~(Running(data.uuid)')
<1>1. data.uuid \in 1 .. MaxIds
  BY MetricsAssumption, DataFields DEF MetricsTyped, NoId
<1>2. enabled[data.uuid] \in {<<>>, <<TRUE>>, <<FALSE>>}
  BY <1>1 DEF EnabledTyped
<1>3. <<FALSE>> # <<TRUE>> /\ <<>> # <<TRUE>>
  OBVIOUS
<1>4. PICK e \in {<<>>, <<TRUE>>, <<FALSE>>} :
        /\ enabled' = [enabled EXCEPT ![data.uuid] = e]
        /\ setting = "off" => e # <<TRUE>>
        /\ setting = "destroy" => e = <<>>
  <2>1. CASE setting = "on"
    BY <2>1 DEF Told
  <2>2. CASE setting = "off"
    BY <1>1, <1>2, <1>3, <2>2 DEF Told
  <2>3. CASE setting = "destroy"
    BY <2>3 DEF Told
  <2> QED
    BY <2>1, <2>2, <2>3 DEF Setting
<1>5. \A i \in 1 .. MaxIds : enabled'[i] = IF i = data.uuid THEN e ELSE enabled[i]
  BY <1>4 DEF EnabledTyped
<1>6. EnabledTyped'
  BY <1>4 DEF EnabledTyped
<1> QED
  BY <1>1, <1>3, <1>4, <1>5, <1>6 DEF Gone, Running

\* One report changes.
LEMMA ReportChanges ==
  ASSUME MetricsInv, NEW i \in DOMAIN reports, NEW stage \in Report,
         reports' = [reports EXCEPT ![i] = stage], UNCHANGED setting
  PROVE  /\ reports' \in Seq(Report) /\ DOMAIN reports' = DOMAIN reports
         /\ \A j \in DOMAIN reports : reports'[j] = IF j = i THEN stage ELSE reports[j]
         /\ setting \in Setting /\ setting' \in Setting /\ setting # "stopped"
BY DEF MetricsInv, MetricsTyped, SwitchedOn, Setting

LEMMA StartAgrees ==
  ASSUME MetricsInv, NEW s \in Setting, Start(s)
  PROVE  MetricsInv'
<1>1. setting' = s /\ reports' = <<>> /\ UNCHANGED enabled
  BY DEF Start
<1>2. PICK answered \in BOOLEAN :
        /\ s = "on" /\ data.uuid = NoId => issued < MaxIds
        /\ data' = Starts(s, answered)
        /\ issued' = IF data'.uuid # data.uuid THEN issued + 1 ELSE issued
  BY DEF Start
<1>3. data \in Data /\ data.uuid \in 0 .. MaxIds /\ issued \in Nat /\ data.uuid <= issued /\ MaxIds \in Nat
  BY DataFields, MetricsAssumption DEF MetricsInv, MetricsTyped
<1>4. EnabledTyped' /\ \A i : (Gone(i)' <=> Gone(i)) /\ (Running(i)' <=> Running(i))
  BY <1>1, SiteStays DEF MetricsInv
<1>5. ToldIsThere' /\ setting' # "stopped" /\ reports' \in Seq(Report)
  BY <1>1 DEF ToldIsThere, Setting
<1>6. CASE s = "on" /\ data.uuid = NoId /\ answered
  <2>1. data' = [uuid |-> issued + 1, status |-> "enabled"] /\ issued < MaxIds
    BY <1>2, <1>6 DEF Starts
  <2>2. data'.uuid = issued + 1 /\ data'.status = "enabled" /\ data' \in Data
    BY <1>3, <2>1 DEF Data
  <2>3. issued' = issued + 1
    BY <1>2, <1>3, <2>2
  <2>4. MetricsTyped'
    BY <1>1, <1>3, <1>5, <2>2, <2>3 DEF MetricsTyped
  <2>5. OthersGone'
    BY <1>3, <1>4, <1>6 DEF MetricsInv, OthersGone, NoId
  <2> QED
    BY <1>4, <1>5, <2>2, <2>4, <2>5 DEF MetricsInv, SwitchedOn, DisabledThere
<1>7. CASE ~(s = "on" /\ data.uuid = NoId /\ answered)
  <2>1. /\ data' \in Data /\ data'.uuid = data.uuid
        /\ data.uuid # NoId => data'.status = data.status
    BY <1>2, <1>3, <1>7 DEF Starts, Data
  <2>2. issued' = issued
    BY <1>2, <2>1
  <2>3. /\ resumed => resumed'
        /\ s = "on" /\ data.uuid # NoId /\ data.status = "disabled" => resumed'
        /\ refused => refused'
    BY <2>2 DEF Start
  <2>4. MetricsTyped'
    BY <1>1, <1>3, <1>5, <2>1, <2>2 DEF MetricsTyped
  <2>5. OthersGone'
    BY <1>4, <2>1 DEF MetricsInv, OthersGone
  <2>6. DisabledThere'
    BY <1>4, <2>1, <2>3 DEF MetricsInv, DisabledThere
  <2>7. SwitchedOn'
    BY <1>1, <1>5, <2>1, <2>3 DEF SwitchedOn
  <2> QED
    BY <1>4, <1>5, <2>4, <2>5, <2>6, <2>7 DEF MetricsInv
<1> QED
  BY <1>6, <1>7

LEMMA TickAgrees ==
  ASSUME MetricsInv, Tick
  PROVE  MetricsInv'
<1>1. /\ UNCHANGED <<setting, data, issued, refused, resumed>> /\ UNCHANGED enabled
      /\ ticking /\ reports' = Append(reports, "queued")
  BY DEF Tick
<1>2. /\ reports' \in Seq(Report) /\ Len(reports') = Len(reports) + 1
      /\ \A j \in DOMAIN reports' : IF j = Len(reports) + 1 THEN reports'[j] = "queued"
                                    ELSE j \in DOMAIN reports /\ reports'[j] = reports[j]
  BY <1>1 DEF MetricsInv, MetricsTyped, Report
<1>3. EnabledTyped' /\ \A j : (Gone(j)' <=> Gone(j)) /\ (Running(j)' <=> Running(j))
  BY <1>1, SiteStays DEF MetricsInv
<1>4. MetricsTyped' /\ SwitchedOn'
  BY <1>1, <1>2 DEF MetricsInv, MetricsTyped, SwitchedOn
<1>5. ToldIsThere'
  BY <1>1, <1>2, <1>3 DEF MetricsInv, ToldIsThere
<1> QED
  BY <1>1, <1>3, <1>4, <1>5 DEF MetricsInv, OthersGone, DisabledThere

\* Threads end with the bot.
LEMMA MetricsEndAgrees ==
  ASSUME MetricsInv, MetricsEnd
  PROVE  MetricsInv'
<1>1. /\ UNCHANGED <<data, issued, refused, resumed>> /\ UNCHANGED enabled
      /\ setting' = "stopped" /\ reports' = <<>> /\ ticking' = FALSE
  BY DEF MetricsEnd
<1>2. EnabledTyped' /\ \A j : (Gone(j)' <=> Gone(j)) /\ (Running(j)' <=> Running(j))
  BY <1>1, SiteStays DEF MetricsInv
<1> QED
  BY <1>1, <1>2 DEF MetricsInv, MetricsTyped, ToldIsThere, SwitchedOn, OthersGone, DisabledThere

LEMMA FailsAgrees ==
  ASSUME MetricsInv, NEW i \in DOMAIN reports, Fails(i)
  PROVE  MetricsInv'
<1>1. /\ UNCHANGED <<setting, data, issued, refused, resumed>>
      /\ reports' = [reports EXCEPT ![i] = "over"]
      /\ enabled' \in {enabled, Told(enabled)}
  BY DEF Fails
<1>2. /\ reports' \in Seq(Report) /\ DOMAIN reports' = DOMAIN reports /\ setting \in Setting
      /\ setting # "stopped"
      /\ \A j \in DOMAIN reports : reports'[j] = IF j = i THEN "over" ELSE reports[j]
  BY <1>1, ReportChanges DEF Report
<1>3. MetricsTyped' /\ SwitchedOn'
  BY <1>1, <1>2 DEF MetricsInv, MetricsTyped, SwitchedOn
<1>4. CASE UNCHANGED enabled
  <2>1. EnabledTyped' /\ \A j : (Gone(j)' <=> Gone(j)) /\ (Running(j)' <=> Running(j))
    BY <1>4, SiteStays DEF MetricsInv
  <2> QED
    BY <1>1, <1>2, <1>3, <2>1 DEF MetricsInv, ToldIsThere, OthersGone, DisabledThere
<1>5. CASE enabled' = Told(enabled) /\ data.uuid # NoId
  BY <1>1, <1>2, <1>3, <1>5, SiteIsTold
     DEF MetricsInv, ToldIsThere, OthersGone, DisabledThere, SwitchedOn, Setting
<1>6. CASE data.uuid = NoId
  <2>1. UNCHANGED enabled
    BY <1>1, <1>6 DEF Told
  <2> QED
    BY <1>4, <2>1
<1> QED
  BY <1>1, <1>4, <1>5, <1>6

LEMMA PostAgrees ==
  ASSUME MetricsInv, NEW i \in DOMAIN reports, NEW accepted \in BOOLEAN, Post(i, accepted)
  PROVE  MetricsInv'
<1>1. /\ UNCHANGED <<setting, data, issued, resumed>> /\ data.uuid # NoId
      /\ reports' = [reports EXCEPT ![i] = "told"]
      /\ accepted \/ setting # "destroy"
      /\ enabled' = IF accepted THEN Told(enabled) ELSE enabled
  BY DEF Post
<1>2. (refused => refused') /\ (~accepted /\ setting # "on" => refused')
  BY DEF Post
<1>3. /\ reports' \in Seq(Report) /\ DOMAIN reports' = DOMAIN reports /\ setting \in Setting
      /\ setting # "stopped"
      /\ \A j \in DOMAIN reports : reports'[j] = IF j = i THEN "told" ELSE reports[j]
  BY <1>1, ReportChanges DEF Report
<1>4. MetricsTyped' /\ SwitchedOn'
  BY <1>1, <1>3 DEF MetricsInv, MetricsTyped, SwitchedOn
<1>5. CASE accepted
  BY <1>1, <1>2, <1>3, <1>4, <1>5, SiteIsTold
     DEF MetricsInv, ToldIsThere, OthersGone, DisabledThere, SwitchedOn, Setting
<1>6. CASE ~accepted
  <2>1. EnabledTyped' /\ \A j : (Gone(j)' <=> Gone(j)) /\ (Running(j)' <=> Running(j))
    BY <1>1, <1>6, SiteStays DEF MetricsInv
  <2> QED
    BY <1>1, <1>2, <1>3, <1>4, <1>6, <2>1 DEF MetricsInv, ToldIsThere, OthersGone, DisabledThere
<1> QED
  BY <1>5, <1>6

LEMMA NoteAgrees ==
  ASSUME MetricsInv, NEW i \in DOMAIN reports, Note(i)
  PROVE  MetricsInv'
<1>1. /\ UNCHANGED <<setting, issued, refused, resumed>> /\ UNCHANGED enabled
      /\ reports[i] = "told" /\ data' = Answered
      /\ reports' = [reports EXCEPT ![i] = "over"]
  BY DEF Note
<1>2. /\ reports' \in Seq(Report) /\ DOMAIN reports' = DOMAIN reports /\ setting \in Setting
      /\ setting # "stopped"
      /\ \A j \in DOMAIN reports : reports'[j] = IF j = i THEN "over" ELSE reports[j]
  BY <1>1, ReportChanges DEF Report
<1>3. EnabledTyped' /\ \A j : (Gone(j)' <=> Gone(j)) /\ (Running(j)' <=> Running(j))
  BY <1>1, SiteStays DEF MetricsInv
<1>4. data \in Data /\ data.uuid <= issued /\ issued \in Nat /\ MaxIds \in Nat
  BY MetricsAssumption DEF MetricsInv, MetricsTyped
<1>5. CASE setting = "on"
  <2>1. data' = data
    BY <1>1, <1>5 DEF Answered
  <2> QED
    BY <1>1, <1>2, <1>3, <2>1
       DEF MetricsInv, MetricsTyped, ToldIsThere, SwitchedOn, OthersGone, DisabledThere
<1>6. CASE setting = "off"
  <2>1. data' \in Data /\ data'.uuid = data.uuid
    BY <1>1, <1>4, <1>6 DEF Answered, Data
  <2>2. data.uuid # NoId => ~Running(data.uuid) \/ refused
    BY <1>1, <1>6 DEF MetricsInv, ToldIsThere
  <2> QED
    BY <1>1, <1>2, <1>3, <1>6, <2>1, <2>2
       DEF MetricsInv, MetricsTyped, ToldIsThere, SwitchedOn, OthersGone, DisabledThere
<1>7. CASE setting = "destroy"
  <2>1. data' = [uuid |-> NoId, status |-> "disabled"]
    BY <1>1, <1>7 DEF Answered
  <2>2. data' \in Data /\ data'.uuid = NoId /\ NoId <= issued
    BY <1>4, <2>1 DEF Data, NoId
  <2>3. data.uuid # NoId => Gone(data.uuid)
    BY <1>1, <1>7 DEF MetricsInv, ToldIsThere
  <2>4. \A j \in 1 .. MaxIds : Gone(j)
    BY <2>3 DEF MetricsInv, OthersGone, NoId
  <2> QED
    BY <1>1, <1>2, <1>3, <1>4, <2>2, <2>4
       DEF MetricsInv, MetricsTyped, ToldIsThere, SwitchedOn, OthersGone, DisabledThere
<1> QED
  BY <1>2, <1>5, <1>6, <1>7 DEF Setting

LEMMA MetricsStep == MetricsInv /\ [Next]_vars => MetricsInv'
<1> SUFFICES ASSUME MetricsInv, [Next]_vars PROVE MetricsInv'
  OBVIOUS
<1>1. CASE UNCHANGED metricsVars
  BY <1>1 DEF metricsVars, MetricsInv, MetricsTyped, EnabledTyped, ToldIsThere, SwitchedOn, OthersGone,
          DisabledThere, Gone, Running
<1>2. CASE MetricsRun
  BY <1>2, StartAgrees, TickAgrees, FailsAgrees, PostAgrees, NoteAgrees DEF MetricsRun, ReportStep
<1>3. CASE End
  BY <1>3, MetricsEndAgrees DEF End
<1> QED
  BY <1>1, <1>2, <1>3 DEF Next, vars, Bot, Manage, Browse

LEMMA MetricsInitially == Init => MetricsInv
BY MetricsAssumption
   DEF Init, MetricsInit, MetricsInv, MetricsTyped, EnabledTyped, ToldIsThere, SwitchedOn, OthersGone,
       DisabledThere, Gone, Data, Setting, NoId

\* Whatever answers are lost, reports overlap and runs of the bot follow one
\* another: what the bot has recorded of the web site is true there, but for
\* refusals and for a bot that was switched on again.
THEOREM RecordsOfTheSiteAreTrue == Spec => []SiteKnows
<1>1. MetricsInv => SiteKnows
  BY DEF MetricsInv, OthersGone, DisabledThere, Gone, Running, SiteKnows
<1> QED
  BY <1>1, MetricsInitially, MetricsStep, PTL DEF Spec

-----------------------------------------------------------------------------
(***************************************************************************)
(* The cookies                                                             *)
(***************************************************************************)
JarState == [of : Jar, cookies : [Site -> Nat]]
FetchState == [site : Site, jar : Nat, answered : BOOLEAN]

CookiesTyped ==
  /\ given \in Nat
  /\ cookieFile \in [Jar -> [Site -> Nat]]
  /\ jars \in Seq(JarState)
  /\ fetches \in Seq(FetchState)
  /\ shared \in [Jar -> Nat]

\* A site's next cookie is greater than all there are.
OldCookies ==
  \A s \in Site :
    /\ \A o \in DOMAIN jars : jars[o].cookies[s] <= given
    /\ \A j \in Jar : cookieFile[j][s] <= given

\* The jar that sessions share is ahead of its file.
Ahead ==
  \A j \in Jar :
    /\ shared[j] <= Len(jars)
    /\ shared[j] # 0 =>
         /\ jars[shared[j]].of = j
         /\ j \notin mixed =>
              \A s \in Site \ Fleeting : jars[shared[j]].cookies[s] >= cookieFile[j][s]

\* Of a file that is not mixed no fetch has another jar than that one.
FetchesShare ==
  \A i \in DOMAIN fetches :
    LET o == fetches[i].jar
    IN o # 0 => o <= Len(jars) /\ (jars[o].of \in mixed \/ shared[jars[o].of] = o)

CookiesInv == CookiesTyped /\ OldCookies /\ Ahead /\ FetchesShare

LEMMA JarFields ==
  ASSUME CookiesTyped
  PROVE  /\ \A r \in JarState : r.of \in Jar /\ r.cookies \in [Site -> Nat]
         /\ \A f \in FetchState : f.site \in Site /\ f.jar \in Nat
         /\ \A o \in DOMAIN jars : jars[o] \in JarState /\ jars[o].of \in Jar /\ jars[o].cookies \in [Site -> Nat]
         /\ \A i \in DOMAIN fetches : fetches[i] \in FetchState /\ fetches[i].jar \in Nat /\ fetches[i].site \in Site
         /\ DOMAIN jars = 1 .. Len(jars) /\ Len(jars) \in Nat
<1>1. /\ \A r \in JarState : r.of \in Jar /\ r.cookies \in [Site -> Nat]
      /\ \A f \in FetchState : f.site \in Site /\ f.jar \in Nat
  BY DEF JarState, FetchState
<1> QED
  BY <1>1 DEF CookiesTyped

\* The jars of fetches and of sessions are among those that were made.
LEMMA JarsAreMade ==
  ASSUME CookiesInv
  PROVE  /\ \A i \in DOMAIN fetches : fetches[i].jar # 0 => fetches[i].jar \in DOMAIN jars
         /\ \A j \in Jar : shared[j] # 0 => shared[j] \in DOMAIN jars
BY JarFields DEF CookiesInv, CookiesTyped, Ahead, FetchesShare

LEMMA GlobalIsJar == Global \in Jar
BY CookiesAssumption DEF Jar

\* A jar that is loaded is what is in its file.
LEMMA Loaded ==
  ASSUME CookiesTyped, OldCookies, NEW j \in Jar
  PROVE  /\ LoadedFrom(j) \in JarState
         /\ LoadedFrom(j).of = j
         /\ \A s \in Site : LoadedFrom(j).cookies[s] <= given
         /\ \A s \in Site \ Fleeting : LoadedFrom(j).cookies[s] = cookieFile[j][s]
BY JarFields DEF JarState, CookiesTyped, OldCookies, LoadedFrom

LEMMA StartSessionsAgrees ==
  ASSUME CookiesInv, StartSessions
  PROVE  CookiesInv'
<1>1. /\ jars = <<>> /\ jars' = <<LoadedFrom(Global)>>
      /\ shared' = [shared EXCEPT ![Global] = 1]
      /\ UNCHANGED <<cookieFile, fetches, given, mixed>>
  BY DEF StartSessions
<1>2. PICK l \in JarState :
        /\ l = LoadedFrom(Global) /\ l.of = Global
        /\ \A s \in Site : l.cookies[s] <= given
        /\ \A s \in Site \ Fleeting : l.cookies[s] = cookieFile[Global][s]
  BY GlobalIsJar, Loaded DEF CookiesInv
<1>3. jars' = <<l>> /\ Len(jars') = 1 /\ DOMAIN jars' = {1} /\ jars'[1] = l
  BY <1>1, <1>2
<1>4. \A j \in Jar : shared[j] = 0
  BY <1>1 DEF CookiesInv, CookiesTyped, Ahead
<1>5. /\ shared' \in [Jar -> Nat]
      /\ \A j \in Jar : shared'[j] = IF j = Global THEN 1 ELSE 0
  BY <1>1, <1>4, GlobalIsJar DEF CookiesInv, CookiesTyped
<1>6. \A i \in DOMAIN fetches : fetches[i].jar = 0
  BY <1>1, JarsAreMade, JarFields DEF CookiesInv, CookiesTyped, FetchesShare
<1>7. CookiesTyped' /\ OldCookies'
  BY <1>1, <1>2, <1>3, <1>5 DEF CookiesInv, CookiesTyped, OldCookies
<1>8. \A s \in Site : cookieFile[Global][s] \in Nat /\ l.cookies[s] \in Nat
  BY GlobalIsJar, JarFields DEF CookiesInv, CookiesTyped
<1>9. Ahead'
  BY <1>1, <1>2, <1>3, <1>5, <1>8 DEF Ahead
<1>10. FetchesShare'
  BY <1>1, <1>6 DEF FetchesShare
<1> QED
  BY <1>7, <1>9, <1>10 DEF CookiesInv

\* A fetch begins with the jar that is shared, or a new one.
LEMMA StartFetchAgrees ==
  ASSUME CookiesInv, NEW s \in Site, StartFetch(s)
  PROVE  CookiesInv'
<1> DEFINE j == JarOf[s]
           Begins(o) == fetches' = Append(fetches, [site |-> s, jar |-> o, answered |-> FALSE])
<1>1. /\ UNCHANGED <<cookieFile, given>>
      /\ mixed \subseteq mixed' /\ (OwnJar(s) => j \in mixed')
  BY DEF StartFetch, OwnJar
<1>2. ASSUME NEW o \in Nat, Begins(o)
      PROVE  /\ fetches' \in Seq(FetchState)
             /\ \A i \in DOMAIN fetches' :
                  \/ i \in DOMAIN fetches /\ fetches'[i].jar = fetches[i].jar
                  \/ fetches'[i].jar = o
  <2>1. [site |-> s, jar |-> o, answered |-> FALSE] \in FetchState
    BY DEF FetchState
  <2>2. PICK f : f = [site |-> s, jar |-> o, answered |-> FALSE]
    OBVIOUS
  <2>3. f \in FetchState /\ f.jar = o /\ fetches' = Append(fetches, f)
    BY <1>2, <2>1, <2>2
  <2> QED
    BY <2>3 DEF CookiesInv, CookiesTyped
<1>3. CASE \E o \in Nat : /\ Begins(o) /\ UNCHANGED <<jars, shared>>
                          /\ o = 0 \/ (j \in Jar /\ shared[j] = o)
  <2>1. PICK o \in Nat : Begins(o) /\ UNCHANGED <<jars, shared>> /\ (o = 0 \/ (j \in Jar /\ shared[j] = o))
    BY <1>3
  <2>2. o # 0 => o <= Len(jars) /\ jars[o].of = j
    BY <2>1 DEF CookiesInv, Ahead
  <2>3. CookiesTyped' /\ OldCookies' /\ Ahead'
    BY <1>1, <1>2, <2>1 DEF CookiesInv, CookiesTyped, OldCookies, Ahead
  <2>4. FetchesShare'
    BY <1>1, <1>2, <2>1, <2>2 DEF CookiesInv, FetchesShare
  <2> QED
    BY <2>3, <2>4 DEF CookiesInv
<1>4. CASE /\ j \in Jar /\ Begins(Len(jars')) /\ jars' = Append(jars, LoadedFrom(j))
           /\ shared' = IF OwnJar(s) THEN shared ELSE [shared EXCEPT ![j] = Len(jars')]
           /\ OwnJar(s) \/ shared[j] = 0
  <2>1. PICK l \in JarState :
          /\ l = LoadedFrom(j) /\ l.of = j
          /\ \A t \in Site : l.cookies[t] <= given
          /\ \A t \in Site \ Fleeting : l.cookies[t] = cookieFile[j][t]
    BY <1>4, Loaded DEF CookiesInv
  <2>2. PICK m \in Nat : m = Len(jars') /\ m = Len(jars) + 1
    BY <1>4, <2>1 DEF CookiesInv, CookiesTyped
  <2>3. /\ jars' \in Seq(JarState)
        /\ jars'[m] = l
        /\ \A o \in DOMAIN jars' : o = m \/ (o \in DOMAIN jars /\ jars'[o] = jars[o])
        /\ \A o \in DOMAIN jars : o # m /\ o \in DOMAIN jars' /\ jars'[o] = jars[o]
    BY <1>4, <2>1, <2>2 DEF CookiesInv, CookiesTyped
  <2>4. /\ shared' \in [Jar -> Nat]
        /\ \A k \in Jar : shared'[k] = IF k = j /\ ~OwnJar(s) THEN m ELSE shared[k]
    BY <1>4, <2>2 DEF CookiesInv, CookiesTyped
  <2>5. CookiesTyped'
    BY <1>1, <1>2, <1>4, <2>2, <2>3, <2>4 DEF CookiesInv, CookiesTyped
  <2>6. OldCookies'
    BY <1>1, <2>1, <2>3 DEF CookiesInv, OldCookies
  <2>7. \A k \in Jar : shared[k] # 0 => shared[k] \in DOMAIN jars
    BY DEF CookiesInv, CookiesTyped, Ahead
  <2>8. \A t \in Site : cookieFile[j][t] \in Nat /\ l.cookies[t] \in Nat
    BY <1>4, JarFields DEF CookiesInv, CookiesTyped
  <2>9. Ahead'
    <3> SUFFICES ASSUME NEW k \in Jar
                 PROVE  /\ shared'[k] <= Len(jars')
                        /\ shared'[k] # 0 =>
                             /\ jars'[shared'[k]].of = k
                             /\ k \notin mixed' => \A t \in Site \ Fleeting :
                                  jars'[shared'[k]].cookies[t] >= cookieFile'[k][t]
      BY DEF Ahead
    <3>1. CASE k = j /\ ~OwnJar(s)
      BY <1>1, <2>1, <2>2, <2>3, <2>4, <2>8, <3>1
    <3>2. CASE ~(k = j /\ ~OwnJar(s))
      <4>1. shared'[k] = shared[k] /\ shared[k] \in Nat
        BY <2>4, <3>2 DEF CookiesInv, CookiesTyped
      <4>2. shared[k] # 0 => jars'[shared[k]] = jars[shared[k]]
        BY <2>3, <2>7
      <4> QED
        BY <1>1, <2>2, <4>1, <4>2 DEF CookiesInv, CookiesTyped, Ahead
    <3> QED
      BY <3>1, <3>2
  <2>10. FetchesShare'
    <3>1. m # 0 => m <= Len(jars') /\ (jars'[m].of \in mixed' \/ shared'[jars'[m].of] = m)
      BY <1>1, <1>4, <2>1, <2>2, <2>3, <2>4
    <3>2. ASSUME NEW i \in DOMAIN fetches, fetches[i].jar # 0
          PROVE  LET o == fetches[i].jar
                 IN o <= Len(jars') /\ (jars'[o].of \in mixed' \/ shared'[jars'[o].of] = o)
      <4>1. PICK o \in DOMAIN jars : o = fetches[i].jar
        BY <3>2, JarsAreMade
      <4>2. /\ jars[o].of \in mixed \/ shared[jars[o].of] = o
            /\ jars[o].of \in Jar /\ o # 0 /\ jars'[o] = jars[o] /\ o <= Len(jars')
        BY <2>2, <2>3, <3>2, <4>1, JarFields DEF CookiesInv, CookiesTyped, FetchesShare
      <4> QED
        BY <1>1, <1>4, <2>4, <4>1, <4>2
    <3> QED
      <4>1. ASSUME NEW n \in DOMAIN fetches', fetches'[n].jar # 0
            PROVE  LET o == fetches'[n].jar
                   IN o <= Len(jars') /\ (jars'[o].of \in mixed' \/ shared'[jars'[o].of] = o)
        <5>1. \/ n \in DOMAIN fetches /\ fetches'[n].jar = fetches[n].jar
              \/ fetches'[n].jar = m
          BY <1>2, <1>4, <2>2
        <5> QED
          BY <3>1, <3>2, <4>1, <5>1
      <4> QED
        BY <4>1 DEF FetchesShare
  <2> QED
    BY <2>5, <2>6, <2>9, <2>10 DEF CookiesInv
<1>5. j = NoJar \/ j \in Jar
  BY DEF Jar
<1>6. j \in Jar => shared[j] \in Nat
  BY DEF CookiesInv, CookiesTyped
<1> QED
  BY <1>3, <1>4, <1>5, <1>6 DEF StartFetch

\* A new cookie is greater than those the site has given before.
LEMMA SiteAnswersAgrees ==
  ASSUME CookiesInv, NEW i \in DOMAIN fetches, NEW cookie \in BOOLEAN, SiteAnswers(i, cookie)
  PROVE  CookiesInv'
<1>1. UNCHANGED <<cookieFile, shared, mixed>> /\ fetches' = [fetches EXCEPT ![i].answered = TRUE]
  BY DEF SiteAnswers
<1>2. /\ fetches' \in Seq(FetchState)
      /\ DOMAIN fetches' = DOMAIN fetches
      /\ \A n \in DOMAIN fetches : fetches'[n].jar = fetches[n].jar
  <2>1. PICK f : f = [fetches[i] EXCEPT !.answered = TRUE]
    OBVIOUS
  <2>2. f \in FetchState /\ f.jar = fetches[i].jar
    BY <2>1, JarFields DEF CookiesInv, FetchState
  <2>3. fetches' = [fetches EXCEPT ![i] = f]
    BY <1>1, <2>1
  <2> QED
    BY <2>2, <2>3 DEF CookiesInv, CookiesTyped
<1>3. CASE UNCHANGED jars /\ given' \in {given, given + 1}
  <2>1. \A s \in Site :
          /\ \A o \in DOMAIN jars : jars[o].cookies[s] \in Nat
          /\ \A j \in Jar : cookieFile[j][s] \in Nat
    BY JarFields DEF CookiesInv, CookiesTyped
  <2>2. given \in Nat /\ given' \in Nat /\ given <= given'
    BY <1>3 DEF CookiesInv, CookiesTyped
  <2>3. CookiesTyped'
    BY <1>1, <1>2, <1>3, <2>2 DEF CookiesInv, CookiesTyped
  <2>4. OldCookies'
    BY <1>1, <1>3, <2>1, <2>2 DEF CookiesInv, OldCookies
  <2>5. Ahead'
    BY <1>1, <1>3 DEF CookiesInv, Ahead
  <2>6. FetchesShare'
    BY <1>1, <1>2, <1>3 DEF CookiesInv, FetchesShare
  <2> QED
    BY <2>3, <2>4, <2>5, <2>6 DEF CookiesInv
<1>4. CASE /\ fetches[i].jar # 0 /\ given' = given + 1
           /\ jars' = [jars EXCEPT ![fetches[i].jar].cookies[fetches[i].site] = given']
  <2>1. PICK o \in DOMAIN jars, s \in Site : o = fetches[i].jar /\ s = fetches[i].site
    BY <1>4, JarsAreMade, JarFields DEF CookiesInv
  <2>2. given \in Nat /\ given' \in Nat /\ given < given'
    BY <1>4 DEF CookiesInv, CookiesTyped
  <2>3. jars[o] \in JarState
    BY DEF CookiesInv, CookiesTyped
  <2>4. jars' = [jars EXCEPT ![o].cookies[s] = given']
    BY <1>4, <2>1
  <2>5. PICK r \in JarState :
          /\ r = [jars[o] EXCEPT !.cookies[s] = given'] /\ r.of = jars[o].of
          /\ \A t \in Site : r.cookies[t] = IF t = s THEN given' ELSE jars[o].cookies[t]
    <3>1. jars[o].of \in Jar /\ jars[o].cookies \in [Site -> Nat]
      BY JarFields DEF CookiesInv
    <3>2. PICK c \in [Site -> Nat] : c = [jars[o].cookies EXCEPT ![s] = given']
      BY <2>2, <3>1, Zenon
    <3>3. [jars[o] EXCEPT !.cookies[s] = given'] = [of |-> jars[o].of, cookies |-> c]
      BY <2>3, <3>2 DEF JarState
    <3>4. \A t \in Site : c[t] = IF t = s THEN given' ELSE jars[o].cookies[t]
      BY <3>1, <3>2
    <3> QED
      BY <3>1, <3>2, <3>3, <3>4 DEF JarState
  <2>6. /\ jars' \in Seq(JarState)
        /\ DOMAIN jars' = DOMAIN jars /\ Len(jars') = Len(jars)
        /\ \A n \in DOMAIN jars : jars'[n] = IF n = o THEN r ELSE jars[n]
    BY <2>4, <2>5 DEF CookiesInv, CookiesTyped
  <2>7. ASSUME NEW n \in DOMAIN jars, NEW t \in Site
        PROVE  /\ jars'[n].of = jars[n].of
               /\ jars[n].cookies[t] <= jars'[n].cookies[t] /\ jars'[n].cookies[t] <= given'
               /\ jars[n].cookies[t] \in Nat /\ jars'[n].cookies[t] \in Nat
    <3>1. jars[n].cookies[t] \in Nat /\ jars[n].cookies[t] <= given
      BY JarFields DEF CookiesInv, CookiesTyped, OldCookies
    <3> QED
      <4>1. CASE n = o
        <5>1. jars'[n].of = jars[n].of /\ jars'[n].cookies[t] = IF t = s THEN given' ELSE jars[n].cookies[t]
          BY <2>5, <2>6, <4>1
        <5> QED
          BY <2>2, <3>1, <5>1
      <4>2. CASE n # o
        <5>1. jars'[n] = jars[n]
          BY <2>6, <4>2
        <5> QED
          BY <2>2, <3>1, <5>1
      <4> QED
        BY <4>1, <4>2
  <2>8. \A n \in DOMAIN jars : jars'[n].of = jars[n].of
    BY <2>5, <2>6
  <2>9. CookiesTyped'
    BY <1>1, <1>2, <2>2, <2>6 DEF CookiesInv, CookiesTyped
  <2>10. OldCookies'
    BY <1>1, <2>2, <2>6, <2>7 DEF CookiesInv, CookiesTyped, OldCookies
  <2>11. Ahead'
    <3>1. ASSUME NEW k \in Jar, shared[k] # 0
          PROVE  shared[k] \in DOMAIN jars
      BY <3>1 DEF CookiesInv, CookiesTyped, Ahead
    <3>2. \A k \in Jar, t \in Site : cookieFile[k][t] \in Nat
      BY DEF CookiesInv, CookiesTyped
    <3> QED
      <4> SUFFICES ASSUME NEW k \in Jar
                   PROVE  /\ shared[k] <= Len(jars')
                          /\ shared[k] # 0 =>
                               /\ jars'[shared[k]].of = k
                               /\ k \notin mixed => \A t \in Site \ Fleeting :
                                    jars'[shared[k]].cookies[t] >= cookieFile[k][t]
        BY <1>1 DEF Ahead
      <4>1. CASE shared[k] = 0
        BY <2>6, <4>1 DEF CookiesInv, Ahead
      <4>2. CASE shared[k] # 0
        <5>1. PICK n \in DOMAIN jars : n = shared[k]
          BY <3>1, <4>2
        <5>2. /\ jars[n].of = k /\ n <= Len(jars)
              /\ k \notin mixed => \A t \in Site \ Fleeting : jars[n].cookies[t] >= cookieFile[k][t]
          BY <4>2, <5>1 DEF CookiesInv, Ahead
        <5>3. \A t \in Site \ Fleeting :
                jars[n].cookies[t] >= cookieFile[k][t] => jars'[n].cookies[t] >= cookieFile[k][t]
          BY <2>7, <3>2
        <5> QED
          BY <2>6, <2>8, <5>1, <5>2, <5>3
      <4> QED
        BY <4>1, <4>2
  <2>12. FetchesShare'
    <3>1. \A n \in DOMAIN fetches : fetches[n].jar # 0 => fetches[n].jar \in DOMAIN jars
      BY JarsAreMade
    <3> QED
      BY <1>1, <1>2, <2>6, <2>8, <3>1 DEF CookiesInv, FetchesShare
  <2> QED
    BY <2>9, <2>10, <2>11, <2>12 DEF CookiesInv
<1> QED
  BY <1>3, <1>4 DEF SiteAnswers

\* What a fetch saves is the jar that is shared, or of a file that is mixed.
LEMMA FetchSaves ==
  ASSUME CookiesInv, NEW i \in DOMAIN fetches, NEW saves \in BOOLEAN, FetchEnds(i, saves)
  PROVE  /\ cookieFile' \in [Jar -> [Site -> Nat]]
         /\ \A j \in Jar :
              \/ cookieFile'[j] = cookieFile[j]
              \/ \E o \in DOMAIN jars :
                   /\ cookieFile'[j] = jars[o].cookies
                   /\ j \in mixed \/ (o # 0 /\ shared[j] = o)
<1>1. CASE UNCHANGED cookieFile
  BY <1>1 DEF CookiesInv, CookiesTyped
<1>2. CASE fetches[i].jar # 0 /\ SaveJar(fetches[i].jar) /\ cookieFile' # cookieFile
  <2>1. PICK o \in DOMAIN jars : o = fetches[i].jar /\ o # 0
    BY <1>2, JarsAreMade
  <2>2. jars[o].of \in Jar /\ jars[o].cookies \in [Site -> Nat]
    BY JarFields DEF CookiesInv, CookiesTyped
  <2>3. cookieFile' = [cookieFile EXCEPT ![jars[o].of] = jars[o].cookies]
    BY <1>2, <2>1 DEF SaveJar
  <2>4. jars[o].of \in mixed \/ shared[jars[o].of] = o
    BY <2>1 DEF CookiesInv, FetchesShare
  <2> QED
    BY <2>1, <2>2, <2>3, <2>4 DEF CookiesInv, CookiesTyped
<1> QED
  BY <1>1, <1>2 DEF FetchEnds

LEMMA FetchEndsAgrees ==
  ASSUME CookiesInv, NEW i \in DOMAIN fetches, NEW saves \in BOOLEAN, FetchEnds(i, saves)
  PROVE  CookiesInv'
<1>1. /\ UNCHANGED <<jars, shared, given, mixed>>
      /\ fetches' = [n \in 1 .. Len(fetches) - 1 |-> fetches[IF n < i THEN n ELSE n + 1]]
  BY DEF FetchEnds
<1>2. fetches \in Seq(FetchState) /\ Len(fetches) - 1 \in Nat
  BY DEF CookiesInv, CookiesTyped
<1>3. /\ fetches' \in Seq(FetchState)
      /\ \A n \in DOMAIN fetches' : \E m \in DOMAIN fetches : fetches'[n] = fetches[m]
  BY <1>1, <1>2
<1>4. FetchesShare'
  BY <1>1, <1>3 DEF CookiesInv, FetchesShare
<1>5. CookiesTyped'
  BY <1>1, <1>3, FetchSaves DEF CookiesInv, CookiesTyped
<1>6. OldCookies'
  BY <1>1, FetchSaves DEF CookiesInv, OldCookies
<1>7. Ahead'
  <2>1. \A j \in Jar : shared[j] # 0 => shared[j] \in DOMAIN jars
    BY DEF CookiesInv, CookiesTyped, Ahead
  <2>2. \A o \in DOMAIN jars, s \in Site : jars[o].cookies[s] \in Nat
    BY JarFields DEF CookiesInv, CookiesTyped
  <2> QED
    BY <1>1, <2>1, <2>2, FetchSaves DEF CookiesInv, Ahead
<1> QED
  BY <1>4, <1>5, <1>6, <1>7 DEF CookiesInv

\* What a reload saves are the jars that are shared.
LEMMA ReloadSaves ==
  ASSUME CookiesInv, ReloadSessions
  PROVE  /\ cookieFile' \in [Jar -> [Site -> Nat]]
         /\ \A j \in Jar :
              \/ cookieFile'[j] = cookieFile[j]
              \/ shared[j] \in DOMAIN jars /\ cookieFile'[j] = jars[shared[j]].cookies
<1>1. \A j \in Jar : shared[j] # 0 => shared[j] \in DOMAIN jars
  BY DEF CookiesInv, CookiesTyped, Ahead
<1>2. \A o \in DOMAIN jars : jars[o].cookies \in [Site -> Nat]
  BY JarFields DEF CookiesInv, CookiesTyped
<1>3. cookieFile' = [j \in Jar |->
        IF shared[j] # 0 /\ SavesTo(j) THEN jars[shared[j]].cookies ELSE cookieFile[j]]
  BY DEF ReloadSessions
<1> QED
  BY <1>1, <1>2, <1>3 DEF CookiesInv, CookiesTyped

LEMMA ReloadAgrees == ASSUME CookiesInv, ReloadSessions PROVE CookiesInv'
<1>1. /\ UNCHANGED <<fetches, given>>
      /\ shared' = [j \in Jar |-> IF j = Global THEN Len(jars') ELSE 0]
      /\ mixed' = mixed \cup {jars[fetches[i].jar].of : i \in {i \in DOMAIN fetches : fetches[i].jar # 0}}
  BY DEF ReloadSessions
<1>2. PICK l \in JarState :
        /\ jars' = Append(jars, l) /\ l.of = Global
        /\ \A s \in Site : l.cookies[s] = IF s \in Fleeting THEN 0 ELSE cookieFile'[Global][s]
  <2>1. [s \in Site |-> IF s \in Fleeting THEN 0 ELSE cookieFile'[Global][s]] \in [Site -> Nat]
    BY ReloadSaves, GlobalIsJar
  <2>2. PICK l : l = [of |-> Global, cookies |->
                        [s \in Site |-> IF s \in Fleeting THEN 0 ELSE cookieFile'[Global][s]]]
    OBVIOUS
  <2>3. /\ l \in JarState /\ l.of = Global
        /\ \A s \in Site : l.cookies[s] = IF s \in Fleeting THEN 0 ELSE cookieFile'[Global][s]
    BY <2>1, <2>2, GlobalIsJar DEF JarState
  <2>4. jars' = Append(jars, l)
    BY <2>2 DEF ReloadSessions
  <2> QED
    BY <2>3, <2>4
<1>3. PICK m \in Nat : m = Len(jars') /\ m = Len(jars) + 1
  BY <1>2 DEF CookiesInv, CookiesTyped
<1>4. /\ jars' \in Seq(JarState) /\ jars'[m] = l
      /\ \A o \in DOMAIN jars' : o = m \/ (o \in DOMAIN jars /\ jars'[o] = jars[o])
      /\ \A o \in DOMAIN jars : jars'[o] = jars[o]
  BY <1>2, <1>3 DEF CookiesInv, CookiesTyped
<1>5. /\ shared' \in [Jar -> Nat]
      /\ \A j \in Jar : shared'[j] = IF j = Global THEN m ELSE 0
  BY <1>1, <1>3
<1>6. CookiesTyped'
  BY <1>1, <1>4, <1>5, ReloadSaves DEF CookiesInv, CookiesTyped
<1>7. \A j \in Jar, s \in Site : cookieFile'[j][s] <= given
  BY ReloadSaves DEF CookiesInv, OldCookies
<1>8. \A s \in Site : l.cookies[s] <= given
  <2>1. \A s \in Site : cookieFile'[Global][s] <= given /\ 0 <= given
    BY <1>7, GlobalIsJar DEF CookiesInv, CookiesTyped
  <2> QED
    BY <1>2, <2>1
<1>9. OldCookies'
  BY <1>1, <1>4, <1>7, <1>8 DEF CookiesInv, OldCookies
<1>10. \A s \in Site : cookieFile'[Global][s] \in Nat
  BY ReloadSaves, GlobalIsJar
<1>11. Ahead'
  BY <1>2, <1>3, <1>4, <1>5, <1>10 DEF Ahead
<1>12. FetchesShare'
  <2> SUFFICES ASSUME NEW i \in DOMAIN fetches, fetches[i].jar # 0
               PROVE  fetches[i].jar <= Len(jars') /\ jars'[fetches[i].jar].of \in mixed'
    BY <1>1 DEF FetchesShare
  <2>1. fetches[i].jar \in DOMAIN jars
    BY JarsAreMade
  <2> QED
    <3>1. jars'[fetches[i].jar] = jars[fetches[i].jar] /\ fetches[i].jar <= Len(jars')
      BY <1>3, <1>4, <2>1, JarFields DEF CookiesInv
    <3>2. jars[fetches[i].jar].of \in mixed'
      BY <1>1
    <3> QED
      BY <3>1, <3>2
<1> QED
  BY <1>6, <1>9, <1>11, <1>12 DEF CookiesInv

LEMMA CookiesEndAgrees == ASSUME CookiesInv, CookiesEnd PROVE CookiesInv'
BY DEF CookiesEnd, CookiesInv, CookiesTyped, OldCookies, Ahead, FetchesShare

LEMMA CookieSteps ==
  ASSUME [Next]_vars
  PROVE  \/ StartSessions \/ ReloadSessions \/ CookiesEnd \/ UNCHANGED cookieVars
         \/ \E s \in Site : StartFetch(s)
         \/ \E i \in DOMAIN fetches, b \in BOOLEAN : SiteAnswers(i, b) \/ FetchEnds(i, b)
BY DEF Next, vars, Bot, MetricsRun, Manage, Browse, End, FetchStep

LEMMA CookiesStep == CookiesInv /\ [Next]_vars => CookiesInv'
<1> SUFFICES ASSUME CookiesInv, [Next]_vars PROVE CookiesInv'
  OBVIOUS
<1>1. CASE UNCHANGED cookieVars
  BY <1>1 DEF cookieVars, CookiesInv, CookiesTyped, OldCookies, Ahead, FetchesShare
<1> QED
  BY <1>1, CookieSteps, StartSessionsAgrees, StartFetchAgrees, SiteAnswersAgrees, FetchEndsAgrees,
     ReloadAgrees, CookiesEndAgrees

LEMMA CookiesInitially == Init => CookiesInv
BY DEF Init, CookiesInit, CookiesInv, CookiesTyped, OldCookies, Ahead, FetchesShare

\* However fetches overlap and fail, and the bot is reloaded and restarted: a
\* file of cookies never goes back to an older one of a site, but for files of
\* which there were copies.
THEOREM NoCookieIsLost == Spec => CookiesAreKept
<1>1. ASSUME CookiesInv, [Next]_vars, NEW j \in Jar, NEW s \in Site \ Fleeting, j \notin mixed
      PROVE  cookieFile'[j][s] >= cookieFile[j][s]
  <2>1. cookieFile[j][s] \in Nat
    BY <1>1 DEF CookiesInv, CookiesTyped
  <2>2. shared[j] # 0 => jars[shared[j]].cookies[s] >= cookieFile[j][s]
    BY <1>1 DEF CookiesInv, Ahead
  <2>3. CASE cookieFile'[j] = cookieFile[j]
    BY <2>1, <2>3
  <2>4. CASE ReloadSessions
    <3>1. \/ cookieFile'[j] = cookieFile[j]
          \/ shared[j] \in DOMAIN jars /\ cookieFile'[j] = jars[shared[j]].cookies
      BY <1>1, <2>4, ReloadSaves
    <3>2. shared[j] \in DOMAIN jars => shared[j] # 0
      BY <1>1, JarFields DEF CookiesInv
    <3> QED
      BY <2>1, <2>2, <3>1, <3>2
  <2>5. CASE \E i \in DOMAIN fetches, b \in BOOLEAN : FetchEnds(i, b)
    BY <1>1, <2>1, <2>2, <2>5, FetchSaves
  <2> QED
    BY <1>1, <2>3, <2>4, <2>5, CookieSteps
       DEF StartSessions, StartFetch, SiteAnswers, CookiesEnd, cookieVars
<1>2. CookiesInv /\ [Next]_vars =>
        [\A j \in Jar, s \in Site \ Fleeting :
           j \notin mixed' => cookieFile'[j][s] >= cookieFile[j][s]]_vars
  <2>1. ASSUME [Next]_vars PROVE mixed \subseteq mixed' \/ UNCHANGED cookieFile
    BY <2>1, CookieSteps
       DEF StartSessions, StartFetch, SiteAnswers, FetchEnds, ReloadSessions, CookiesEnd, cookieVars
  <2> SUFFICES ASSUME CookiesInv, [Next]_vars, NEW j \in Jar, NEW s \in Site \ Fleeting, j \notin mixed'
               PROVE  cookieFile'[j][s] >= cookieFile[j][s]
    OBVIOUS
  <2>2. CASE j \notin mixed
    BY <1>1, <2>2
  <2>3. CASE UNCHANGED cookieFile
    BY <2>3 DEF CookiesInv, CookiesTyped
  <2> QED
    BY <2>1, <2>2, <2>3
<1> QED
  BY <1>2, CookiesInitially, CookiesStep, PTL DEF Spec, CookiesAreKept
=============================================================================
