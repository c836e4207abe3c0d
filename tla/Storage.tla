------------------------------ MODULE Storage ------------------------------
(***************************************************************************)
(* The storage manager and the files it gives out (system/storage): data   *)
(* files, which are loaded, changed inside `with` blocks and saved when a  *)
(* block ends, and configuration, which is only read.  Whoever asks for a  *)
(* file shares one object per path, until the plugin that opened it is     *)
(* unloaded: then the manager forgets the object, but others may hold it.  *)
(*                                                                         *)
(* What a file says is a number: the changes so far that it has seen last. *)
(* Blocks are run to their end by the reactor's thread.                    *)
(***************************************************************************)
EXTENDS Integers, Sequences

CONSTANTS
  DataFile, ConfigFile,  \* paths, once to_filename has filtered them
  JSON,         \* the files in JSON; the others are YAML
  User,         \* the plugins that use files, by class
  Nobody,
  MaxChanges,   \* bound: changes of what files say
  MaxObjects    \* bound: objects in one run of the bot

File == DataFile \cup ConfigFile

ASSUME StorageAssumption ==
  /\ DataFile \cap ConfigFile = {} /\ JSON \subseteq File /\ Nobody \notin User
  /\ {MaxChanges, MaxObjects} \subseteq Nat

\* What else may be at a path: nothing, an empty file, and one that cannot be
\* parsed.  0 is an empty dictionary.
Missing == -3
Emptied == -2
Broken == -1
Content == Missing .. MaxChanges

VARIABLES
  disk,      \* what is at each path
  changes,   \* changes so far
  objects,   \* YamlData and the like that were made, of which
  tracked,   \* ... data_files and config_files have this one, or 0,
  owner,     \* ... with the plugin that asked first,
  held,      \* ... and a plugin holds this one, or 0
  astray     \* files changed otherwise than through the tracked object, and
             \* not read since

storageVars == <<disk, changes, objects, tracked, owner, held, astray>>

Object == [file : File, data : 0 .. MaxChanges]

StorageInit ==
  /\ disk \in [File -> {Missing, Broken, 0}]
  /\ changes = 0
  /\ objects = <<>>
  /\ tracked = [f \in File |-> 0]
  /\ owner = [f \in File |-> Nobody]
  /\ held = [u \in User |-> [f \in File |-> 0]]
  /\ astray = {}

-----------------------------------------------------------------------------
(***************************************************************************)
(* Reading                                                                 *)
(***************************************************************************)
\* json.load and yaml.load: an empty file is nothing in YAML, and no JSON.
Loads(f, c) == c # Broken /\ (f \in JSON => c # Emptied)
Parsed(c) == IF c < 0 THEN 0 ELSE c

\* Data files are made when they are missing: an empty one, or one that says
\* that it is empty.  A configuration that is missing is left so.
Made(f) ==
  IF disk[f] # Missing \/ f \in ConfigFile THEN disk[f]
  ELSE IF f \in JSON THEN 0 ELSE Emptied

\* A StorageFile: it makes the object, loads it, gets an owner and is ready.
Track(u, f) ==
  /\ objects' = Append(objects, [file |-> f, data |-> Parsed(Made(f))])
  /\ tracked' = [tracked EXCEPT ![f] = Len(objects')]
  /\ owner' = [owner EXCEPT ![f] = u]
  /\ astray' = astray \ {f}

\* get_file: an object that is tracked is given to anybody.  What does not
\* load is not tracked, and whoever asked gets an exception.
GetFile(u, f) ==
  /\ held[u][f] = 0
  /\ IF tracked[f] # 0
       THEN /\ held' = [held EXCEPT ![u][f] = tracked[f]]
            /\ UNCHANGED <<disk, objects, tracked, owner, astray>>
       ELSE /\ Len(objects) < MaxObjects
            /\ disk' = [disk EXCEPT ![f] = Made(f)]
            /\ IF ~Loads(f, Made(f)) THEN UNCHANGED <<objects, tracked, owner, held, astray>>
               ELSE Track(u, f) /\ held' = [held EXCEPT ![u][f] = Len(objects')]
  /\ UNCHANGED changes

\* The file of an object is read, for reload() or after a write(): missing or
\* broken, it leaves the data as it was.
IsRead(f, c) == Loads(f, c) /\ ~(f \in ConfigFile /\ c = Missing)

Reread(o, c) ==
  [objects EXCEPT ![o].data = IF IsRead(objects[o].file, c) THEN Parsed(c) ELSE @]

Reload(u, f) ==
  LET o == held[u][f]
  IN /\ o # 0
     /\ disk' = [disk EXCEPT ![f] = Made(f)]
     /\ objects' = Reread(o, Made(f))
     /\ astray' = IF tracked[f] = o /\ IsRead(f, Made(f)) THEN astray \ {f} ELSE astray
     /\ UNCHANGED <<changes, tracked, owner, held>>

-----------------------------------------------------------------------------
(***************************************************************************)
(* Writing                                                                 *)
(***************************************************************************)
\* Whether f now says what its tracked object o has, or somebody else's words.
Marked(o, f) == IF tracked[f] = o THEN astray \ {f} ELSE astray \cup {f}

\* __exit__ saves, whether or not the block raised an exception.
Saved(o, f, raised) == objects'[o].data

\* A block changes the data, also when it raises an exception halfway.
Block(u, f, raised) ==
  LET o == held[u][f]
  IN /\ f \in DataFile /\ o # 0 /\ changes < MaxChanges
     /\ changes' = changes + 1
     /\ objects' = [objects EXCEPT ![o].data = changes']
     /\ disk' = [disk EXCEPT ![f] = Saved(o, f, raised)]
     /\ astray' = Marked(o, f)
     /\ UNCHANGED <<tracked, owner, held>>

\* The same, but the disk is full: the file was emptied before.
BlockFails(u, f) ==
  LET o == held[u][f]
  IN /\ f \in DataFile /\ o # 0 /\ changes < MaxChanges
     /\ changes' = changes + 1
     /\ objects' = [objects EXCEPT ![o].data = changes']
     /\ disk' = [disk EXCEPT ![f] = Emptied]
     /\ astray' = astray \cup {f}
     /\ UNCHANGED <<tracked, owner, held>>

WritesOutsideOfABlockBug(o, f, text) == text

\* write(): the text of a data file is written inside of a block and read
\* again; the end of the block saves what the data is then.
Written(o, f, text) == IF f \in DataFile THEN objects'[o].data ELSE text

\* An interface that edits files gives write() the text of f; text that does
\* not parse raises an exception.
Write(u, f, broken) ==
  LET o == held[u][f]
      text == IF broken THEN Broken ELSE changes + 1
  IN /\ o # 0 /\ (broken \/ changes < MaxChanges)
     /\ changes' = IF broken THEN changes ELSE changes + 1
     /\ objects' = Reread(o, text)
     /\ disk' = [disk EXCEPT ![f] = Written(o, f, text)]
     /\ astray' = IF broken /\ f \in ConfigFile THEN astray \cup {f} ELSE Marked(o, f)
     /\ UNCHANGED <<tracked, owner, held>>

-----------------------------------------------------------------------------
(***************************************************************************)
(* Coming and going                                                        *)
(***************************************************************************)
\* The manager lets go of files.
LetGo(F) ==
  /\ tracked' = [f \in File |-> IF f \in F THEN 0 ELSE tracked[f]]
  /\ owner' = [f \in File |-> IF f \in F THEN Nobody ELSE owner[f]]
  /\ UNCHANGED <<disk, changes, objects, astray>>

\* release_files, when a plugin is unloaded: by the class of the owner.
ReleaseFiles(u) ==
  /\ LetGo({f \in File : owner[f] = u})
  /\ held' = [held EXCEPT ![u] = [f \in File |-> 0]]

\* release_file, by whoever says that it is done with a configuration.
ReleaseFile(f) ==
  /\ f \in ConfigFile /\ tracked[f] # 0
  /\ LetGo({f})
  /\ UNCHANGED held

\* Somebody edits, breaks or removes a file.
Edit(f) ==
  /\ \/ changes < MaxChanges /\ changes' = changes + 1 /\ disk' = [disk EXCEPT ![f] = changes']
     \/ UNCHANGED changes /\ disk' \in {[disk EXCEPT ![f] = c] : c \in {Missing, Broken}}
  /\ astray' = astray \cup {f}
  /\ UNCHANGED <<objects, tracked, owner, held>>

\* The bot ends, or is killed while it saves a file: that one is empty then.
BotEnds ==
  /\ disk' \in {disk} \cup {[disk EXCEPT ![f] = Emptied] : f \in {objects[o].file : o \in DOMAIN objects} \cap DataFile}
  /\ objects' = <<>>
  /\ tracked' = [f \in File |-> 0]
  /\ owner' = [f \in File |-> Nobody]
  /\ held' = [u \in User |-> [f \in File |-> 0]]
  /\ astray' = {}
  /\ UNCHANGED changes

StorageStep ==
  \/ \E u \in User, f \in File :
       \/ GetFile(u, f) \/ Reload(u, f) \/ BlockFails(u, f)
       \/ \E b \in BOOLEAN : Block(u, f, b) \/ Write(u, f, b)
  \/ \E u \in User : ReleaseFiles(u)
  \/ \E f \in File : ReleaseFile(f) \/ Edit(f)

StorageTypeOK ==
  /\ disk \in [File -> Content]
  /\ changes \in 0 .. MaxChanges
  /\ objects \in Seq(Object) /\ Len(objects) <= MaxObjects
  /\ tracked \in [File -> 0 .. MaxObjects]
  /\ owner \in [File -> User \cup {Nobody}]
  /\ held \in [User -> [File -> 0 .. MaxObjects]]
  /\ astray \subseteq File

-----------------------------------------------------------------------------
StorageSpec == StorageInit /\ [][StorageStep \/ BotEnds]_storageVars

\* What plugins share is what the file says, and it can be loaded again: after
\* blocks that raise exceptions, texts of data files that do not parse, and
\* reloads.  Only a full disk, an edit, a configuration written so that it does
\* not parse, or an object that outlived its release comes between.
SharedIsOnDisk ==
  \A f \in File : tracked[f] # 0 /\ f \notin astray =>
    Loads(f, disk[f]) /\ objects[tracked[f]].data = Parsed(disk[f])
=============================================================================
