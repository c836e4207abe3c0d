------------------------------ MODULE Accounts ------------------------------
(***************************************************************************)
(* The auth plugin's accounts (plugins/auth) and the YAML files they are   *)
(* kept in (YamlData in system/storage/data): registering, logging in and  *)
(* out, changing passwords, and what a crash leaves behind.                *)
(*                                                                         *)
(* Every `with data:` block ends in a save, also one that only reads, and  *)
(* a save empties the file before it writes it.  A command runs to its end *)
(* in the reactor's thread, so its effect on memory is one step; its saves *)
(* are queued, each is two steps, and a crash may come before any of them. *)
(* A file is smaller than a write buffer: a crash leaves all or nothing.   *)
(***************************************************************************)
EXTENDS Integers, Sequences, FiniteSets

CONSTANTS
  Account,
  Superadmin,  \* the default account
  Password,    \* what people choose
  Generated,   \* what mkpasswd makes
  Person,      \* User objects
  Nobody,      \* no account, no password
  NDefaults    \* how many permissions the default group gets

ASSUME AccountAssumption == Superadmin \in Account /\ Nobody \notin Account
ASSUME PasswordAssumption == {Generated, Nobody} \cap Password = {} /\ Generated # Nobody
ASSUME DefaultsAssumption == NDefaults \in Nat \ {0}

VARIABLES
  up,      \* whether the plugin is set up
  mem,     \* the data of the three YamlData objects
  disk,    \* their files
  queue,   \* the saves still to be made: <<file, contents>>
  torn,    \* whether the first of them has emptied its file
  auth,    \* the account each person is logged in to (authorized, auth_name)
  users,   \* authHandler.users
  \* History: the password last confirmed for each account, the passwords
  \* given away in channels, the account an unfinished command is about, and
  \* whether a crash has cut a command short.
  told, given, inFlight, cut

files == <<mem, disk, queue, torn>>
sessions == <<auth, users>>
history == <<told, given, inFlight, cut>>
vars == <<up, files, sessions, history>>

Hash == [password : Password \cup {Generated}, algo : {"old", "configured"}]

ASSUME NobodyAssumption == Nobody \notin Hash \cup [Account -> SUBSET Password]

\* passwords.yml, permissions.yml and blacklist.yml.  The number of the default
\* group's permissions is -1 when there are no groups.
Contents ==
  [passwords : [Account -> Hash \cup {Nobody}],
   permissions : [defaults : -1..NDefaults,
                  users : [Account -> {"none", "plain", "superadmin"}]],
   blacklist : [Account -> SUBSET Password] \cup {Nobody}]

Empty ==
  [passwords |-> [u \in Account |-> Nobody],
   permissions |-> [defaults |-> -1, users |-> [u \in Account |-> "none"]],
   blacklist |-> Nobody]

TypeOK ==
  /\ up \in BOOLEAN
  /\ mem \in Contents
  /\ disk \in Contents
  /\ \A i \in DOMAIN queue :
       queue[i][1] \in DOMAIN Empty /\ [Empty EXCEPT ![queue[i][1]] = queue[i][2]] \in Contents
  /\ torn \in BOOLEAN
  /\ auth \in [Person -> Account \cup {Nobody}]
  /\ users \in [Account -> SUBSET Person]
  /\ told \in [Account -> Password \cup {Generated, Nobody}]
  /\ given \in [Account -> SUBSET Password]
  /\ inFlight \in Account \cup {Nobody}
  /\ cut \in BOOLEAN

\* A new installation, or one whose accounts were made with another algorithm.
Init ==
  /\ up = FALSE
  /\ mem = Empty
  /\ \E old \in SUBSET (Account \ {Superadmin}), x \in Password :
       /\ disk = IF old = {} THEN Empty ELSE
            [passwords |-> [u \in Account |->
                 IF u \in old THEN [password |-> x, algo |-> "old"] ELSE Nobody],
             permissions |-> [defaults |-> NDefaults,
                 users |-> [u \in Account |-> IF u \in old THEN "plain" ELSE "none"]],
             blacklist |-> [u \in Account |-> {}]]
       /\ told = [u \in Account |-> IF u \in old THEN x ELSE Nobody]
  /\ queue = <<>>
  /\ torn = FALSE
  /\ auth = [p \in Person |-> Nobody]
  /\ users = [u \in Account |-> {}]
  /\ given = [u \in Account |-> {}]
  /\ inFlight = Nobody
  /\ cut = FALSE

-----------------------------------------------------------------------------
(***************************************************************************)
(* YamlData                                                                *)
(***************************************************************************)
\* What the end of a with block saves when the data is m.
Save(file, m) == <<file, m[file]>>

\* No command is running.
Idle == up /\ queue = <<>>

\* _save: open(filename, "w") ...
Truncate ==
  /\ queue # <<>> /\ ~torn
  /\ disk' = [disk EXCEPT ![Head(queue)[1]] = Empty[Head(queue)[1]]]
  /\ torn' = TRUE
  /\ UNCHANGED <<up, mem, queue, sessions, history>>

\* ... and write and close.
Write ==
  /\ torn
  /\ disk' = [disk EXCEPT ![Head(queue)[1]] = Head(queue)[2]]
  /\ torn' = FALSE
  /\ queue' = Tail(queue)
  /\ inFlight' = IF Len(queue) = 1 THEN Nobody ELSE inFlight
  /\ UNCHANGED <<up, mem, sessions, told, given, cut>>

\* The process ends, in the middle of a command or not.  What had been
\* confirmed is no longer, if its file was empty at that moment.
Crash ==
  /\ up
  /\ up' = FALSE
  /\ mem' = Empty
  /\ queue' = <<>>
  /\ torn' = FALSE
  /\ auth' = [p \in Person |-> Nobody]
  /\ users' = [u \in Account |-> {}]
  /\ told' = [u \in Account |->
                IF u = inFlight \/ (torn /\ Head(queue)[1] = "passwords")
                THEN Nobody ELSE told[u]]
  /\ given' = IF queue # <<>> /\ Head(queue)[1] = "blacklist"
              THEN [u \in Account |-> {}] ELSE given
  /\ inFlight' = Nobody
  /\ cut' = (cut \/ queue # <<>>)
  /\ UNCHANGED disk

-----------------------------------------------------------------------------
(***************************************************************************)
(* AuthPlugin.setup                                                        *)
(***************************************************************************)
Exists(m, u) == m.passwords[u] # Nobody
Matches(m, u, x) == Exists(m, u) /\ m.passwords[u].password = x

WithPassword(m, u, x) ==
  [m EXCEPT !.passwords[u] = [password |-> x, algo |-> "configured"]]

\* permissionsHandler.create_user
WithEntry(m, u) ==
  [m EXCEPT !.permissions.users[u] = IF @ = "none" THEN "plain" ELSE @]

\* permissionsHandler.__init__: the default group is made and filled, one save
\* each, unless there is a group.
WithDefaults(m) ==
  IF m.permissions.defaults = -1 THEN [m EXCEPT !.permissions.defaults = NDefaults] ELSE m

DefaultsSaves(m) ==
  IF m.permissions.defaults = -1
  THEN [i \in 1..NDefaults + 1 |->
          Save("permissions", [m EXCEPT !.permissions.defaults = i - 1])]
  ELSE <<>>

FlagLostBug(m) ==
  IF \E u \in Account : Exists(m, u) THEN m
  ELSE WithEntry(WithPassword(m, Superadmin, Generated), Superadmin)

\* create_superadmin_account
WithSuperadmin(m) ==
  IF \E u \in Account : Exists(m, u) THEN m
  ELSE [WithPassword(m, Superadmin, Generated)
          EXCEPT !.permissions.users[Superadmin] = "superadmin"]

SuperadminSaves(m) ==
  LET account == WithPassword(m, Superadmin, Generated)
      entry == WithEntry(account, Superadmin)
  IN IF \E u \in Account : Exists(m, u) THEN <<>>
     ELSE <<Save("passwords", account), Save("permissions", entry),
            Save("permissions", WithSuperadmin(m))>>

\* create_blacklisted_passwords; the popular ones are not in Password.
WithBlacklist(m) ==
  [m EXCEPT !.blacklist = IF @ = Nobody THEN [u \in Account |-> {}] ELSE @]

BlacklistSaves(m) ==
  IF m.blacklist = Nobody THEN <<Save("blacklist", WithBlacklist(m))>> ELSE <<>>

Setup ==
  /\ ~up
  /\ up' = TRUE
  /\ LET m1 == WithDefaults(disk)
         m2 == WithSuperadmin(m1)
     IN /\ mem' = WithBlacklist(m2)
        /\ queue' = <<Save("permissions", disk)>> \o DefaultsSaves(disk)
                      \o SuperadminSaves(m1) \o BlacklistSaves(m2)
        /\ told' = IF m2 = m1 THEN told ELSE [told EXCEPT ![Superadmin] = Generated]
        /\ inFlight' = IF m2 = m1 THEN Nobody ELSE Superadmin
  /\ UNCHANGED <<disk, torn, sessions, given, cut>>

-----------------------------------------------------------------------------
(***************************************************************************)
(* Commands                                                                *)
(***************************************************************************)
RehashesUncheckedBug(m, u, x) == Exists(m, u) /\ m.passwords[u].algo = "old"

\* check_login: a password that is right is hashed again, if the algorithm
\* is not the configured one.
Rehashes(m, u, x) == Matches(m, u, x) /\ m.passwords[u].algo = "old"

CheckLogin(m, u, x) == IF Rehashes(m, u, x) THEN WithPassword(m, u, x) ELSE m

CheckSaves(m, u, x) ==
  <<Save("passwords", m)>> \o
  (IF Rehashes(m, u, x) THEN <<Save("passwords", CheckLogin(m, u, x))>> ELSE <<>>)

ForAllOnlyBug(u, x) == mem.blacklist # Nobody /\ \A v \in Account : x \in mem.blacklist[v]

\* password_backlisted
Blacklisted(u, x) == mem.blacklist # Nobody /\ x \in mem.blacklist[u]

\* authHandler.login, with the right password.
Enter(p, u) ==
  /\ auth' = [auth EXCEPT ![p] = u]
  /\ users' = [users EXCEPT ![u] = @ \cup {p}]

\* login_command, by somebody who is not logged in.
Login(p, u, x) ==
  /\ Idle
  /\ auth[p] = Nobody
  /\ mem' = CheckLogin(mem, u, x)
  /\ queue' = CheckSaves(mem, u, x)
  /\ IF Matches(mem, u, x) THEN Enter(p, u) ELSE UNCHANGED sessions
  /\ UNCHANGED <<up, disk, torn, history>>

StaysListedBug(p) ==
  /\ Idle
  /\ auth[p] # Nobody
  /\ auth' = [auth EXCEPT ![p] = Nobody]
  /\ UNCHANGED <<up, users, files, history>>

\* logout_command
Logout(p) ==
  /\ Idle
  /\ auth[p] # Nobody
  /\ users' = [users EXCEPT ![auth[p]] = @ \ {p}]
  /\ auth' = [auth EXCEPT ![p] = Nobody]
  /\ UNCHANGED <<up, files, history>>

\* The User object goes: the list of users is weak.
Leave(p) ==
  /\ Idle
  /\ auth[p] # Nobody
  /\ auth' = [auth EXCEPT ![p] = Nobody]
  /\ users' = [u \in Account |-> users[u] \ {p}]
  /\ UNCHANGED <<up, files, history>>

\* passwd_command
Passwd(p, old, new) ==
  /\ Idle
  /\ auth[p] # Nobody /\ ~Blacklisted(auth[p], new)
  /\ LET u == auth[p]
         checked == CheckLogin(mem, u, old)
         right == Matches(mem, u, old)
     IN /\ mem' = IF right THEN WithPassword(checked, u, new) ELSE checked
        /\ queue' = CheckSaves(mem, u, old) \o <<Save("passwords", mem')>>
        /\ told' = IF right THEN [told EXCEPT ![u] = new] ELSE told
        /\ inFlight' = IF right THEN u ELSE Nobody
  /\ UNCHANGED <<up, disk, torn, sessions, given, cut>>

\* register_command in a private message.  The arguments with which it calls
\* login_command are shifted, but its source is then the caller all the same.
Register(p, u, x) ==
  /\ Idle
  /\ ~Exists(mem, u) /\ ~Blacklisted(u, x)
  /\ LET account == WithPassword(mem, u, x)
     IN /\ mem' = WithEntry(account, u)
        /\ queue' = <<Save("passwords", account), Save("permissions", mem')>> \o
                    (IF auth[p] = Nobody THEN CheckSaves(mem', u, x) ELSE <<>>)
  /\ IF auth[p] = Nobody THEN Enter(p, u) ELSE UNCHANGED sessions
  /\ told' = [told EXCEPT ![u] = x]
  /\ inFlight' = u
  /\ UNCHANGED <<up, disk, torn, given, cut>>

\* register_command in a channel: everybody there has seen the password.
RegisterInChannel(u, x) ==
  /\ Idle
  /\ mem' = [mem EXCEPT !.blacklist[u] = @ \cup {x}]
  /\ queue' = <<Save("blacklist", mem')>>
  /\ given' = [given EXCEPT ![u] = @ \cup {x}]
  /\ UNCHANGED <<up, disk, torn, sessions, told, inFlight, cut>>

Next ==
  \/ Setup \/ Crash \/ Truncate \/ Write
  \/ \E p \in Person : Logout(p) \/ Leave(p)
  \/ \E p \in Person, u \in Account, x \in Password \cup {Generated} : Login(p, u, x)
  \/ \E p \in Person, u \in Account, x \in Password : Register(p, u, x)
  \/ \E p \in Person, x \in Password \cup {Generated}, y \in Password : Passwd(p, x, y)
  \/ \E u \in Account, x \in Password : RegisterInChannel(u, x)

Spec == Init /\ [][Next]_vars

-----------------------------------------------------------------------------
(***************************************************************************)
(* Properties of what is on disk, survives a crash, and who is logged in.  *)
(***************************************************************************)
\* A password that was confirmed (by the replies of register and passwd, or in
\* the log for the default account) goes on being the account's password,
\* through other people's commands, rehashing and crashes, unless a crash
\* comes while passwords.yml is being written.
ConfirmedPasswordsWork ==
  Idle => \A u \in Account : told[u] # Nobody => Matches(mem, u, told[u])

\* Between commands, every file holds what is in memory (data.py: "any data
\* edits will be saved when the block has been exited").  Unless a crash cut a
\* command short, passwords.yml and permissions.yml agree: every account has an entry, the default account all permissions
\* while its password is the generated one, and the default group its own.
FilesAgree ==
  Idle =>
    /\ disk = mem
    /\ ~cut =>
         /\ \A u \in Account : Exists(mem, u) => mem.permissions.users[u] # "none"
         /\ Matches(mem, Superadmin, Generated)
              => mem.permissions.users[Superadmin] = "superadmin"
         /\ mem.permissions.defaults = NDefaults

\* Whatever a crash has left, the bot comes up with an account, and logged-in
\* people are listed under an account that exists.
SessionsAreExact ==
  up => /\ \E u \in Account : Exists(mem, u)
        /\ \A u \in Account : users[u] = {p \in Person : auth[p] = u}
        /\ \A u \in Account : users[u] # {} => Exists(mem, u)

\* A password that was shown in a channel for an account does not become its
\* password, through crashes that do not hit blacklist.yml.
ChannelPasswordsAreRefused ==
  [][\A u \in Account :
       /\ up /\ up' /\ Exists(mem', u)
       /\ ~Matches(mem, u, mem'.passwords[u].password)
       => mem'.passwords[u].password \notin given[u]]_vars
=============================================================================
