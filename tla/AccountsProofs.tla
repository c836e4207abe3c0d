--------------------------- MODULE AccountsProofs ---------------------------
(***************************************************************************)
(* Proofs about Accounts, for any accounts, passwords and people: what the *)
(* queued saves make of the files, and from that what is on disk between   *)
(* commands, who is logged in, and which passwords work.                   *)
(***************************************************************************)
EXTENDS Accounts, TLAPS

File == {"passwords", "permissions", "blacklist"}

Passwords == [Account -> Hash \cup {Nobody}]
Entries == [Account -> {"none", "plain", "superadmin"}]
Permissions == [defaults : -1..NDefaults, users : Entries]
Blacklists == [Account -> SUBSET Password] \cup {Nobody}

Saves ==
  ({"passwords"} \X Passwords) \cup ({"permissions"} \X Permissions) \cup ({"blacklist"} \X Blacklists)

-----------------------------------------------------------------------------
(***************************************************************************)
(* What commands make of the data                                          *)
(***************************************************************************)
LEMMA ContentsFields ==
  ASSUME NEW m \in Contents
  PROVE  /\ m.passwords \in Passwords
         /\ m.permissions \in Permissions
         /\ m.permissions.defaults \in -1..NDefaults
         /\ m.permissions.users \in Entries
         /\ m.blacklist \in Blacklists
BY DEF Contents, Passwords, Permissions, Entries, Blacklists

LEMMA SameContents ==
  ASSUME NEW m \in Contents, NEW n \in Contents,
         m.passwords = n.passwords, m.permissions = n.permissions, m.blacklist = n.blacklist
  PROVE  m = n
BY DEF Contents

LEMMA SavesTyped ==
  ASSUME NEW m \in Contents, NEW f \in File
  PROVE  Save(f, m) \in Saves /\ Save(f, m)[1] = f /\ Save(f, m)[2] = m[f]
<1>1. m["passwords"] \in Passwords /\ m["permissions"] \in Permissions /\ m["blacklist"] \in Blacklists
  BY ContentsFields
<1> QED
  BY <1>1 DEF Save, Saves, File

\* A hash is an account.
LEMMA HashIsAccount ==
  ASSUME NEW x \in Password \cup {Generated}, NEW a \in {"old", "configured"}
  PROVE  /\ [password |-> x, algo |-> a] \in Hash
         /\ [password |-> x, algo |-> a] # Nobody
BY NobodyAssumption DEF Hash

LEMMA WithPasswordDoes ==
  ASSUME NEW m \in Contents, NEW u \in Account, NEW x \in Password \cup {Generated}
  PROVE  LET n == WithPassword(m, u, x)
         IN /\ n \in Contents
            /\ n.permissions = m.permissions /\ n.blacklist = m.blacklist
            /\ Exists(n, u) /\ Matches(n, u, x)
            /\ \A y : Matches(n, u, y) => y = x
            /\ n.passwords[u].password = x /\ n.passwords[u].algo = "configured"
            /\ \A v \in Account \ {u} : n.passwords[v] = m.passwords[v]
<1> DEFINE hash == [password |-> x, algo |-> "configured"]
           p == [m.passwords EXCEPT ![u] = hash]
           n == WithPassword(m, u, x)
<1>1. hash \in Hash /\ hash # Nobody /\ hash.password = x /\ hash.algo = "configured"
  BY HashIsAccount
<1>2. m.passwords \in Passwords
  BY ContentsFields
<1>3. p \in Passwords /\ p[u] = hash /\ \A v \in Account \ {u} : p[v] = m.passwords[v]
  <2> HIDE DEF hash
  <2> QED
    BY <1>1, <1>2 DEF Passwords
<1>4. n = [m EXCEPT !.passwords = p]
  BY DEF WithPassword
<1> HIDE DEF p
<1>5. n \in Contents /\ n.passwords = p /\ n.permissions = m.permissions /\ n.blacklist = m.blacklist
  BY <1>3, <1>4 DEF Contents, Passwords
<1> QED
  BY <1>1, <1>3, <1>5 DEF Exists, Matches

LEMMA WithEntryDoes ==
  ASSUME NEW m \in Contents, NEW u \in Account
  PROVE  LET n == WithEntry(m, u)
         IN /\ n \in Contents
            /\ n.passwords = m.passwords /\ n.blacklist = m.blacklist
            /\ n.permissions.defaults = m.permissions.defaults
            /\ n.permissions.users[u] # "none"
            /\ \A v \in Account : m.permissions.users[v] # "none" =>
                 n.permissions.users[v] = m.permissions.users[v]
            /\ \A v \in Account \ {u} : n.permissions.users[v] = m.permissions.users[v]
<1> DEFINE old == m.permissions
           e == [old.users EXCEPT ![u] = IF @ = "none" THEN "plain" ELSE @]
           p == [old EXCEPT !.users = e]
           n == WithEntry(m, u)
<1>1. old \in Permissions /\ old.users \in Entries
  BY ContentsFields
<1>2. /\ e \in Entries /\ e[u] # "none"
      /\ \A v \in Account : old.users[v] # "none" => e[v] = old.users[v]
      /\ \A v \in Account \ {u} : e[v] = old.users[v]
  <2> HIDE DEF old
  <2> QED
    BY <1>1 DEF Entries
<1>3. n = [m EXCEPT !.permissions = p]
  BY DEF WithEntry
<1> HIDE DEF e
<1>4. p \in Permissions /\ p.users = e /\ p.defaults = old.defaults
  <2> HIDE DEF old
  <2> QED
    BY <1>1, <1>2 DEF Permissions
<1> HIDE DEF p
<1>5. n \in Contents /\ n.permissions = p /\ n.passwords = m.passwords /\ n.blacklist = m.blacklist
  BY <1>3, <1>4 DEF Contents, Permissions, Entries
<1> QED
  BY <1>2, <1>4, <1>5

LEMMA CheckLoginDoes ==
  ASSUME NEW m \in Contents, NEW u \in Account, NEW x \in Password \cup {Generated}
  PROVE  LET n == CheckLogin(m, u, x)
         IN /\ n \in Contents
            /\ n.permissions = m.permissions /\ n.blacklist = m.blacklist
            /\ \A v \in Account : Exists(n, v) <=> Exists(m, v)
            /\ \A v \in Account : Exists(m, v) => n.passwords[v].password = m.passwords[v].password
            /\ \A v \in Account \ {u} : n.passwords[v] = m.passwords[v]
<1>1. CASE Rehashes(m, u, x)
  BY <1>1, WithPasswordDoes DEF CheckLogin, Rehashes, Matches, Exists
<1>2. CASE ~Rehashes(m, u, x)
  BY <1>2 DEF CheckLogin
<1> QED
  BY <1>1, <1>2

LEMMA WithDefaultsDoes ==
  ASSUME NEW m \in Contents
  PROVE  LET n == WithDefaults(m)
         IN /\ n \in Contents
            /\ n.passwords = m.passwords /\ n.blacklist = m.blacklist
            /\ n.permissions.users = m.permissions.users
            /\ n.permissions.defaults = IF m.permissions.defaults = -1 THEN NDefaults
                                        ELSE m.permissions.defaults
<1> DEFINE p == [m.permissions EXCEPT !.defaults = NDefaults]
           n == WithDefaults(m)
<1>1. CASE m.permissions.defaults = -1
  <2>1. n = [m EXCEPT !.permissions = p]
    BY <1>1 DEF WithDefaults
  <2>2. p \in Permissions /\ p.users = m.permissions.users /\ p.defaults = NDefaults
    BY ContentsFields, DefaultsAssumption DEF Permissions
  <2> HIDE DEF p
  <2>3. n \in Contents /\ n.permissions = p /\ n.passwords = m.passwords /\ n.blacklist = m.blacklist
    BY <2>1, <2>2 DEF Contents, Permissions, Entries
  <2> QED
    BY <1>1, <2>2, <2>3
<1>2. CASE m.permissions.defaults # -1
  BY <1>2 DEF WithDefaults
<1> QED
  BY <1>1, <1>2

LEMMA WithSuperadminDoes ==
  ASSUME NEW m \in Contents, ~\E u \in Account : Exists(m, u)
  PROVE  LET n == WithSuperadmin(m)
         IN /\ n \in Contents
            /\ n.blacklist = m.blacklist
            /\ n.passwords = WithPassword(m, Superadmin, Generated).passwords
            /\ n.permissions.defaults = m.permissions.defaults
            /\ n.permissions.users[Superadmin] = "superadmin"
            /\ \A v \in Account \ {Superadmin} : n.permissions.users[v] = m.permissions.users[v]
<1> DEFINE k == WithPassword(m, Superadmin, Generated)
           e == [k.permissions.users EXCEPT ![Superadmin] = "superadmin"]
           p == [k.permissions EXCEPT !.users = e]
           n == WithSuperadmin(m)
<1>1. k \in Contents /\ k.permissions = m.permissions /\ k.blacklist = m.blacklist
  BY WithPasswordDoes, AccountAssumption
<1>2. n = [k EXCEPT !.permissions = p]
  BY DEF WithSuperadmin
<1> HIDE DEF k
<1>3. k.permissions \in Permissions /\ k.permissions.users \in Entries
  BY <1>1, ContentsFields
<1>4. /\ e \in Entries /\ e[Superadmin] = "superadmin"
      /\ \A v \in Account \ {Superadmin} : e[v] = k.permissions.users[v]
  BY <1>3, AccountAssumption DEF Entries
<1> HIDE DEF e
<1>5. p \in Permissions /\ p.users = e /\ p.defaults = k.permissions.defaults
  BY <1>3, <1>4 DEF Permissions
<1> HIDE DEF p
<1>6. n \in Contents /\ n.permissions = p /\ n.passwords = k.passwords /\ n.blacklist = k.blacklist
  BY <1>1, <1>2, <1>5 DEF Contents, Permissions, Entries
<1> QED
  BY <1>1, <1>4, <1>5, <1>6 DEF k

LEMMA WithBlacklistDoes ==
  ASSUME NEW m \in Contents
  PROVE  LET n == WithBlacklist(m)
         IN /\ n \in Contents
            /\ n.passwords = m.passwords /\ n.permissions = m.permissions
            /\ n.blacklist # Nobody
            /\ m.blacklist # Nobody => n.blacklist = m.blacklist
<1> DEFINE b == IF m.blacklist = Nobody THEN [u \in Account |-> {}] ELSE m.blacklist
           n == WithBlacklist(m)
<1>1. b \in Blacklists /\ b # Nobody
  <2>1. [u \in Account |-> {}] \in [Account -> SUBSET Password]
    OBVIOUS
  <2> QED
    BY <2>1, ContentsFields, NobodyAssumption DEF Blacklists
<1>2. n = [m EXCEPT !.blacklist = b]
  BY DEF WithBlacklist
<1>3. m.blacklist # Nobody => b = m.blacklist
  OBVIOUS
<1> HIDE DEF b
<1>4. n \in Contents /\ n.blacklist = b /\ n.passwords = m.passwords /\ n.permissions = m.permissions
  BY <1>1, <1>2 DEF Contents, Blacklists
<1> QED
  BY <1>1, <1>3, <1>4

-----------------------------------------------------------------------------
(***************************************************************************)
(* What saves make of the files                                            *)
(***************************************************************************)
\* No save of q is of the file f; the last one that is saves c.
Without(q, f) == \A i \in DOMAIN q : q[i][1] # f

Final(q, f, c) ==
  \A i \in DOMAIN q : q[i][1] = f /\ (\A j \in DOMAIN q : j > i => q[j][1] # f) => q[i][2] = c

\* The saves of q, made in their order, turn files with a into files with b.
Brings(q, a, b) ==
  \A f \in File : Final(q, f, b[f]) /\ (Without(q, f) => b[f] = a[f])

\* One file after another.
LEMMA BringsBoth ==
  ASSUME NEW q \in Seq(Saves), NEW r \in Seq(Saves), NEW a, NEW b, NEW c,
         Brings(q, a, b), Brings(r, b, c)
  PROVE  q \o r \in Seq(Saves) /\ Brings(q \o r, a, c)
<1> DEFINE s == q \o r
<1>1. /\ s \in Seq(Saves) /\ Len(s) = Len(q) + Len(r)
      /\ \A i \in 1 .. Len(q) : s[i] = q[i]
      /\ \A i \in 1 .. Len(r) : s[Len(q) + i] = r[i]
      /\ DOMAIN q = 1 .. Len(q) /\ DOMAIN r = 1 .. Len(r) /\ DOMAIN s = 1 .. Len(q) + Len(r)
      /\ Len(q) \in Nat /\ Len(r) \in Nat
  OBVIOUS
<1> HIDE DEF s
<1>2. ASSUME NEW f \in File
      PROVE  Final(s, f, c[f]) /\ (Without(s, f) => c[f] = a[f])
  <2>1. /\ Final(q, f, b[f]) /\ (Without(q, f) => b[f] = a[f])
        /\ Final(r, f, c[f]) /\ (Without(r, f) => c[f] = b[f])
    BY DEF Brings
  <2>2. ASSUME Without(s, f)
        PROVE  Without(q, f) /\ Without(r, f)
    <3>1. \A i \in 1 .. Len(q) : q[i][1] # f
      BY <1>1, <2>2 DEF Without
    <3>2. \A i \in 1 .. Len(r) : Len(q) + i \in DOMAIN s /\ s[Len(q) + i][1] = r[i][1]
      BY <1>1
    <3>3. \A i \in 1 .. Len(r) : r[i][1] # f
      BY <2>2, <3>2 DEF Without
    <3> QED
      BY <1>1, <3>1, <3>3 DEF Without
  <2>3. ASSUME NEW i \in DOMAIN s, s[i][1] = f, \A j \in DOMAIN s : j > i => s[j][1] # f
        PROVE  s[i][2] = c[f]
    <3>1. CASE i \in 1 .. Len(q)
      <4>1. Without(r, f)
        <5> SUFFICES ASSUME NEW k \in 1 .. Len(r) PROVE r[k][1] # f
          BY <1>1 DEF Without
        <5>1. Len(q) + k \in DOMAIN s /\ Len(q) + k > i
          BY <1>1, <3>1
        <5> QED
          BY <1>1, <2>3, <5>1
      <4>2. q[i][1] = f /\ \A j \in DOMAIN q : j > i => q[j][1] # f
        BY <1>1, <2>3, <3>1
      <4> QED
        BY <1>1, <2>1, <3>1, <4>1, <4>2 DEF Final
    <3>2. CASE i \notin 1 .. Len(q)
      <4> DEFINE k == i - Len(q)
      <4>1. k \in 1 .. Len(r) /\ s[i] = r[k] /\ i = Len(q) + k
        BY <1>1, <3>2
      <4>2. \A j \in DOMAIN r : j > k => r[j][1] # f
        <5> SUFFICES ASSUME NEW j \in 1 .. Len(r), j > k PROVE r[j][1] # f
          BY <1>1
        <5>1. Len(q) + j \in DOMAIN s /\ Len(q) + j > i
          BY <1>1, <4>1
        <5> QED
          BY <1>1, <2>3, <5>1
      <4> QED
        BY <1>1, <2>1, <2>3, <4>1, <4>2 DEF Final
    <3> QED
      BY <3>1, <3>2
  <2> QED
    BY <2>1, <2>2, <2>3 DEF Final
<1> QED
  BY <1>1, <1>2 DEF Brings, s

LEMMA BringsNothing ==
  ASSUME NEW a
  PROVE  <<>> \in Seq(Saves) /\ Brings(<<>>, a, a)
BY DEF Brings, Final, Without

LEMMA BringsOne ==
  ASSUME NEW f \in File, NEW a \in Contents, NEW b \in Contents,
         \A g \in File \ {f} : b[g] = a[g]
  PROVE  <<Save(f, b)>> \in Seq(Saves) /\ Brings(<<Save(f, b)>>, a, b)
<1>1. Save(f, b) \in Saves /\ Save(f, b)[1] = f /\ Save(f, b)[2] = b[f]
  BY SavesTyped
<1> QED
  BY <1>1 DEF Brings, Final, Without

\* All saves of the file f in q are of contents in S.
OnlySaves(q, f, S) == \A i \in DOMAIN q : q[i][1] = f => q[i][2] \in S

LEMMA OnlyBoth ==
  ASSUME NEW q \in Seq(Saves), NEW r \in Seq(Saves), NEW f, NEW S,
         OnlySaves(q, f, S), OnlySaves(r, f, S)
  PROVE  OnlySaves(q \o r, f, S)
<1>1. /\ \A i \in 1 .. Len(q) : (q \o r)[i] = q[i]
      /\ \A i \in 1 .. Len(r) : (q \o r)[Len(q) + i] = r[i]
      /\ DOMAIN q = 1 .. Len(q) /\ DOMAIN r = 1 .. Len(r)
      /\ DOMAIN (q \o r) = 1 .. Len(q) + Len(r)
      /\ Len(q) \in Nat /\ Len(r) \in Nat
  OBVIOUS
<1>2. ASSUME NEW i \in 1 .. Len(q) + Len(r)
      PROVE  i \in 1 .. Len(q) \/ (i - Len(q) \in 1 .. Len(r) /\ i = Len(q) + (i - Len(q)))
  BY <1>1
<1> QED
  BY <1>1, <1>2 DEF OnlySaves

LEMMA OnlyOne ==
  ASSUME NEW f \in File, NEW m \in Contents, NEW g, NEW S, f = g => m[f] \in S
  PROVE  OnlySaves(<<Save(f, m)>>, g, S)
<1>1. Save(f, m)[1] = f /\ Save(f, m)[2] = m[f]
  BY SavesTyped
<1> QED
  BY <1>1 DEF OnlySaves

LEMMA OnlyNothing == ASSUME NEW f, NEW S PROVE OnlySaves(<<>>, f, S)
BY DEF OnlySaves

\* The saves of check_login.
LEMMA CheckSavesDoes ==
  ASSUME NEW m \in Contents, NEW u \in Account, NEW x \in Password \cup {Generated}
  PROVE  LET q == CheckSaves(m, u, x)
             n == CheckLogin(m, u, x)
         IN /\ q \in Seq(Saves) /\ Brings(q, m, n) /\ q # <<>>
            /\ \A S : m.passwords \in S /\ n.passwords \in S => OnlySaves(q, "passwords", S)
            /\ \A S : OnlySaves(q, "blacklist", S)
<1> DEFINE n == CheckLogin(m, u, x)
           r == IF Rehashes(m, u, x) THEN <<Save("passwords", n)>> ELSE <<>>
           one == <<Save("passwords", m)>>
           q == CheckSaves(m, u, x)
<1>1. n \in Contents /\ n.permissions = m.permissions /\ n.blacklist = m.blacklist
  BY CheckLoginDoes
<1>2. one \in Seq(Saves) /\ Brings(one, m, m)
  BY BringsOne DEF File
<1>3. r \in Seq(Saves) /\ Brings(r, m, n)
  <2>1. CASE Rehashes(m, u, x)
    <3>1. \A g \in File \ {"passwords"} : n[g] = m[g]
      BY <1>1 DEF File
    <3> QED
      BY <1>1, <2>1, <3>1, BringsOne DEF File
  <2>2. CASE ~Rehashes(m, u, x)
    BY <2>2, BringsNothing DEF CheckLogin
  <2> QED
    BY <2>1, <2>2
<1>4. q = one \o r
  BY DEF CheckSaves
<1>5. ASSUME NEW S, NEW g \in File, g = "passwords" => m.passwords \in S /\ n.passwords \in S
      PROVE  OnlySaves(q, g, S)
  <2>1. OnlySaves(one, g, S)
    BY <1>5, OnlyOne DEF File
  <2>2. OnlySaves(r, g, S)
    BY <1>1, <1>5, OnlyOne, OnlyNothing DEF File
  <2> QED
    BY <1>2, <1>3, <1>4, <2>1, <2>2, OnlyBoth
<1>6. Len(one) = 1
  OBVIOUS
<1> HIDE DEF one, r, q, n
<1>7. one \o r \in Seq(Saves) /\ Brings(one \o r, m, n)
  BY <1>2, <1>3, BringsBoth
<1>8. one \o r # <<>>
  <2>1. Len(one \o r) = Len(one) + Len(r) /\ Len(r) \in Nat
    BY <1>2, <1>3
  <2> QED
    BY <1>6, <2>1
<1>9. q \in Seq(Saves) /\ Brings(q, m, n) /\ q # <<>>
  BY <1>4, <1>7, <1>8
<1>10. \A S : m.passwords \in S /\ n.passwords \in S => OnlySaves(q, "passwords", S)
  BY <1>5 DEF File
<1>11. \A S : OnlySaves(q, "blacklist", S)
  BY <1>5 DEF File
<1> QED
  BY <1>9, <1>10, <1>11 DEF n, q

\* The saves of setup: default group, default account and blacklist.
LEMMA DefaultsSavesDo ==
  ASSUME NEW m \in Contents
  PROVE  LET q == DefaultsSaves(m)
         IN /\ q \in Seq(Saves) /\ Brings(q, m, WithDefaults(m))
            /\ \A S : OnlySaves(q, "passwords", S) /\ OnlySaves(q, "blacklist", S)
<1> DEFINE q == DefaultsSaves(m)
           n == WithDefaults(m)
           step(i) == [m EXCEPT !.permissions.defaults = i]
<1>1. CASE m.permissions.defaults = -1
  <2>1. /\ q = [i \in 1 .. NDefaults + 1 |-> Save("permissions", step(i - 1))]
        /\ n = step(NDefaults)
    BY <1>1 DEF DefaultsSaves, WithDefaults
  <2>2. ASSUME NEW i \in 0 .. NDefaults
        PROVE  /\ step(i) \in Contents
               /\ step(i).passwords = m.passwords /\ step(i).blacklist = m.blacklist
    <3> DEFINE p == [m.permissions EXCEPT !.defaults = i]
    <3>1. p \in Permissions
      BY ContentsFields, DefaultsAssumption DEF Permissions
    <3>2. step(i) = [m EXCEPT !.permissions = p]
      OBVIOUS
    <3> HIDE DEF p
    <3> QED
      BY <3>1, <3>2 DEF Contents, Permissions, Entries
  <2> HIDE DEF step, n, q
  <2>3. NDefaults \in Nat
    BY DefaultsAssumption
  <2>4. ASSUME NEW i \in 1 .. NDefaults + 1
        PROVE  /\ q[i] \in Saves /\ q[i][1] = "permissions"
               /\ q[i][2] = step(i - 1)["permissions"]
    <3>1. i - 1 \in 0 .. NDefaults
      BY <2>3
    <3>2. step(i - 1) \in Contents
      BY <2>2, <3>1
    <3> QED
      BY <2>1, <3>2, SavesTyped DEF File
  <2>5. q \in Seq(Saves) /\ DOMAIN q = 1 .. NDefaults + 1
    BY <2>1, <2>3, <2>4
  <2>6. Final(q, "permissions", n["permissions"])
    <3> SUFFICES ASSUME NEW i \in DOMAIN q, \A j \in DOMAIN q : j > i => q[j][1] # "permissions"
                 PROVE  q[i][2] = n["permissions"]
      BY DEF Final
    <3>1. NDefaults + 1 \in DOMAIN q /\ q[NDefaults + 1][1] = "permissions"
      BY <2>3, <2>4, <2>5
    <3>2. i = NDefaults + 1
      BY <2>3, <2>5, <3>1
    <3> QED
      BY <2>1, <2>3, <2>4, <3>2
  <2>7. /\ n["passwords"] = m["passwords"] /\ n["blacklist"] = m["blacklist"]
        /\ ~Without(q, "permissions")
    BY <2>1, <2>2, <2>3, <2>4, <2>5 DEF Without
  <2>8. \A c, S : \A f \in {"passwords", "blacklist"} : Final(q, f, c) /\ OnlySaves(q, f, S)
    BY <2>4, <2>5 DEF Final, OnlySaves
  <2> QED
    BY <2>5, <2>6, <2>7, <2>8 DEF Brings, File, q, n
<1>2. CASE m.permissions.defaults # -1
  BY <1>2, BringsNothing, OnlyNothing DEF DefaultsSaves, WithDefaults
<1> QED
  BY <1>1, <1>2

LEMMA SuperadminSavesDo ==
  ASSUME NEW m \in Contents
  PROVE  LET q == SuperadminSaves(m)
             n == WithSuperadmin(m)
         IN /\ n \in Contents /\ n.blacklist = m.blacklist
            /\ q \in Seq(Saves) /\ Brings(q, m, n)
            /\ \A S : n.passwords \in S => OnlySaves(q, "passwords", S)
            /\ \A S : OnlySaves(q, "blacklist", S)
<1>1. CASE \E u \in Account : Exists(m, u)
  BY <1>1, BringsNothing, OnlyNothing DEF SuperadminSaves, WithSuperadmin
<1>2. CASE ~\E u \in Account : Exists(m, u)
  <2> DEFINE account == WithPassword(m, Superadmin, Generated)
             entry == WithEntry(account, Superadmin)
             n == WithSuperadmin(m)
             q1 == <<Save("passwords", account)>>
             q2 == <<Save("permissions", entry)>>
             q3 == <<Save("permissions", n)>>
             q == SuperadminSaves(m)
  <2>1. /\ account \in Contents /\ account.permissions = m.permissions
        /\ account.blacklist = m.blacklist
    BY WithPasswordDoes, AccountAssumption
  <2>2. entry \in Contents /\ entry.passwords = account.passwords /\ entry.blacklist = account.blacklist
    BY <2>1, WithEntryDoes, AccountAssumption
  <2>3. n \in Contents /\ n.passwords = account.passwords /\ n.blacklist = m.blacklist
    BY <1>2, WithSuperadminDoes
  <2>4. q = <<Save("passwords", account), Save("permissions", entry), Save("permissions", n)>>
    BY <1>2 DEF SuperadminSaves
  <2> HIDE DEF account, entry, n
  <2>5. q = q1 \o (q2 \o q3)
    BY <2>4
  <2>6. q1 \in Seq(Saves) /\ Brings(q1, m, account)
    BY <2>1, BringsOne DEF File
  <2>7. q2 \in Seq(Saves) /\ Brings(q2, account, entry)
    BY <2>1, <2>2, BringsOne DEF File
  <2>8. q3 \in Seq(Saves) /\ Brings(q3, entry, n)
    BY <2>1, <2>2, <2>3, BringsOne DEF File
  <2>9. ASSUME NEW S, NEW g \in {"passwords", "blacklist"},
               g = "passwords" => n.passwords \in S
        PROVE  OnlySaves(q1, g, S) /\ OnlySaves(q2, g, S) /\ OnlySaves(q3, g, S)
    BY <2>1, <2>2, <2>3, <2>9, OnlyOne DEF File
  <2> HIDE DEF q1, q2, q3
  <2>10. q2 \o q3 \in Seq(Saves) /\ Brings(q2 \o q3, account, n)
    BY <2>7, <2>8, BringsBoth
  <2> HIDE DEF q
  <2>11. q \in Seq(Saves) /\ Brings(q, m, n)
    <3> DEFINE r == q2 \o q3
    <3> HIDE DEF r
    <3>1. q1 \o r \in Seq(Saves) /\ Brings(q1 \o r, m, n)
      BY <2>6, <2>10, BringsBoth DEF r
    <3> QED
      BY <2>5, <3>1 DEF r
  <2>12. ASSUME NEW S, NEW g \in {"passwords", "blacklist"},
                g = "passwords" => n.passwords \in S
         PROVE  OnlySaves(q, g, S)
    <3>1. OnlySaves(q2 \o q3, g, S)
      BY <2>7, <2>8, <2>9, <2>12, OnlyBoth
    <3> QED
      BY <2>5, <2>6, <2>9, <2>10, <2>12, <3>1, OnlyBoth
  <2>13. \A S : n.passwords \in S => OnlySaves(q, "passwords", S)
    BY <2>12
  <2>14. \A S : OnlySaves(q, "blacklist", S)
    BY <2>12
  <2> QED
    BY <2>3, <2>11, <2>13, <2>14 DEF n, q
<1> QED
  BY <1>1, <1>2

LEMMA BlacklistSavesDo ==
  ASSUME NEW m \in Contents
  PROVE  LET q == BlacklistSaves(m)
             n == WithBlacklist(m)
         IN /\ q \in Seq(Saves) /\ Brings(q, m, n)
            /\ \A S : OnlySaves(q, "passwords", S)
            /\ \A S : n.blacklist \in S => OnlySaves(q, "blacklist", S)
<1> DEFINE n == WithBlacklist(m)
<1>1. n \in Contents /\ n.passwords = m.passwords /\ n.permissions = m.permissions
  BY WithBlacklistDoes
<1>2. CASE m.blacklist = Nobody
  <2>1. BlacklistSaves(m) = <<Save("blacklist", n)>>
    BY <1>2 DEF BlacklistSaves
  <2> HIDE DEF n
  <2>2. \A g \in File \ {"blacklist"} : n[g] = m[g]
    BY <1>1 DEF File
  <2>3. <<Save("blacklist", n)>> \in Seq(Saves) /\ Brings(<<Save("blacklist", n)>>, m, n)
    BY <1>1, <2>2, BringsOne DEF File
  <2>4. \A S : OnlySaves(<<Save("blacklist", n)>>, "passwords", S)
    BY <1>1, OnlyOne DEF File
  <2>5. \A S : n.blacklist \in S => OnlySaves(<<Save("blacklist", n)>>, "blacklist", S)
    BY <1>1, OnlyOne DEF File
  <2> QED
    BY <2>1, <2>3, <2>4, <2>5 DEF n
<1>3. CASE m.blacklist # Nobody
  <2>1. n = m
    BY <1>1, <1>3, WithBlacklistDoes, SameContents
  <2> QED
    BY <1>3, <2>1, BringsNothing, OnlyNothing DEF BlacklistSaves
<1> QED
  BY <1>2, <1>3

\* All of setup, from what is on disk.
LEMMA SetupDoes ==
  ASSUME disk \in Contents, Setup
  PROVE  /\ mem' \in Contents
         /\ queue' \in Seq(Saves) /\ queue' # <<>> /\ Brings(queue', disk, mem')
         /\ mem'.passwords = WithSuperadmin(WithDefaults(disk)).passwords
         /\ mem'.permissions = WithSuperadmin(WithDefaults(disk)).permissions
         /\ mem'.blacklist # Nobody /\ (disk.blacklist # Nobody => mem'.blacklist = disk.blacklist)
         /\ OnlySaves(queue', "passwords", {mem'.passwords})
         /\ OnlySaves(queue', "blacklist", {mem'.blacklist})
<1> DEFINE m1 == WithDefaults(disk)
           m2 == WithSuperadmin(m1)
           n == WithBlacklist(m2)
           q0 == <<Save("permissions", disk)>>
           q1 == DefaultsSaves(disk)
           q2 == SuperadminSaves(m1)
           q3 == BlacklistSaves(m2)
<1>1. mem' = n /\ queue' = q0 \o q1 \o q2 \o q3
  BY DEF Setup
<1>2. m1 \in Contents /\ m1.blacklist = disk.blacklist
  BY WithDefaultsDoes
<1>3. m2 \in Contents /\ m2.blacklist = m1.blacklist
  BY <1>2, SuperadminSavesDo
<1>4. /\ n \in Contents /\ n.passwords = m2.passwords /\ n.permissions = m2.permissions
      /\ n.blacklist # Nobody /\ (m2.blacklist # Nobody => n.blacklist = m2.blacklist)
  BY <1>3, WithBlacklistDoes
<1>5. q0 \in Seq(Saves) /\ Brings(q0, disk, disk) /\ q0 # <<>>
  BY BringsOne DEF File
<1>6. q1 \in Seq(Saves) /\ Brings(q1, disk, m1)
  BY DefaultsSavesDo
<1>7. q2 \in Seq(Saves) /\ Brings(q2, m1, m2)
  BY <1>2, SuperadminSavesDo
<1>8. q3 \in Seq(Saves) /\ Brings(q3, m2, n)
  BY <1>3, BlacklistSavesDo
<1>9. /\ OnlySaves(q0, "passwords", {n.passwords}) /\ OnlySaves(q0, "blacklist", {n.blacklist})
      /\ OnlySaves(q1, "passwords", {n.passwords}) /\ OnlySaves(q1, "blacklist", {n.blacklist})
  BY OnlyOne, DefaultsSavesDo DEF File
<1>10. OnlySaves(q2, "passwords", {n.passwords}) /\ OnlySaves(q2, "blacklist", {n.blacklist})
  BY <1>2, <1>4, SuperadminSavesDo
<1>11. OnlySaves(q3, "passwords", {n.passwords}) /\ OnlySaves(q3, "blacklist", {n.blacklist})
  BY <1>3, BlacklistSavesDo
<1> HIDE DEF m1, m2, n, q0, q1, q2, q3
<1>12. q0 \o q1 \in Seq(Saves) /\ Brings(q0 \o q1, disk, m1)
  BY <1>5, <1>6, BringsBoth
<1>13. q0 \o q1 \o q2 \in Seq(Saves) /\ Brings(q0 \o q1 \o q2, disk, m2)
  BY <1>7, <1>12, BringsBoth
<1>14. q0 \o q1 \o q2 \o q3 \in Seq(Saves) /\ Brings(q0 \o q1 \o q2 \o q3, disk, n)
  BY <1>8, <1>13, BringsBoth
<1>15. ASSUME NEW f \in File, NEW S, OnlySaves(q0, f, S), OnlySaves(q1, f, S),
              OnlySaves(q2, f, S), OnlySaves(q3, f, S)
       PROVE  OnlySaves(q0 \o q1 \o q2 \o q3, f, S)
  <2>1. OnlySaves(q0 \o q1, f, S)
    BY <1>5, <1>6, <1>15, OnlyBoth
  <2>2. OnlySaves(q0 \o q1 \o q2, f, S)
    BY <1>7, <1>12, <1>15, <2>1, OnlyBoth
  <2> QED
    BY <1>8, <1>13, <1>15, <2>2, OnlyBoth
<1>16. q0 \o q1 \o q2 \o q3 # <<>>
  <2>1. Len(q0) \in Nat \ {0} /\ Len(q1) \in Nat /\ Len(q2) \in Nat /\ Len(q3) \in Nat
    BY <1>5, <1>6, <1>7, <1>8
  <2>2. Len(q0 \o q1) = Len(q0) + Len(q1)
    BY <1>5, <1>6
  <2>3. Len(q0 \o q1 \o q2) = Len(q0 \o q1) + Len(q2)
    BY <1>7, <1>12
  <2>4. Len(q0 \o q1 \o q2 \o q3) = Len(q0 \o q1 \o q2) + Len(q3)
    BY <1>8, <1>13
  <2> QED
    BY <2>1, <2>2, <2>3, <2>4
<1> QED
  <2>1. /\ OnlySaves(q0 \o q1 \o q2 \o q3, "passwords", {n.passwords})
        /\ OnlySaves(q0 \o q1 \o q2 \o q3, "blacklist", {n.blacklist})
    BY <1>9, <1>10, <1>11, <1>15 DEF File
  <2> QED
    BY <1>1, <1>2, <1>3, <1>4, <1>14, <1>16, <2>1 DEF m1, m2

-----------------------------------------------------------------------------
(***************************************************************************)
(* Types, and when there is nothing                                        *)
(***************************************************************************)
Typed ==
  /\ up \in BOOLEAN /\ torn \in BOOLEAN /\ cut \in BOOLEAN
  /\ mem \in Contents /\ disk \in Contents
  /\ up => mem.blacklist # Nobody
  /\ queue \in Seq(Saves)
  /\ auth \in [Person -> Account \cup {Nobody}]
  /\ users \in [Account -> SUBSET Person]
  /\ told \in [Account -> Password \cup {Generated, Nobody}]
  /\ given \in [Account -> SUBSET Password]
  /\ inFlight \in Account \cup {Nobody}

\* While the bot is down there is nobody and nothing to be saved, and a command
\* is under way no longer than its saves.
Quiet ==
  /\ ~up => queue = <<>> /\ \A p \in Person : auth[p] = Nobody
  /\ ~up => \A u \in Account : users[u] = {}
  /\ torn => queue # <<>>
  /\ queue = <<>> => inFlight = Nobody

\* The same passwords, of all accounts but one.
SameBut(u) == {c \in Passwords : \A v \in Account \ {u} : c[v] = mem.passwords[v]}

\* What each command does to the data, and saves of it.
LEMMA LoginDoes ==
  ASSUME Typed, NEW p \in Person, NEW u \in Account, NEW x \in Password \cup {Generated},
         Login(p, u, x)
  PROVE  /\ mem' \in Contents
         /\ queue' \in Seq(Saves) /\ queue' # <<>> /\ Brings(queue', mem, mem')
         /\ mem'.permissions = mem.permissions /\ mem'.blacklist = mem.blacklist
         /\ \A v \in Account : Exists(mem', v) <=> Exists(mem, v)
         /\ \A v \in Account : Exists(mem, v) =>
              mem'.passwords[v].password = mem.passwords[v].password
         /\ OnlySaves(queue', "passwords", {mem.passwords, mem'.passwords})
         /\ OnlySaves(queue', "blacklist", {})
<1>1. mem' = CheckLogin(mem, u, x) /\ queue' = CheckSaves(mem, u, x) /\ mem \in Contents
  BY DEF Login, Typed
<1> QED
  BY <1>1, CheckLoginDoes, CheckSavesDoes

LEMMA PasswdDoes ==
  ASSUME Typed, NEW p \in Person, NEW x \in Password \cup {Generated}, NEW y \in Password,
         Passwd(p, x, y)
  PROVE  /\ mem' \in Contents /\ auth[p] \in Account
         /\ queue' \in Seq(Saves) /\ queue' # <<>> /\ Brings(queue', mem, mem')
         /\ mem'.permissions = mem.permissions /\ mem'.blacklist = mem.blacklist
         /\ mem'.passwords \in SameBut(auth[p])
         /\ \A v \in Account : Exists(mem', v) <=> Exists(mem, v)
         /\ OnlySaves(queue', "passwords", SameBut(auth[p]))
         /\ OnlySaves(queue', "blacklist", {})
         /\ IF Matches(mem, auth[p], x)
            THEN mem'.passwords[auth[p]].password = y
            ELSE mem' = mem /\ OnlySaves(queue', "passwords", {mem.passwords})
<1> DEFINE u == auth[p]
           checked == CheckLogin(mem, u, x)
           q == CheckSaves(mem, u, x)
           one == <<Save("passwords", mem')>>
<1>1. u \in Account /\ mem \in Contents
  BY DEF Typed, Passwd
<1>2. /\ mem' = IF Matches(mem, u, x) THEN WithPassword(checked, u, y) ELSE checked
      /\ queue' = q \o one
  BY DEF Passwd
<1>3. /\ checked \in Contents
      /\ checked.permissions = mem.permissions /\ checked.blacklist = mem.blacklist
      /\ \A v \in Account : Exists(checked, v) <=> Exists(mem, v)
      /\ \A v \in Account \ {u} : checked.passwords[v] = mem.passwords[v]
  BY <1>1, CheckLoginDoes
<1>4. /\ mem' \in Contents
      /\ mem'.permissions = mem.permissions /\ mem'.blacklist = mem.blacklist
      /\ \A v \in Account : Exists(mem', v) <=> Exists(mem, v)
      /\ \A v \in Account \ {u} : mem'.passwords[v] = mem.passwords[v]
      /\ Matches(mem, u, x) => mem'.passwords[u].password = y
  <2>1. CASE Matches(mem, u, x)
    <3>1. mem' = WithPassword(checked, u, y)
      BY <1>2, <2>1
    <3> HIDE DEF checked, u
    <3>2. /\ mem' \in Contents /\ Exists(mem', u) /\ mem'.passwords[u].password = y
          /\ mem'.permissions = checked.permissions /\ mem'.blacklist = checked.blacklist
          /\ \A v \in Account \ {u} : mem'.passwords[v] = checked.passwords[v]
      BY <1>1, <1>3, <3>1, WithPasswordDoes
    <3> QED
      BY <1>3, <2>1, <3>2 DEF Exists, Matches
  <2>2. CASE ~Matches(mem, u, x)
    BY <1>2, <1>3, <2>2
  <2> QED
    BY <2>1, <2>2
<1>5. ~Matches(mem, u, x) => mem' = mem /\ checked = mem
  BY <1>2 DEF CheckLogin, Rehashes
<1>6. {mem.passwords, checked.passwords, mem'.passwords} \subseteq SameBut(u)
  BY <1>1, <1>3, <1>4, ContentsFields DEF SameBut
<1>7. /\ q \in Seq(Saves) /\ Brings(q, mem, checked) /\ q # <<>>
      /\ \A S : mem.passwords \in S /\ checked.passwords \in S => OnlySaves(q, "passwords", S)
      /\ OnlySaves(q, "blacklist", {})
  BY <1>1, CheckSavesDoes
<1>8. \A g \in File \ {"passwords"} : mem'[g] = checked[g]
  BY <1>3, <1>4 DEF File
<1> HIDE DEF q, checked
<1>9. /\ one \in Seq(Saves) /\ Brings(one, checked, mem')
      /\ \A S : mem'.passwords \in S => OnlySaves(one, "passwords", S)
      /\ OnlySaves(one, "blacklist", {})
  BY <1>3, <1>4, <1>8, BringsOne, OnlyOne DEF File
<1> HIDE DEF one
<1>10. queue' \in Seq(Saves) /\ Brings(queue', mem, mem')
  BY <1>2, <1>7, <1>9, BringsBoth
<1>11. queue' # <<>>
  <2>1. Len(q \o one) = Len(q) + Len(one) /\ Len(one) \in Nat /\ Len(q) \in Nat \ {0}
    BY <1>7, <1>9
  <2> QED
    BY <1>2, <2>1
<1>12. OnlySaves(queue', "passwords", SameBut(u)) /\ OnlySaves(queue', "blacklist", {})
  BY <1>2, <1>6, <1>7, <1>9, OnlyBoth
<1>13. ~Matches(mem, u, x) => OnlySaves(queue', "passwords", {mem.passwords})
  BY <1>2, <1>5, <1>7, <1>9, OnlyBoth
<1> QED
  BY <1>1, <1>4, <1>5, <1>6, <1>10, <1>11, <1>12, <1>13

LEMMA RegisterDoes ==
  ASSUME Typed, NEW p \in Person, NEW u \in Account, NEW x \in Password, Register(p, u, x)
  PROVE  /\ mem' \in Contents
         /\ queue' \in Seq(Saves) /\ queue' # <<>> /\ Brings(queue', mem, mem')
         /\ mem'.blacklist = mem.blacklist
         /\ mem'.passwords \in SameBut(u)
         /\ Exists(mem', u) /\ mem'.passwords[u].password = x
         /\ mem'.permissions.defaults = mem.permissions.defaults
         /\ mem'.permissions.users[u] # "none"
         /\ \A v \in Account : mem.permissions.users[v] # "none" =>
              mem'.permissions.users[v] = mem.permissions.users[v]
         /\ OnlySaves(queue', "passwords", SameBut(u))
         /\ OnlySaves(queue', "blacklist", {})
<1> DEFINE account == WithPassword(mem, u, x)
           q1 == <<Save("passwords", account)>>
           q2 == <<Save("permissions", mem')>>
           q3 == IF auth[p] = Nobody THEN CheckSaves(mem', u, x) ELSE <<>>
<1>1. mem \in Contents
  BY DEF Typed
<1>2. mem' = WithEntry(account, u) /\ queue' = q1 \o (q2 \o q3)
  BY DEF Register
<1>3. /\ account \in Contents
      /\ account.permissions = mem.permissions /\ account.blacklist = mem.blacklist
      /\ Exists(account, u) /\ account.passwords[u].password = x
      /\ account.passwords[u].algo = "configured"
      /\ \A v \in Account \ {u} : account.passwords[v] = mem.passwords[v]
  BY <1>1, WithPasswordDoes
<1> HIDE DEF account
<1>4. /\ mem' \in Contents
      /\ mem'.passwords = account.passwords /\ mem'.blacklist = account.blacklist
      /\ mem'.permissions.defaults = account.permissions.defaults
      /\ mem'.permissions.users[u] # "none"
      /\ \A v \in Account : account.permissions.users[v] # "none" =>
           mem'.permissions.users[v] = account.permissions.users[v]
  BY <1>2, <1>3, WithEntryDoes
<1>5. mem'.passwords \in SameBut(u)
  BY <1>3, <1>4, ContentsFields DEF SameBut
<1>6. /\ q1 \in Seq(Saves) /\ Brings(q1, mem, account)
      /\ OnlySaves(q1, "passwords", SameBut(u)) /\ OnlySaves(q1, "blacklist", {})
  BY <1>1, <1>3, <1>4, <1>5, BringsOne, OnlyOne DEF File
<1>7. /\ q2 \in Seq(Saves) /\ Brings(q2, account, mem') /\ q2 # <<>>
      /\ OnlySaves(q2, "passwords", SameBut(u)) /\ OnlySaves(q2, "blacklist", {})
  BY <1>3, <1>4, BringsOne, OnlyOne DEF File
<1>8. /\ q3 \in Seq(Saves) /\ Brings(q3, mem', mem')
      /\ OnlySaves(q3, "passwords", SameBut(u)) /\ OnlySaves(q3, "blacklist", {})
  <2>1. CheckLogin(mem', u, x) = mem'
    BY <1>3, <1>4 DEF CheckLogin, Rehashes
  <2> QED
    BY <1>4, <1>5, <2>1, CheckSavesDoes, BringsNothing, OnlyNothing
<1> HIDE DEF q1, q2, q3
<1>9. /\ q2 \o q3 \in Seq(Saves) /\ Brings(q2 \o q3, account, mem')
      /\ OnlySaves(q2 \o q3, "passwords", SameBut(u)) /\ OnlySaves(q2 \o q3, "blacklist", {})
  BY <1>7, <1>8, BringsBoth, OnlyBoth
<1>10. /\ queue' \in Seq(Saves) /\ Brings(queue', mem, mem')
       /\ OnlySaves(queue', "passwords", SameBut(u)) /\ OnlySaves(queue', "blacklist", {})
  <2> DEFINE r == q2 \o q3
  <2> HIDE DEF r
  <2>1. /\ q1 \o r \in Seq(Saves) /\ Brings(q1 \o r, mem, mem')
        /\ OnlySaves(q1 \o r, "passwords", SameBut(u)) /\ OnlySaves(q1 \o r, "blacklist", {})
    BY <1>6, <1>9, BringsBoth, OnlyBoth DEF r
  <2> QED
    BY <1>2, <2>1 DEF r
<1>11. queue' # <<>>
  <2>1. Len(q2 \o q3) = Len(q2) + Len(q3) /\ Len(q2) \in Nat \ {0} /\ Len(q3) \in Nat
    BY <1>7, <1>8
  <2>2. Len(q1 \o (q2 \o q3)) = Len(q1) + Len(q2 \o q3) /\ Len(q1) \in Nat
    BY <1>6, <1>9
  <2> QED
    BY <1>2, <2>1, <2>2
<1> QED
  BY <1>3, <1>4, <1>5, <1>10, <1>11 DEF Exists

LEMMA RegisterInChannelDoes ==
  ASSUME Typed, NEW u \in Account, NEW x \in Password, RegisterInChannel(u, x)
  PROVE  /\ mem' \in Contents
         /\ queue' \in Seq(Saves) /\ queue' # <<>> /\ Brings(queue', mem, mem')
         /\ mem'.passwords = mem.passwords /\ mem'.permissions = mem.permissions
         /\ mem'.blacklist # Nobody
         /\ mem'.blacklist[u] = mem.blacklist[u] \cup {x}
         /\ \A v \in Account \ {u} : mem'.blacklist[v] = mem.blacklist[v]
         /\ OnlySaves(queue', "passwords", {})
         /\ OnlySaves(queue', "blacklist", {mem'.blacklist})
<1> DEFINE b == [mem.blacklist EXCEPT ![u] = @ \cup {x}]
<1>1. mem \in Contents /\ mem.blacklist \in [Account -> SUBSET Password]
  BY ContentsFields DEF Typed, RegisterInChannel, Idle, Blacklists
<1>2. mem' = [mem EXCEPT !.blacklist = b] /\ queue' = <<Save("blacklist", mem')>>
  BY DEF RegisterInChannel
<1>3. /\ b \in [Account -> SUBSET Password] /\ b[u] = mem.blacklist[u] \cup {x}
      /\ \A v \in Account \ {u} : b[v] = mem.blacklist[v]
  BY <1>1
<1> HIDE DEF b
<1>4. /\ mem' \in Contents /\ mem'.blacklist = b
      /\ mem'.passwords = mem.passwords /\ mem'.permissions = mem.permissions
  BY <1>1, <1>2, <1>3 DEF Contents
<1>5. b # Nobody
  BY <1>3, NobodyAssumption
<1>6. \A g \in File \ {"blacklist"} : mem'[g] = mem[g]
  BY <1>4 DEF File
<1>7. queue' \in Seq(Saves) /\ Brings(queue', mem, mem')
  BY <1>1, <1>2, <1>4, <1>6, BringsOne DEF File
<1>8. OnlySaves(queue', "passwords", {}) /\ OnlySaves(queue', "blacklist", {mem'.blacklist})
  BY <1>2, <1>4, OnlyOne DEF File
<1>9. queue' # <<>>
  BY <1>2
<1> QED
  BY <1>3, <1>4, <1>5, <1>7, <1>8, <1>9

LEMMA HeadIsSave ==
  ASSUME NEW q \in Seq(Saves), q # <<>>
  PROVE  /\ 1 \in DOMAIN q /\ Head(q) = q[1] /\ q[1] \in Saves /\ Tail(q) \in Seq(Saves)
         /\ Len(Tail(q)) = Len(q) - 1 /\ Len(q) \in Nat \ {0}
         /\ DOMAIN q = 1 .. Len(q) /\ DOMAIN Tail(q) = 1 .. Len(q) - 1
         /\ \A i \in DOMAIN Tail(q) : i + 1 \in DOMAIN q /\ Tail(q)[i] = q[i + 1]
OBVIOUS

LEMMA SaveIs ==
  ASSUME NEW s \in Saves
  PROVE  \/ s[1] = "passwords" /\ s[2] \in Passwords
         \/ s[1] = "permissions" /\ s[2] \in Permissions
         \/ s[1] = "blacklist" /\ s[2] \in Blacklists
BY DEF Saves

LEMMA EmptyIsContents == Empty \in Contents
BY DefaultsAssumption DEF Empty, Contents

LEMMA Truncates ==
  ASSUME Typed, Truncate
  PROVE  /\ queue # <<>> /\ Head(queue)[1] \in File
         /\ disk' \in Contents
         /\ disk'[Head(queue)[1]] = Empty[Head(queue)[1]]
         /\ \A f \in File \ {Head(queue)[1]} : disk'[f] = disk[f]
<1> DEFINE f == Head(queue)[1]
<1>1. Head(queue) \in Saves /\ f \in File
  BY HeadIsSave, SaveIs DEF Typed, Truncate, File
<1>2. \/ f = "passwords" /\ Empty[f] \in Passwords
      \/ f = "permissions" /\ Empty[f] \in Permissions
      \/ f = "blacklist" /\ Empty[f] \in Blacklists
  BY <1>1, EmptyIsContents, ContentsFields DEF File
<1>3. disk' = [disk EXCEPT ![f] = Empty[f]] /\ disk \in Contents
  BY DEF Truncate, Typed
<1> HIDE DEF f
<1>4. disk' \in Contents /\ disk'[f] = Empty[f] /\ \A g \in File \ {f} : disk'[g] = disk[g]
  BY <1>2, <1>3 DEF Contents, File, Passwords, Permissions, Entries, Blacklists
<1> QED
  BY <1>1, <1>4 DEF f, Truncate

LEMMA Writes ==
  ASSUME Typed, Quiet, Write
  PROVE  /\ queue # <<>> /\ Head(queue)[1] \in File
         /\ disk' \in Contents
         /\ disk'[Head(queue)[1]] = Head(queue)[2]
         /\ \A f \in File \ {Head(queue)[1]} : disk'[f] = disk[f]
<1>1. Head(queue) \in Saves
  BY HeadIsSave DEF Typed, Write, Quiet
<1>2. disk' = [disk EXCEPT ![Head(queue)[1]] = Head(queue)[2]] /\ disk \in Contents /\ queue # <<>>
  BY DEF Write, Typed, Quiet
<1>3. Head(queue)[1] \in File
  BY <1>1, SaveIs DEF File
<1> DEFINE f == Head(queue)[1]
           c == Head(queue)[2]
<1>4. \/ f = "passwords" /\ c \in Passwords
      \/ f = "permissions" /\ c \in Permissions
      \/ f = "blacklist" /\ c \in Blacklists
  BY <1>1, SaveIs
<1>5. disk' = [disk EXCEPT ![f] = c]
  BY <1>2
<1> HIDE DEF f, c
<1>6. disk' \in Contents /\ disk'[f] = c /\ \A g \in File \ {f} : disk'[g] = disk[g]
  BY <1>2, <1>4, <1>5 DEF Contents, File, Passwords, Permissions, Entries, Blacklists
<1> QED
  BY <1>2, <1>3, <1>6 DEF f, c

LEMMA InitiallyTyped == Init => Typed /\ Quiet
<1> SUFFICES ASSUME Init PROVE Typed /\ Quiet
  OBVIOUS
<1>1. PICK old \in SUBSET (Account \ {Superadmin}), x \in Password :
        /\ disk = IF old = {} THEN Empty ELSE
             [passwords |-> [u \in Account |->
                  IF u \in old THEN [password |-> x, algo |-> "old"] ELSE Nobody],
              permissions |-> [defaults |-> NDefaults,
                  users |-> [u \in Account |-> IF u \in old THEN "plain" ELSE "none"]],
              blacklist |-> [u \in Account |-> {}]]
        /\ told = [u \in Account |-> IF u \in old THEN x ELSE Nobody]
  BY DEF Init
<1>2. disk \in Contents
  <2> DEFINE c == [u \in Account |-> IF u \in old THEN [password |-> x, algo |-> "old"] ELSE Nobody]
             e == [u \in Account |-> IF u \in old THEN "plain" ELSE "none"]
             b == [u \in Account |-> {}]
  <2>1. [password |-> x, algo |-> "old"] \in Hash
    BY HashIsAccount
  <2>2. c \in Passwords
    <3> DEFINE h == [password |-> x, algo |-> "old"]
    <3> HIDE DEF h
    <3> QED
      BY <2>1 DEF Passwords, h
  <2>3. e \in Entries
    BY DEF Entries
  <2>4. b \in [Account -> SUBSET Password]
    OBVIOUS
  <2>5. NDefaults \in -1..NDefaults
    BY DefaultsAssumption
  <2>6. disk = Empty \/ disk = [passwords |-> c, permissions |-> [defaults |-> NDefaults, users |-> e],
                                blacklist |-> b]
    BY <1>1
  <2> HIDE DEF c, e, b
  <2> QED
    BY <2>2, <2>3, <2>4, <2>5, <2>6, EmptyIsContents DEF Contents, Passwords, Entries
<1>3. told \in [Account -> Password \cup {Generated, Nobody}]
  BY <1>1
<1>4. mem \in Contents /\ queue \in Seq(Saves)
  BY EmptyIsContents DEF Init
<1> QED
  BY <1>2, <1>3, <1>4 DEF Init, Typed, Quiet

LEMMA TypedSteps == Typed /\ Quiet /\ [Next]_vars => Typed' /\ Quiet'
<1> SUFFICES ASSUME Typed, Quiet, [Next]_vars PROVE Typed' /\ Quiet'
  OBVIOUS
<1>1. CASE Setup
  <2>1. mem' \in Contents /\ queue' \in Seq(Saves) /\ queue' # <<>> /\ mem'.blacklist # Nobody
    BY <1>1, SetupDoes DEF Typed
  <2>2. told' \in [Account -> Password \cup {Generated, Nobody}] /\ inFlight' \in Account \cup {Nobody}
    BY <1>1, AccountAssumption DEF Setup, Typed
  <2> QED
    BY <1>1, <2>1, <2>2 DEF Setup, Typed, Quiet, sessions
<1>2. CASE Crash
  <2>1. /\ told' \in [Account -> Password \cup {Generated, Nobody}]
        /\ given' \in [Account -> SUBSET Password]
    BY <1>2 DEF Crash, Typed
  <2>2. /\ mem' \in Contents /\ ~up' /\ queue' = <<>> /\ torn' = FALSE /\ cut' \in BOOLEAN
        /\ auth' = [p \in Person |-> Nobody] /\ users' = [u \in Account |-> {}]
        /\ inFlight' = Nobody /\ disk' = disk /\ up' = FALSE
    BY <1>2, EmptyIsContents DEF Crash, Typed
  <2>3. /\ auth' \in [Person -> Account \cup {Nobody}] /\ users' \in [Account -> SUBSET Person]
        /\ \A p \in Person : auth'[p] = Nobody
        /\ \A u \in Account : users'[u] = {}
    BY <2>2
  <2>4. queue' \in Seq(Saves)
    BY <2>2
  <2> QED
    BY <2>1, <2>2, <2>3, <2>4 DEF Typed, Quiet
<1>3. CASE Truncate
  BY <1>3, Truncates DEF Truncate, Typed, Quiet, sessions, history
<1>4. CASE Write
  <2>1. queue # <<>> /\ up /\ queue \in Seq(Saves) /\ queue' = Tail(queue)
    BY <1>4 DEF Write, Typed, Quiet
  <2>2. queue' \in Seq(Saves) /\ (queue' = <<>> => Len(queue) = 1)
    <3>1. Len(queue') = Len(queue) - 1 /\ Len(queue) \in Nat /\ queue' \in Seq(Saves)
      BY <2>1, HeadIsSave
    <3> QED
      BY <3>1
  <2> QED
    BY <1>4, <2>1, <2>2, Writes DEF Write, Typed, Quiet, sessions
<1>5. ASSUME NEW p \in Person, Logout(p) \/ Leave(p)
      PROVE  Typed' /\ Quiet'
  <2>1. up /\ auth' \in [Person -> Account \cup {Nobody}]
    BY <1>5 DEF Logout, Leave, Idle, Typed
  <2>2. users' \in [Account -> SUBSET Person]
    BY <1>5 DEF Logout, Leave, Typed
  <2>3. UNCHANGED <<up, mem, disk, queue, torn, told, given, inFlight, cut>>
    BY <1>5 DEF Logout, Leave, files, history
  <2> QED
    BY <2>1, <2>2, <2>3 DEF Typed, Quiet
<1>6. ASSUME NEW p \in Person, NEW u \in Account, NEW x \in Password \cup {Generated}, Login(p, u, x)
      PROVE  Typed' /\ Quiet'
  <2>1. /\ mem' \in Contents /\ queue' \in Seq(Saves) /\ queue' # <<>>
        /\ mem'.blacklist = mem.blacklist
    BY <1>6, LoginDoes
  <2>2. auth' \in [Person -> Account \cup {Nobody}] /\ users' \in [Account -> SUBSET Person]
    BY <1>6 DEF Login, Enter, sessions, Typed
  <2> QED
    BY <1>6, <2>1, <2>2 DEF Login, Idle, Typed, Quiet, history
<1>7. ASSUME NEW p \in Person, NEW u \in Account, NEW x \in Password, Register(p, u, x)
      PROVE  Typed' /\ Quiet'
  <2>1. /\ mem' \in Contents /\ queue' \in Seq(Saves) /\ queue' # <<>>
        /\ mem'.blacklist = mem.blacklist
    BY <1>7, RegisterDoes
  <2>2. auth' \in [Person -> Account \cup {Nobody}] /\ users' \in [Account -> SUBSET Person]
    <3>1. Enter(p, u) \/ UNCHANGED <<auth, users>>
      BY <1>7 DEF Register, sessions
    <3> QED
      BY <3>1 DEF Enter, Typed
  <2>3. told' \in [Account -> Password \cup {Generated, Nobody}]
    BY <1>7 DEF Register, Typed
  <2> QED
    BY <1>7, <2>1, <2>2, <2>3 DEF Register, Idle, Typed, Quiet
<1>8. ASSUME NEW p \in Person, NEW x \in Password \cup {Generated}, NEW y \in Password, Passwd(p, x, y)
      PROVE  Typed' /\ Quiet'
  <2>1. /\ mem' \in Contents /\ queue' \in Seq(Saves) /\ queue' # <<>> /\ auth[p] \in Account
        /\ mem'.blacklist = mem.blacklist
    BY <1>8, PasswdDoes
  <2>2. told' \in [Account -> Password \cup {Generated, Nobody}] /\ inFlight' \in Account \cup {Nobody}
    BY <1>8, <2>1 DEF Passwd, Typed
  <2> QED
    BY <1>8, <2>1, <2>2 DEF Passwd, Idle, Typed, Quiet, sessions
<1>9. ASSUME NEW u \in Account, NEW x \in Password, RegisterInChannel(u, x)
      PROVE  Typed' /\ Quiet'
  <2>1. /\ mem' \in Contents /\ queue' \in Seq(Saves) /\ queue' # <<>> /\ mem'.blacklist # Nobody
    BY <1>9, RegisterInChannelDoes
  <2>2. given' \in [Account -> SUBSET Password]
    BY <1>9 DEF RegisterInChannel, Typed
  <2> QED
    BY <1>9, <2>1, <2>2 DEF RegisterInChannel, Idle, Typed, Quiet, sessions
<1>10. CASE UNCHANGED vars
  BY <1>10 DEF vars, files, sessions, history, Typed, Quiet
<1> QED
  BY <1>1, <1>2, <1>3, <1>4, <1>5, <1>6, <1>7, <1>8, <1>9, <1>10 DEF Next

-----------------------------------------------------------------------------
(***************************************************************************)
(* Who is logged in                                                        *)
(***************************************************************************)
\* Setup makes an account unless there is one.
LEMMA SetupMakesAccount ==
  ASSUME disk \in Contents, Setup
  PROVE  \E u \in Account : Exists(mem', u)
<1> DEFINE m == WithDefaults(disk)
<1>1. m \in Contents /\ mem'.passwords = WithSuperadmin(m).passwords
  BY WithDefaultsDoes, SetupDoes
<1> HIDE DEF m
<1>2. CASE \E u \in Account : Exists(m, u)
  BY <1>1, <1>2 DEF WithSuperadmin, Exists
<1>3. CASE ~\E u \in Account : Exists(m, u)
  <2>1. Exists(WithPassword(m, Superadmin, Generated), Superadmin)
    BY <1>1, WithPasswordDoes, AccountAssumption
  <2> QED
    BY <1>1, <1>3, <2>1, WithSuperadminDoes, AccountAssumption DEF Exists
<1> QED
  BY <1>2, <1>3

LEMMA EnterListed ==
  ASSUME Typed, SessionsAreExact, up, NEW p \in Person, NEW u \in Account, auth[p] = Nobody, Enter(p, u)
  PROVE  \A v \in Account : /\ users'[v] = {q \in Person : auth'[q] = v}
                            /\ users'[v] # {} => v = u \/ users[v] # {}
<1> SUFFICES ASSUME NEW v \in Account
             PROVE  /\ users'[v] = {q \in Person : auth'[q] = v}
                    /\ users'[v] # {} => v = u \/ users[v] # {}
  OBVIOUS
<1>1. users[v] = {q \in Person : auth[q] = v}
  BY DEF SessionsAreExact
<1>2. \A q \in Person : auth'[q] = IF q = p THEN u ELSE auth[q]
  BY DEF Enter, Typed
<1>3. users'[v] = IF v = u THEN users[v] \cup {p} ELSE users[v]
  BY DEF Enter, Typed
<1> QED
  BY <1>1, <1>2, <1>3, AccountAssumption

LEMMA SessionsSteps ==
  Typed /\ Quiet /\ SessionsAreExact /\ [Next]_vars => SessionsAreExact'
<1> SUFFICES ASSUME Typed, Quiet, SessionsAreExact, [Next]_vars PROVE SessionsAreExact'
  OBVIOUS
<1>1. CASE Setup
  <2>1. \A u \in Account : users'[u] = {} /\ {p \in Person : auth'[p] = u} = {}
    BY <1>1, AccountAssumption DEF Setup, Quiet, sessions
  <2> QED
    BY <1>1, <2>1, SetupMakesAccount DEF SessionsAreExact, Typed
<1>2. CASE Crash
  BY <1>2 DEF Crash, SessionsAreExact
<1>3. CASE Truncate \/ Write \/ UNCHANGED vars
  BY <1>3 DEF Truncate, Write, vars, files, sessions, SessionsAreExact, Exists
<1>4. ASSUME NEW p \in Person, Logout(p) \/ Leave(p)
      PROVE  SessionsAreExact'
  <2>1. UNCHANGED mem /\ up
    BY <1>4 DEF Logout, Leave, files, Idle
  <2>2. ASSUME NEW u \in Account
        PROVE  users'[u] = {q \in Person : auth'[q] = u} /\ users'[u] \subseteq users[u]
    <3>1. users[u] = {q \in Person : auth[q] = u}
      BY <2>1 DEF SessionsAreExact
    <3>2. \A q \in Person : auth'[q] = IF q = p THEN Nobody ELSE auth[q]
      BY <1>4 DEF Logout, Leave, Typed
    <3>3. users'[u] = users[u] \ {p}
      <4>1. CASE Leave(p)
        BY <4>1 DEF Leave
      <4>2. CASE Logout(p)
        <5>1. users'[u] = IF u = auth[p] THEN users[u] \ {p} ELSE users[u]
          BY <4>2 DEF Logout, Typed
        <5> QED
          BY <3>1, <5>1
      <4> QED
        BY <1>4, <4>1, <4>2
    <3> QED
      BY <3>1, <3>2, <3>3, AccountAssumption
  <2> QED
    BY <2>1, <2>2 DEF SessionsAreExact, Exists
<1>5. ASSUME NEW p \in Person, NEW u \in Account, NEW x \in Password \cup {Generated}, Login(p, u, x)
      PROVE  SessionsAreExact'
  <2>1. up /\ \A v \in Account : Exists(mem', v) <=> Exists(mem, v)
    BY <1>5, LoginDoes DEF Login, Idle
  <2>2. CASE Matches(mem, u, x)
    <3>1. Enter(p, u) /\ auth[p] = Nobody /\ Exists(mem', u)
      BY <1>5, <2>1, <2>2 DEF Login, Matches
    <3> QED
      BY <2>1, <3>1, EnterListed DEF SessionsAreExact
  <2>3. CASE ~Matches(mem, u, x)
    BY <1>5, <2>1, <2>3 DEF Login, sessions, SessionsAreExact
  <2> QED
    BY <2>2, <2>3
<1>6. ASSUME NEW p \in Person, NEW u \in Account, NEW x \in Password, Register(p, u, x)
      PROVE  SessionsAreExact'
  <2>1. up /\ Exists(mem', u) /\ \A v \in Account \ {u} : Exists(mem', v) <=> Exists(mem, v)
    BY <1>6, RegisterDoes DEF Register, Idle, SameBut, Exists
  <2>2. CASE auth[p] = Nobody
    <3>1. Enter(p, u)
      BY <1>6, <2>2 DEF Register
    <3> QED
      BY <2>1, <2>2, <3>1, EnterListed DEF SessionsAreExact
  <2>3. CASE auth[p] # Nobody
    BY <1>6, <2>1, <2>3 DEF Register, sessions, SessionsAreExact
  <2> QED
    BY <2>2, <2>3
<1>7. ASSUME NEW p \in Person, NEW x \in Password \cup {Generated}, NEW y \in Password, Passwd(p, x, y)
      PROVE  SessionsAreExact'
  <2>1. up /\ \A v \in Account : Exists(mem', v) <=> Exists(mem, v)
    BY <1>7, PasswdDoes DEF Passwd, Idle
  <2> QED
    BY <1>7, <2>1 DEF Passwd, sessions, SessionsAreExact
<1>8. ASSUME NEW u \in Account, NEW x \in Password, RegisterInChannel(u, x)
      PROVE  SessionsAreExact'
  <2>1. up /\ \A v \in Account : Exists(mem', v) <=> Exists(mem, v)
    BY <1>8, RegisterInChannelDoes DEF RegisterInChannel, Idle, Exists
  <2> QED
    BY <1>8, <2>1 DEF RegisterInChannel, sessions, SessionsAreExact
<1> QED
  BY <1>1, <1>2, <1>3, <1>4, <1>5, <1>6, <1>7, <1>8 DEF Next

-----------------------------------------------------------------------------
(***************************************************************************)
(* What is on disk                                                         *)
(***************************************************************************)
SavesBringMem == up => Brings(queue, disk, mem)

\* What passwords.yml and permissions.yml say of one another.
Agree(m) ==
  /\ \A u \in Account : Exists(m, u) => m.permissions.users[u] # "none"
  /\ Matches(m, Superadmin, Generated) => m.permissions.users[Superadmin] = "superadmin"

WholeUnlessCut ==
  ~cut => IF up THEN Agree(mem) /\ mem.permissions.defaults = NDefaults
          ELSE Agree(disk) /\ disk.permissions.defaults \in {-1, NDefaults}

\* Nothing is left to be saved.
LEMMA AllSaved ==
  ASSUME Typed, SavesBringMem, up, queue = <<>>
  PROVE  disk = mem
<1>1. \A f \in File : mem[f] = disk[f]
  BY DEF SavesBringMem, Brings, Without
<1> QED
  BY <1>1, SameContents DEF File, Typed

\* One save more is made.
LEMMA BringsRest ==
  ASSUME NEW q \in Seq(Saves), q # <<>>, NEW a, NEW b, NEW m, Brings(q, a, m),
         b[q[1][1]] = q[1][2], \A f \in File \ {q[1][1]} : b[f] = a[f]
  PROVE  Brings(Tail(q), b, m)
<1> SUFFICES ASSUME NEW f \in File
             PROVE  Final(Tail(q), f, m[f]) /\ (Without(Tail(q), f) => m[f] = b[f])
  BY DEF Brings
<1> DEFINE r == Tail(q)
<1>1. /\ DOMAIN q = 1 .. Len(q) /\ DOMAIN r = 1 .. Len(q) - 1 /\ Len(q) \in Nat \ {0}
      /\ \A i \in DOMAIN r : i + 1 \in DOMAIN q /\ r[i] = q[i + 1]
  BY HeadIsSave
<1>2. Final(q, f, m[f]) /\ (Without(q, f) => m[f] = a[f])
  BY DEF Brings
<1> HIDE DEF r
<1>3. ASSUME NEW i \in DOMAIN r, r[i][1] = f, \A j \in DOMAIN r : j > i => r[j][1] # f
      PROVE  r[i][2] = m[f]
  <2>1. i + 1 \in DOMAIN q /\ q[i + 1] = r[i]
    BY <1>1
  <2>2. ASSUME NEW j \in DOMAIN q, j > i + 1
        PROVE  q[j][1] # f
    <3>1. j - 1 \in DOMAIN r /\ j - 1 > i /\ r[j - 1] = q[j]
      BY <1>1, <2>2
    <3> QED
      BY <1>3, <3>1
  <2> QED
    BY <1>2, <1>3, <2>1, <2>2 DEF Final
<1>4. ASSUME Without(r, f)
      PROVE  m[f] = b[f]
  <2>1. ASSUME NEW j \in DOMAIN q, j > 1
        PROVE  q[j][1] # f
    <3>1. j - 1 \in DOMAIN r /\ r[j - 1] = q[j]
      BY <1>1, <2>1
    <3> QED
      BY <1>4, <3>1 DEF Without
  <2>2. CASE q[1][1] = f
    <3>1. 1 \in DOMAIN q
      BY <1>1
    <3> QED
      BY <1>2, <2>1, <2>2, <3>1 DEF Final
  <2>3. CASE q[1][1] # f
    <3>1. Without(q, f)
      BY <1>1, <2>1, <2>3 DEF Without
    <3> QED
      BY <1>2, <2>3, <3>1
  <2> QED
    BY <2>2, <2>3
<1> QED
  BY <1>3, <1>4 DEF Final, r

LEMMA SavesSteps ==
  Typed /\ Quiet /\ SavesBringMem /\ [Next]_vars => SavesBringMem'
<1> SUFFICES ASSUME Typed, Quiet, SavesBringMem, [Next]_vars PROVE SavesBringMem'
  OBVIOUS
<1>1. CASE Setup
  BY <1>1, SetupDoes DEF Setup, SavesBringMem, Typed
<1>2. CASE Crash
  BY <1>2 DEF Crash, SavesBringMem
<1>3. CASE Truncate
  <2>1. /\ queue' = queue /\ mem' = mem /\ up' = up /\ queue # <<>> /\ 1 \in DOMAIN queue
        /\ Head(queue) = queue[1]
    BY <1>3, HeadIsSave DEF Truncate, Typed
  <2>2. ASSUME up, NEW f \in File
        PROVE  Without(queue, f) => mem[f] = disk'[f]
    BY <1>3, <2>1, <2>2, Truncates DEF SavesBringMem, Brings, Without
  <2> QED
    BY <2>1, <2>2 DEF SavesBringMem, Brings
<1>4. CASE Write
  <2>1. queue' = Tail(queue) /\ mem' = mem /\ up' = up
    BY <1>4 DEF Write
  <2>2. /\ queue # <<>> /\ Head(queue) = queue[1]
        /\ disk'[queue[1][1]] = queue[1][2]
        /\ \A f \in File \ {queue[1][1]} : disk'[f] = disk[f]
    BY <1>4, Writes, HeadIsSave DEF Typed
  <2> HIDE DEF File
  <2> QED
    BY <2>1, <2>2, BringsRest DEF SavesBringMem, Typed
<1>5. ASSUME NEW p \in Person, Logout(p) \/ Leave(p)
      PROVE  SavesBringMem'
  BY <1>5 DEF Logout, Leave, files, SavesBringMem
<1>6. ASSUME Idle, disk' = disk, up' = up, Brings(queue', mem, mem')
      PROVE  SavesBringMem'
  <2>1. disk' = mem
    BY <1>6, AllSaved DEF Idle
  <2> QED
    BY <1>6, <2>1 DEF SavesBringMem
<1>7. ASSUME NEW p \in Person, NEW u \in Account, NEW x \in Password \cup {Generated}, Login(p, u, x)
      PROVE  SavesBringMem'
  BY <1>6, <1>7, LoginDoes DEF Login
<1>8. ASSUME NEW p \in Person, NEW u \in Account, NEW x \in Password, Register(p, u, x)
      PROVE  SavesBringMem'
  BY <1>6, <1>8, RegisterDoes DEF Register
<1>9. ASSUME NEW p \in Person, NEW x \in Password \cup {Generated}, NEW y \in Password, Passwd(p, x, y)
      PROVE  SavesBringMem'
  BY <1>6, <1>9, PasswdDoes DEF Passwd
<1>10. ASSUME NEW u \in Account, NEW x \in Password, RegisterInChannel(u, x)
      PROVE  SavesBringMem'
  BY <1>6, <1>10, RegisterInChannelDoes DEF RegisterInChannel
<1>11. CASE UNCHANGED vars
  BY <1>11 DEF vars, files, SavesBringMem
<1> QED
  BY <1>1, <1>2, <1>3, <1>4, <1>5, <1>7, <1>8, <1>9, <1>10, <1>11 DEF Next

LEMMA SetupAgrees ==
  ASSUME disk \in Contents, Setup, Agree(disk), disk.permissions.defaults \in {-1, NDefaults}
  PROVE  Agree(mem') /\ mem'.permissions.defaults = NDefaults
<1> DEFINE m == WithDefaults(disk)
           n == WithSuperadmin(m)
<1>1. /\ m \in Contents /\ m.passwords = disk.passwords
      /\ m.permissions.users = disk.permissions.users /\ m.permissions.defaults = NDefaults
  BY WithDefaultsDoes
<1>2. mem'.passwords = n.passwords /\ mem'.permissions = n.permissions
  BY SetupDoes
<1> HIDE DEF m
<1>3. CASE \E u \in Account : Exists(m, u)
  <2>1. n = m
    BY <1>3 DEF WithSuperadmin
  <2> QED
    BY <1>1, <1>2, <2>1 DEF Agree, Exists, Matches
<1>4. CASE ~\E u \in Account : Exists(m, u)
  <2>1. /\ n.passwords = WithPassword(m, Superadmin, Generated).passwords
        /\ n.permissions.defaults = NDefaults
        /\ n.permissions.users[Superadmin] = "superadmin"
    BY <1>1, <1>4, WithSuperadminDoes
  <2>2. \A v \in Account \ {Superadmin} : n.passwords[v] = m.passwords[v]
    BY <1>1, <2>1, WithPasswordDoes, AccountAssumption
  <2> HIDE DEF n
  <2>3. \A v \in Account : Exists(n, v) => v = Superadmin
    BY <1>4, <2>2 DEF Exists
  <2> QED
    BY <1>2, <2>1, <2>3 DEF Agree, Exists, Matches
<1> QED
  BY <1>3, <1>4

LEMMA WholeSteps ==
  Typed /\ Quiet /\ SavesBringMem /\ WholeUnlessCut /\ [Next]_vars => WholeUnlessCut'
<1> SUFFICES ASSUME Typed, Quiet, SavesBringMem, WholeUnlessCut, [Next]_vars PROVE WholeUnlessCut'
  OBVIOUS
<1>1. CASE Setup
  BY <1>1, SetupAgrees DEF Setup, WholeUnlessCut, Typed
<1>2. CASE Crash
  <2>1. up /\ ~up' /\ disk' = disk /\ (~cut' => ~cut /\ queue = <<>>)
    BY <1>2 DEF Crash
  <2>2. ~cut' => disk = mem
    BY <2>1, AllSaved
  <2> QED
    BY <2>1, <2>2 DEF WholeUnlessCut
<1>3. CASE Truncate \/ Write
  <2>1. UNCHANGED <<up, mem, cut>> /\ up
    BY <1>3 DEF Truncate, Write, history, Quiet
  <2> QED
    BY <2>1 DEF WholeUnlessCut
<1>4. ASSUME NEW p \in Person, Logout(p) \/ Leave(p)
      PROVE  WholeUnlessCut'
  <2>1. UNCHANGED <<up, mem, cut>> /\ up
    BY <1>4 DEF Logout, Leave, files, history, Idle
  <2> QED
    BY <2>1 DEF WholeUnlessCut
<1>5. ASSUME NEW p \in Person, NEW u \in Account, NEW x \in Password \cup {Generated}, Login(p, u, x)
      PROVE  WholeUnlessCut'
  <2>1. up /\ up' = up /\ cut' = cut
    BY <1>5 DEF Login, Idle, history
  <2>2. /\ mem'.permissions = mem.permissions
        /\ \A v \in Account : Exists(mem', v) => Exists(mem, v)
        /\ \A v \in Account : Exists(mem, v) =>
             mem'.passwords[v].password = mem.passwords[v].password
    BY <1>5, LoginDoes
  <2> QED
    BY <2>1, <2>2, AccountAssumption DEF WholeUnlessCut, Agree, Matches
<1>6. ASSUME NEW p \in Person, NEW u \in Account, NEW x \in Password, Register(p, u, x)
      PROVE  WholeUnlessCut'
  <2>1. up /\ up' = up /\ cut' = cut
    BY <1>6 DEF Register, Idle
  <2>2. /\ mem'.permissions.defaults = mem.permissions.defaults
        /\ mem'.permissions.users[u] # "none"
        /\ \A v \in Account : mem.permissions.users[v] # "none" =>
             mem'.permissions.users[v] = mem.permissions.users[v]
        /\ mem'.passwords[u].password = x /\ x # Generated
        /\ \A v \in Account \ {u} : mem'.passwords[v] = mem.passwords[v]
    BY <1>6, RegisterDoes, PasswordAssumption DEF SameBut
  <2>3. ASSUME Agree(mem)
        PROVE  Agree(mem')
    <3>1. ASSUME NEW v \in Account, Exists(mem', v)
          PROVE  mem'.permissions.users[v] # "none"
      BY <2>2, <2>3, <3>1 DEF Agree, Exists
    <3>2. ASSUME Matches(mem', Superadmin, Generated)
          PROVE  mem'.permissions.users[Superadmin] = "superadmin"
      BY <2>2, <2>3, <3>2, AccountAssumption DEF Agree, Exists, Matches
    <3> QED
      BY <3>1, <3>2 DEF Agree
  <2> QED
    BY <2>1, <2>2, <2>3 DEF WholeUnlessCut
<1>7. ASSUME NEW p \in Person, NEW x \in Password \cup {Generated}, NEW y \in Password, Passwd(p, x, y)
      PROVE  WholeUnlessCut'
  <2>1. up /\ up' = up /\ cut' = cut
    BY <1>7 DEF Passwd, Idle
  <2>2. /\ mem'.permissions = mem.permissions /\ y # Generated
        /\ \A v \in Account : Exists(mem', v) => Exists(mem, v)
        /\ \A v \in Account \ {auth[p]} : mem'.passwords[v] = mem.passwords[v]
        /\ mem' = mem \/ mem'.passwords[auth[p]].password = y
    BY <1>7, PasswdDoes, PasswordAssumption DEF SameBut
  <2> QED
    BY <2>1, <2>2, AccountAssumption DEF WholeUnlessCut, Agree, Exists, Matches
<1>8. ASSUME NEW u \in Account, NEW x \in Password, RegisterInChannel(u, x)
      PROVE  WholeUnlessCut'
  <2>1. up /\ up' = up /\ cut' = cut
    BY <1>8 DEF RegisterInChannel, Idle
  <2>2. mem'.passwords = mem.passwords /\ mem'.permissions = mem.permissions
    BY <1>8, RegisterInChannelDoes
  <2> QED
    BY <2>1, <2>2 DEF WholeUnlessCut, Agree, Exists, Matches
<1>9. CASE UNCHANGED vars
  BY <1>9 DEF vars, files, history, WholeUnlessCut
<1> QED
  BY <1>1, <1>2, <1>3, <1>4, <1>5, <1>6, <1>7, <1>8, <1>9 DEF Next

-----------------------------------------------------------------------------
(***************************************************************************)
(* Which passwords work                                                    *)
(***************************************************************************)
\* What t says was confirmed of the accounts U is so in c, a passwords.yml.
Works(c, t, U) == \A u \in U : t[u] # Nobody => c[u] # Nobody /\ c[u].password = t[u]

Settled == Account \ {inFlight}

Saving(f) == queue # <<>> /\ Head(queue)[1] = f

ConfirmedIsKept ==
  /\ up => Works(mem.passwords, told, Account)
  /\ ~up => Works(disk.passwords, told, Account)
  /\ ~(torn /\ Saving("passwords")) => Works(disk.passwords, told, Settled)
  /\ OnlySaves(queue, "passwords", {c \in Passwords : Works(c, told, Settled)})

LEMMA QueueRest ==
  ASSUME NEW q \in Seq(Saves), q # <<>>, NEW f, NEW S, OnlySaves(q, f, S)
  PROVE  OnlySaves(Tail(q), f, S) /\ (Head(q)[1] = f => Head(q)[2] \in S)
BY HeadIsSave DEF OnlySaves

\* A command all of whose saves keep what was confirmed to others.
LEMMA CommandKeeps ==
  ASSUME Typed, Quiet, SavesBringMem, Idle, disk' = disk, up' = up, torn' = torn,
         Works(mem.passwords, told', Account \ {inFlight'}),
         Works(mem'.passwords, told', Account),
         NEW S \in SUBSET Passwords, OnlySaves(queue', "passwords", S),
         \A c \in S : Works(c, told', Account \ {inFlight'})
  PROVE  ConfirmedIsKept'
<1>1. disk = mem /\ ~torn /\ up
  BY AllSaved DEF Idle, Quiet
<1>2. OnlySaves(queue', "passwords", {c \in Passwords : Works(c, told', Account \ {inFlight'})})
  BY DEF OnlySaves
<1> QED
  BY <1>1, <1>2 DEF ConfirmedIsKept, Settled

LEMMA SetupKeeps ==
  ASSUME Typed, Quiet, ConfirmedIsKept, Setup
  PROVE  ConfirmedIsKept'
<1> DEFINE m == WithDefaults(disk)
           n == WithSuperadmin(m)
<1>1. /\ m \in Contents /\ m.passwords = disk.passwords
      /\ mem' \in Contents /\ mem'.passwords = n.passwords
      /\ OnlySaves(queue', "passwords", {mem'.passwords})
      /\ ~up /\ up' /\ disk' = disk
  BY WithDefaultsDoes, SetupDoes DEF Typed, Setup
<1>2. Works(disk.passwords, told, Account)
  BY <1>1 DEF ConfirmedIsKept
<1>3. /\ Works(disk.passwords, told', Account \ {inFlight'})
      /\ Works(mem'.passwords, told', Account)
  <2>1. CASE \E u \in Account : Exists(m, u)
    <3>1. n = m
      BY <2>1 DEF WithSuperadmin
    <3>2. told' = told
      BY <3>1 DEF Setup
    <3> QED
      BY <1>1, <1>2, <3>1, <3>2 DEF Works
  <2>2. CASE ~\E u \in Account : Exists(m, u)
    <3>1. /\ n.passwords = WithPassword(m, Superadmin, Generated).passwords
          /\ n.passwords[Superadmin] # Nobody /\ n.passwords[Superadmin].password = Generated
      BY <1>1, <2>2, WithSuperadminDoes, WithPasswordDoes, AccountAssumption DEF Exists
    <3>2. m # n
      BY <2>2, <3>1, AccountAssumption DEF Exists
    <3>3. told' = [told EXCEPT ![Superadmin] = Generated] /\ inFlight' = Superadmin
      BY <3>2 DEF Setup
    <3> HIDE DEF m, n
    <3>4. \A u \in Account : told[u] = Nobody
      BY <1>1, <1>2, <2>2 DEF Works, Exists
    <3>5. \A u \in Account : told'[u] = IF u = Superadmin THEN Generated ELSE Nobody
      BY <3>3, <3>4 DEF Typed
    <3> QED
      BY <1>1, <3>1, <3>3, <3>5 DEF Works
  <2> QED
    BY <2>1, <2>2
<1>4. mem'.passwords \in Passwords
  BY <1>1, ContentsFields
<1>5. OnlySaves(queue', "passwords", {c \in Passwords : Works(c, told', Account \ {inFlight'})})
  <2>1. Works(mem'.passwords, told', Account \ {inFlight'})
    BY <1>3 DEF Works
  <2> QED
    BY <1>1, <1>4, <2>1 DEF OnlySaves
<1> QED
  BY <1>1, <1>3, <1>5 DEF ConfirmedIsKept, Settled

LEMMA CrashKeeps ==
  ASSUME Typed, Quiet, ConfirmedIsKept, Crash
  PROVE  ConfirmedIsKept'
<1>1. /\ disk' = disk /\ ~up' /\ queue' = <<>>
      /\ \A u \in Account : told'[u] # Nobody =>
           u # inFlight /\ ~(torn /\ Saving("passwords")) /\ told'[u] = told[u]
  BY DEF Crash, Saving, Quiet
<1>2. Works(disk.passwords, told', Account)
  BY <1>1 DEF ConfirmedIsKept, Works, Settled
<1>3. OnlySaves(queue', "passwords", {c \in Passwords : Works(c, told', Account \ {inFlight'})})
  BY <1>1, OnlyNothing
<1> QED
  BY <1>1, <1>2, <1>3 DEF ConfirmedIsKept, Works, Settled

LEMMA TruncateKeeps ==
  ASSUME Typed, Quiet, ConfirmedIsKept, Truncate
  PROVE  ConfirmedIsKept'
<1>1. UNCHANGED <<up, mem, queue, told, inFlight>> /\ torn' /\ ~torn
  BY DEF Truncate, history
<1>2. ~Saving("passwords") => disk'.passwords = disk.passwords
  <2>1. ~Saving("passwords") => disk'["passwords"] = disk["passwords"]
    BY Truncates DEF Saving, File
  <2> QED
    BY <2>1
<1>3. Saving("passwords")' <=> Saving("passwords")
  BY <1>1 DEF Saving
<1>4. up
  BY DEF Truncate, Quiet
<1> QED
  BY <1>1, <1>2, <1>3, <1>4 DEF ConfirmedIsKept, Settled

LEMMA WriteKeeps ==
  ASSUME Typed, Quiet, SavesBringMem, SavesBringMem', ConfirmedIsKept, Write, Typed'
  PROVE  ConfirmedIsKept'
<1>1. UNCHANGED <<up, mem, told>> /\ torn /\ torn' = FALSE /\ queue' = Tail(queue) /\ up
  BY DEF Write, Quiet
<1>2. queue # <<>> /\ queue \in Seq(Saves) /\ Len(queue) \in Nat /\ Len(Tail(queue)) = Len(queue) - 1
  BY HeadIsSave DEF Write, Quiet, Typed
<1>3. CASE Len(queue) = 1
  <2>1. queue' = <<>> /\ disk' = mem'
    <3>1. queue' = <<>>
      BY <1>1, <1>2, <1>3
    <3>2. \A f \in File : mem'[f] = disk'[f]
      BY <1>1, <3>1 DEF SavesBringMem, Brings, Without
    <3> QED
      BY <3>1, <3>2, SameContents DEF File, Typed
  <2>2. OnlySaves(queue', "passwords", {c \in Passwords : Works(c, told', Account \ {inFlight'})})
    BY <2>1, OnlyNothing
  <2> QED
    BY <1>1, <2>1, <2>2 DEF ConfirmedIsKept, Works, Settled
<1>4. CASE Len(queue) # 1
  <2>1. inFlight' = inFlight
    BY <1>4 DEF Write
  <2>2. /\ OnlySaves(Tail(queue), "passwords", {c \in Passwords : Works(c, told, Settled)})
        /\ Saving("passwords") => Works(Head(queue)[2], told, Settled)
    BY <1>2, QueueRest DEF ConfirmedIsKept, Saving
  <2>3. Works(disk'.passwords, told, Settled)
    <3>1. disk'["passwords"] = IF Saving("passwords") THEN Head(queue)[2] ELSE disk["passwords"]
      BY Writes DEF Saving, File
    <3> QED
      BY <2>2, <3>1 DEF ConfirmedIsKept
  <2> QED
    BY <1>1, <2>1, <2>2, <2>3 DEF ConfirmedIsKept, Settled
<1> QED
  BY <1>3, <1>4

\* The commands that save, by anybody and of any account.
Command ==
  \/ \E p \in Person, u \in Account, x \in Password \cup {Generated} : Login(p, u, x)
  \/ \E p \in Person, u \in Account, x \in Password : Register(p, u, x)
  \/ \E p \in Person, x \in Password \cup {Generated}, y \in Password : Passwd(p, x, y)
  \/ \E u \in Account, x \in Password : RegisterInChannel(u, x)

LEMMA CommandsKeep ==
  ASSUME Typed, Quiet, SavesBringMem, ConfirmedIsKept, Command
  PROVE  ConfirmedIsKept'
<1>1. /\ Idle /\ up /\ disk' = disk /\ up' = up /\ torn' = torn /\ inFlight = Nobody
      /\ mem.passwords \in Passwords
  BY ContentsFields DEF Command, Login, Passwd, Register, RegisterInChannel, Idle, Quiet, Typed
<1>2. Works(mem.passwords, told, Account)
  BY <1>1 DEF ConfirmedIsKept
<1>3. ASSUME NEW p \in Person, NEW u \in Account, NEW x \in Password \cup {Generated}, Login(p, u, x)
      PROVE  ConfirmedIsKept'
  <2>1. /\ told' = told /\ mem'.passwords \in Passwords
        /\ OnlySaves(queue', "passwords", {mem.passwords, mem'.passwords})
        /\ \A v \in Account : mem.passwords[v] # Nobody =>
             mem'.passwords[v] # Nobody /\ mem'.passwords[v].password = mem.passwords[v].password
    BY <1>3, LoginDoes, ContentsFields DEF Login, history, Exists
  <2>2. Works(mem'.passwords, told', Account)
    BY <1>2, <2>1 DEF Works
  <2>3. \A c \in {mem.passwords, mem'.passwords} : Works(c, told', Account \ {inFlight'})
    BY <1>2, <2>1, <2>2 DEF Works
  <2>4. Works(mem.passwords, told', Account \ {inFlight'})
    BY <2>3
  <2>5. {mem.passwords, mem'.passwords} \in SUBSET Passwords
    BY <1>1, <2>1
  <2> QED
    BY <1>1, <2>1, <2>2, <2>3, <2>4, <2>5, CommandKeeps
<1>4. ASSUME NEW p \in Person, NEW x \in Password \cup {Generated}, NEW y \in Password, Passwd(p, x, y)
      PROVE  ConfirmedIsKept'
  <2> DEFINE a == auth[p]
  <2>1. a \in Account
    BY <1>4, PasswdDoes
  <2>2. CASE Matches(mem, a, x)
    <3>1. /\ told' = [told EXCEPT ![a] = y] /\ inFlight' = a
          /\ mem'.passwords \in SameBut(a) /\ Exists(mem', a) /\ mem'.passwords[a].password = y
          /\ OnlySaves(queue', "passwords", SameBut(a))
      BY <1>4, <2>1, <2>2, PasswdDoes DEF Passwd, Matches
    <3> HIDE DEF a
    <3>2. \A v \in Account : told'[v] = IF v = a THEN y ELSE told[v]
      BY <3>1 DEF Typed
    <3>3. \A c \in SameBut(a) : Works(c, told', Account \ {inFlight'})
      BY <1>2, <3>1, <3>2 DEF Works, SameBut
    <3>4. Works(mem'.passwords, told', Account)
      BY <3>1, <3>2, <3>3 DEF Works, Exists
    <3>5. mem.passwords \in SameBut(a)
      BY <1>1 DEF SameBut
    <3> QED
      BY <1>1, <3>1, <3>3, <3>4, <3>5, CommandKeeps DEF SameBut
  <2>3. CASE ~Matches(mem, a, x)
    <3>1. told' = told /\ mem' = mem /\ OnlySaves(queue', "passwords", {mem.passwords})
      BY <1>4, <2>3, PasswdDoes DEF Passwd
    <3>2. \A c \in {mem.passwords} : Works(c, told', Account \ {inFlight'})
      BY <1>2, <3>1 DEF Works
    <3> QED
      BY <1>1, <1>2, <3>1, <3>2, CommandKeeps
  <2> QED
    BY <2>2, <2>3
<1>5. ASSUME NEW p \in Person, NEW u \in Account, NEW y \in Password, Register(p, u, y)
      PROVE  ConfirmedIsKept'
  <2>1. /\ told' = [told EXCEPT ![u] = y] /\ inFlight' = u
        /\ mem'.passwords \in SameBut(u) /\ Exists(mem', u) /\ mem'.passwords[u].password = y
        /\ OnlySaves(queue', "passwords", SameBut(u))
    BY <1>5, RegisterDoes DEF Register
  <2>2. \A v \in Account : told'[v] = IF v = u THEN y ELSE told[v]
    BY <2>1 DEF Typed
  <2>3. \A c \in SameBut(u) : Works(c, told', Account \ {inFlight'})
    BY <1>2, <2>1, <2>2 DEF Works, SameBut
  <2>4. Works(mem'.passwords, told', Account)
    BY <2>1, <2>2, <2>3 DEF Works, Exists
  <2>5. mem.passwords \in SameBut(u)
    BY <1>1 DEF SameBut
  <2> QED
    BY <1>1, <2>1, <2>3, <2>4, <2>5, CommandKeeps DEF SameBut
<1>6. ASSUME NEW u \in Account, NEW y \in Password, RegisterInChannel(u, y)
      PROVE  ConfirmedIsKept'
  <2>1. told' = told /\ mem'.passwords = mem.passwords /\ OnlySaves(queue', "passwords", {})
    BY <1>6, RegisterInChannelDoes DEF RegisterInChannel
  <2>2. Works(mem.passwords, told', Account \ {inFlight'}) /\ Works(mem'.passwords, told', Account)
    BY <1>2, <2>1 DEF Works
  <2> QED
    BY <1>1, <2>1, <2>2, CommandKeeps
<1> QED
  BY <1>3, <1>4, <1>5, <1>6 DEF Command

LEMMA ConfirmedSteps ==
  /\ Typed /\ Quiet /\ SavesBringMem /\ ConfirmedIsKept
  /\ [Next]_vars /\ Typed' /\ SavesBringMem'
  => ConfirmedIsKept'
<1> SUFFICES ASSUME Typed, Quiet, SavesBringMem, ConfirmedIsKept, [Next]_vars, Typed', SavesBringMem'
             PROVE  ConfirmedIsKept'
  OBVIOUS
<1>1. CASE Setup \/ Crash \/ Truncate \/ Write
  BY <1>1, SetupKeeps, CrashKeeps, TruncateKeeps, WriteKeeps
<1>2. CASE UNCHANGED vars \/ \E p \in Person : Logout(p) \/ Leave(p)
  <2>1. UNCHANGED <<up, mem, disk, queue, torn, told, inFlight>>
    BY <1>2 DEF Logout, Leave, vars, files, history
  <2>2. Saving("passwords")' <=> Saving("passwords")
    BY <2>1 DEF Saving
  <2> QED
    BY <2>1, <2>2 DEF ConfirmedIsKept, Settled
<1>3. CASE Command
  BY <1>3, CommandsKeep
<1> QED
  BY <1>1, <1>2, <1>3 DEF Next, Command

-----------------------------------------------------------------------------
(***************************************************************************)
(* Which passwords are refused                                             *)
(***************************************************************************)
\* What was given away in channels is in b, a blacklist.yml.
GivenIn(b) == \A u \in Account : given[u] # {} => b # Nobody /\ given[u] \subseteq b[u]

GivenIsKept ==
  /\ up => GivenIn(mem.blacklist)
  /\ ~Saving("blacklist") => GivenIn(disk.blacklist)
  /\ OnlySaves(queue, "blacklist", {mem.blacklist})

LEMMA GivenSteps ==
  Typed /\ Quiet /\ SavesBringMem /\ GivenIsKept /\ [Next]_vars => GivenIsKept'
<1> SUFFICES ASSUME Typed, Quiet, SavesBringMem, GivenIsKept, [Next]_vars PROVE GivenIsKept'
  OBVIOUS
<1>1. CASE Setup
  <2>1. /\ mem'.blacklist # Nobody /\ (disk.blacklist # Nobody => mem'.blacklist = disk.blacklist)
        /\ OnlySaves(queue', "blacklist", {mem'.blacklist})
        /\ given' = given /\ disk' = disk
    BY <1>1, SetupDoes DEF Setup, Typed
  <2>2. GivenIn(disk.blacklist)
    BY <1>1 DEF GivenIsKept, Setup, Quiet, Saving
  <2> QED
    BY <2>1, <2>2 DEF GivenIsKept, GivenIn
<1>2. CASE Crash
  <2>1. /\ ~up' /\ disk' = disk /\ queue' = <<>>
        /\ given' = IF Saving("blacklist") THEN [u \in Account |-> {}] ELSE given
    BY <1>2 DEF Crash, Saving
  <2>2. OnlySaves(queue', "blacklist", {mem'.blacklist})
    BY <2>1, OnlyNothing
  <2> QED
    BY <2>1, <2>2 DEF GivenIsKept, GivenIn
<1>3. CASE Truncate
  <2>1. UNCHANGED <<up, mem, queue, given>>
    BY <1>3 DEF Truncate, history
  <2>2. ~Saving("blacklist") => disk'["blacklist"] = disk["blacklist"]
    BY <1>3, Truncates DEF Saving, File
  <2>3. Saving("blacklist")' <=> Saving("blacklist")
    BY <2>1 DEF Saving
  <2> QED
    BY <2>1, <2>2, <2>3 DEF GivenIsKept, GivenIn
<1>4. CASE Write
  <2>1. UNCHANGED <<up, mem, given>> /\ up /\ queue' = Tail(queue) /\ queue # <<>>
    BY <1>4 DEF Write, Quiet
  <2>2. disk'["blacklist"] = IF Saving("blacklist") THEN Head(queue)[2] ELSE disk["blacklist"]
    BY <1>4, Writes DEF Saving, File
  <2>3. /\ OnlySaves(queue', "blacklist", {mem.blacklist})
        /\ Saving("blacklist") => Head(queue)[2] = mem.blacklist
    BY <2>1, QueueRest DEF GivenIsKept, Typed, Saving
  <2> QED
    BY <2>1, <2>2, <2>3 DEF GivenIsKept, GivenIn
<1>5. CASE UNCHANGED vars \/ \E p \in Person : Logout(p) \/ Leave(p)
  <2>1. UNCHANGED <<up, mem, disk, queue, given>>
    BY <1>5 DEF Logout, Leave, vars, files, history
  <2>2. Saving("blacklist")' <=> Saving("blacklist")
    BY <2>1 DEF Saving
  <2> QED
    BY <2>1, <2>2 DEF GivenIsKept, GivenIn
<1>6. ASSUME Idle, up' = up, disk' = disk, given' = given, mem'.blacklist = mem.blacklist,
             OnlySaves(queue', "blacklist", {})
      PROVE  GivenIsKept'
  <2>1. disk = mem /\ up /\ OnlySaves(queue', "blacklist", {mem'.blacklist})
    BY <1>6, AllSaved DEF Idle, OnlySaves
  <2> QED
    BY <1>6, <2>1 DEF GivenIsKept, GivenIn
<1>7. ASSUME NEW p \in Person, NEW u \in Account, NEW x \in Password \cup {Generated}, Login(p, u, x)
      PROVE  GivenIsKept'
  BY <1>6, <1>7, LoginDoes DEF Login, history
<1>8. ASSUME NEW p \in Person, NEW u \in Account, NEW x \in Password, Register(p, u, x)
      PROVE  GivenIsKept'
  BY <1>6, <1>8, RegisterDoes DEF Register
<1>9. ASSUME NEW p \in Person, NEW x \in Password \cup {Generated}, NEW y \in Password, Passwd(p, x, y)
      PROVE  GivenIsKept'
  BY <1>6, <1>9, PasswdDoes DEF Passwd
<1>10. ASSUME NEW u \in Account, NEW x \in Password, RegisterInChannel(u, x)
       PROVE  GivenIsKept'
  <2>1. /\ up /\ up' = up /\ given' = [given EXCEPT ![u] = @ \cup {x}] /\ Saving("blacklist")'
        /\ mem.blacklist # Nobody
    <3>1. queue' = <<Save("blacklist", mem')>>
      BY <1>10 DEF RegisterInChannel
    <3> QED
      BY <1>10, <3>1 DEF RegisterInChannel, Idle, Typed, Saving, Save
  <2>2. /\ mem'.blacklist # Nobody
        /\ mem'.blacklist[u] = mem.blacklist[u] \cup {x}
        /\ \A v \in Account \ {u} : mem'.blacklist[v] = mem.blacklist[v]
        /\ OnlySaves(queue', "blacklist", {mem'.blacklist})
    BY <1>10, RegisterInChannelDoes
  <2>3. \A v \in Account : given'[v] = IF v = u THEN given[v] \cup {x} ELSE given[v]
    BY <2>1 DEF Typed
  <2>4. \A v \in Account : given[v] \subseteq mem.blacklist[v]
    BY <2>1 DEF GivenIsKept, GivenIn
  <2>5. GivenIn(mem.blacklist)'
    BY <2>2, <2>3, <2>4 DEF GivenIn
  <2> QED
    BY <2>1, <2>2, <2>5 DEF GivenIsKept
<1> QED
  BY <1>1, <1>2, <1>3, <1>4, <1>5, <1>7, <1>8, <1>9, <1>10 DEF Next

\* An account has a password that it did not have.
LEMMA NewPasswordNotGiven ==
  ASSUME Typed, Quiet, GivenIsKept, [Next]_vars,
         NEW u \in Account, up, up', Exists(mem', u), ~Matches(mem, u, mem'.passwords[u].password)
  PROVE  mem'.passwords[u].password \notin given[u]
<1>1. mem'.passwords[u] # mem.passwords[u]
  BY DEF Exists, Matches
<1>2. mem.blacklist # Nobody /\ given[u] \subseteq mem.blacklist[u]
  BY DEF Typed, GivenIsKept, GivenIn
<1>3. CASE Setup \/ Crash \/ Truncate \/ Write \/ UNCHANGED vars \/ \E p \in Person : Logout(p) \/ Leave(p)
  BY <1>1, <1>3 DEF Setup, Crash, Truncate, Write, Logout, Leave, vars, files
<1>4. ASSUME NEW p \in Person, NEW a \in Account, NEW x \in Password \cup {Generated}, Login(p, a, x)
      PROVE  FALSE
  BY <1>4, LoginDoes DEF Exists, Matches
<1>5. ASSUME NEW p \in Person, NEW a \in Account, NEW x \in Password, Register(p, a, x)
      PROVE  mem'.passwords[u].password \notin given[u]
  <2>1. u = a
    BY <1>1, <1>5, RegisterDoes DEF SameBut
  <2> QED
    BY <1>2, <1>5, <2>1, RegisterDoes DEF Register, Blacklisted
<1>6. ASSUME NEW p \in Person, NEW x \in Password \cup {Generated}, NEW y \in Password, Passwd(p, x, y)
      PROVE  mem'.passwords[u].password \notin given[u]
  <2>1. u = auth[p] /\ mem' # mem
    BY <1>1, <1>6, PasswdDoes DEF SameBut
  <2> QED
    BY <1>2, <1>6, <2>1, PasswdDoes DEF Passwd, Blacklisted
<1>7. ASSUME NEW a \in Account, NEW x \in Password, RegisterInChannel(a, x)
      PROVE  FALSE
  BY <1>1, <1>7, RegisterInChannelDoes
<1> QED
  BY <1>3, <1>4, <1>5, <1>6, <1>7 DEF Next

-----------------------------------------------------------------------------
(***************************************************************************)
(* The theorems                                                            *)
(***************************************************************************)
AccountsInv ==
  /\ Typed /\ Quiet /\ SessionsAreExact
  /\ SavesBringMem /\ WholeUnlessCut /\ ConfirmedIsKept /\ GivenIsKept

LEMMA Initially == Init => AccountsInv
<1> SUFFICES ASSUME Init PROVE AccountsInv
  OBVIOUS
<1>1. PICK old \in SUBSET (Account \ {Superadmin}), x \in Password :
        /\ disk = IF old = {} THEN Empty ELSE
             [passwords |-> [u \in Account |->
                  IF u \in old THEN [password |-> x, algo |-> "old"] ELSE Nobody],
              permissions |-> [defaults |-> NDefaults,
                  users |-> [u \in Account |-> IF u \in old THEN "plain" ELSE "none"]],
              blacklist |-> [u \in Account |-> {}]]
        /\ told = [u \in Account |-> IF u \in old THEN x ELSE Nobody]
  BY DEF Init
<1>2. /\ ~up /\ queue = <<>> /\ cut = FALSE /\ torn = FALSE
      /\ \A u \in Account : given[u] = {}
  BY DEF Init
<1>3. Typed /\ Quiet
  BY InitiallyTyped
<1>4. /\ \A u \in Account : disk.passwords[u] =
           IF u \in old THEN [password |-> x, algo |-> "old"] ELSE Nobody
      /\ \A u \in Account : disk.permissions.users[u] = IF u \in old THEN "plain" ELSE "none"
      /\ disk.permissions.defaults \in {-1, NDefaults}
  <2>1. CASE old = {}
    BY <1>1, <2>1 DEF Empty
  <2>2. CASE old # {}
    BY <1>1, <2>2
  <2> QED
    BY <2>1, <2>2
<1>5. [password |-> x, algo |-> "old"] # Nobody /\ [password |-> x, algo |-> "old"].password = x
  BY HashIsAccount
<1>6. Agree(disk)
  BY <1>4, <1>5, AccountAssumption DEF Agree, Exists, Matches
<1>7. Works(disk.passwords, told, Account)
  BY <1>1, <1>4, <1>5 DEF Works
<1>8. \A f, S : OnlySaves(queue, f, S)
  BY <1>2, OnlyNothing
<1> QED
  BY <1>2, <1>3, <1>4, <1>6, <1>7, <1>8
  DEF AccountsInv, SessionsAreExact, SavesBringMem, WholeUnlessCut, ConfirmedIsKept, Works, Settled,
      GivenIsKept, GivenIn

LEMMA Steps == AccountsInv /\ [Next]_vars => AccountsInv'
BY TypedSteps, SessionsSteps, SavesSteps, WholeSteps, ConfirmedSteps, GivenSteps DEF AccountsInv

LEMMA Always == Spec => []AccountsInv
BY Initially, Steps, PTL DEF Spec

\* For any accounts, passwords and people, and crashes at every step: while the
\* plugin is up there is an account, those who are logged in are listed, and
\* under an account that exists.
THEOREM SessionsStayExact == Spec => []SessionsAreExact
<1>1. AccountsInv => SessionsAreExact
  BY DEF AccountsInv
<1> QED
  BY <1>1, Always, PTL

\* Between commands the three files hold what is in memory, and unless a crash
\* cut a command short passwords.yml and permissions.yml agree, however many
\* saves the commands and the setup before have made.
THEOREM FilesStayAgreed == Spec => []FilesAgree
<1>1. ASSUME AccountsInv
      PROVE  FilesAgree
  <2>1. Idle => disk = mem
    BY <1>1, AllSaved DEF AccountsInv, Idle
  <2> QED
    BY <1>1, <2>1 DEF AccountsInv, WholeUnlessCut, Agree, FilesAgree, Idle
<1> QED
  BY <1>1, Always, PTL

\* A password that was confirmed works until its account gets another one, also
\* after a crash, unless that cut a save of passwords.yml or the command short.
THEOREM ConfirmedPasswordsGoOn == Spec => []ConfirmedPasswordsWork
<1>1. AccountsInv => ConfirmedPasswordsWork
  BY DEF AccountsInv, ConfirmedIsKept, Works, ConfirmedPasswordsWork, Idle, Matches, Exists
<1> QED
  BY <1>1, Always, PTL

\* No account gets a password that was shown in a channel for it, also after
\* crashes, unless one hit the save of blacklist.yml.
THEOREM GivenPasswordsAreRefused == Spec => ChannelPasswordsAreRefused
<1> DEFINE Refused ==
      \A u \in Account :
        /\ up /\ up' /\ Exists(mem', u)
        /\ ~Matches(mem, u, mem'.passwords[u].password)
        => mem'.passwords[u].password \notin given[u]
<1>1. AccountsInv /\ [Next]_vars => [Refused]_vars
  BY NewPasswordNotGiven DEF AccountsInv
<1>2. Spec => [][Refused]_vars
  BY <1>1, Always, PTL DEF Spec
<1> QED
  BY <1>2 DEF ChannelPasswordsAreRefused
=============================================================================
