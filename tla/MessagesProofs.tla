--------------------------- MODULE MessagesProofs ---------------------------
(***************************************************************************)
(* Proofs about Messages, for any plugins, commands, priorities and rules: *)
(* what the registry has belongs to plugins that are set up or is left by  *)
(* set-ups that raised; a message is heard once by everybody who asks for  *)
(* messages, or by nobody; and the bridge relays what is said once, and    *)
(* never what it has relayed itself.                                       *)
(***************************************************************************)
EXTENDS MessagesProps, FiniteSetTheorems, SequenceTheorems, WellFoundedInduction, TLAPS

RegistryTyped ==
  /\ loaded \subseteq Plugin /\ whole \subseteq loaded /\ orphans \subseteq Command
  /\ \A s \in strays : s \in Plugin \X Event /\ s[2] \in Hooks[s[1]]
  /\ commands \in [Command -> Plugin \cup {None}]
  /\ aliases \in [Alias -> Command \cup {None}]

\* An alias leads to a command that is there and was registered with it.
AliasesLead ==
  \A a \in Alias : aliases[a] # None =>
    /\ commands[aliases[a]] # None
    /\ <<a, aliases[a]>> \in {AliasesOf[commands[aliases[a]]][i] :
                                i \in DOMAIN AliasesOf[commands[aliases[a]]]}

-----------------------------------------------------------------------------
(* What p wants *)

\* A set of numbers has a least one.
LEMMA Least ==
  ASSUME NEW S, S \subseteq Nat, S # {}
  PROVE  \E m \in S : \A k \in S : m <= k
<1> DEFINE R == {ss \in Nat \X Nat : ss[1] < ss[2]}
<1>1. IsWellFoundedOn(R, Nat)
  BY NatLessThanWellFounded DEF OpToRel
<1>2. \A j, k \in Nat : <<k, j>> \notin R => j <= k
  OBVIOUS
<1> HIDE DEF R
<1>3. PICK m \in S : \A k \in S : <<k, m>> \notin R
  BY <1>1, WFMin, Zenon
<1>4. ASSUME NEW k \in S PROVE m <= k
  <2>1. m \in Nat /\ k \in Nat
    OBVIOUS
  <2>2. <<k, m>> \notin R
    BY <1>3
  <2> QED
    BY <1>2, <2>1, <2>2
<1> QED
  BY <1>4

\* The aliases of a plugin are for commands of its own.
LEMMA OwnAliases ==
  ASSUME NEW p \in Plugin, NEW i \in DOMAIN AliasesOf[p]
  PROVE  /\ AliasesOf[p][i] = <<AliasesOf[p][i][1], AliasesOf[p][i][2]>>
         /\ AliasesOf[p][i][1] \in Alias
         /\ AliasesOf[p][i][2] \in Commands[p] /\ AliasesOf[p][i][2] \in Command
<1>1. AliasesOf[p] \in Seq(STRING \X Commands[p])
  BY PluginAssumption, Zenon
<1>2. AliasesOf[p][i] \in STRING \X Commands[p]
  BY <1>1
<1> QED
  BY <1>2 DEF Alias, Command

\* What register_command makes of an alias: it is as before, or new, and then
\* for one of the commands that nobody had.
LEMMA NewAlias ==
  ASSUME NEW p \in Plugin, NEW a \in Alias, NEW names
  PROVE  LET new == WithAliases(aliases, commands, p, names)[a]
         IN \/ new = aliases[a]
            \/ /\ aliases[a] = None
               /\ \E i \in DOMAIN AliasesOf[p] :
                    /\ AliasesOf[p][i] = <<a, new>>
                    /\ new \in names /\ new \in Command /\ commands[new] = None
<1> DEFINE Mine == {i \in DOMAIN AliasesOf[p] :
                      /\ AliasesOf[p][i][1] = a
                      /\ AliasesOf[p][i][2] \in names /\ commands[AliasesOf[p][i][2]] = None}
           First == CHOOSE i \in Mine : \A j \in Mine : i <= j
           new == WithAliases(aliases, commands, p, names)[a]
<1>1. new = IF aliases[a] # None \/ Mine = {} THEN aliases[a] ELSE AliasesOf[p][First][2]
  BY DEF WithAliases
<1>2. CASE aliases[a] # None \/ Mine = {}
  BY <1>1, <1>2
<1>3. CASE aliases[a] = None /\ Mine # {}
  <2>1. Mine \subseteq Nat
    <3>1. AliasesOf[p] \in Seq(STRING \X Commands[p])
      BY PluginAssumption, Zenon
    <3> QED
      BY <3>1
  <2>2. First \in Mine
    <3> HIDE DEF Mine
    <3> QED
      BY <1>3, <2>1, Least
  <2>3. new = AliasesOf[p][First][2]
    BY <1>1, <1>3
  <2>4. /\ First \in DOMAIN AliasesOf[p] /\ AliasesOf[p][First][1] = a
        /\ new \in names /\ commands[new] = None
    BY <2>2, <2>3
  <2> HIDE DEF Mine, First, new
  <2>5. AliasesOf[p][First] = <<a, new>> /\ new \in Command
    BY <2>3, <2>4, OwnAliases
  <2>6. aliases[a] = None
    BY <1>3
  <2> QED
    BY <2>4, <2>5, <2>6 DEF new
<1> QED
  BY <1>2, <1>3

-----------------------------------------------------------------------------
(***************************************************************************)
(* Handlers                                                                *)
(***************************************************************************)
Has(s, p) == \E i \in DOMAIN s : s[i] = p
Ranked(s) == \A i, j \in DOMAIN s : i < j => Rank[s[i]] > Rank[s[j]]
Before(s, t) == \A i \in DOMAIN s, j \in DOMAIN t : Rank[s[i]] > Rank[t[j]]

\* Each event has the handlers that were registered for it, in their order.
CallbacksExact ==
  /\ callbacks \in [Event -> Seq(Plugin)]
  /\ \A e \in Event :
       /\ Ranked(callbacks[e])
       /\ \A p \in Plugin : Has(callbacks[e], p) <=> <<p, e>> \in Hooked
       /\ \A p \in Plugin : <<p, e>> \in Hooked => e \in Hooks[p]

LEMMA SequenceIs ==
  ASSUME NEW S, NEW s \in Seq(S)
  PROVE  /\ Len(s) \in Nat /\ DOMAIN s = 1 .. Len(s) /\ (s = <<>> <=> Len(s) = 0)
         /\ \A i \in 1 .. Len(s) : s[i] \in S
OBVIOUS

LEMMA HeadAndTail ==
  ASSUME NEW S, NEW s \in Seq(S), s # <<>>
  PROVE  /\ Head(s) = s[1] /\ Head(s) \in S /\ 1 \in DOMAIN s
         /\ Tail(s) \in Seq(S) /\ Len(Tail(s)) = Len(s) - 1
         /\ \A i \in 1 .. Len(s) - 1 : i + 1 \in DOMAIN s /\ Tail(s)[i] = s[i + 1]
OBVIOUS

LEMMA AppendedTo ==
  ASSUME NEW S, NEW s \in Seq(S), NEW x \in S
  PROVE  /\ Append(s, x) \in Seq(S) /\ Len(Append(s, x)) = Len(s) + 1
         /\ \A i \in 1 .. Len(s) : Append(s, x)[i] = s[i]
         /\ Append(s, x)[Len(s) + 1] = x
OBVIOUS

LEMMA PutTogether ==
  ASSUME NEW S, NEW s, NEW t, s \in Seq(S), t \in Seq(S)
  PROVE  /\ s \o t \in Seq(S) /\ Len(s \o t) = Len(s) + Len(t)
         /\ \A i \in 1 .. Len(s) : (s \o t)[i] = s[i]
         /\ \A i \in 1 .. Len(t) : (s \o t)[Len(s) + i] = t[i]
OBVIOUS

LEMMA PartOf ==
  ASSUME NEW S, NEW s \in Seq(S), NEW m \in Nat, NEW n \in Nat, 1 <= m, n <= Len(s), m <= n + 1
  PROVE  /\ SubSeq(s, m, n) \in Seq(S) /\ Len(SubSeq(s, m, n)) = n - m + 1
         /\ \A i \in 1 .. n - m + 1 : SubSeq(s, m, n)[i] = s[m + i - 1]
<1>1. SubSeq(s, m, n) \in Seq(S)
  OBVIOUS
<1>2. CASE m <= n
  BY <1>1, <1>2
<1>3. CASE m = n + 1
  <2>1. Len(SubSeq(s, m, n)) = 0
    BY <1>3
  <2> QED
    BY <1>1, <1>3, <2>1
<1> QED
  BY <1>2, <1>3

LEMMA InsertedAt ==
  ASSUME NEW S, NEW s \in Seq(S), NEW x \in S, NEW n \in Nat, n <= Len(s)
  PROVE  LET t == InsertAt(s, n + 1, x)
         IN /\ t \in Seq(S) /\ Len(t) = Len(s) + 1
            /\ \A i \in 1 .. Len(s) + 1 :
                 t[i] = IF i <= n THEN s[i] ELSE IF i = n + 1 THEN x ELSE s[i - 1]
<1> DEFINE a == SubSeq(s, 1, n)
           b == SubSeq(s, n + 1, Len(s))
           l == Len(s)
<1>1. l \in Nat /\ n <= l
  OBVIOUS
<1>2. /\ a \in Seq(S) /\ Len(a) = n /\ \A i \in 1 .. n : a[i] = s[i]
  <2>1. n - 1 + 1 = n /\ \A i \in 1 .. n : 1 + i - 1 = i
    OBVIOUS
  <2> QED
    BY <1>1, <2>1, PartOf
<1>3. /\ b \in Seq(S) /\ Len(b) = l - n /\ \A i \in 1 .. l - n : b[i] = s[n + i]
  <2>1. l - (n + 1) + 1 = l - n /\ \A i \in 1 .. l - n : n + 1 + i - 1 = n + i
    BY <1>1
  <2>2. n + 1 \in Nat /\ 1 <= n + 1 /\ n + 1 <= l + 1
    BY <1>1
  <2> HIDE DEF l
  <2>3. l = Len(s)
    BY DEF l
  <2>4. /\ SubSeq(s, n + 1, l) \in Seq(S) /\ Len(SubSeq(s, n + 1, l)) = l - (n + 1) + 1
        /\ \A i \in 1 .. l - (n + 1) + 1 : SubSeq(s, n + 1, l)[i] = s[n + 1 + i - 1]
    BY <1>1, <2>2, <2>3, PartOf
  <2> QED
    BY <2>1, <2>3, <2>4
<1>4. InsertAt(s, n + 1, x) = (a \o <<x>>) \o b
  <2> DEFINE m == n + 1
  <2>1. m - 1 = n
    OBVIOUS
  <2> HIDE DEF m
  <2>2. InsertAt(s, m, x) = (SubSeq(s, 1, m - 1) \o <<x>>) \o SubSeq(s, m, Len(s))
    BY DEF InsertAt
  <2>3. InsertAt(s, m, x) = (SubSeq(s, 1, n) \o <<x>>) \o SubSeq(s, m, Len(s))
    BY <2>1, <2>2
  <2> QED
    BY <2>3, Zenon DEF m
<1> HIDE DEF a, b, l
<1> DEFINE c == a \o <<x>>
<1>5. /\ c \in Seq(S) /\ Len(c) = n + 1
      /\ \A i \in 1 .. n : c[i] = s[i]
      /\ c[n + 1] = x
  <2>1. /\ <<x>> \in Seq(S) /\ Len(<<x>>) = 1 /\ <<x>>[1] = x
    OBVIOUS
  <2>2. /\ c \in Seq(S) /\ Len(c) = Len(a) + Len(<<x>>)
        /\ \A i \in 1 .. Len(a) : c[i] = a[i]
        /\ \A i \in 1 .. Len(<<x>>) : c[Len(a) + i] = <<x>>[i]
    BY <1>2, <2>1, PutTogether
  <2> HIDE DEF c
  <2>3. Len(a) = n
    BY <1>2
  <2>4. c[n + 1] = x
    BY <2>1, <2>2, <2>3
  <2> QED
    BY <1>2, <2>1, <2>2, <2>3, <2>4
<1> HIDE DEF c
<1>6. /\ c \o b \in Seq(S) /\ Len(c \o b) = n + 1 + (l - n)
      /\ \A i \in 1 .. n + 1 : (c \o b)[i] = c[i]
      /\ \A i \in 1 .. l - n : (c \o b)[n + 1 + i] = s[n + i]
  <2>1. /\ c \o b \in Seq(S) /\ Len(c \o b) = Len(c) + Len(b)
        /\ \A i \in 1 .. Len(c) : (c \o b)[i] = c[i]
        /\ \A i \in 1 .. Len(b) : (c \o b)[Len(c) + i] = b[i]
    <3>1. c \in Seq(S) /\ b \in Seq(S)
      BY <1>3, <1>5
    <3>2. c \o b \in Seq(S) /\ Len(c \o b) = Len(c) + Len(b)
      BY <3>1
    <3>3. \A i \in 1 .. Len(c) : (c \o b)[i] = c[i]
      BY <3>1
    <3>4. \A i \in 1 .. Len(b) : (c \o b)[Len(c) + i] = b[i]
      BY <3>1
    <3> QED
      BY <3>2, <3>3, <3>4
  <2>2. Len(c) = n + 1 /\ Len(b) = l - n
    BY <1>3, <1>5
  <2> QED
    BY <1>3, <2>1, <2>2
<1>7. ASSUME NEW i \in 1 .. l + 1
      PROVE  (c \o b)[i] = IF i <= n THEN s[i] ELSE IF i = n + 1 THEN x ELSE s[i - 1]
  <2>1. CASE i <= n
    <3>1. i \in 1 .. n /\ i \in 1 .. n + 1
      BY <1>1, <2>1
    <3> QED
      BY <1>5, <1>6, <2>1, <3>1
  <2>2. CASE i = n + 1
    <3>1. n + 1 \in 1 .. n + 1 /\ ~(n + 1 <= n)
      OBVIOUS
    <3>2. (c \o b)[n + 1] = x
      BY <1>5, <1>6, <3>1
    <3> QED
      BY <2>2, <3>1, <3>2
  <2>3. CASE i > n + 1
    <3> DEFINE k == i - (n + 1)
    <3>1. k \in 1 .. l - n /\ i = n + 1 + k /\ n + k = i - 1
      BY <1>1, <2>3
    <3> HIDE DEF k
    <3>2. (c \o b)[i] = s[i - 1]
      BY <1>6, <3>1
    <3> QED
      BY <2>3, <3>2
  <2>4. i <= n \/ i = n + 1 \/ i > n + 1
    BY <1>1
  <2> QED
    BY <2>1, <2>2, <2>3, <2>4
<1>8. n + 1 + (l - n) = l + 1
  BY <1>1
<1> QED
  BY ONLY <1>4, <1>6, <1>7, <1>8, Zenon DEF c, l

LEMMA RemovedAt ==
  ASSUME NEW S, NEW s \in Seq(S), NEW k \in 1 .. Len(s)
  PROVE  LET t == RemoveAt(s, k)
         IN /\ t \in Seq(S) /\ Len(t) = Len(s) - 1
            /\ \A i \in 1 .. Len(s) - 1 : t[i] = IF i < k THEN s[i] ELSE s[i + 1]
<1> DEFINE a == SubSeq(s, 1, k - 1)
           b == SubSeq(s, k + 1, Len(s))
           l == Len(s)
<1>1. l \in Nat /\ k \in Nat /\ 1 <= k /\ k <= l
  OBVIOUS
<1>2. /\ a \in Seq(S) /\ Len(a) = k - 1 /\ \A i \in 1 .. k - 1 : a[i] = s[i]
  <2>1. k - 1 - 1 + 1 = k - 1 /\ \A i \in 1 .. k - 1 : 1 + i - 1 = i
    BY <1>1
  <2>2. k - 1 \in Nat /\ k - 1 <= l /\ 1 <= k - 1 + 1
    BY <1>1
  <2>3. /\ SubSeq(s, 1, k - 1) \in Seq(S) /\ Len(SubSeq(s, 1, k - 1)) = k - 1 - 1 + 1
        /\ \A i \in 1 .. k - 1 - 1 + 1 : SubSeq(s, 1, k - 1)[i] = s[1 + i - 1]
    BY <2>2, PartOf
  <2> QED
    BY <2>1, <2>3
<1>3. /\ b \in Seq(S) /\ Len(b) = l - k /\ \A i \in 1 .. l - k : b[i] = s[k + i]
  <2>1. l - (k + 1) + 1 = l - k /\ \A i \in 1 .. l - k : k + 1 + i - 1 = k + i
    BY <1>1
  <2>2. k + 1 \in Nat /\ 1 <= k + 1 /\ k + 1 <= l + 1
    BY <1>1
  <2> HIDE DEF l
  <2>3. l = Len(s)
    BY DEF l
  <2>4. /\ SubSeq(s, k + 1, l) \in Seq(S) /\ Len(SubSeq(s, k + 1, l)) = l - (k + 1) + 1
        /\ \A i \in 1 .. l - (k + 1) + 1 : SubSeq(s, k + 1, l)[i] = s[k + 1 + i - 1]
    BY <1>1, <2>2, <2>3, PartOf
  <2> QED
    BY <2>1, <2>3, <2>4
<1>4. RemoveAt(s, k) = a \o b
  BY DEF RemoveAt
<1> HIDE DEF a, b, l
<1>5. /\ a \o b \in Seq(S) /\ Len(a \o b) = k - 1 + (l - k)
      /\ \A i \in 1 .. k - 1 : (a \o b)[i] = s[i]
      /\ \A i \in 1 .. l - k : (a \o b)[k - 1 + i] = s[k + i]
  <2>1. /\ a \o b \in Seq(S) /\ Len(a \o b) = Len(a) + Len(b)
        /\ \A i \in 1 .. Len(a) : (a \o b)[i] = a[i]
        /\ \A i \in 1 .. Len(b) : (a \o b)[Len(a) + i] = b[i]
    <3>1. a \in Seq(S) /\ b \in Seq(S)
      BY <1>2, <1>3
    <3> QED
      BY ONLY <3>1, PutTogether
  <2>2. Len(a) = k - 1 /\ Len(b) = l - k
    BY <1>2, <1>3
  <2> QED
    BY <1>2, <1>3, <2>1, <2>2
<1>6. ASSUME NEW i \in 1 .. l - 1
      PROVE  (a \o b)[i] = IF i < k THEN s[i] ELSE s[i + 1]
  <2>1. CASE i < k
    BY <1>1, <1>5, <2>1
  <2>2. CASE i >= k
    <3> DEFINE m == i - (k - 1)
    <3>1. m \in 1 .. l - k /\ i = k - 1 + m /\ k + m = i + 1
      BY <1>1, <2>2
    <3> HIDE DEF m
    <3>2. (a \o b)[i] = s[i + 1]
      BY <1>5, <3>1
    <3> QED
      BY <1>1, <2>2, <3>2
  <2>3. i < k \/ i >= k
    BY <1>1
  <2> QED
    BY <2>1, <2>2, <2>3
<1>7. k - 1 + (l - k) = l - 1
  BY <1>1
<1> QED
  BY ONLY <1>4, <1>5, <1>6, <1>7, Zenon DEF l

LEMMA RankIs == \A p \in Plugin : Rank[p] \in Int
BY PluginAssumption

LEMMA RanksDiffer == \A p, q \in Plugin : Rank[p] = Rank[q] => p = q
BY PluginAssumption

\* Those that rank above p are the first ones of a ranked sequence.
LEMMA AbovePrefix ==
  ASSUME NEW s \in Seq(Plugin), Ranked(s), NEW p \in Plugin
  PROVE  \E n \in Nat :
           /\ n <= Len(s) /\ Cardinality({i \in DOMAIN s : Rank[s[i]] > Rank[p]}) = n
           /\ \A i \in 1 .. Len(s) : i <= n <=> Rank[s[i]] > Rank[p]
<1> DEFINE above == {i \in DOMAIN s : Rank[s[i]] > Rank[p]}
           rest == {k \in Nat \ {0} : k \notin above}
<1>1. Len(s) \in Nat /\ DOMAIN s = 1 .. Len(s) /\ \A i \in 1 .. Len(s) : Rank[s[i]] \in Int
  BY SequenceIs, RankIs
<1>2. Len(s) + 1 \in rest
  BY <1>1
<1>3. PICK m \in rest : \A k \in rest : m <= k
  <2>1. rest \subseteq Nat /\ rest # {}
    BY <1>2
  <2> HIDE DEF rest
  <2> QED
    BY <2>1, Least
<1> DEFINE n == m - 1
<1>4. n \in Nat /\ n <= Len(s) /\ m \in Nat /\ m = n + 1
  BY <1>1, <1>2, <1>3
<1>5. ASSUME NEW i \in 1 .. Len(s) PROVE i <= n <=> i \in above
  <2>1. CASE i <= n
    <3>1. i \notin rest
      BY <1>3, <1>4, <2>1
    <3> QED
      BY <2>1, <3>1
  <2>2. CASE i > n
    <3>1. SUFFICES ASSUME i \in above PROVE FALSE
      BY <1>4, <2>2
    <3>2. i # m /\ i > m
      BY <1>3, <1>4, <2>2, <3>1
    <3>3. m \in DOMAIN s /\ i \in DOMAIN s
      BY <1>1, <1>3, <1>4, <3>2
    <3>4. Rank[s[m]] > Rank[s[i]]
      BY <3>2, <3>3 DEF Ranked
    <3>5. Rank[s[i]] > Rank[p] /\ Rank[p] \in Int
      BY <3>1, RankIs
    <3>6. Rank[s[m]] > Rank[p]
      BY <1>1, <3>3, <3>4, <3>5
    <3> QED
      BY <1>3, <3>3, <3>6
  <2> QED
    BY <1>4, <2>1, <2>2
<1>6. above = 1 .. n
  <2>1. above \subseteq 1 .. Len(s)
    BY <1>1
  <2>2. \A i \in above : i \in 1 .. n
    <3> SUFFICES ASSUME NEW i \in above PROVE i \in 1 .. n
      OBVIOUS
    <3>1. i \in 1 .. Len(s)
      BY <2>1
    <3>2. i <= n
      BY <1>5, <3>1
    <3> QED
      BY <1>4, <3>1, <3>2
  <2>3. \A i \in 1 .. n : i \in above
    <3> SUFFICES ASSUME NEW i \in 1 .. n PROVE i \in above
      OBVIOUS
    <3>1. i \in 1 .. Len(s) /\ i <= n
      BY <1>1, <1>4
    <3> QED
      BY <1>5, <3>1
  <2> HIDE DEF above, n
  <2> QED
    BY <2>2, <2>3
<1>7. Cardinality(above) = n
  <2> HIDE DEF n
  <2>1. Cardinality(1 .. n) = IF 1 > n THEN 0 ELSE n - 1 + 1
    BY <1>4, FS_Interval
  <2>2. Cardinality(1 .. n) = n
    BY <1>4, <2>1
  <2> QED
    BY ONLY <1>6, <2>2
<1>8. \A i \in 1 .. Len(s) : i <= n <=> Rank[s[i]] > Rank[p]
  BY <1>1, <1>5
<1> QED
  BY <1>4, <1>7, <1>8

LEMMA Inserting ==
  ASSUME NEW s \in Seq(Plugin), Ranked(s), NEW p \in Plugin, ~Has(s, p)
  PROVE  LET t == WithHandler(s, p)
         IN /\ t \in Seq(Plugin) /\ Ranked(t)
            /\ \A q : Has(t, q) <=> Has(s, q) \/ q = p
<1>1. PICK n \in Nat :
        /\ n <= Len(s) /\ Cardinality({i \in DOMAIN s : Rank[s[i]] > Rank[p]}) = n
        /\ \A i \in 1 .. Len(s) : i <= n <=> Rank[s[i]] > Rank[p]
  BY AbovePrefix
<1> DEFINE t == WithHandler(s, p)
           l == Len(s)
<1>2. t = InsertAt(s, n + 1, p)
  BY <1>1 DEF WithHandler
<1>3. /\ t \in Seq(Plugin) /\ Len(t) = l + 1
      /\ \A i \in 1 .. l + 1 : t[i] = IF i <= n THEN s[i] ELSE IF i = n + 1 THEN p ELSE s[i - 1]
  <2> DEFINE u == InsertAt(s, n + 1, p)
  <2>1. n <= Len(s)
    BY <1>1
  <2>2. /\ u \in Seq(Plugin) /\ Len(u) = Len(s) + 1
        /\ \A i \in 1 .. Len(s) + 1 :
             u[i] = IF i <= n THEN s[i] ELSE IF i = n + 1 THEN p ELSE s[i - 1]
    BY ONLY <2>1, n \in Nat, s \in Seq(Plugin), p \in Plugin, InsertedAt
  <2>3. t = u
    BY <1>2
  <2> HIDE DEF t, u
  <2> QED
    BY ONLY <2>2, <2>3
<1>4. /\ l \in Nat /\ DOMAIN s = 1 .. l /\ n <= l /\ \A i \in 1 .. l : s[i] \in Plugin
  BY <1>1, SequenceIs
<1>5. DOMAIN t = 1 .. l + 1
  BY <1>3
<1>6. \A i \in 1 .. l : Rank[s[i]] \in Int /\ s[i] # p /\ (i <= n <=> Rank[s[i]] > Rank[p])
  BY <1>1, <1>4, RankIs DEF Has
<1>7. \A i \in 1 .. l : i > n => Rank[p] > Rank[s[i]]
  <2> SUFFICES ASSUME NEW i \in 1 .. l, i > n PROVE Rank[p] > Rank[s[i]]
    OBVIOUS
  <2>1. ~(Rank[s[i]] > Rank[p]) /\ Rank[s[i]] \in Int /\ Rank[p] \in Int
    BY <1>1, <1>4, <1>6, RankIs
  <2>2. Rank[s[i]] # Rank[p]
    BY <1>4, <1>6, RanksDiffer
  <2> QED
    BY <2>1, <2>2
<1>8. \A i, j \in 1 .. l : i < j => Rank[s[i]] > Rank[s[j]]
  BY <1>4 DEF Ranked
<1> HIDE DEF t, l
<1>9. ASSUME NEW i \in DOMAIN t, NEW j \in DOMAIN t, i < j
      PROVE  Rank[t[i]] > Rank[t[j]]
  <2>1. i \in 1 .. l + 1 /\ j \in 1 .. l + 1 /\ i \in Int /\ j \in Int /\ n \in Int
    BY <1>4, <1>5
  <2>2. CASE j <= n
    <3>1. i \in 1 .. l /\ j \in 1 .. l /\ i <= n
      BY <1>4, <1>9, <2>1, <2>2
    <3>2. t[i] = s[i] /\ t[j] = s[j]
      BY <1>3, <2>1, <2>2, <3>1
    <3> QED
      BY <1>8, <1>9, <3>1, <3>2
  <2>3. CASE j = n + 1
    <3>1. i \in 1 .. l /\ i <= n /\ ~(j <= n)
      BY <1>4, <1>9, <2>1, <2>3
    <3>2. t[i] = s[i] /\ t[j] = p
      BY <1>3, <2>1, <2>3, <3>1
    <3> QED
      BY <1>6, <3>1, <3>2
  <2>4. CASE j > n + 1
    <3>1. j - 1 \in 1 .. l /\ j - 1 > n /\ ~(j <= n) /\ j # n + 1
      BY <1>4, <2>1, <2>4
    <3>2. t[j] = s[j - 1]
      BY <1>3, <2>1, <3>1
    <3>3. CASE i <= n
      <4>1. i \in 1 .. l /\ i < j - 1 /\ t[i] = s[i]
        BY <1>3, <1>4, <2>1, <3>1, <3>3
      <4> QED
        BY <1>8, <3>1, <3>2, <4>1
    <3>4. CASE i = n + 1
      <4>1. ~(i <= n)
        BY <3>4
      <4>2. t[i] = p
        BY <1>3, <2>1, <3>4, <4>1
      <4> QED
        BY <1>7, <3>1, <3>2, <4>2
    <3>5. CASE i > n + 1
      <4>1. i - 1 \in 1 .. l /\ i - 1 < j - 1 /\ ~(i <= n) /\ i # n + 1
        BY <1>4, <1>9, <2>1, <3>5
      <4>2. t[i] = s[i - 1]
        BY <1>3, <2>1, <4>1
      <4> QED
        BY <1>8, <3>1, <3>2, <4>1, <4>2
    <3>6. i <= n \/ i = n + 1 \/ i > n + 1
      BY <2>1
    <3> QED
      BY <3>3, <3>4, <3>5, <3>6
  <2>5. j <= n \/ j = n + 1 \/ j > n + 1
    BY <2>1
  <2> QED
    BY <2>2, <2>3, <2>4, <2>5
<1>10. ASSUME NEW q, Has(t, q) PROVE Has(s, q) \/ q = p
  <2>1. PICK i \in DOMAIN t : t[i] = q
    BY <1>10 DEF Has
  <2>2. i \in 1 .. l + 1
    BY <1>5
  <2>3. CASE i <= n
    <3>1. i \in DOMAIN s /\ s[i] = q
      BY <1>3, <1>4, <2>1, <2>2, <2>3
    <3> QED
      BY <3>1 DEF Has
  <2>4. CASE i = n + 1
    BY <1>3, <2>1, <2>2, <2>4
  <2>5. CASE i > n + 1
    <3>1. i - 1 \in DOMAIN s /\ s[i - 1] = q
      BY <1>3, <1>4, <2>1, <2>2, <2>5
    <3> QED
      BY <3>1 DEF Has
  <2>6. i <= n \/ i = n + 1 \/ i > n + 1
    BY <2>2
  <2> QED
    BY <2>3, <2>4, <2>5, <2>6
<1>11. ASSUME NEW q, Has(s, q) PROVE Has(t, q)
  <2>1. PICK i \in DOMAIN s : s[i] = q
    BY <1>11 DEF Has
  <2>2. i \in 1 .. l
    BY <1>4
  <2>3. CASE i <= n
    <3>1. i \in DOMAIN t /\ t[i] = q
      BY <1>3, <1>4, <1>5, <2>1, <2>2, <2>3
    <3> QED
      BY <3>1 DEF Has
  <2>4. CASE i > n
    <3>1. i + 1 \in 1 .. l + 1 /\ ~(i + 1 <= n) /\ i + 1 # n + 1 /\ i + 1 - 1 = i
      BY <1>4, <2>2, <2>4
    <3>2. t[i + 1] = q
      BY <1>3, <2>1, <3>1
    <3> QED
      BY <1>5, <3>1, <3>2 DEF Has
  <2> QED
    BY <2>2, <2>3, <2>4
<1>12. Has(t, p)
  <2>1. n + 1 \in 1 .. l + 1 /\ ~(n + 1 <= n)
    BY <1>4
  <2>2. t[n + 1] = p
    BY <1>3, <2>1
  <2> QED
    BY <1>5, <2>1, <2>2 DEF Has
<1>13. \A q : Has(t, q) <=> Has(s, q) \/ q = p
  BY <1>10, <1>11, <1>12
<1>14. Ranked(t)
  BY <1>9 DEF Ranked
<1> QED
  BY <1>3, <1>13, <1>14 DEF t

LEMMA Removing ==
  ASSUME NEW s \in Seq(Plugin), Ranked(s), NEW p \in Plugin
  PROVE  LET t == WithoutHandler(s, p)
         IN /\ t \in Seq(Plugin) /\ Ranked(t)
            /\ \A q : Has(t, q) <=> Has(s, q) /\ q # p
<1> DEFINE places == {i \in DOMAIN s : s[i] = p}
           k == CHOOSE i \in places : TRUE
           t == WithoutHandler(s, p)
           l == Len(s)
<1>1. l \in Nat /\ DOMAIN s = 1 .. l /\ \A i \in 1 .. l : s[i] \in Plugin /\ Rank[s[i]] \in Int
  BY SequenceIs, RankIs
<1>2. CASE places = {}
  <2>1. t = s /\ ~Has(s, p)
    BY <1>2 DEF WithoutHandler, Has
  <2> QED
    BY <2>1
<1>3. CASE places # {}
  <2>1. t = RemoveAt(s, k)
    BY <1>3 DEF WithoutHandler
  <2>2. k \in places
    BY <1>3
  <2>3. k \in 1 .. l /\ s[k] = p
    BY <1>1, <2>2
  <2> HIDE DEF k, places
  <2>4. /\ t \in Seq(Plugin) /\ Len(t) = l - 1
        /\ \A i \in 1 .. l - 1 : t[i] = IF i < k THEN s[i] ELSE s[i + 1]
    BY <2>1, <2>3, RemovedAt
  <2>5. DOMAIN t = 1 .. l - 1
    BY <2>4
  <2>6. \A i, j \in 1 .. l : i < j => Rank[s[i]] > Rank[s[j]]
    BY <1>1 DEF Ranked
  <2>7. \A i \in 1 .. l : s[i] = p => i = k
    <3> SUFFICES ASSUME NEW i \in 1 .. l, s[i] = p, i # k PROVE FALSE
      OBVIOUS
    <3>1. i < k \/ k < i
      BY <2>3
    <3>2. Rank[p] > Rank[p] /\ Rank[p] \in Int
      BY <2>3, <2>6, <3>1, RankIs
    <3> QED
      BY <3>2
  <2> HIDE DEF t, l
  <2>8. ASSUME NEW i \in DOMAIN t, NEW j \in DOMAIN t, i < j
        PROVE  Rank[t[i]] > Rank[t[j]]
    <3>1. i \in 1 .. l - 1 /\ j \in 1 .. l - 1
      BY <2>5
    <3>2. /\ i \in 1 .. l /\ j \in 1 .. l /\ i + 1 \in 1 .. l /\ j + 1 \in 1 .. l
          /\ i < j + 1 /\ i + 1 < j + 1
      BY <1>1, <2>8, <3>1
    <3>3. CASE j < k
      <4>1. i < k
        BY <2>3, <2>8, <3>1, <3>3
      <4>2. t[i] = s[i] /\ t[j] = s[j]
        BY <2>4, <3>1, <3>3, <4>1
      <4> QED
        BY <2>6, <2>8, <3>2, <4>2
    <3>4. CASE ~(j < k)
      <4>1. t[j] = s[j + 1] /\ (t[i] = s[i] \/ t[i] = s[i + 1])
        BY <2>4, <3>1, <3>4
      <4> QED
        BY <2>6, <3>2, <4>1
    <3> QED
      BY <3>3, <3>4
  <2>9. ASSUME NEW q, Has(t, q) PROVE Has(s, q) /\ q # p
    <3>1. PICK i \in DOMAIN t : t[i] = q
      BY <2>9 DEF Has
    <3>2. i \in 1 .. l - 1
      BY <2>5
    <3>3. i \in 1 .. l /\ i + 1 \in 1 .. l
      BY <1>1, <3>2
    <3>4. CASE i < k
      <4>1. s[i] = q /\ i # k
        BY <2>3, <2>4, <3>1, <3>2, <3>4
      <4> QED
        BY <1>1, <2>7, <3>3, <4>1 DEF Has
    <3>5. CASE ~(i < k)
      <4>1. s[i + 1] = q /\ i + 1 # k
        BY <2>3, <2>4, <3>1, <3>2, <3>5
      <4> QED
        BY <1>1, <2>7, <3>3, <4>1 DEF Has
    <3> QED
      BY <3>4, <3>5
  <2>10. ASSUME NEW q, Has(s, q), q # p PROVE Has(t, q)
    <3>1. PICK i \in DOMAIN s : s[i] = q
      BY <2>10 DEF Has
    <3>2. i \in 1 .. l /\ i # k
      BY <1>1, <2>3, <2>10, <3>1
    <3>3. CASE i < k
      <4>1. i \in 1 .. l - 1
        BY <1>1, <2>3, <3>2, <3>3
      <4> QED
        BY <2>4, <2>5, <3>1, <3>3, <4>1 DEF Has
    <3>4. CASE i > k
      <4>1. i - 1 \in 1 .. l - 1 /\ ~(i - 1 < k) /\ i - 1 + 1 = i
        BY <1>1, <2>3, <3>2, <3>4
      <4>2. t[i - 1] = q
        BY <2>4, <3>1, <4>1
      <4> QED
        BY <2>5, <4>1, <4>2 DEF Has
    <3> QED
      BY <2>3, <3>2, <3>3, <3>4
  <2>11. Ranked(t)
    BY <2>8 DEF Ranked
  <2> QED
    BY <2>4, <2>9, <2>10, <2>11 DEF t
<1> QED
  BY <1>2, <1>3

LEMMA CallbacksTyped ==
  ASSUME CallbacksExact, NEW e \in Event
  PROVE  callbacks[e] \in Seq(Plugin) /\ Ranked(callbacks[e])
BY DEF CallbacksExact

\* What a setup() that gets as far as these handlers makes of the callbacks.
LEMMA RegistersHandlers ==
  ASSUME CallbacksExact, NEW p \in Plugin, NEW names, NEW events, Registers(p, names, events)
  PROVE  /\ callbacks' \in [Event -> Seq(Plugin)]
         /\ \A e \in Event :
              /\ Ranked(callbacks'[e])
              /\ \A q \in Plugin :
                   Has(callbacks'[e], q) <=> <<q, e>> \in Hooked \/ (q = p /\ e \in events)
<1>1. /\ \A e \in events : ~Has(callbacks[e], p)
      /\ callbacks' = [e \in Event |->
           IF e \in events THEN WithHandler(callbacks[e], p) ELSE callbacks[e]]
  BY DEF Registers, Has
<1>2. ASSUME NEW e \in Event
      PROVE  /\ callbacks'[e] \in Seq(Plugin) /\ Ranked(callbacks'[e])
             /\ \A q \in Plugin :
                  Has(callbacks'[e], q) <=> <<q, e>> \in Hooked \/ (q = p /\ e \in events)
  <2>1. /\ callbacks[e] \in Seq(Plugin) /\ Ranked(callbacks[e])
        /\ \A q \in Plugin : Has(callbacks[e], q) <=> <<q, e>> \in Hooked
    BY DEF CallbacksExact
  <2>2. CASE e \in events
    <3>1. callbacks'[e] = WithHandler(callbacks[e], p)
      BY <1>1, <2>2
    <3>2. ~Has(callbacks[e], p)
      BY <1>1, <2>2
    <3>3. /\ callbacks'[e] \in Seq(Plugin) /\ Ranked(callbacks'[e])
          /\ \A q : Has(callbacks'[e], q) <=> Has(callbacks[e], q) \/ q = p
      BY <2>1, <3>1, <3>2, Inserting
    <3> QED
      BY <2>1, <2>2, <3>3
  <2>3. CASE e \notin events
    BY <1>1, <2>1, <2>3
  <2> QED
    BY <2>2, <2>3
<1>3. callbacks' = [e \in Event |-> callbacks'[e]]
  BY <1>1
<1>4. callbacks' \in [Event -> Seq(Plugin)]
  BY <1>2, <1>3
<1> QED
  BY <1>2, <1>4

LEMMA LoadsHandlers ==
  ASSUME CallbacksExact, NEW p \in Plugin, Loads(p)
  PROVE  CallbacksExact'
<1>1. Registers(p, Commands[p], Hooks[p]) /\ strays' = strays /\ whole' = whole \cup {p}
  BY DEF Loads
<1>2. \A q \in Plugin, e \in Event :
        <<q, e>> \in Hooked' <=> <<q, e>> \in Hooked \/ (q = p /\ e \in Hooks[p])
  BY <1>1 DEF Hooked
<1> QED
  BY <1>1, <1>2, RegistersHandlers DEF CallbacksExact

LEMMA RaisesHandlers ==
  ASSUME CallbacksExact, NEW p \in Plugin, LoadRaises(p)
  PROVE  CallbacksExact'
<1>1. PICK names \in SUBSET Commands[p], events \in SUBSET Hooks[p] :
        Registers(p, names, events) /\ strays' = strays \cup ({p} \X events)
  BY DEF LoadRaises
<1>2. whole' = whole
  BY DEF LoadRaises
<1>3. \A q \in Plugin, e \in Event :
        <<q, e>> \in Hooked' <=> <<q, e>> \in Hooked \/ (q = p /\ e \in events)
  BY <1>1, <1>2 DEF Hooked
<1> QED
  BY <1>1, <1>3, RegistersHandlers DEF CallbacksExact

LEMMA UnloadsHandlers ==
  ASSUME CallbacksExact, NEW p \in Plugin, Unloads(p)
  PROVE  CallbacksExact'
<1>1. /\ whole' = whole \ {p} /\ strays' = {s \in strays : s[1] # p}
      /\ callbacks' = [e \in Event |-> WithoutHandler(callbacks[e], p)]
  BY DEF Unloads
<1>2. ASSUME NEW e \in Event
      PROVE  /\ callbacks'[e] \in Seq(Plugin) /\ Ranked(callbacks'[e])
             /\ \A q \in Plugin : Has(callbacks'[e], q) <=> <<q, e>> \in Hooked'
             /\ \A q \in Plugin : <<q, e>> \in Hooked' => e \in Hooks[q]
  <2>1. /\ callbacks[e] \in Seq(Plugin) /\ Ranked(callbacks[e])
        /\ \A q \in Plugin : Has(callbacks[e], q) <=> <<q, e>> \in Hooked
        /\ \A q \in Plugin : <<q, e>> \in Hooked => e \in Hooks[q]
    BY DEF CallbacksExact
  <2>2. callbacks'[e] = WithoutHandler(callbacks[e], p)
    BY <1>1
  <2>3. /\ callbacks'[e] \in Seq(Plugin) /\ Ranked(callbacks'[e])
        /\ \A q : Has(callbacks'[e], q) <=> Has(callbacks[e], q) /\ q # p
    BY <2>1, <2>2, Removing
  <2>4. \A q \in Plugin : <<q, e>> \in Hooked' <=> <<q, e>> \in Hooked /\ q # p
    BY <1>1 DEF Hooked
  <2> QED
    BY <2>1, <2>3, <2>4
<1>3. callbacks' = [e \in Event |-> callbacks'[e]]
  BY <1>1
<1>4. callbacks' \in [Event -> Seq(Plugin)]
  BY <1>2, <1>3
<1> QED
  BY <1>2, <1>4 DEF CallbacksExact

LEMMA SameCallbacks == CallbacksExact /\ UNCHANGED <<callbacks, Hooked>> => CallbacksExact'
BY DEF CallbacksExact

LEMMA ManagesHandlers ==
  ASSUME CallbacksExact, NEW p \in Plugin, Manages(p)
  PROVE  CallbacksExact'
<1>1. CASE LoadGivesUp(p)
  <2>1. UNCHANGED <<callbacks, Hooked>>
    BY <1>1 DEF LoadGivesUp, Hooked
  <2> QED
    BY <2>1, SameCallbacks
<1> QED
  BY <1>1, LoadsHandlers, RaisesHandlers, UnloadsHandlers DEF Manages

-----------------------------------------------------------------------------
(***************************************************************************)
(* The registry                                                            *)
(***************************************************************************)
Inv == RegistryTyped /\ RegistryIsExact /\ CallbacksExact

LEMMA InvIs == Inv => AliasesLead
BY DEF Inv, RegistryIsExact, AliasesLead

LEMMA RegistersIs ==
  ASSUME Inv, NEW p \in Plugin, NEW names \in SUBSET Commands[p], NEW events,
         Registers(p, names, events)
  PROVE  /\ commands' \in [Command -> Plugin \cup {None}]
         /\ aliases' \in [Alias -> Command \cup {None}]
         /\ \A c \in Command :
              commands'[c] = IF c \in names /\ commands[c] = None THEN p ELSE commands[c]
         /\ AliasesLead'
<1>1. commands' = WithCommands(commands, p, names) /\ aliases' = WithAliases(aliases, commands, p, names)
  BY DEF Registers
<1>2. /\ commands' \in [Command -> Plugin \cup {None}]
      /\ \A c \in Command :
           commands'[c] = IF c \in names /\ commands[c] = None THEN p ELSE commands[c]
  BY <1>1 DEF WithCommands, Inv, RegistryTyped
<1>3. aliases' \in [Alias -> Command \cup {None}]
  <2>1. \A a \in Alias : WithAliases(aliases, commands, p, names)[a] \in Command \cup {None}
    BY NewAlias DEF Inv, RegistryTyped
  <2>2. WithAliases(aliases, commands, p, names) =
          [a \in Alias |-> WithAliases(aliases, commands, p, names)[a]]
    BY DEF WithAliases
  <2> QED
    BY <1>1, <2>1, <2>2
<1>4. ASSUME NEW a \in Alias, aliases'[a] # None
      PROVE  /\ commands'[aliases'[a]] # None
             /\ <<a, aliases'[a]>> \in {AliasesOf[commands'[aliases'[a]]][i] :
                                          i \in DOMAIN AliasesOf[commands'[aliases'[a]]]}
  <2> DEFINE new == aliases'[a]
  <2>1. CASE new = aliases[a]
    <3>1. /\ commands[new] # None
          /\ <<a, new>> \in {AliasesOf[commands[new]][i] : i \in DOMAIN AliasesOf[commands[new]]}
      BY <1>4, <2>1, InvIs DEF AliasesLead
    <3>2. new \in Command
      BY <1>4, <2>1 DEF Inv, RegistryTyped
    <3>3. commands'[new] = commands[new]
      BY <1>2, <3>1, <3>2
    <3> QED
      BY <3>1, <3>3
  <2>2. CASE new # aliases[a]
    <3>1. PICK i \in DOMAIN AliasesOf[p] :
            /\ AliasesOf[p][i] = <<a, new>>
            /\ new \in names /\ new \in Command /\ commands[new] = None
      BY <1>1, <2>2, NewAlias
    <3>2. commands'[new] = p
      BY <1>2, <3>1
    <3> QED
      BY <3>1, <3>2, PluginAssumption
  <2> QED
    BY <2>1, <2>2
<1> QED
  BY <1>2, <1>3, <1>4 DEF AliasesLead

LEMMA LoadsKeeps ==
  ASSUME Inv, NEW p \in Plugin, Loads(p)
  PROVE  Inv'
<1>1. /\ p \notin loaded /\ loaded' = loaded \cup {p} /\ whole' = whole \cup {p}
      /\ Registers(p, Commands[p], Hooks[p])
      /\ perms' = IF p = Auth /\ perms = None THEN "auth" ELSE perms
      /\ UNCHANGED <<orphans, strays>>
  BY DEF Loads
<1>2. /\ commands' \in [Command -> Plugin \cup {None}]
      /\ aliases' \in [Alias -> Command \cup {None}]
      /\ \A c \in Command :
           commands'[c] = IF c \in Commands[p] /\ commands[c] = None THEN p ELSE commands[c]
      /\ AliasesLead'
  BY <1>1, RegistersIs
<1>3. RegistryTyped'
  BY <1>1, <1>2 DEF Inv, RegistryTyped
<1>4. /\ \A c \in Command : commands'[c] # None =>
           c \in Commands[commands'[c]] /\ (commands'[c] \in whole' \/ c \in orphans')
      /\ \A c \in orphans' : commands'[c] # None
  BY <1>1, <1>2 DEF Inv, RegistryTyped, RegistryIsExact
<1>5. (perms' = "auth" => Auth \in loaded') /\ (Auth \in whole' => perms' # None)
  BY <1>1, PluginAssumption DEF Inv, RegistryIsExact
<1>6. ASSUME NEW q \in whole', NEW c \in Commands[q]
      PROVE  commands'[c] = q \/ \E r \in Plugin \ {q} : c \in Commands[r]
  <2>1. q \in Plugin /\ c \in Command
    BY <1>1 DEF Inv, RegistryTyped, Command
  <2>2. CASE commands[c] = None
    <3>1. CASE q = p
      BY <1>2, <2>1, <2>2, <3>1
    <3>2. CASE q # p
      BY <1>1, <2>1, <2>2, <3>2, PluginAssumption DEF Inv, RegistryIsExact
    <3> QED
      BY <3>1, <3>2
  <2>3. CASE commands[c] # None
    <3>1. commands'[c] = commands[c] /\ commands[c] \in Plugin /\ c \in Commands[commands[c]]
      BY <1>2, <2>1, <2>3 DEF Inv, RegistryTyped, RegistryIsExact
    <3> QED
      BY <3>1
  <2> QED
    BY <2>2, <2>3
<1>7. ASSUME NEW s \in strays' PROVE s[1] \notin whole'
  <2>1. s \in Plugin \X Event /\ s[2] \in Hooks[s[1]] /\ s \in strays /\ s[1] \notin whole
    BY <1>1 DEF Inv, RegistryTyped, RegistryIsExact
  <2>2. CASE s[1] = p
    <3>1. s = <<p, s[2]>> /\ s[2] \in Event
      BY <2>1, <2>2
    <3>2. <<p, s[2]>> \in Hooked
      BY <2>1, <3>1 DEF Hooked
    <3>3. Has(callbacks[s[2]], p)
      BY <3>1, <3>2 DEF Inv, CallbacksExact
    <3> QED
      BY <1>1, <2>1, <2>2, <3>3 DEF Registers, Has
  <2> QED
    BY <1>1, <2>1, <2>2
<1>8. CallbacksExact'
  BY LoadsHandlers DEF Inv
<1>9. RegistryIsExact'
  BY <1>2, <1>4, <1>5, <1>6, <1>7 DEF RegistryIsExact, AliasesLead
<1> QED
  BY <1>3, <1>8, <1>9 DEF Inv

LEMMA RaisesKeeps ==
  ASSUME Inv, NEW p \in Plugin, LoadRaises(p)
  PROVE  Inv'
<1>1. PICK names \in SUBSET Commands[p], events \in SUBSET Hooks[p] :
        /\ Registers(p, names, events)
        /\ orphans' = orphans \cup {c \in names : commands[c] = None}
        /\ strays' = strays \cup ({p} \X events)
  BY DEF LoadRaises
<1>2. /\ p \notin loaded /\ UNCHANGED <<loaded, whole>>
      /\ perms' \in IF p = Auth /\ perms = None THEN {None, "orphan"} ELSE {perms}
  BY DEF LoadRaises
<1>3. /\ commands' \in [Command -> Plugin \cup {None}]
      /\ aliases' \in [Alias -> Command \cup {None}]
      /\ \A c \in Command :
           commands'[c] = IF c \in names /\ commands[c] = None THEN p ELSE commands[c]
      /\ AliasesLead'
  BY <1>1, RegistersIs
<1>4. p \in Plugin /\ Hooks[p] \subseteq Event /\ names \subseteq Command
  BY <1>1, PluginAssumption DEF Command
<1>5. RegistryTyped'
  BY <1>1, <1>2, <1>3, <1>4 DEF Inv, RegistryTyped
<1>6. \A c \in Command : commands'[c] # None =>
        c \in Commands[commands'[c]] /\ (commands'[c] \in whole' \/ c \in orphans')
  BY <1>1, <1>2, <1>3 DEF Inv, RegistryIsExact
<1>7. \A c \in orphans' : commands'[c] # None
  BY <1>1, <1>3, <1>4, PluginAssumption DEF Inv, RegistryTyped, RegistryIsExact
<1>8. (perms' = "auth" => Auth \in loaded') /\ (Auth \in whole' => perms' # None)
  BY <1>2, PluginAssumption DEF Inv, RegistryTyped, RegistryIsExact
<1>9. ASSUME NEW q \in whole', NEW c \in Commands[q]
      PROVE  commands'[c] = q \/ \E r \in Plugin \ {q} : c \in Commands[r]
  <2>1. q \in Plugin /\ q \in whole /\ c \in Command
    BY <1>2 DEF Inv, RegistryTyped, Command
  <2>2. commands[c] = q \/ \E r \in Plugin \ {q} : c \in Commands[r]
    BY <2>1 DEF Inv, RegistryIsExact
  <2>3. q # None
    BY <2>1, PluginAssumption
  <2> QED
    BY <1>3, <2>1, <2>2, <2>3
<1>10. \A s \in strays' : s[1] \notin whole'
  BY <1>1, <1>2 DEF Inv, RegistryTyped, RegistryIsExact
<1>11. CallbacksExact'
  BY RaisesHandlers DEF Inv
<1>12. RegistryIsExact'
  BY <1>3, <1>6, <1>7, <1>8, <1>9, <1>10 DEF RegistryIsExact, AliasesLead
<1> QED
  BY <1>5, <1>11, <1>12 DEF Inv

LEMMA GivesUpKeeps ==
  ASSUME Inv, NEW p \in Plugin, LoadGivesUp(p)
  PROVE  Inv'
<1>1. /\ loaded' = loaded \cup {p}
      /\ perms' \in IF p = Auth /\ perms = None THEN {None, "auth"} ELSE {perms}
      /\ UNCHANGED <<whole, callbacks, commands, aliases, orphans, strays>>
      /\ p \notin loaded
  BY DEF LoadGivesUp
<1>2. RegistryTyped'
  BY <1>1 DEF Inv, RegistryTyped
<1>3. CallbacksExact'
  BY ManagesHandlers DEF Inv, Manages
<1>4. (perms' = "auth" => Auth \in loaded') /\ (Auth \in whole' => perms' # None)
  BY <1>1, PluginAssumption DEF Inv, RegistryTyped, RegistryIsExact
<1>5. RegistryIsExact'
  BY <1>1, <1>4 DEF Inv, RegistryIsExact
<1> QED
  BY <1>2, <1>3, <1>5 DEF Inv

LEMMA UnloadsKeeps ==
  ASSUME Inv, NEW p \in Plugin, Unloads(p)
  PROVE  Inv'
<1>1. /\ p \in loaded /\ loaded' = loaded \ {p} /\ whole' = whole \ {p}
      /\ commands' = [c \in Command |-> IF c \in Owned(p) THEN None ELSE commands[c]]
      /\ aliases' = [a \in Alias |-> IF aliases[a] \in Owned(p) THEN None ELSE aliases[a]]
      /\ strays' = {s \in strays : s[1] # p} /\ orphans' = orphans
      /\ perms' = IF p = Auth /\ perms = "auth" THEN None ELSE perms
  BY DEF Unloads, WithoutAliases
<1>2. RegistryTyped'
  BY <1>1 DEF Inv, RegistryTyped
<1>3. CallbacksExact'
  BY UnloadsHandlers DEF Inv
<1>4. /\ \A c \in Command : commands'[c] # None =>
           c \in Commands[commands'[c]] /\ (commands'[c] \in whole' \/ c \in orphans')
      /\ \A c \in orphans' : commands'[c] # None
  BY <1>1 DEF Owned, Inv, RegistryTyped, RegistryIsExact
<1>5. ASSUME NEW a \in Alias, aliases'[a] # None
      PROVE  /\ commands'[aliases'[a]] # None
             /\ <<a, aliases'[a]>> \in {AliasesOf[commands'[aliases'[a]]][i] :
                                          i \in DOMAIN AliasesOf[commands'[aliases'[a]]]}
  <2>1. aliases'[a] = aliases[a] /\ aliases[a] \notin Owned(p) /\ aliases[a] \in Command
    BY <1>1, <1>5 DEF Inv, RegistryTyped
  <2>2. commands'[aliases'[a]] = commands[aliases[a]]
    BY <1>1, <2>1
  <2> QED
    BY <1>5, <2>1, <2>2 DEF Inv, RegistryIsExact
<1>6. (perms' = "auth" => Auth \in loaded') /\ (Auth \in whole' => perms' # None)
  BY <1>1, PluginAssumption DEF Inv, RegistryTyped, RegistryIsExact
<1>7. ASSUME NEW q \in whole', NEW c \in Commands[q]
      PROVE  commands'[c] = q \/ \E r \in Plugin \ {q} : c \in Commands[r]
  <2>1. q \in Plugin /\ q \in whole /\ q # p /\ c \in Command
    BY <1>1 DEF Inv, RegistryTyped, Command
  <2> QED
    BY <1>1, <2>1 DEF Inv, RegistryIsExact, Owned
<1>8. \A s \in strays' : s[1] \notin whole'
  BY <1>1 DEF Inv, RegistryIsExact
<1>9. RegistryIsExact'
  BY <1>4, <1>5, <1>6, <1>7, <1>8 DEF RegistryIsExact
<1> QED
  BY <1>2, <1>3, <1>9 DEF Inv

LEMMA SameHooked == UNCHANGED registry => UNCHANGED <<callbacks, Hooked, whole>>
BY DEF registry, Hooked

LEMMA SameRegistry == Inv /\ UNCHANGED registry => Inv'
<1> SUFFICES ASSUME Inv, UNCHANGED registry PROVE Inv'
  OBVIOUS
<1>1. CallbacksExact'
  BY SameHooked, SameCallbacks DEF Inv
<1>2. RegistryTyped' /\ RegistryIsExact'
  BY DEF Inv, RegistryTyped, RegistryIsExact, registry
<1> QED
  BY <1>1, <1>2 DEF Inv

\* Plugins come and go by Load, and by a command that Run runs; no other step
\* changes the registry.
LEMMA RegistrySteps ==
  ASSUME [Next]_vars
  PROVE  UNCHANGED registry \/ \E p \in Plugin : Manages(p)
<1>1. CASE Load
  BY <1>1 DEF Load
<1>2. CASE Run
  BY <1>2 DEF Run
<1>3. CASE Receive \/ ReceiveCTCP \/ Happen
  BY <1>3 DEF Receive, ReceiveCTCP, Happen, Begin
<1>4. CASE PassOver \/ CallBridge \/ \E p \in Plugin : Handle(p)
  BY <1>4 DEF PassOver, CallBridge, Handle, CallQuiet, CallCancels, CallRewrites, CallAnswers
<1>5. CASE MessageIsSent \/ ActionIsSent \/ MembershipEnds \/ CTCPEnds \/ ActionEnds
  BY <1>5 DEF MessageIsSent, ActionIsSent, MembershipEnds, CTCPEnds, ActionEnds
<1>6. CASE Decide \/ Unknown \/ UnknownEnds \/ NoPermission \/ MessageEnds
  BY <1>6 DEF Decide, Unknown, UnknownEnds, NoPermission, MessageEnds
<1>7. CASE UNCHANGED vars
  BY <1>7 DEF vars
<1> QED
  BY <1>1, <1>2, <1>3, <1>4, <1>5, <1>6, <1>7 DEF Next

\* However plugins come and go, by themselves or by commands, and wherever their
\* setup() raises, the registry has what plugins that are set up registered and
\* what such set-ups have left: commands are answered by one that wants them,
\* aliases lead to commands that are there, permissions are asked of auth's
\* handler, and who has left handlers is not set up again.
THEOREM RegistryStaysExact == Spec => []RegistryIsExact
<1>1. Init => Inv
  <2> SUFFICES ASSUME Init PROVE Inv
    OBVIOUS
  <2>1. RegistryTyped /\ RegistryIsExact
    BY PluginAssumption DEF Init, RegistryTyped, RegistryIsExact
  <2>2. \A e \in Event : callbacks[e] = <<>>
    BY DEF Init
  <2>3. CallbacksExact
    BY <2>2 DEF Init, CallbacksExact, Hooked, Ranked, Has
  <2> QED
    BY <2>1, <2>3 DEF Inv
<1>2. Inv /\ [Next]_vars => Inv'
  BY LoadsKeeps, RaisesKeeps, GivesUpKeeps, UnloadsKeeps, SameRegistry, RegistrySteps DEF Manages
<1>3. Inv => RegistryIsExact
  BY DEF Inv
<1> QED
  BY <1>1, <1>2, <1>3, PTL DEF Spec

-----------------------------------------------------------------------------
(***************************************************************************)
(* Dispatches under way: only an answer to a message is one inside another *)
(***************************************************************************)
Plain == {"NotACommand", "Unknown"}

Good(f, here) ==
  /\ f = [event |-> f.event, left |-> f.left, cancelled |-> f.cancelled, thing |-> f.thing]
  /\ f.event \in Event /\ f.cancelled \in BOOLEAN
  /\ f.left \in Seq(Plugin) /\ Ranked(f.left)
  /\ \A p \in Plugin : Has(f.left, p) => <<p, f.event>> \in here /\ f.event \in Hooks[p]
  /\ f.event \in {"MessageReceived", "MessageSent"} => ~f.cancelled

\* Whoever hears messages has heard this one, or is among those still to come.
Told(left, by, here) ==
  /\ Before(by, left)
  /\ \A p \in Plugin : <<p, "MessageReceived">> \in here =>
       p \in ChannelsOnly \/ Has(by, p) \/ Has(left, p)

Outer(f, r, by, here) ==
  /\ Good(f, here)
  /\ f.event = "MessageReceived" <=> r \in Plain
  /\ f.event = "MessageReceived" => Told(f.left, by, here)

Inner(f, here) == Good(f, here) /\ f.event = "MessageSent"

Under(s, r, by, here) ==
  \/ s = <<>> /\ (r \in Plain => Told(<<>>, by, here))
  \/ \E f : s = <<f>> /\ Outer(f, r, by, here)
  \/ \E f, g : /\ s = <<f, g>> /\ Inner(f, here)
               /\ Outer(g, r, by, here) /\ g.event = "MessageReceived"

Listeners(by, r, here) ==
  /\ by \in Seq(Plugin) /\ Ranked(by)
  /\ \A p \in Plugin : Has(by, p) => <<p, "MessageReceived">> \in here
  /\ r \notin Plain => by = <<>>

HeardInv ==
  /\ CallbacksExact
  /\ Listeners(heard, result, Hooked)
  /\ Under(stack, result, heard, Hooked)

LEMMA NobodyYet ==
  ASSUME NEW r, NEW here
  PROVE  /\ Listeners(<<>>, r, here) /\ Before(<<>>, <<>>)
         /\ \A s : Before(<<>>, s) /\ Before(s, <<>>)
         /\ Ranked(<<>>) /\ \A p : ~Has(<<>>, p)
BY DEF Listeners, Before, Ranked, Has

LEMMA HeadThenTail ==
  ASSUME NEW s \in Seq(Plugin), Ranked(s), s # <<>>
  PROVE  /\ Tail(s) \in Seq(Plugin) /\ Ranked(Tail(s)) /\ Head(s) \in Plugin
         /\ \A q : Has(s, q) <=> q = Head(s) \/ Has(Tail(s), q)
         /\ \A j \in DOMAIN Tail(s) : Rank[Head(s)] > Rank[Tail(s)[j]]
<1> DEFINE l == Len(s)
           t == Tail(s)
<1>1. /\ l \in Nat /\ l > 0 /\ DOMAIN s = 1 .. l /\ Head(s) = s[1] /\ s[1] \in Plugin
      /\ t \in Seq(Plugin) /\ DOMAIN t = 1 .. l - 1
      /\ \A i \in 1 .. l - 1 : t[i] = s[i + 1]
  BY HeadAndTail, SequenceIs
<1>2. \A i, j \in 1 .. l : i < j => Rank[s[i]] > Rank[s[j]]
  BY <1>1 DEF Ranked
<1> HIDE DEF t, l
<1>3. Ranked(t)
  <2> SUFFICES ASSUME NEW i \in 1 .. l - 1, NEW j \in 1 .. l - 1, i < j
               PROVE  Rank[t[i]] > Rank[t[j]]
    BY <1>1 DEF Ranked
  <2>1. i + 1 \in 1 .. l /\ j + 1 \in 1 .. l /\ i + 1 < j + 1
    BY <1>1
  <2> QED
    BY <1>1, <1>2, <2>1
<1>4. \A j \in 1 .. l - 1 : Rank[s[1]] > Rank[t[j]]
  <2> SUFFICES ASSUME NEW j \in 1 .. l - 1 PROVE Rank[s[1]] > Rank[t[j]]
    OBVIOUS
  <2>1. 1 \in 1 .. l /\ j + 1 \in 1 .. l /\ 1 < j + 1
    BY <1>1
  <2> QED
    BY <1>1, <1>2, <2>1
<1>5. ASSUME NEW q, Has(s, q) PROVE q = s[1] \/ Has(t, q)
  <2>1. PICK i \in 1 .. l : s[i] = q
    BY <1>1, <1>5 DEF Has
  <2>2. CASE i > 1
    <3>1. i - 1 \in 1 .. l - 1 /\ i - 1 + 1 = i
      BY <1>1, <2>1, <2>2
    <3>2. t[i - 1] = q
      BY <1>1, <2>1, <3>1
    <3> QED
      BY <1>1, <3>1, <3>2 DEF Has
  <2>3. i = 1 \/ i > 1
    BY <1>1
  <2> QED
    BY <2>1, <2>2, <2>3
<1>6. ASSUME NEW q, q = s[1] \/ Has(t, q) PROVE Has(s, q)
  <2>1. CASE q = s[1]
    <3>1. 1 \in DOMAIN s
      BY <1>1
    <3> QED
      BY <2>1, <3>1 DEF Has
  <2>2. CASE Has(t, q)
    <3>1. PICK i \in 1 .. l - 1 : t[i] = q
      BY <1>1, <2>2 DEF Has
    <3>2. i + 1 \in DOMAIN s /\ s[i + 1] = q
      BY <1>1, <3>1
    <3> QED
      BY <3>2 DEF Has
  <2> QED
    BY <1>6, <2>1, <2>2
<1> QED
  BY <1>1, <1>3, <1>4, <1>5, <1>6 DEF t

\* One more has heard it.
LEMMA OneMore ==
  ASSUME NEW by \in Seq(Plugin), Ranked(by), NEW p \in Plugin, NEW here,
         NEW left \in Seq(Plugin), Ranked(left), left # <<>>, p = Head(left),
         Told(left, by, here)
  PROVE  LET new == Append(by, p)
         IN /\ new \in Seq(Plugin) /\ Ranked(new) /\ Told(Tail(left), new, here)
            /\ \A q : Has(new, q) <=> Has(by, q) \/ q = p
<1> DEFINE new == Append(by, p)
           l == Len(by)
           t == Tail(left)
<1>1. /\ l \in Nat /\ DOMAIN by = 1 .. l /\ \A i \in 1 .. l : by[i] \in Plugin
      /\ new \in Seq(Plugin) /\ DOMAIN new = 1 .. l + 1
      /\ \A i \in 1 .. l : new[i] = by[i]
      /\ new[l + 1] = p
  BY AppendedTo, SequenceIs
<1>2. /\ t \in Seq(Plugin) /\ \A q : Has(left, q) <=> q = p \/ Has(t, q)
      /\ \A j \in DOMAIN t : Rank[p] > Rank[t[j]]
  BY HeadThenTail
<1>3. \A i, j \in 1 .. l : i < j => Rank[by[i]] > Rank[by[j]]
  BY <1>1 DEF Ranked
<1>4. \A i \in 1 .. l : Rank[by[i]] > Rank[p]
  <2>1. 1 \in DOMAIN left /\ left[1] = p
    BY HeadAndTail
  <2> QED
    BY <1>1, <2>1 DEF Told, Before
<1> HIDE DEF new, l, t
<1>5. Ranked(new)
  <2> SUFFICES ASSUME NEW i \in 1 .. l + 1, NEW j \in 1 .. l + 1, i < j
               PROVE  Rank[new[i]] > Rank[new[j]]
    BY <1>1 DEF Ranked
  <2>1. i \in 1 .. l /\ (j \in 1 .. l \/ j = l + 1)
    BY <1>1
  <2> QED
    BY <1>1, <1>3, <1>4, <2>1
<1>6. Before(new, t)
  <2> SUFFICES ASSUME NEW i \in 1 .. l + 1, NEW j \in DOMAIN t
               PROVE  Rank[new[i]] > Rank[t[j]]
    BY <1>1 DEF Before
  <2>1. /\ Rank[p] > Rank[t[j]] /\ Rank[p] \in Int /\ Rank[t[j]] \in Int
    BY <1>2, SequenceIs, RankIs
  <2>2. CASE i = l + 1
    BY <1>1, <2>1, <2>2
  <2>3. CASE i \in 1 .. l
    <3>1. Rank[by[i]] > Rank[p] /\ Rank[by[i]] \in Int /\ new[i] = by[i]
      BY <1>1, <1>4, <2>3, RankIs
    <3> QED
      BY <2>1, <3>1
  <2>4. i = l + 1 \/ i \in 1 .. l
    BY <1>1
  <2> QED
    BY <2>2, <2>3, <2>4
<1>7. ASSUME NEW q PROVE Has(new, q) <=> Has(by, q) \/ q = p
  <2>1. ASSUME Has(new, q) PROVE Has(by, q) \/ q = p
    <3>1. PICK i \in 1 .. l + 1 : new[i] = q
      BY <1>1, <2>1 DEF Has
    <3>2. i = l + 1 \/ i \in 1 .. l
      BY <1>1
    <3> QED
      BY <1>1, <3>1, <3>2 DEF Has
  <2>2. ASSUME Has(by, q) PROVE Has(new, q)
    <3>1. PICK i \in 1 .. l : by[i] = q
      BY <1>1, <2>2 DEF Has
    <3>2. i \in 1 .. l + 1 /\ new[i] = q
      BY <1>1, <3>1
    <3> QED
      BY <1>1, <3>2 DEF Has
  <2>3. Has(new, p)
    <3>1. l + 1 \in 1 .. l + 1
      BY <1>1
    <3> QED
      BY <1>1, <3>1 DEF Has
  <2> QED
    BY <2>1, <2>2, <2>3
<1>8. Told(t, new, here)
  BY <1>2, <1>6, <1>7 DEF Told
<1> QED
  BY <1>1, <1>5, <1>7, <1>8 DEF new, t

\* One that does not take messages like this one is passed over.
LEMMA OneLess ==
  ASSUME NEW by, NEW here, NEW left \in Seq(Plugin), Ranked(left), left # <<>>,
         Head(left) \in ChannelsOnly, Told(left, by, here)
  PROVE  Told(Tail(left), by, here)
<1>1. \A q : Has(left, q) <=> q = Head(left) \/ Has(Tail(left), q)
  BY HeadThenTail
<1>2. Before(by, Tail(left))
  <2> SUFFICES ASSUME NEW i \in DOMAIN by, NEW j \in DOMAIN Tail(left)
               PROVE  Rank[by[i]] > Rank[Tail(left)[j]]
    BY DEF Before
  <2>1. j + 1 \in DOMAIN left /\ Tail(left)[j] = left[j + 1]
    <3>1. /\ DOMAIN Tail(left) = 1 .. Len(left) - 1
          /\ \A k \in 1 .. Len(left) - 1 : k + 1 \in DOMAIN left /\ Tail(left)[k] = left[k + 1]
      BY HeadAndTail, SequenceIs
    <3> QED
      BY <3>1
  <2> QED
    BY <2>1 DEF Told, Before
<1> QED
  BY <1>1, <1>2 DEF Told

LEMMA GoodDispatch ==
  ASSUME CallbacksExact, NEW e \in Event, NEW thing, NEW c \in BOOLEAN,
         e \in {"MessageReceived", "MessageSent"} => ~c
  PROVE  LET f == Dispatch(e, thing, c)
         IN /\ Good(f, Hooked) /\ f.event = e /\ f.left = callbacks[e]
            /\ f.thing = thing /\ f.cancelled = c
<1>1. /\ callbacks[e] \in Seq(Plugin) /\ Ranked(callbacks[e])
      /\ \A p \in Plugin : Has(callbacks[e], p) => <<p, e>> \in Hooked /\ e \in Hooks[p]
  BY DEF CallbacksExact
<1>2. LET f == Dispatch(e, thing, c)
      IN /\ f = [event |-> e, left |-> callbacks[e], cancelled |-> c, thing |-> thing]
         /\ f.event = e /\ f.left = callbacks[e] /\ f.thing = thing /\ f.cancelled = c
  BY DEF Dispatch
<1> QED
  BY <1>1, <1>2 DEF Good

LEMMA PlainDispatch ==
  ASSUME CallbacksExact, NEW e \in Event, NEW thing
  PROVE  LET f == Dispatch(e, thing, FALSE)
         IN /\ Good(f, Hooked) /\ f.event = e /\ f.left = callbacks[e]
            /\ f.thing = thing /\ f.cancelled = FALSE
<1>1. PICK c \in BOOLEAN : c = FALSE
  OBVIOUS
<1>2. LET f == Dispatch(e, thing, c)
      IN /\ Good(f, Hooked) /\ f.event = e /\ f.left = callbacks[e]
         /\ f.thing = thing /\ f.cancelled = c
  BY <1>1, GoodDispatch
<1> QED
  BY <1>1, <1>2, Zenon

LEMMA GoodNext ==
  ASSUME NEW f, NEW here, Good(f, here), f.left # <<>>, NEW c \in BOOLEAN,
         f.event \in {"MessageReceived", "MessageSent"} => ~c,
         NEW g, g = [event |-> f.event, left |-> Tail(f.left), cancelled |-> c, thing |-> f.thing]
  PROVE  Good(g, here) /\ g.event = f.event /\ g.left = Tail(f.left)
<1>1. g.event = f.event /\ g.left = Tail(f.left) /\ g.cancelled = c /\ g.thing = f.thing
  OBVIOUS
<1>2. /\ Tail(f.left) \in Seq(Plugin) /\ Ranked(Tail(f.left))
      /\ \A q : Has(Tail(f.left), q) => Has(f.left, q)
  BY HeadThenTail DEF Good
<1> QED
  BY <1>1, <1>2 DEF Good

LEMMA TwoOf == ASSUME NEW f, NEW g PROVE <<f>> \o <<g>> = <<f, g>>
<1> DEFINE s == <<f>>
           t == <<g>>
           S == {f, g}
           u == <<f, g>>
           v == s \o t
<1>1. s \in Seq(S) /\ t \in Seq(S) /\ Len(s) = 1 /\ Len(t) = 1 /\ s[1] = f /\ t[1] = g
  OBVIOUS
<1>2. u \in Seq(S) /\ Len(u) = 2 /\ u[1] = f /\ u[2] = g
  OBVIOUS
<1> HIDE DEF s, t, u, S
<1>3. s \o t \in Seq(S) /\ Len(s \o t) = 2 /\ (s \o t)[1] = f /\ (s \o t)[2] = g
  <2> s \in Seq(S) /\ t \in Seq(S)
    BY <1>1
  <2>1. s \o t \in Seq(S) /\ Len(s \o t) = Len(s) + Len(t)
    BY ConcatProperties, Zenon
  <2>2. \A i \in 1 .. Len(s) : (s \o t)[i] = s[i]
    OBVIOUS
  <2>3. \A i \in 1 .. Len(t) : (s \o t)[Len(s) + i] = t[i]
    OBVIOUS
  <2>4. 1 \in 1 .. 1 /\ 1 + 1 = 2
    OBVIOUS
  <2> QED
    BY <1>1, <2>1, <2>2, <2>3, <2>4
<1>4. v \in Seq(S) /\ Len(v) = 2 /\ v[1] = f /\ v[2] = g
  BY ONLY <1>3
<1> HIDE DEF v
<1>5. v = u
  <2>1. Len(v) = Len(u) /\ \A i \in 1 .. Len(v) : v[i] = u[i]
    BY <1>2, <1>4
  <2> QED
    BY ONLY <1>2, <1>4, <2>1, SeqEqual
<1> QED
  BY <1>5 DEF s, t, u, v

LEMMA StackOps ==
  ASSUME NEW f, NEW g, NEW h
  PROVE  /\ <<f>> # <<>> /\ Head(<<f>>) = f /\ Tail(<<f>>) = <<>>
         /\ <<h>> \o Tail(<<f>>) = <<h>> /\ <<g>> \o <<h>> \o Tail(<<f>>) = <<g, h>>
         /\ <<f, g>> # <<>> /\ Head(<<f, g>>) = f /\ Tail(<<f, g>>) = <<g>>
         /\ <<h>> \o Tail(<<f, g>>) = <<h, g>>
<1>1. <<f>> # <<>> /\ Head(<<f>>) = f /\ Tail(<<f>>) = <<>>
  OBVIOUS
<1>2. <<f, g>> # <<>> /\ Head(<<f, g>>) = f /\ Tail(<<f, g>>) = <<g>>
  OBVIOUS
<1>3. <<h>> \o <<>> = <<h>> /\ <<h>> \o <<g>> = <<h, g>> /\ <<g>> \o <<h>> = <<g, h>>
  <2>1. <<h>> \o <<>> = <<h>>
    OBVIOUS
  <2> QED
    BY <2>1, TwoOf, Zenon
<1>4. <<g>> \o <<h>> \o <<>> = <<g, h>>
  <2>1. <<g, h>> \o <<>> = <<g, h>>
    OBVIOUS
  <2> QED
    BY ONLY <1>3, <2>1
<1> QED
  BY ONLY <1>1, <1>2, <1>3, <1>4, Zenon

LEMMA TopIs ==
  ASSUME HeardInv, stack # <<>>
  PROVE  /\ Good(Top, Hooked)
         /\ \/ stack = <<Top>> /\ Outer(Top, result, heard, Hooked)
            \/ \E g : /\ stack = <<Top, g>> /\ Inner(Top, Hooked)
                      /\ Outer(g, result, heard, Hooked) /\ g.event = "MessageReceived"
<1>1. CASE \E f : stack = <<f>> /\ Outer(f, result, heard, Hooked)
  <2>1. PICK f : stack = <<f>> /\ Outer(f, result, heard, Hooked)
    BY <1>1
  <2>2. Top = f
    BY <2>1, StackOps DEF Top
  <2> QED
    BY <2>1, <2>2 DEF Outer
<1>2. CASE \E f, g : /\ stack = <<f, g>> /\ Inner(f, Hooked)
                     /\ Outer(g, result, heard, Hooked) /\ g.event = "MessageReceived"
  <2>1. PICK f, g : /\ stack = <<f, g>> /\ Inner(f, Hooked)
                    /\ Outer(g, result, heard, Hooked) /\ g.event = "MessageReceived"
    BY <1>2
  <2>2. Top = f
    BY <2>1, StackOps DEF Top
  <2> QED
    BY <2>1, <2>2 DEF Inner
<1> QED
  BY <1>1, <1>2 DEF HeardInv, Under

LEMMA TopAlone ==
  ASSUME HeardInv, stack # <<>>, Top.event # "MessageSent"
  PROVE  stack = <<Top>> /\ Outer(Top, result, heard, Hooked)
BY TopIs DEF Inner

\* An event that is no message has been heard by nobody.
LEMMA NotYetHeard ==
  ASSUME HeardInv, stack # <<>>, Top.event \notin {"MessageSent", "MessageReceived"}
  PROVE  heard = <<>> /\ stack = <<Top>>
BY TopAlone DEF Outer, HeardInv, Listeners

\* One dispatch of something that is no message, or none, and nobody heard.
LEMMA Starts ==
  ASSUME CallbacksExact', heard' = <<>>, result' \notin Plain,
         \/ stack' = <<>>
         \/ \E f : stack' = <<f>> /\ Good(f, Hooked') /\ f.event # "MessageReceived"
  PROVE  HeardInv'
<1>1. Listeners(heard', result', Hooked')
  BY NobodyYet
<1>2. Under(stack', result', heard', Hooked')
  BY DEF Under, Outer
<1> QED
  BY <1>1, <1>2 DEF HeardInv

LEMMA Advances ==
  ASSUME HeardInv, stack # <<>>, Top.left # <<>>, NEW c \in BOOLEAN,
         Top.event \in {"MessageReceived", "MessageSent"} => ~c,
         NEW h, h = [event |-> Top.event, left |-> Tail(Top.left), cancelled |-> c, thing |-> Top.thing],
         stack' = <<h>> \o Rest, UNCHANGED <<callbacks, Hooked, result>>,
         \/ heard' = heard /\ (Top.event # "MessageReceived" \/ Head(Top.left) \in ChannelsOnly)
         \/ heard' = Append(heard, Head(Top.left)) /\ Top.event = "MessageReceived"
  PROVE  HeardInv'
<1> DEFINE left == Top.left
<1>1. CallbacksExact'
  BY SameCallbacks DEF HeardInv
<1>2. Good(Top, Hooked)
  BY TopIs
<1>3. Good(h, Hooked) /\ h.event = Top.event /\ h.left = Tail(left)
  BY <1>2, GoodNext
<1>4. /\ heard \in Seq(Plugin) /\ Ranked(heard) /\ left \in Seq(Plugin) /\ Ranked(left)
      /\ Head(left) \in Plugin /\ Has(left, Head(left))
      /\ \A p \in Plugin : Has(left, p) => <<p, Top.event>> \in Hooked
      /\ \A p \in Plugin : Has(heard, p) => <<p, "MessageReceived">> \in Hooked
  <2>1. left \in Seq(Plugin) /\ Ranked(left)
    BY <1>2 DEF Good
  <2> HIDE DEF left
  <2>2. left # <<>>
    BY DEF left
  <2>3. Head(left) \in Plugin /\ Has(left, Head(left))
    BY <2>1, <2>2, HeadThenTail
  <2> QED
    BY <1>2, <2>1, <2>3 DEF Good, HeardInv, Listeners, left
<1>5. CASE stack = <<Top>> /\ Outer(Top, result, heard, Hooked)
  <2>1. stack' = <<h>>
    BY <1>5, StackOps DEF Rest
  <2>2. CASE Top.event # "MessageReceived"
    <3>1. heard = <<>> /\ heard' = <<>> /\ result' \notin Plain
      BY <1>5, <2>2 DEF Outer, HeardInv, Listeners
    <3> QED
      BY <1>1, <1>3, <2>1, <2>2, <3>1, Starts
  <2>3. CASE Top.event = "MessageReceived"
    <3>1. result \in Plain /\ Told(left, heard, Hooked)
      BY <1>5, <2>3 DEF Outer
    <3>2. CASE heard' = heard /\ Head(left) \in ChannelsOnly
      <4>1. Told(Tail(left), heard, Hooked)
        BY <1>4, <3>1, <3>2, OneLess
      <4>2. Outer(h, result', heard', Hooked')
        BY <1>3, <2>3, <3>1, <3>2, <4>1 DEF Outer
      <4>3. Under(stack', result', heard', Hooked')
        BY <2>1, <4>2 DEF Under
      <4> QED
        BY <1>1, <3>2, <4>3 DEF HeardInv
    <3>3. CASE heard' = Append(heard, Head(left))
      <4>1. /\ heard' \in Seq(Plugin) /\ Ranked(heard') /\ Told(Tail(left), heard', Hooked)
            /\ \A q : Has(heard', q) <=> Has(heard, q) \/ q = Head(left)
        BY <1>4, <3>1, <3>3, OneMore
      <4>2. Outer(h, result', heard', Hooked')
        BY <1>3, <2>3, <3>1, <4>1 DEF Outer
      <4>3. Under(stack', result', heard', Hooked')
        BY <2>1, <4>2 DEF Under
      <4>4. Listeners(heard', result', Hooked')
        BY <1>4, <2>3, <3>1, <4>1 DEF Listeners
      <4> QED
        BY <1>1, <4>3, <4>4 DEF HeardInv
    <3> QED
      BY <2>3, <3>2, <3>3
  <2> QED
    BY <2>2, <2>3
<1>6. CASE \E g : /\ stack = <<Top, g>> /\ Inner(Top, Hooked)
                  /\ Outer(g, result, heard, Hooked) /\ g.event = "MessageReceived"
  <2>1. PICK g : /\ stack = <<Top, g>> /\ Inner(Top, Hooked)
                 /\ Outer(g, result, heard, Hooked) /\ g.event = "MessageReceived"
    BY <1>6
  <2>2. stack' = <<h, g>>
    <3>1. Rest = <<g>>
      BY <2>1, StackOps DEF Rest
    <3> QED
      BY <3>1, TwoOf, Zenon
  <2>3. heard' = heard /\ Inner(h, Hooked)
    BY <1>3, <2>1 DEF Inner
  <2>4. Under(stack', result', heard', Hooked')
    BY <2>1, <2>2, <2>3 DEF Under
  <2> QED
    BY <1>1, <2>3, <2>4 DEF HeardInv
<1> QED
  BY <1>5, <1>6, TopIs

LEMMA Changed ==
  ASSUME NEW f, NEW here, Good(f, here)
  PROVE  /\ [f EXCEPT !.left = Tail(@)]
              = [event |-> f.event, left |-> Tail(f.left), cancelled |-> f.cancelled, thing |-> f.thing]
         /\ [f EXCEPT !.left = Tail(@), !.cancelled = TRUE]
              = [event |-> f.event, left |-> Tail(f.left), cancelled |-> TRUE, thing |-> f.thing]
         /\ f.cancelled \in BOOLEAN
         /\ f.event \in {"MessageReceived", "MessageSent"} => ~f.cancelled
<1> DEFINE e == f.event
           l == f.left
           c == f.cancelled
           t == f.thing
<1>1. f = [event |-> e, left |-> l, cancelled |-> c, thing |-> t]
  BY DEF Good
<1>2. f.cancelled \in BOOLEAN /\ (f.event \in {"MessageReceived", "MessageSent"} => ~f.cancelled)
  <2>1. f.cancelled \in BOOLEAN
    BY Zenon DEF Good
  <2>2. f.event \in {"MessageReceived", "MessageSent"} => ~f.cancelled
    BY Zenon DEF Good
  <2> QED
    BY <2>1, <2>2
<1> HIDE DEF e, l, c, t
<1>3. PICK d : d = TRUE
  OBVIOUS
<1>4. /\ [f EXCEPT !.left = Tail(@)] = [event |-> e, left |-> Tail(l), cancelled |-> c, thing |-> t]
      /\ [f EXCEPT !.left = Tail(@), !.cancelled = d]
           = [event |-> e, left |-> Tail(l), cancelled |-> d, thing |-> t]
  <2> DEFINE x == Tail(l)
             g == [f EXCEPT !.left = x]
             h == [g EXCEPT !.cancelled = d]
  <2>1. f.left = l
    BY DEF l
  <2>2. [f EXCEPT !.left = Tail(@)] = g
    BY <2>1
  <2>3. [f EXCEPT !.left = Tail(@), !.cancelled = d] = h
    BY <2>1
  <2> HIDE DEF x
  <2>4. g = [event |-> e, left |-> x, cancelled |-> c, thing |-> t]
    BY ONLY <1>1
  <2> HIDE DEF g
  <2>5. h = [event |-> e, left |-> x, cancelled |-> d, thing |-> t]
    BY ONLY <2>4
  <2> HIDE DEF h
  <2> QED
    BY <2>2, <2>3, <2>4, <2>5, Zenon DEF x
<1> QED
  BY <1>2, <1>3, <1>4, Zenon DEF e, l, c, t

-----------------------------------------------------------------------------
(* Steps, for handlers *)

LEMMA PassesOver == HeardInv /\ PassOver => HeardInv'
<1> SUFFICES ASSUME HeardInv, PassOver PROVE HeardInv'
  OBVIOUS
<1> DEFINE h == [Top EXCEPT !.left = Tail(@)]
<1>1. /\ stack # <<>> /\ Top.left # <<>> /\ ~Takes(Head(Top.left))
      /\ stack' = <<h>> \o Rest /\ heard' = heard
      /\ UNCHANGED <<callbacks, Hooked, result>>
  BY DEF PassOver, Dispatching, Replace, Hooked, registry
<1>2. Good(Top, Hooked)
  BY <1>1, TopIs
<1>3. /\ h = [event |-> Top.event, left |-> Tail(Top.left), cancelled |-> Top.cancelled, thing |-> Top.thing]
      /\ Top.cancelled \in BOOLEAN
      /\ Top.event \in {"MessageReceived", "MessageSent"} => ~Top.cancelled
  BY <1>2, Changed
<1>4. Top.event # "MessageReceived" \/ Head(Top.left) \in ChannelsOnly
  BY <1>1, <1>3 DEF Takes
<1> HIDE DEF h
<1> QED
  BY <1>1, <1>3, <1>4, Advances

LEMMA CallsOne ==
  ASSUME HeardInv, NEW p, Calls(p), NEW h, Replace(h),
         \/ h = [Top EXCEPT !.left = Tail(@)]
         \/ /\ h = [Top EXCEPT !.left = Tail(@), !.cancelled = TRUE]
            /\ Top.event \notin {"MessageReceived", "MessageSent"},
         UNCHANGED <<callbacks, Hooked, result>>
  PROVE  HeardInv'
<1>1. /\ stack # <<>> /\ Top.left # <<>> /\ p = Head(Top.left)
      /\ stack' = <<h>> \o Rest
      /\ heard' = IF Top.event = "MessageReceived" THEN Append(heard, p) ELSE heard
  BY DEF Calls, Dispatching, Replace
<1>2. Good(Top, Hooked)
  BY <1>1, TopIs
<1>3. PICK c \in BOOLEAN :
        /\ h = [event |-> Top.event, left |-> Tail(Top.left), cancelled |-> c, thing |-> Top.thing]
        /\ Top.event \in {"MessageReceived", "MessageSent"} => ~c
  <2>1. CASE h = [Top EXCEPT !.left = Tail(@)]
    BY <1>2, <2>1, Changed, Zenon
  <2>2. CASE /\ h = [Top EXCEPT !.left = Tail(@), !.cancelled = TRUE]
             /\ Top.event \notin {"MessageReceived", "MessageSent"}
    <3>1. TRUE \in BOOLEAN
      OBVIOUS
    <3> QED
      BY <1>2, <2>2, <3>1, Changed, Zenon
  <2> QED
    BY <2>1, <2>2
<1> QED
  BY <1>1, <1>3, Advances

LEMMA Handles ==
  ASSUME HeardInv, NEW p \in Plugin, CallQuiet(p) \/ CallCancels(p) \/ CallRewrites(p)
  PROVE  HeardInv'
<1>1. /\ Calls(p) /\ UNCHANGED <<callbacks, Hooked, result>>
      /\ \/ Replace([Top EXCEPT !.left = Tail(@)])
         \/ /\ Replace([Top EXCEPT !.left = Tail(@), !.cancelled = TRUE])
            /\ Top.event \notin {"MessageReceived", "MessageSent"}
  BY DEF CallQuiet, CallCancels, CallRewrites, Hooked, registry
<1> QED
  BY <1>1, CallsOne

LEMMA BridgeHandles == HeardInv /\ CallBridge => HeardInv'
<1> SUFFICES ASSUME HeardInv, CallBridge PROVE HeardInv'
  OBVIOUS
<1>1. /\ Calls(Bridge) /\ UNCHANGED <<callbacks, Hooked, result>>
      /\ Replace([Top EXCEPT !.left = Tail(@)])
  BY DEF CallBridge, Hooked, registry
<1> QED
  BY <1>1, CallsOne

LEMMA EventNames ==
  {"PreMessageReceived", "PreCommand", "UnknownCommand", "MessageReceived", "CTCPQueryReceived",
   "ActionReceived", "MessageSent", "ActionSent", "Membership"} = Event
BY DEF Event

\* Saying something is an event of its own.
LEMMA Says ==
  ASSUME CallbacksExact, NEW form, NEW where
  PROVE  LET f == Say(form, where)
         IN /\ Good(f, Hooked) /\ f.event = IF form = "action" THEN "ActionSent" ELSE "MessageSent"
            /\ f.thing = [where |-> where, form |-> form, n |-> Said + 1]
<1> DEFINE e == IF form = "action" THEN "ActionSent" ELSE "MessageSent"
           thing == [where |-> where, form |-> form, n |-> Said + 1]
<1>1. Say(form, where) = Dispatch(e, thing, FALSE)
  BY DEF Say
<1>2. e \in Event
  BY EventNames
<1> HIDE DEF e, thing
<1> DEFINE f == Dispatch(e, thing, FALSE)
<1>3. /\ Good(f, Hooked) /\ f.event = e /\ f.left = callbacks[e]
      /\ f.thing = thing /\ f.cancelled = FALSE
  BY <1>2, PlainDispatch
<1> HIDE DEF f
<1>4. Say(form, where) = f
  BY <1>1 DEF f
<1> QED
  BY <1>3, <1>4, Zenon DEF e, thing

LEMMA AnswerIsInside ==
  ASSUME HeardInv, NEW p \in Plugin, CallAnswers(p)
  PROVE  HeardInv'
<1> DEFINE f == Say("message", Top.thing.where)
           h == [Top EXCEPT !.left = Tail(@)]
           left == Top.left
<1>1. /\ stack # <<>> /\ left # <<>> /\ p = Head(left) /\ Top.event = "MessageReceived"
      /\ stack' = <<f>> \o <<h>> \o Rest
      /\ heard' = Append(heard, p)
      /\ UNCHANGED <<callbacks, Hooked, result>>
  BY DEF CallAnswers, Calls, Dispatching, Hooked, registry
<1>2. /\ CallbacksExact /\ Listeners(heard, result, Hooked)
      /\ stack = <<Top>> /\ Outer(Top, result, heard, Hooked) /\ Good(Top, Hooked)
  BY <1>1, TopAlone DEF HeardInv, Outer
<1>3. CallbacksExact'
  BY <1>1, <1>2, SameCallbacks
<1>4. Inner(f, Hooked)
  BY <1>2, Says DEF Inner
<1>5. Good(h, Hooked) /\ h.event = "MessageReceived" /\ h.left = Tail(left)
  <2>1. /\ h = [event |-> Top.event, left |-> Tail(Top.left), cancelled |-> Top.cancelled, thing |-> Top.thing]
        /\ Top.cancelled \in BOOLEAN
        /\ Top.event \in {"MessageReceived", "MessageSent"} => ~Top.cancelled
    BY <1>2, Changed
  <2> HIDE DEF h
  <2> QED
    BY <1>1, <1>2, <2>1, GoodNext
<1>6. result \in Plain /\ Told(left, heard, Hooked) /\ left \in Seq(Plugin) /\ Ranked(left)
  BY <1>1, <1>2 DEF Outer, Good
<1>7. heard \in Seq(Plugin) /\ Ranked(heard)
  BY <1>2 DEF Listeners
<1> HIDE DEF f, h, left
<1>8. /\ heard' \in Seq(Plugin) /\ Ranked(heard') /\ Told(Tail(left), heard', Hooked)
      /\ \A q : Has(heard', q) <=> Has(heard, q) \/ q = p
  BY <1>1, <1>6, <1>7, OneMore
<1>9. Has(left, p)
  BY <1>1, <1>6, HeadThenTail
<1>10. stack' = <<f, h>>
  <2>1. Rest = <<>>
    BY <1>2, StackOps DEF Rest
  <2>2. <<f>> \o <<h>> = <<f, h>> /\ <<f, h>> \o <<>> = <<f, h>>
    <3>1. <<f, h>> \o <<>> = <<f, h>>
      OBVIOUS
    <3> QED
      BY <3>1, TwoOf, Zenon
  <2> QED
    BY <1>1, <2>1, <2>2, Zenon
<1>11. Outer(h, result', heard', Hooked')
  BY <1>1, <1>5, <1>6, <1>8 DEF Outer
<1>12. Under(stack', result', heard', Hooked')
  BY <1>1, <1>4, <1>5, <1>10, <1>11 DEF Under
<1>13. Listeners(heard', result', Hooked')
  BY <1>1, <1>2, <1>6, <1>8, <1>9 DEF Listeners, Good, left
<1> QED
  BY <1>3, <1>12, <1>13 DEF HeardInv

-----------------------------------------------------------------------------
(* Steps, once all handlers have been called *)

LEMMA MessageGoes == HeardInv /\ MessageIsSent => HeardInv'
<1> SUFFICES ASSUME HeardInv, MessageIsSent PROVE HeardInv'
  OBVIOUS
<1>1. /\ stack # <<>> /\ Top.event = "MessageSent" /\ stack' = Rest
      /\ UNCHANGED <<callbacks, Hooked, result, heard>>
  BY DEF MessageIsSent, Dispatched, Hooked, registry
<1>2. CallbacksExact'
  BY <1>1, SameCallbacks DEF HeardInv
<1>3. CASE stack = <<Top>> /\ Outer(Top, result, heard, Hooked)
  <2>1. stack' = <<>>
    BY <1>1, <1>3, StackOps DEF Rest
  <2>2. result \notin Plain /\ heard = <<>>
    BY <1>1, <1>3 DEF Outer, HeardInv, Listeners
  <2> QED
    BY <1>1, <1>2, <2>1, <2>2, Starts
<1>4. CASE \E g : /\ stack = <<Top, g>> /\ Inner(Top, Hooked)
                  /\ Outer(g, result, heard, Hooked) /\ g.event = "MessageReceived"
  <2>1. PICK g : stack = <<Top, g>> /\ Outer(g, result, heard, Hooked)
    BY <1>4
  <2>2. stack' = <<g>>
    BY <1>1, <2>1, StackOps DEF Rest
  <2>3. Under(stack', result', heard', Hooked')
    BY <1>1, <2>1, <2>2 DEF Under
  <2> QED
    BY <1>1, <1>2, <2>3 DEF HeardInv
<1> QED
  BY <1>1, <1>3, <1>4, TopIs

\* Another event that is no message.
LEMMA GoesOn ==
  ASSUME HeardInv, stack # <<>>, Top.event \notin {"MessageSent", "MessageReceived"},
         NEW e \in Event \ {"MessageReceived"}, NEW thing, NEW c \in BOOLEAN,
         e = "MessageSent" => ~c,
         Replace(Dispatch(e, thing, c)), UNCHANGED <<callbacks, Hooked, heard, result>>
  PROVE  HeardInv'
<1> DEFINE f == Dispatch(e, thing, c)
<1>1. heard = <<>> /\ stack = <<Top>> /\ result \notin Plain
  BY NotYetHeard, TopAlone DEF Outer
<1>2. Good(f, Hooked) /\ f.event = e
  BY GoodDispatch DEF HeardInv
<1>3. stack' = <<f>>
  <2>1. Rest = <<>>
    BY <1>1, StackOps DEF Rest
  <2>2. stack' = <<f>> \o Rest
    BY DEF Replace
  <2> HIDE DEF f
  <2> QED
    BY <2>1, <2>2
<1> HIDE DEF f
<1> QED
  BY <1>1, <1>2, <1>3, SameCallbacks, Starts DEF HeardInv

\* The end of an event that is no message.
LEMMA Finishes ==
  ASSUME HeardInv, stack # <<>>, Top.event \notin {"MessageSent", "MessageReceived"},
         NEW r, r \notin Plain, Ended(r), UNCHANGED <<callbacks, Hooked, heard>>
  PROVE  HeardInv'
BY NotYetHeard, SameCallbacks, Starts DEF HeardInv, Ended

\* A message that everybody who asks for messages is to hear.
LEMMA Delivers ==
  ASSUME HeardInv, stack # <<>>, Top.event \notin {"MessageSent", "MessageReceived"},
         NEW r \in Plain, Deliver(r), UNCHANGED <<callbacks, Hooked, heard>>
  PROVE  HeardInv'
<1> DEFINE f == Dispatch("MessageReceived", Top.thing, FALSE)
<1>1. heard = <<>> /\ stack = <<Top>> /\ CallbacksExact
  BY NotYetHeard DEF HeardInv
<1>2. Good(f, Hooked) /\ f.event = "MessageReceived" /\ f.left = callbacks["MessageReceived"]
  <2>1. "MessageReceived" \in Event
    BY EventNames
  <2> QED
    BY <1>1, <2>1, PlainDispatch
<1>3. result' = r /\ stack' = <<f>> \o Rest
  BY DEF Deliver, Replace
<1> HIDE DEF f
<1>4. stack' = <<f>>
  BY <1>1, <1>3, StackOps DEF Rest
<1>5. Told(f.left, <<>>, Hooked)
  <2>1. \A p \in Plugin : <<p, "MessageReceived">> \in Hooked => Has(f.left, p)
    BY <1>1, <1>2, EventNames DEF CallbacksExact
  <2>2. Before(<<>>, f.left)
    BY NobodyYet
  <2> QED
    BY <2>1, <2>2 DEF Told
<1>6. Under(stack', result', heard', Hooked')
  BY <1>1, <1>2, <1>3, <1>4, <1>5 DEF Under, Outer
<1>7. Listeners(heard', result', Hooked') /\ CallbacksExact'
  BY <1>1, NobodyYet, SameCallbacks
<1> QED
  BY <1>6, <1>7 DEF HeardInv

LEMMA Begins ==
  ASSUME HeardInv, NEW e \in Event \ {"MessageReceived", "MessageSent"}, NEW c \in BOOLEAN,
         NEW where, NEW form, Begin(e, c, where, form)
  PROVE  HeardInv'
<1> DEFINE f == Dispatch(e, received', c)
<1>1. stack' = <<f>> /\ result' = "none" /\ heard' = <<>> /\ UNCHANGED <<callbacks, Hooked>>
  BY DEF Begin, Hooked, registry
<1>2. Good(f, Hooked) /\ f.event = e
  BY GoodDispatch DEF HeardInv
<1>3. result' \notin Plain
  BY <1>1 DEF Plain
<1> HIDE DEF f
<1> QED
  BY <1>1, <1>2, <1>3, SameCallbacks, Starts DEF HeardInv

LEMMA ManagesCallbacks ==
  ASSUME HeardInv, NEW p \in Plugin, Manages(p)
  PROVE  CallbacksExact'
BY ManagesHandlers DEF HeardInv

LEMMA HeardLoads == HeardInv /\ Load => HeardInv'
<1> SUFFICES ASSUME HeardInv, Load PROVE HeardInv'
  OBVIOUS
<1>1. /\ \E p \in Plugin : Manages(p)
      /\ stack' = <<>> /\ result' = "none" /\ heard' = <<>>
  BY DEF Load
<1>2. result' \notin Plain
  BY <1>1 DEF Plain
<1> QED
  BY <1>1, <1>2, ManagesCallbacks, Starts

LEMMA HeardArrives == HeardInv /\ (Receive \/ ReceiveCTCP \/ Happen) => HeardInv'
<1> SUFFICES ASSUME HeardInv, Receive \/ ReceiveCTCP \/ Happen PROVE HeardInv'
  OBVIOUS
<1>1. FALSE \in BOOLEAN /\ {"PreMessageReceived", "CTCPQueryReceived", "Membership"} \subseteq Event \ {"MessageReceived", "MessageSent"}
  BY EventNames
<1>2. CASE Receive
  <2>1. PICK where, form : Begin("PreMessageReceived", FALSE, where, form)
    BY <1>2 DEF Receive
  <2> QED
    BY <1>1, <2>1, Begins, Zenon
<1>3. CASE ReceiveCTCP
  <2>1. PICK p \in Irc, c \in Chan \cup {Private}, blocked \in BOOLEAN :
            Begin("CTCPQueryReceived", blocked, <<p, c>>, "action")
    BY <1>3, Zenon DEF ReceiveCTCP
  <2> QED
    BY <1>1, <2>1, Begins, Zenon
<1>4. CASE Happen
  <2>1. PICK where, form : Begin("Membership", FALSE, where, form)
    BY <1>4 DEF Happen
  <2> QED
    BY <1>1, <2>1, Begins, Zenon
<1> QED
  BY <1>2, <1>3, <1>4

LEMMA HeardAction == HeardInv /\ ActionIsSent => HeardInv'
<1> SUFFICES ASSUME HeardInv, ActionIsSent PROVE HeardInv'
  OBVIOUS
<1>1. /\ stack # <<>> /\ Top.event = "ActionSent"
      /\ UNCHANGED <<callbacks, Hooked, heard, result>>
      /\ \/ stack' = Rest
         \/ Replace(Dispatch("MessageSent", [Top.thing EXCEPT !.form = "message"], FALSE))
  BY Zenon DEF ActionIsSent, Dispatched, Hooked, registry
<1>2. Top.event \notin {"MessageSent", "MessageReceived"}
  BY <1>1
<1>3. CASE stack' = Rest
  <2>1. stack = <<Top>> /\ heard = <<>> /\ result \notin Plain
    BY <1>1, <1>2, NotYetHeard, TopAlone DEF Outer
  <2>2. stack' = <<>>
    BY <1>3, <2>1, StackOps DEF Rest
  <2> QED
    BY <1>1, <2>1, <2>2, SameCallbacks, Starts DEF HeardInv
<1>4. CASE Replace(Dispatch("MessageSent", [Top.thing EXCEPT !.form = "message"], FALSE))
  <2>1. "MessageSent" \in Event \ {"MessageReceived"} /\ FALSE \in BOOLEAN
    BY EventNames
  <2> DEFINE thing == [Top.thing EXCEPT !.form = "message"]
  <2>2. Replace(Dispatch("MessageSent", thing, FALSE))
    BY <1>4
  <2> HIDE DEF thing
  <2> QED
    BY <1>1, <1>2, <2>1, <2>2, GoesOn, Zenon
<1> QED
  BY <1>1, <1>3, <1>4

LEMMA HeardMembership == HeardInv /\ MembershipEnds => HeardInv'
<1> SUFFICES ASSUME HeardInv, MembershipEnds PROVE HeardInv'
  OBVIOUS
<1> DEFINE thing == [Top.thing EXCEPT !.form = "disconnect"]
<1>1. /\ stack # <<>> /\ Top.event = "Membership" /\ UNCHANGED <<callbacks, Hooked, heard>>
      /\ Ended("Heard") \/ (Replace(Dispatch("Membership", thing, FALSE)) /\ UNCHANGED result)
  <2>1. stack # <<>> /\ Top.event = "Membership" /\ UNCHANGED <<callbacks, Hooked, heard>>
    BY DEF MembershipEnds, Dispatched, Hooked, registry
  <2>2. Ended("Heard") \/ (Replace(Dispatch("Membership", thing, FALSE)) /\ UNCHANGED result)
    BY Zenon DEF MembershipEnds
  <2> QED
    BY <2>1, <2>2
<1>2. Top.event \notin {"MessageSent", "MessageReceived"} /\ "Heard" \notin Plain
  BY <1>1 DEF Plain
<1>3. "Membership" \in Event \ {"MessageReceived"} /\ FALSE \in BOOLEAN
  BY EventNames
<1> HIDE DEF thing
<1>4. CASE Ended("Heard")
  BY <1>1, <1>2, <1>4, Finishes
<1>5. CASE Replace(Dispatch("Membership", thing, FALSE)) /\ UNCHANGED result
  BY <1>1, <1>2, <1>3, <1>5, GoesOn, Zenon
<1> QED
  BY <1>1, <1>4, <1>5

LEMMA HeardCTCP == HeardInv /\ (CTCPEnds \/ ActionEnds) => HeardInv'
<1> SUFFICES ASSUME HeardInv, CTCPEnds \/ ActionEnds PROVE HeardInv'
  OBVIOUS
<1>1. /\ stack # <<>> /\ Top.event \in {"CTCPQueryReceived", "ActionReceived"}
      /\ UNCHANGED <<callbacks, Hooked, heard>>
      /\ \/ Ended("Heard")
         \/ /\ Replace(Dispatch("ActionReceived", Top.thing, Top.cancelled))
            /\ UNCHANGED result
  BY DEF CTCPEnds, ActionEnds, Dispatched, Hooked, registry
<1>2. Top.event \notin {"MessageSent", "MessageReceived"} /\ "Heard" \notin Plain
  BY <1>1 DEF Plain
<1>3. CASE Ended("Heard")
  BY <1>1, <1>2, <1>3, Finishes
<1>4. CASE Replace(Dispatch("ActionReceived", Top.thing, Top.cancelled)) /\ UNCHANGED result
  <2>1. "ActionReceived" \in Event \ {"MessageReceived"} /\ "ActionReceived" # "MessageSent"
    BY EventNames
  <2>2. Top.cancelled \in BOOLEAN
    BY <1>1, TopIs, Changed
  <2> QED
    BY <1>1, <1>2, <1>4, <2>1, <2>2, GoesOn, Zenon
<1> QED
  BY <1>1, <1>3, <1>4

LEMMA HeardDecides == HeardInv /\ (Decide \/ Unknown \/ UnknownEnds \/ NoPermission) => HeardInv'
<1> SUFFICES ASSUME HeardInv, Decide \/ Unknown \/ UnknownEnds \/ NoPermission PROVE HeardInv'
  OBVIOUS
<1>1. /\ stack # <<>> /\ Top.event \in {"PreMessageReceived", "PreCommand", "UnknownCommand"}
      /\ UNCHANGED <<callbacks, Hooked, heard>>
      /\ \/ \E r \in Plain : Deliver(r)
         \/ \E r \in {"Cancelled", "Raised", "UnknownOverridden", "NoPermission"} : Ended(r)
         \/ \E e \in {"PreCommand", "UnknownCommand"} :
              Replace(Dispatch(e, Top.thing, FALSE)) /\ UNCHANGED result
  BY DEF Decide, Unknown, UnknownEnds, NoPermission, Dispatched, Hooked, registry, Plain
<1>2. Top.event \notin {"MessageSent", "MessageReceived"}
  BY <1>1
<1>3. CASE \E r \in Plain : Deliver(r)
  BY <1>1, <1>2, <1>3, Delivers
<1>4. CASE \E r \in {"Cancelled", "Raised", "UnknownOverridden", "NoPermission"} : Ended(r)
  <2>1. PICK r \in {"Cancelled", "Raised", "UnknownOverridden", "NoPermission"} : Ended(r)
    BY <1>4
  <2>2. r \notin Plain
    BY <2>1 DEF Plain
  <2> QED
    BY <1>1, <1>2, <2>1, <2>2, Finishes
<1>5. CASE \E e \in {"PreCommand", "UnknownCommand"} :
              Replace(Dispatch(e, Top.thing, FALSE)) /\ UNCHANGED result
  <2>1. PICK e \in {"PreCommand", "UnknownCommand"} :
              Replace(Dispatch(e, Top.thing, FALSE)) /\ UNCHANGED result
    BY <1>5
  <2>2. e \in Event \ {"MessageReceived"} /\ e # "MessageSent" /\ FALSE \in BOOLEAN
    BY <2>1, EventNames
  <2> QED
    BY <1>1, <1>2, <2>1, <2>2, GoesOn, Zenon
<1> QED
  BY <1>1, <1>3, <1>4, <1>5

\* A command runs, and says something or nothing; plugins may come or go.
LEMMA HeardRuns == HeardInv /\ Run => HeardInv'
<1> SUFFICES ASSUME HeardInv, Run PROVE HeardInv'
  OBVIOUS
<1>1. /\ stack # <<>> /\ Top.event = "PreCommand" /\ UNCHANGED heard
      /\ \/ UNCHANGED registry
         \/ \E p \in Plugin : Manages(p)
  BY DEF Run, Dispatched
<1>2. heard' = <<>>
  BY <1>1, NotYetHeard
<1>3. CallbacksExact'
  BY <1>1, SameHooked, SameCallbacks, ManagesCallbacks DEF HeardInv
<1>4. CASE \E r \in {"Success", "Managed"} : Ended(r)
  <2>1. stack' = <<>> /\ result' \notin Plain
    BY <1>4 DEF Ended, Plain
  <2> QED
    BY <1>2, <1>3, <2>1, Starts
<1>5. CASE /\ \E form, w, r : Answered(form, w, r) /\ r \notin Plain
           /\ UNCHANGED registry
  <2>1. PICK form, w, r : Answered(form, w, r) /\ r \notin Plain
    BY <1>5
  <2> DEFINE f == Say(form, w)
  <2>2. stack' = <<f>> /\ result' \notin Plain /\ Hooked' = Hooked
    BY <1>5, <2>1 DEF Answered, Hooked, registry
  <2>3. Good(f, Hooked) /\ f.event # "MessageReceived"
    BY Says DEF HeardInv
  <2> HIDE DEF f
  <2> QED
    BY <1>2, <1>3, <2>2, <2>3, Starts
<1>6. \/ \E r \in {"Success", "Managed"} : Ended(r)
      \/ (\E form, w, r : Answered(form, w, r) /\ r \notin Plain) /\ UNCHANGED registry
  <2>1. "Success" \notin Plain /\ "Error" \notin Plain /\ "RateLimited" \notin Plain
    BY DEF Plain
  <2> QED
    BY <2>1 DEF Run
<1> QED
  BY <1>4, <1>5, <1>6

LEMMA HeardEnds == HeardInv /\ MessageEnds => HeardInv'
<1> SUFFICES ASSUME HeardInv, MessageEnds PROVE HeardInv'
  OBVIOUS
<1>1. /\ stack # <<>> /\ Top.event = "MessageReceived" /\ Top.left = <<>>
      /\ stack' = <<>> /\ UNCHANGED <<callbacks, Hooked, result, heard>>
  BY DEF MessageEnds, Dispatched, Ended, Hooked, registry
<1>2. Told(<<>>, heard, Hooked)
  BY <1>1, TopAlone DEF Outer
<1>3. Under(stack', result', heard', Hooked')
  BY <1>1, <1>2 DEF Under
<1> QED
  BY <1>1, <1>3, SameCallbacks DEF HeardInv

LEMMA HeardStep == HeardInv /\ [Next]_vars => HeardInv'
<1> SUFFICES ASSUME HeardInv, [Next]_vars PROVE HeardInv'
  OBVIOUS
<1>1. CASE \E p \in Plugin : Handle(p)
  BY <1>1, Handles, AnswerIsInside DEF Handle
<1>2. CASE UNCHANGED vars
  <2>1. UNCHANGED <<callbacks, Hooked, stack, result, heard>>
    BY <1>2 DEF vars, registry, Hooked
  <2>2. CallbacksExact'
    BY <2>1, SameCallbacks DEF HeardInv
  <2> QED
    BY <2>1, <2>2 DEF HeardInv
<1>3. CASE Next /\ ~\E p \in Plugin : Handle(p)
  BY <1>3, HeardLoads, HeardArrives, PassesOver, BridgeHandles, MessageGoes, HeardAction,
     HeardMembership, HeardCTCP, HeardDecides, HeardRuns, HeardEnds, Zenon DEF Next
<1> QED
  BY <1>1, <1>2, <1>3

LEMMA HeardInit == Init => HeardInv
<1> SUFFICES ASSUME Init PROVE HeardInv
  OBVIOUS
<1>1. /\ Hooked = {} /\ callbacks = [e \in Event |-> <<>>]
      /\ result = "none" /\ stack = <<>> /\ heard = <<>>
  BY DEF Init, Hooked
<1>2. CallbacksExact
  <2>1. <<>> \in Seq(Plugin)
    OBVIOUS
  <2> QED
    BY <1>1, <2>1, NobodyYet DEF CallbacksExact
<1>3. result \notin Plain
  BY <1>1 DEF Plain
<1> QED
  BY <1>1, <1>2, <1>3, NobodyYet DEF HeardInv, Under

\* Whatever plugins come and go, with whatever handlers and priorities, a
\* message that is none of the commands is heard by every plugin that
\* asks for messages, once and in the order of the priorities, whoever answers
\* meanwhile; one that was a command is heard by nobody.
THEOREM MessagesAreHeard == Spec => []HeardOnceOrConsumed
<1>1. HeardInv => HeardOnceOrConsumed
  <2> SUFFICES ASSUME HeardInv PROVE HeardOnceOrConsumed
    OBVIOUS
  <2>1. \A i, j \in DOMAIN heard : i < j => Rank[heard[i]] > Rank[heard[j]]
    BY DEF HeardInv, Listeners, Ranked
  <2>2. result \notin {"NotACommand", "Unknown"} => heard = <<>>
    BY DEF HeardInv, Listeners, Plain
  <2>3. \A i \in DOMAIN heard : Hears(heard[i])
    <3> SUFFICES ASSUME NEW i \in DOMAIN heard PROVE Hears(heard[i])
      OBVIOUS
    <3>1. heard[i] \in Plugin /\ Has(heard, heard[i])
      BY SequenceIs DEF HeardInv, Listeners, Has
    <3> QED
      BY <3>1 DEF HeardInv, Listeners, Hears
  <2>4. ASSUME Done, result \in {"NotACommand", "Unknown"}, NEW p \in Plugin, Hears(p)
        PROVE  p \in ChannelsOnly \/ \E i \in DOMAIN heard : heard[i] = p
    <3>1. stack = <<>> /\ result \in Plain
      BY <2>4 DEF Done, Plain
    <3>2. Told(<<>>, heard, Hooked)
      BY <3>1, StackOps DEF HeardInv, Under
    <3> QED
      BY <2>4, <3>2, NobodyYet DEF Told, Hears, Has
  <2> QED
    BY <2>1, <2>2, <2>3, <2>4 DEF HeardOnceOrConsumed
<1> QED
  BY <1>1, HeardInit, HeardStep, PTL DEF Spec

-----------------------------------------------------------------------------
(***************************************************************************)
(* What is relayed                                                         *)
(***************************************************************************)
Things == [where : Place, form : Form, n : Nat]
Lines == [where : Place, rule : Rule \cup {None}, thing : Things]

Own(ls) == {i \in DOMAIN ls : ls[i].rule = None}
Count(ls) == Cardinality(Own(ls))

LEMMA ThingIs ==
  ASSUME NEW t \in Things
  PROVE  /\ t = [where |-> t.where, form |-> t.form, n |-> t.n]
         /\ t.where \in Place /\ t.form \in Form /\ t.n \in Nat
BY DEF Things

LEMMA MakeThing ==
  ASSUME NEW w \in Place, NEW f \in Form, NEW n \in Nat
  PROVE  LET t == [where |-> w, form |-> f, n |-> n]
         IN t \in Things /\ t.where = w /\ t.form = f /\ t.n = n
BY DEF Things

LEMMA LineIs ==
  ASSUME NEW l \in Lines
  PROVE  l.where \in Place /\ l.rule \in Rule \cup {None} /\ l.thing \in Things
BY DEF Lines

LEMMA MakeLine ==
  ASSUME NEW w \in Place, NEW r \in Rule \cup {None}, NEW t \in Things
  PROVE  LET l == [where |-> w, rule |-> r, thing |-> t]
         IN l \in Lines /\ l.rule = r /\ l.thing = t
BY DEF Lines

\* A set put in a row.
LEMMA SequenceOf ==
  ASSUME NEW S, IsFiniteSet(S)
  PROVE  LET q == SetToSeq(S)
         IN /\ q \in Seq(S)
            /\ \A i, j \in DOMAIN q : q[i] = q[j] => i = j
            /\ \A x \in S : \E i \in DOMAIN q : q[i] = x
<1> DEFINE n == Cardinality(S)
           q == SetToSeq(S)
<1>1. n \in Nat /\ ExistsBijection(1 .. n, S)
  BY FS_CardinalityType
<1>2. PICK b : b \in [1 .. n -> S] /\ IsInjective(b)
  BY <1>1 DEF ExistsBijection, Bijection, Injection, IsInjective
<1>3. q \in [1 .. n -> S] /\ IsInjective(q)
  BY <1>2 DEF SetToSeq
<1>4. q \in Injection(1 .. n, S)
  BY <1>3 DEF Injection, IsInjective
<1>5. IsFiniteSet(1 .. n) /\ Cardinality(1 .. n) = n
  <2> HIDE DEF n
  <2>1. IsFiniteSet(1 .. n) /\ Cardinality(1 .. n) = IF 1 > n THEN 0 ELSE n - 1 + 1
    BY <1>1, FS_Interval
  <2> QED
    BY <1>1, <2>1
<1>6. q \in Surjection(1 .. n, S)
  BY <1>4, <1>5, FS_Injection
<1> HIDE DEF n, q
<1>7. q \in Seq(S)
  BY <1>1, <1>3
<1>8. DOMAIN q = 1 .. n
  BY <1>3
<1>9. \A x \in S : \E i \in 1 .. n : q[i] = x
  BY <1>6 DEF Surjection
<1> QED
  BY <1>3, <1>7, <1>8, <1>9 DEF IsInjective, q

\* What the bridge makes of something, a line for every rule that matches.
LEMMA RelaysAre ==
  ASSUME NEW t \in Things
  PROVE  LET q == Relays(t)
         IN /\ q \in Seq(Lines)
            /\ \A i \in DOMAIN q : q[i].rule \in Rule /\ q[i].thing = t
            /\ \A i, j \in DOMAIN q : q[i].rule = q[j].rule => i = j
            /\ \A r \in Rule : Matches(r, t.where, t.form) => \E i \in DOMAIN q : q[i].rule = r
<1> DEFINE T == {r \in Rule : Matches(r, t.where, t.form)}
           Row(r) == [where |-> <<r.to, r.target>>, rule |-> r, thing |-> t]
           S == {Row(r) : r \in T}
           m == [r \in T |-> Row(r)]
           q == SetToSeq(S)
<1>1. IsFiniteSet(T)
  BY FS_Subset, RuleAssumption
<1>2. m \in Surjection(T, S)
  BY DEF Surjection
<1>3. IsFiniteSet(S)
  <2> HIDE DEF T, S, m
  <2> QED
    BY <1>1, <1>2, FS_Surjection
<1>4. Relays(t) = q
  BY DEF Relays
<1>5. \A r \in T : Row(r) \in Lines /\ Row(r).rule = r /\ Row(r).thing = t
  <2> SUFFICES ASSUME NEW r \in T PROVE Row(r) \in Lines /\ Row(r).rule = r /\ Row(r).thing = t
    OBVIOUS
  <2>1. r \in Rule
    OBVIOUS
  <2>2. <<r.to, r.target>> \in Place
    BY <2>1, RuleAssumption DEF Rules, Place
  <2> QED
    BY <2>1, <2>2, MakeLine
<1>6. /\ q \in Seq(S)
      /\ \A i, j \in DOMAIN q : q[i] = q[j] => i = j
      /\ \A x \in S : \E i \in DOMAIN q : q[i] = x
  <2> HIDE DEF S
  <2> QED
    BY <1>3, SequenceOf
<1>7. \A x \in S : x \in Lines /\ x.rule \in T /\ x.thing = t /\ x = Row(x.rule)
  BY <1>5
<1>8. \A r \in T : Row(r) \in S /\ Row(r).rule = r
  BY <1>5
<1>9. T \subseteq Rule /\ \A r \in Rule : Matches(r, t.where, t.form) => r \in T
  OBVIOUS
<1> HIDE DEF T, S, q, Row
<1>10. \A i \in DOMAIN q : q[i] \in S
  BY <1>6
<1>11. q \in Seq(Lines)
  BY <1>6, <1>7
<1>12. \A i \in DOMAIN q : q[i].rule \in Rule /\ q[i].thing = t
  BY <1>7, <1>9, <1>10
<1>13. \A i, j \in DOMAIN q : q[i].rule = q[j].rule => i = j
  BY <1>6, <1>7, <1>10
<1>14. \A r \in Rule : Matches(r, t.where, t.form) => \E i \in DOMAIN q : q[i].rule = r
  BY <1>6, <1>8, <1>9
<1> QED
  BY <1>4, <1>11, <1>12, <1>13, <1>14

LEMMA CountIs ==
  ASSUME NEW ls \in Seq(Lines)
  PROVE  IsFiniteSet(Own(ls)) /\ Count(ls) \in Nat
<1>1. Len(ls) \in Nat /\ Own(ls) \subseteq 1 .. Len(ls)
  BY DEF Own
<1>2. IsFiniteSet(1 .. Len(ls))
  BY <1>1, FS_Interval
<1>3. IsFiniteSet(Own(ls))
  BY <1>1, <1>2, FS_Subset
<1> QED
  BY <1>3, FS_CardinalityType DEF Count

LEMMA SaidIs == Said = Count(lines)
BY DEF Said, Count, Own

\* What the bot says counts, what the bridge relays does not.
LEMMA CountOne ==
  ASSUME NEW ls \in Seq(Lines), NEW l \in Lines, l.rule = None
  PROVE  Count(Append(ls, l)) = Count(ls) + 1
<1> DEFINE new == Append(ls, l)
           k == Len(ls) + 1
<1>1. /\ Len(ls) \in Nat /\ DOMAIN ls = 1 .. Len(ls) /\ DOMAIN new = 1 .. k
      /\ \A i \in 1 .. Len(ls) : new[i] = ls[i]
      /\ new[k] = l
  BY AppendedTo, SequenceIs
<1>2. Own(new) = Own(ls) \cup {k}
  <2> HIDE DEF new
  <2> QED
    BY <1>1 DEF Own
<1>3. k \notin Own(ls)
  BY <1>1 DEF Own
<1> HIDE DEF k
<1> QED
  BY <1>2, <1>3, CountIs, FS_AddElement DEF Count

LEMMA CountRelays ==
  ASSUME NEW ls \in Seq(Lines), NEW q \in Seq(Lines), \A i \in DOMAIN q : q[i].rule \in Rule
  PROVE  Count(ls \o q) = Count(ls)
<1> DEFINE new == ls \o q
           l == Len(ls)
           m == Len(q)
<1>1. /\ l \in Nat /\ m \in Nat /\ DOMAIN ls = 1 .. l /\ DOMAIN q = 1 .. m /\ DOMAIN new = 1 .. l + m
      /\ \A i \in 1 .. l : new[i] = ls[i]
      /\ \A i \in 1 .. m : new[l + i] = q[i]
  <2>1. new \in Seq(Lines) /\ Len(new) = l + m
    BY PutTogether
  <2>2. \A i \in 1 .. l : new[i] = ls[i]
    BY PutTogether
  <2>3. \A i \in 1 .. m : new[l + i] = q[i]
    BY PutTogether
  <2> HIDE DEF new
  <2> QED
    BY <2>1, <2>2, <2>3
<1> HIDE DEF new, l, m
<1>2. \A i \in 1 .. l + m : i \in 1 .. l \/ \E j \in 1 .. m : i = l + j
  <2> SUFFICES ASSUME NEW i \in 1 .. l + m, i \notin 1 .. l PROVE \E j \in 1 .. m : i = l + j
    OBVIOUS
  <2>1. i - l \in 1 .. m /\ i = l + (i - l)
    BY <1>1
  <2> QED
    BY <2>1
<1>3. \A i \in 1 .. l + m : new[i].rule = None => i \in 1 .. l
  <2> SUFFICES ASSUME NEW i \in 1 .. l + m, new[i].rule = None, i \notin 1 .. l PROVE FALSE
    OBVIOUS
  <2>1. PICK j \in 1 .. m : i = l + j
    BY <1>2
  <2>2. new[i] = q[j] /\ q[j].rule \in Rule
    BY <1>1, <2>1
  <2> QED
    BY <2>2, RuleAssumption
<1>4. \A i \in 1 .. l : i \in 1 .. l + m
  BY <1>1
<1>5. Own(new) = Own(ls)
  BY <1>1, <1>3, <1>4 DEF Own
<1> QED
  BY <1>5 DEF Count, new

\* No rule has relayed what was said n-th in this form.
Unsaid(ls, n, form) ==
  \A i \in DOMAIN ls : ls[i].rule # None => ~(ls[i].thing.n = n /\ ls[i].thing.form = form)

NoneTwice(ls) ==
  \A i, j \in DOMAIN ls :
    /\ ls[i].rule # None /\ ls[i].rule = ls[j].rule
    /\ ls[i].thing.n = ls[j].thing.n /\ ls[i].thing.form = ls[j].thing.form
    => i = j

\* Everything relayed is of the first k things said.
UpTo(ls, k) == \A i \in DOMAIN ls : ls[i].rule # None => ls[i].thing.n <= k

Saying == {"MessageSent", "ActionSent"}
Heeding == {"PreMessageReceived", "CTCPQueryReceived", "ActionReceived", "Membership"}

\* What the bridge has still to be told of has not been relayed, and neither
\* has what an event will yet become: an action a message, an end another.
Untold(f, ls) ==
  /\ f.event \in Saying => f.thing.n = Count(ls) + 1 /\ UpTo(ls, Count(ls) + 1)
  /\ f.event \notin Saying => UpTo(ls, Count(ls))
  /\ f.event \in Heeding => f.thing.n = 0
  /\ Has(f.left, Bridge) \/ f.event = "CTCPQueryReceived" =>
       /\ Unsaid(ls, f.thing.n, f.thing.form)
       /\ f.thing.form = "moved-to" => Unsaid(ls, f.thing.n, "moved-from")
  /\ f.event = "ActionSent" => f.thing.form = "action" /\ Unsaid(ls, f.thing.n, "message")
  /\ f.event = "CTCPQueryReceived" => f.thing.form = "action"
  /\ f.event = "Membership" /\ f.thing.form # "disconnect" => Unsaid(ls, 0, "disconnect")

RelayInv ==
  /\ lines \in Seq(Lines) /\ NoneTwice(lines)
  /\ stack # <<>> => Untold(Top, lines)
  /\ \A i \in DOMAIN stack : stack[i].thing \in Things

LEMMA Nothing ==
  /\ <<>> \in Seq(Lines) /\ NoneTwice(<<>>) /\ Count(<<>>) = 0
  /\ \A n, form : Unsaid(<<>>, n, form)
  /\ \A k : UpTo(<<>>, k)
<1>1. Own(<<>>) = {}
  BY DEF Own
<1>2. Count(<<>>) = 0
  BY <1>1, FS_EmptySet DEF Count
<1> QED
  BY <1>2 DEF NoneTwice, Unsaid, UpTo

LEMMA TopThing ==
  ASSUME HeardInv, RelayInv, stack # <<>>
  PROVE  Top.thing \in Things /\ Untold(Top, lines)
<1>1. 1 \in DOMAIN stack /\ stack[1] = Top
  BY TopIs DEF Top
<1> QED
  BY <1>1 DEF RelayInv

\* The bridge is only told of some events.
LEMMA NotTold ==
  ASSUME NEW f, NEW here, Good(f, here),
         f.event \notin {"PreMessageReceived", "MessageSent", "ActionSent", "ActionReceived", "Membership"}
  PROVE  ~Has(f.left, Bridge)
<1> SUFFICES ASSUME Has(f.left, Bridge) PROVE FALSE
  OBVIOUS
<1>1. Bridge \in Plugin
  BY SequenceIs DEF Good, Has
<1>2. f.event \in Hooks[Bridge]
  BY <1>1 DEF Good
<1> QED
  BY <1>1, <1>2, BridgeAssumption

\* A dispatch by itself, or none.
LEMMA RelayInvIs ==
  ASSUME NEW ls, lines' = ls, ls \in Seq(Lines), NoneTwice(ls),
         \/ stack' = <<>>
         \/ \E f : stack' = <<f>> /\ f.thing \in Things /\ Untold(f, ls)
         \/ \E f, g : /\ stack' = <<f, g>> /\ f.thing \in Things /\ g.thing \in Things
                      /\ Untold(f, ls)
  PROVE  RelayInv'
<1>1. CASE stack' = <<>>
  BY <1>1 DEF RelayInv
<1>2. CASE \E f : stack' = <<f>> /\ f.thing \in Things /\ Untold(f, ls)
  <2>1. PICK f : stack' = <<f>> /\ f.thing \in Things /\ Untold(f, ls)
    BY <1>2
  <2>2. Top' = f /\ \A i \in DOMAIN stack' : stack'[i] = f
    BY <2>1, StackOps DEF Top
  <2> QED
    BY <2>1, <2>2 DEF RelayInv
<1>3. CASE \E f, g : /\ stack' = <<f, g>> /\ f.thing \in Things /\ g.thing \in Things
                     /\ Untold(f, ls)
  <2>1. PICK f, g : /\ stack' = <<f, g>> /\ f.thing \in Things /\ g.thing \in Things
                    /\ Untold(f, ls)
    BY <1>3
  <2>2. Top' = f /\ \A i \in DOMAIN stack' : stack'[i] = f \/ stack'[i] = g
    BY <2>1, StackOps DEF Top
  <2> QED
    BY <2>1, <2>2 DEF RelayInv
<1> QED
  BY <1>1, <1>2, <1>3

\* Those that were to hear something are fewer.
LEMMA UntoldOn ==
  ASSUME NEW f, NEW here, Good(f, here), f.left # <<>>, NEW ls, Untold(f, ls),
         NEW h, h.event = f.event, h.thing = f.thing, h.left = Tail(f.left)
  PROVE  Untold(h, ls)
<1>1. Has(h.left, Bridge) => Has(f.left, Bridge)
  BY HeadThenTail DEF Good
<1> QED
  BY <1>1 DEF Untold

LEMMA RelayReplaces ==
  ASSUME HeardInv, RelayInv, stack # <<>>, NEW h, stack' = <<h>> \o Rest,
         h.thing \in Things, NEW ls, lines' = ls, Untold(h, ls), ls \in Seq(Lines), NoneTwice(ls)
  PROVE  RelayInv'
<1>1. CASE stack = <<Top>>
  <2>1. stack' = <<h>>
    BY <1>1, StackOps DEF Rest
  <2> QED
    BY <2>1, RelayInvIs
<1>2. CASE \E g : stack = <<Top, g>>
  <2>1. PICK g : stack = <<Top, g>>
    BY <1>2
  <2>2. stack' = <<h, g>>
    <3>1. Rest = <<g>>
      BY <2>1, StackOps DEF Rest
    <3> QED
      BY <3>1, TwoOf, Zenon
  <2>3. g.thing \in Things
    <3>1. 2 \in DOMAIN stack /\ stack[2] = g
      BY <2>1
    <3> QED
      BY <3>1 DEF RelayInv
  <2> QED
    BY <2>2, <2>3, RelayInvIs
<1> QED
  BY <1>1, <1>2, TopIs

LEMMA RelayAdvances ==
  ASSUME HeardInv, RelayInv, stack # <<>>, Top.left # <<>>,
         NEW h, h.event = Top.event, h.thing = Top.thing, h.left = Tail(Top.left),
         stack' = <<h>> \o Rest, lines' = lines
  PROVE  RelayInv'
<1>1. Good(Top, Hooked) /\ Untold(Top, lines) /\ Top.thing \in Things
  BY TopIs, TopThing
<1>2. Untold(h, lines) /\ h.thing \in Things
  BY <1>1, UntoldOn
<1>3. lines \in Seq(Lines) /\ NoneTwice(lines)
  BY DEF RelayInv
<1> QED
  BY <1>2, <1>3, RelayReplaces

\* What a part of a longer sequence is.
LEMMA Joined ==
  ASSUME NEW ls \in Seq(Lines), NEW q \in Seq(Lines)
  PROVE  LET new == ls \o q
         IN /\ new \in Seq(Lines)
            /\ \A i \in DOMAIN ls : i \in DOMAIN new /\ new[i] = ls[i]
            /\ \A i \in DOMAIN q : Len(ls) + i \in DOMAIN new /\ new[Len(ls) + i] = q[i]
            /\ \A i \in DOMAIN new : i \in DOMAIN ls \/ \E j \in DOMAIN q : i = Len(ls) + j
<1> DEFINE new == ls \o q
           l == Len(ls)
           m == Len(q)
<1>1. l \in Nat /\ m \in Nat /\ DOMAIN ls = 1 .. l /\ DOMAIN q = 1 .. m
  BY SequenceIs
<1>2. new \in Seq(Lines) /\ Len(new) = l + m
  BY PutTogether
<1>3. DOMAIN new = 1 .. l + m
  <2> HIDE DEF new
  <2> QED
    BY <1>2
<1>4. \A i \in 1 .. l : new[i] = ls[i]
  BY PutTogether
<1>5. \A i \in 1 .. m : new[l + i] = q[i]
  BY PutTogether
<1> HIDE DEF new, l, m
<1>6. \A i \in 1 .. l : i \in 1 .. l + m
  BY <1>1
<1>7. \A i \in 1 .. m : l + i \in 1 .. l + m
  BY <1>1
<1>8. \A i \in 1 .. l + m : i \in 1 .. l \/ \E j \in 1 .. m : i = l + j
  <2> SUFFICES ASSUME NEW i \in 1 .. l + m, i \notin 1 .. l PROVE \E j \in 1 .. m : i = l + j
    OBVIOUS
  <2>1. i - l \in 1 .. m /\ i = l + (i - l)
    BY <1>1
  <2> QED
    BY <2>1
<1> QED
  BY <1>1, <1>2, <1>3, <1>4, <1>5, <1>6, <1>7, <1>8 DEF new, l

\* The bridge relays what has not been relayed.
LEMMA AddRelays ==
  ASSUME NEW ls \in Seq(Lines), NoneTwice(ls), NEW t \in Things, Unsaid(ls, t.n, t.form)
  PROVE  LET new == ls \o Relays(t)
         IN /\ new \in Seq(Lines) /\ NoneTwice(new) /\ Count(new) = Count(ls)
            /\ \A n, form : Unsaid(ls, n, form) /\ ~(n = t.n /\ form = t.form) => Unsaid(new, n, form)
            /\ \A k : UpTo(ls, k) /\ t.n <= k => UpTo(new, k)
            /\ \A i \in DOMAIN ls : i \in DOMAIN new /\ new[i] = ls[i]
            /\ \A r \in Rule : Matches(r, t.where, t.form) =>
                 \E i \in DOMAIN new : new[i].rule = r /\ new[i].thing = t
<1> DEFINE q == Relays(t)
           new == ls \o q
           l == Len(ls)
<1>1. /\ q \in Seq(Lines)
      /\ \A i \in DOMAIN q : q[i].rule \in Rule /\ q[i].thing = t
      /\ \A i, j \in DOMAIN q : q[i].rule = q[j].rule => i = j
      /\ \A r \in Rule : Matches(r, t.where, t.form) => \E i \in DOMAIN q : q[i].rule = r
  BY RelaysAre
<1> HIDE DEF q
<1>2. /\ new \in Seq(Lines)
      /\ \A i \in DOMAIN ls : i \in DOMAIN new /\ new[i] = ls[i]
      /\ \A i \in DOMAIN q : l + i \in DOMAIN new /\ new[l + i] = q[i]
      /\ \A i \in DOMAIN new : i \in DOMAIN ls \/ \E j \in DOMAIN q : i = l + j
  BY <1>1, Joined
<1>3. Count(new) = Count(ls)
  BY <1>1, CountRelays
<1> HIDE DEF new, l
<1>4. ASSUME NEW i \in DOMAIN new, NEW j \in DOMAIN new,
             new[i].rule # None /\ new[i].rule = new[j].rule,
             new[i].thing.n = new[j].thing.n /\ new[i].thing.form = new[j].thing.form
      PROVE  i = j
  <2>1. CASE i \in DOMAIN ls /\ j \in DOMAIN ls
    BY <1>2, <1>4, <2>1 DEF NoneTwice
  <2>2. CASE i \in DOMAIN ls /\ j \notin DOMAIN ls
    <3>1. PICK b \in DOMAIN q : j = l + b
      BY <1>2, <2>2
    <3>2. new[j].thing = t /\ new[i] = ls[i]
      BY <1>1, <1>2, <2>2, <3>1
    <3> QED
      BY <1>4, <2>2, <3>2 DEF Unsaid
  <2>3. CASE i \notin DOMAIN ls /\ j \in DOMAIN ls
    <3>1. PICK b \in DOMAIN q : i = l + b
      BY <1>2, <2>3
    <3>2. new[i].thing = t /\ new[j] = ls[j]
      BY <1>1, <1>2, <2>3, <3>1
    <3> QED
      BY <1>4, <2>3, <3>2 DEF Unsaid
  <2>4. CASE i \notin DOMAIN ls /\ j \notin DOMAIN ls
    <3>1. PICK b \in DOMAIN q : i = l + b
      BY <1>2, <2>4
    <3>2. PICK e \in DOMAIN q : j = l + e
      BY <1>2, <2>4
    <3>3. new[i] = q[b] /\ new[j] = q[e]
      BY <1>2, <3>1, <3>2
    <3>4. b = e
      BY <1>1, <1>4, <3>3
    <3> QED
      BY <3>1, <3>2, <3>4
  <2> QED
    BY <2>1, <2>2, <2>3, <2>4
<1>5. NoneTwice(new)
  BY <1>4 DEF NoneTwice
<1>6. ASSUME NEW n, NEW form, Unsaid(ls, n, form), ~(n = t.n /\ form = t.form)
      PROVE  Unsaid(new, n, form)
  <2> SUFFICES ASSUME NEW i \in DOMAIN new, new[i].rule # None
               PROVE  ~(new[i].thing.n = n /\ new[i].thing.form = form)
    BY DEF Unsaid
  <2>1. CASE i \in DOMAIN ls
    BY <1>2, <1>6, <2>1 DEF Unsaid
  <2>2. CASE i \notin DOMAIN ls
    BY <1>1, <1>2, <1>6, <2>2
  <2> QED
    BY <2>1, <2>2
<1>7. ASSUME NEW k, UpTo(ls, k), t.n <= k PROVE UpTo(new, k)
  <2> SUFFICES ASSUME NEW i \in DOMAIN new, new[i].rule # None PROVE new[i].thing.n <= k
    BY DEF UpTo
  <2>1. CASE i \in DOMAIN ls
    BY <1>2, <1>7, <2>1 DEF UpTo
  <2>2. CASE i \notin DOMAIN ls
    <3>1. new[i].thing = t
      BY <1>1, <1>2, <2>2
    <3> QED
      BY <1>7, <3>1
  <2> QED
    BY <2>1, <2>2
<1>8. ASSUME NEW r \in Rule, Matches(r, t.where, t.form)
      PROVE  \E i \in DOMAIN new : new[i].rule = r /\ new[i].thing = t
  <2>1. PICK j \in DOMAIN q : q[j].rule = r
    BY <1>1, <1>8
  <2>2. l + j \in DOMAIN new /\ new[l + j].rule = r /\ new[l + j].thing = t
    BY <1>1, <1>2, <2>1
  <2> QED
    BY <2>2
<1>9. new = ls \o Relays(t)
  BY DEF new, q
<1> QED
  BY <1>2, <1>3, <1>5, <1>6, <1>7, <1>8, <1>9

\* What happens to somebody who moves happens in the old channel as well.
LEMMA MovedFrom ==
  ASSUME NEW t \in Things, NEW c \in Chan
  PROVE  LET u == [t EXCEPT !.form = "moved-from", !.where[2] = c]
         IN u \in Things /\ u.n = t.n /\ u.form = "moved-from"
<1>1. /\ t = [where |-> t.where, form |-> t.form, n |-> t.n]
      /\ t.where \in Place /\ t.n \in Nat
  BY ThingIs
<1>2. PICK a, b : t.where = <<a, b>> /\ a \in Prot
  BY <1>1 DEF Place
<1>3. [t.where EXCEPT ![2] = c] = <<a, c>> /\ <<a, c>> \in Place
  BY <1>2 DEF Place
<1> DEFINE w == [t.where EXCEPT ![2] = c]
           f == "moved-from"
<1>4. w \in Place /\ f \in Form
  BY <1>3 DEF Form
<1>5. [t EXCEPT !.form = "moved-from", !.where[2] = c] = [t EXCEPT !.form = f, !.where = w]
  BY <1>1
<1> HIDE DEF w, f
<1>6. [t EXCEPT !.form = f, !.where = w] = [where |-> w, form |-> f, n |-> t.n]
  <2> DEFINE o == t.where
             p == t.form
             k == t.n
             g == [t EXCEPT !.form = f]
             h == [g EXCEPT !.where = w]
  <2>1. t = [where |-> o, form |-> p, n |-> k]
    BY <1>1
  <2>2. [t EXCEPT !.form = f, !.where = w] = h
    OBVIOUS
  <2> HIDE DEF o, p, k
  <2>3. g = [where |-> o, form |-> f, n |-> k]
    BY ONLY <2>1
  <2> HIDE DEF g
  <2>4. h = [where |-> w, form |-> f, n |-> k]
    BY ONLY <2>3
  <2> HIDE DEF h
  <2> QED
    BY ONLY <2>2, <2>4, Zenon DEF k
<1> QED
  BY <1>1, <1>4, <1>5, <1>6, MakeThing DEF f

\* The bridge relays what it is told of, and then has been told.
LEMMA BridgeTells ==
  ASSUME HeardInv, RelayInv, CallBridge
  PROVE  /\ RelayInv'
         /\ \A i \in DOMAIN lines : i \in DOMAIN lines' /\ lines'[i] = lines[i]
         /\ \A r \in Rule : Matches(r, Top.thing.where, Top.thing.form) =>
              \E i \in DOMAIN lines' : lines'[i].rule = r /\ lines'[i].thing = Top.thing
<1> DEFINE t == Top.thing
           h == [Top EXCEPT !.left = Tail(@)]
<1>1. /\ stack # <<>> /\ Top.left # <<>> /\ Head(Top.left) = Bridge
      /\ stack' = <<h>> \o Rest
      /\ IF t.form = "moved-to"
         THEN \E c \in Chan \ {t.where[2]} :
                lines' = lines \o Relays([t EXCEPT !.form = "moved-from", !.where[2] = c]) \o Relays(t)
         ELSE lines' = lines \o Relays(t)
  BY DEF CallBridge, Calls, Dispatching, Replace
<1>2. Good(Top, Hooked) /\ t \in Things /\ Untold(Top, lines)
  BY <1>1, TopIs, TopThing
<1>3. lines \in Seq(Lines) /\ NoneTwice(lines) /\ Count(lines) \in Nat
  BY CountIs DEF RelayInv
<1>4. h.event = Top.event /\ h.left = Tail(Top.left) /\ h.thing = t
  <2>1. h = [event |-> Top.event, left |-> Tail(Top.left), cancelled |-> Top.cancelled, thing |-> t]
    BY <1>2, Changed
  <2> HIDE DEF h
  <2> QED
    BY <2>1
<1>5. Has(Top.left, Bridge) /\ ~Has(Tail(Top.left), Bridge)
  <2>1. /\ Top.left \in Seq(Plugin) /\ Ranked(Top.left)
    BY <1>2 DEF Good
  <2>2. Has(Top.left, Bridge) /\ Bridge \in Plugin
    BY <1>1, <2>1, HeadThenTail
  <2>3. ASSUME Has(Tail(Top.left), Bridge) PROVE FALSE
    <3>1. PICK j \in DOMAIN Tail(Top.left) : Tail(Top.left)[j] = Bridge
      BY <2>3 DEF Has
    <3>2. Rank[Bridge] > Rank[Bridge] /\ Rank[Bridge] \in Int
      BY <1>1, <2>1, <2>2, <3>1, HeadThenTail, RankIs
    <3> QED
      BY <3>2
  <2> QED
    BY <2>2, <2>3
<1>6. Top.event \in {"PreMessageReceived", "MessageSent", "ActionSent", "ActionReceived", "Membership"}
  BY <1>2, <1>5, NotTold
<1>7. /\ Unsaid(lines, t.n, t.form)
      /\ t.form = "moved-to" => Unsaid(lines, t.n, "moved-from")
  BY <1>2, <1>5 DEF Untold
<1> HIDE DEF t, h
\* The lines there are before it tells of t itself.
<1>8. PICK ls \in Seq(Lines) :
        /\ lines' = ls \o Relays(t) /\ NoneTwice(ls) /\ Count(ls) = Count(lines)
        /\ \A n, form : Unsaid(lines, n, form) /\ ~(n = t.n /\ form = "moved-from" /\ t.form = "moved-to")
             => Unsaid(ls, n, form)
        /\ \A k : UpTo(lines, k) /\ t.n <= k => UpTo(ls, k)
        /\ \A i \in DOMAIN lines : i \in DOMAIN ls /\ ls[i] = lines[i]
  <2>1. CASE t.form = "moved-to"
    <3>1. PICK c \in Chan \ {t.where[2]} :
            lines' = lines \o Relays([t EXCEPT !.form = "moved-from", !.where[2] = c]) \o Relays(t)
      BY <1>1, <2>1 DEF t
    <3> DEFINE u == [t EXCEPT !.form = "moved-from", !.where[2] = c]
               ls == lines \o Relays(u)
    <3>2. u \in Things /\ u.n = t.n /\ u.form = "moved-from"
      BY <1>2, MovedFrom
    <3>3. lines' = ls \o Relays(t)
      BY <3>1
    <3> HIDE DEF u
    <3>4. Unsaid(lines, u.n, u.form)
      BY <1>7, <2>1, <3>2
    <3>5. /\ ls \in Seq(Lines) /\ NoneTwice(ls) /\ Count(ls) = Count(lines)
          /\ \A n, form : Unsaid(lines, n, form) /\ ~(n = u.n /\ form = u.form) => Unsaid(ls, n, form)
          /\ \A k : UpTo(lines, k) /\ u.n <= k => UpTo(ls, k)
          /\ \A i \in DOMAIN lines : i \in DOMAIN ls /\ ls[i] = lines[i]
      BY <1>3, <3>2, <3>4, AddRelays
    <3> HIDE DEF ls
    <3> QED
      BY <2>1, <3>2, <3>3, <3>5
  <2>2. CASE t.form # "moved-to"
    BY <1>1, <1>3, <2>2 DEF t
  <2> QED
    BY <2>1, <2>2
<1> DEFINE new == ls \o Relays(t)
<1>9. Unsaid(ls, t.n, t.form)
  BY <1>7, <1>8
<1>10. /\ new \in Seq(Lines) /\ NoneTwice(new) /\ Count(new) = Count(ls)
       /\ \A n, form : Unsaid(ls, n, form) /\ ~(n = t.n /\ form = t.form) => Unsaid(new, n, form)
       /\ \A k : UpTo(ls, k) /\ t.n <= k => UpTo(new, k)
       /\ \A i \in DOMAIN ls : i \in DOMAIN new /\ new[i] = ls[i]
       /\ \A r \in Rule : Matches(r, t.where, t.form) =>
            \E i \in DOMAIN new : new[i].rule = r /\ new[i].thing = t
  BY <1>2, <1>8, <1>9, AddRelays
<1>11. lines' = new
  BY <1>8
<1> HIDE DEF new
<1>12. Untold(h, new)
  <2>1. ~Has(h.left, Bridge) /\ h.event # "CTCPQueryReceived" /\ h.event = Top.event /\ h.thing = t
    BY <1>4, <1>5, <1>6
  <2>2. Count(new) = Count(lines)
    BY <1>8, <1>10
  <2>3. \A k : UpTo(lines, k) /\ t.n <= k => UpTo(new, k)
    BY <1>8, <1>10
  <2>4. \A n, form : /\ Unsaid(lines, n, form) /\ ~(n = t.n /\ form = t.form)
                     /\ ~(n = t.n /\ form = "moved-from" /\ t.form = "moved-to")
                     => Unsaid(new, n, form)
    BY <1>8, <1>10
  <2>5. t.n \in Nat /\ Count(lines) \in Nat
    BY <1>2, <1>3, ThingIs
  <2>6. h.event \in Saying => h.thing.n = Count(new) + 1 /\ UpTo(new, Count(new) + 1)
    BY <1>2, <2>1, <2>2, <2>3, <2>5 DEF Untold, t
  <2>7. h.event \in Heeding => h.thing.n = 0
    BY <1>2, <2>1 DEF Untold, t
  <2>8. h.event \notin Saying => UpTo(new, Count(new))
    <3> SUFFICES ASSUME h.event \notin Saying PROVE UpTo(new, Count(new))
      OBVIOUS
    <3>1. h.event \in Heeding
      BY <1>6, <2>1 DEF Heeding, Saying
    <3>2. UpTo(lines, Count(lines)) /\ t.n = 0
      BY <1>2, <2>1, <3>1 DEF Untold, t
    <3>3. t.n <= Count(lines)
      BY <2>5, <3>2
    <3> QED
      BY <2>2, <2>3, <3>2, <3>3
  <2>9. h.event = "ActionSent" => h.thing.form = "action" /\ Unsaid(new, h.thing.n, "message")
    <3> SUFFICES ASSUME h.event = "ActionSent"
                 PROVE  h.thing.form = "action" /\ Unsaid(new, h.thing.n, "message")
      OBVIOUS
    <3>1. t.form = "action" /\ Unsaid(lines, t.n, "message")
      BY <1>2, <2>1 DEF Untold, t
    <3> QED
      BY <2>1, <2>4, <3>1
  <2>10. h.event = "Membership" /\ h.thing.form # "disconnect" => Unsaid(new, 0, "disconnect")
    <3> SUFFICES ASSUME h.event = "Membership", h.thing.form # "disconnect"
                 PROVE  Unsaid(new, 0, "disconnect")
      OBVIOUS
    <3>1. Unsaid(lines, 0, "disconnect")
      BY <1>2, <2>1 DEF Untold, t
    <3> QED
      BY <2>1, <2>4, <3>1
  <2> QED
    BY <2>1, <2>6, <2>7, <2>8, <2>9, <2>10 DEF Untold
<1>13. RelayInv'
  BY <1>1, <1>2, <1>4, <1>10, <1>11, <1>12, RelayReplaces
<1>14. \A i \in DOMAIN lines : i \in DOMAIN new /\ new[i] = lines[i]
  BY <1>8, <1>10
<1> QED
  BY <1>10, <1>11, <1>13, <1>14 DEF t

\* What the bot says is a line, but relayed by no rule.
LEMMA AddOwn ==
  ASSUME NEW ls \in Seq(Lines), NoneTwice(ls), NEW l \in Lines, l.rule = None
  PROVE  LET new == Append(ls, l)
         IN /\ new \in Seq(Lines) /\ NoneTwice(new) /\ Count(new) = Count(ls) + 1
            /\ \A k : UpTo(ls, k) => UpTo(new, k)
            /\ \A i \in DOMAIN ls : i \in DOMAIN new /\ new[i] = ls[i]
<1> DEFINE new == Append(ls, l)
           m == Len(ls)
<1>1. /\ m \in Nat /\ DOMAIN ls = 1 .. m /\ new \in Seq(Lines) /\ DOMAIN new = 1 .. m + 1
      /\ \A i \in 1 .. m : new[i] = ls[i]
      /\ new[m + 1] = l
  BY AppendedTo, SequenceIs
<1>2. Count(new) = Count(ls) + 1
  BY CountOne
<1> HIDE DEF new, m
<1>3. \A i \in 1 .. m + 1 : i \in 1 .. m \/ i = m + 1
  BY <1>1
<1>4. \A i \in DOMAIN new : new[i].rule # None => i \in DOMAIN ls /\ new[i] = ls[i]
  BY <1>1, <1>3
<1>5. \A i \in DOMAIN ls : i \in DOMAIN new /\ new[i] = ls[i]
  BY <1>1
<1>6. NoneTwice(new)
  <2> SUFFICES ASSUME NEW i \in DOMAIN new, NEW j \in DOMAIN new,
                      new[i].rule # None /\ new[i].rule = new[j].rule,
                      new[i].thing.n = new[j].thing.n /\ new[i].thing.form = new[j].thing.form
               PROVE  i = j
    BY DEF NoneTwice
  <2>1. /\ i \in DOMAIN ls /\ new[i] = ls[i] /\ j \in DOMAIN ls /\ new[j] = ls[j]
    BY <1>4
  <2> QED
    BY <2>1 DEF NoneTwice
<1>7. \A k : UpTo(ls, k) => UpTo(new, k)
  BY <1>4 DEF UpTo
<1> QED
  BY <1>1, <1>2, <1>5, <1>6, <1>7 DEF new

\* Events the bridge is not told of.
LEMMA OthersUntold ==
  ASSUME NEW f, NEW here, Good(f, here), NEW ls, UpTo(ls, Count(ls)),
         f.event \in {"MessageReceived", "PreCommand", "UnknownCommand"}
  PROVE  Untold(f, ls)
BY NotTold DEF Untold, Saying, Heeding

LEMMA SaysUntold ==
  ASSUME CallbacksExact, lines \in Seq(Lines), UpTo(lines, Count(lines)),
         NEW form \in {"message", "action"}, NEW where \in Place
  PROVE  Say(form, where).thing \in Things /\ Untold(Say(form, where), lines)
<1> DEFINE f == Say(form, where)
           k == Count(lines)
<1>1. k \in Nat /\ Said = k
  BY CountIs, SaidIs
<1>2. /\ f.event = IF form = "action" THEN "ActionSent" ELSE "MessageSent"
      /\ f.thing = [where |-> where, form |-> form, n |-> k + 1]
  BY <1>1, Says
<1>3. form \in Form
  BY DEF Form
<1> HIDE DEF f, k
<1>4. f.thing \in Things /\ f.thing.form = form /\ f.thing.n = k + 1
  BY <1>1, <1>2, <1>3, MakeThing
<1>5. \A i \in DOMAIN lines : lines[i].rule # None => lines[i].thing.n <= k /\ lines[i].thing.n \in Nat
  BY SequenceIs, LineIs, ThingIs DEF UpTo, k
<1>6. UpTo(lines, k + 1) /\ \A g : Unsaid(lines, k + 1, g)
  BY <1>1, <1>5 DEF UpTo, Unsaid
<1>7. f.event \in Saying
  BY <1>2 DEF Saying
<1>8. f.event # "CTCPQueryReceived" /\ f.event # "Membership" /\ f.event \notin Heeding
  BY <1>2 DEF Heeding
<1>9. f.event = "ActionSent" => form = "action"
  BY <1>2
<1>10. f.thing.form # "moved-to"
  BY <1>4
<1>11. Untold(f, lines)
  BY <1>4, <1>6, <1>7, <1>8, <1>9, <1>10 DEF Untold, k
<1> QED
  BY <1>4, <1>11 DEF f

-----------------------------------------------------------------------------
(* Steps, for what is relayed *)

LEMMA RelayHandles ==
  ASSUME HeardInv, RelayInv,
         PassOver \/ \E p \in Plugin : CallQuiet(p) \/ CallCancels(p) \/ CallRewrites(p)
  PROVE  RelayInv'
<1>1. PICK h : /\ stack # <<>> /\ Top.left # <<>> /\ stack' = <<h>> \o Rest /\ lines' = lines
               /\ \/ h = [Top EXCEPT !.left = Tail(@)]
                  \/ h = [Top EXCEPT !.left = Tail(@), !.cancelled = TRUE]
  BY DEF PassOver, CallQuiet, CallCancels, CallRewrites, Calls, Dispatching, Replace
<1>2. PICK c : h = [event |-> Top.event, left |-> Tail(Top.left), cancelled |-> c, thing |-> Top.thing]
  BY <1>1, TopIs, Changed, Zenon
<1>3. h.event = Top.event /\ h.thing = Top.thing /\ h.left = Tail(Top.left)
  BY <1>2
<1> QED
  BY <1>1, <1>3, RelayAdvances

LEMMA RelayAnswers ==
  ASSUME HeardInv, RelayInv, NEW p \in Plugin, CallAnswers(p)
  PROVE  RelayInv'
<1> DEFINE f == Say("message", Top.thing.where)
           h == [Top EXCEPT !.left = Tail(@)]
<1>1. /\ stack # <<>> /\ Top.event = "MessageReceived" /\ lines' = lines
      /\ stack' = <<f>> \o <<h>> \o Rest
  BY DEF CallAnswers, Calls, Dispatching
<1>2. /\ stack = <<Top>> /\ Good(Top, Hooked) /\ Top.thing \in Things /\ Untold(Top, lines)
  BY <1>1, TopAlone, TopIs, TopThing
<1>3. lines \in Seq(Lines) /\ NoneTwice(lines) /\ UpTo(lines, Count(lines))
  BY <1>1, <1>2 DEF RelayInv, Untold, Saying
<1>4. f.thing \in Things /\ Untold(f, lines)
  <2>1. Top.thing.where \in Place /\ "message" \in {"message", "action"} /\ CallbacksExact
    BY <1>2, ThingIs DEF HeardInv
  <2> QED
    BY <1>3, <2>1, SaysUntold, Zenon
<1>5. h.thing = Top.thing
  <2>1. h = [event |-> Top.event, left |-> Tail(Top.left), cancelled |-> Top.cancelled, thing |-> Top.thing]
    BY <1>2, Changed
  <2> HIDE DEF h
  <2> QED
    BY <2>1
<1> HIDE DEF f, h
<1>6. stack' = <<f, h>>
  <2>1. Rest = <<>>
    BY <1>2, StackOps DEF Rest
  <2>2. <<f>> \o <<h>> = <<f, h>> /\ <<f, h>> \o <<>> = <<f, h>>
    <3>1. <<f, h>> \o <<>> = <<f, h>>
      OBVIOUS
    <3> QED
      BY <3>1, TwoOf, Zenon
  <2> QED
    BY <1>1, <2>1, <2>2, Zenon
<1> QED
  BY <1>1, <1>2, <1>3, <1>4, <1>5, <1>6, RelayInvIs

LEMMA RelayMessageGoes ==
  ASSUME HeardInv, RelayInv, MessageIsSent
  PROVE  RelayInv' /\ \A i \in DOMAIN lines : i \in DOMAIN lines' /\ lines'[i] = lines[i]
<1> DEFINE l == [where |-> Top.thing.where, rule |-> None, thing |-> Top.thing]
           new == Append(lines, l)
<1>1. stack # <<>> /\ Top.event = "MessageSent" /\ lines' = new /\ stack' = Rest
  BY DEF MessageIsSent, Dispatched
<1>2. Top.thing \in Things /\ Untold(Top, lines)
  BY <1>1, TopThing
<1>3. lines \in Seq(Lines) /\ NoneTwice(lines) /\ UpTo(lines, Count(lines) + 1)
  BY <1>1, <1>2 DEF RelayInv, Untold, Saying
<1>4. l \in Lines /\ l.rule = None
  BY <1>2, ThingIs, MakeLine
<1> HIDE DEF l
<1>5. /\ new \in Seq(Lines) /\ NoneTwice(new) /\ Count(new) = Count(lines) + 1
      /\ UpTo(new, Count(lines) + 1)
      /\ \A i \in DOMAIN lines : i \in DOMAIN new /\ new[i] = lines[i]
  BY <1>3, <1>4, AddOwn
<1> HIDE DEF new
<1>6. CASE stack = <<Top>>
  <2>1. stack' = <<>>
    BY <1>1, <1>6, StackOps DEF Rest
  <2> QED
    BY <1>1, <1>5, <2>1, RelayInvIs
<1>7. CASE \E g : /\ stack = <<Top, g>> /\ Inner(Top, Hooked)
                  /\ Outer(g, result, heard, Hooked) /\ g.event = "MessageReceived"
  <2>1. PICK g : stack = <<Top, g>> /\ Good(g, Hooked) /\ g.event = "MessageReceived"
    BY <1>7 DEF Outer
  <2>2. stack' = <<g>>
    BY <1>1, <2>1, StackOps DEF Rest
  <2>3. g.thing \in Things
    <3>1. 2 \in DOMAIN stack /\ stack[2] = g
      BY <2>1
    <3> QED
      BY <3>1 DEF RelayInv
  <2>4. Untold(g, new)
    BY <1>5, <2>1, OthersUntold
  <2> QED
    BY <1>1, <1>5, <2>2, <2>3, <2>4, RelayInvIs
<1> QED
  BY <1>1, <1>6, <1>7, TopIs

\* Nothing more happens.
LEMMA RelayStops ==
  ASSUME RelayInv, stack' = <<>>, lines' = lines \/ lines' = <<>>
  PROVE  RelayInv'
BY RelayInvIs, Nothing DEF RelayInv

\* Another event.
LEMMA RelayGoesOn ==
  ASSUME HeardInv, RelayInv, stack # <<>>, Top.event # "MessageSent",
         NEW f, \/ stack' = <<f>> \/ Replace(f),
         f.thing \in Things, Untold(f, lines), lines' = lines
  PROVE  RelayInv'
<1>1. stack = <<Top>> /\ Rest = <<>>
  BY TopAlone, StackOps DEF Rest
<1>2. <<f>> \o <<>> = <<f>>
  OBVIOUS
<1>3. stack' = <<f>>
  BY <1>1, <1>2 DEF Replace
<1> QED
  BY <1>3, RelayInvIs DEF RelayInv

LEMMA SameThingAs ==
  ASSUME NEW t \in Things, NEW g \in Form
  PROVE  LET u == [t EXCEPT !.form = g]
         IN u \in Things /\ u.n = t.n /\ u.form = g
<1> DEFINE o == t.where
           p == t.form
           k == t.n
           u == [t EXCEPT !.form = g]
<1>1. t = [where |-> o, form |-> p, n |-> k] /\ o \in Place /\ k \in Nat
  BY ThingIs
<1> HIDE DEF o, p, k
<1>2. u = [where |-> o, form |-> g, n |-> k]
  BY ONLY <1>1
<1>3. k = t.n
  BY DEF k
<1> HIDE DEF u
<1> QED
  BY <1>1, <1>2, <1>3, MakeThing DEF u

LEMMA RelayAction ==
  ASSUME HeardInv, RelayInv, ActionIsSent
  PROVE  RelayInv' /\ \A i \in DOMAIN lines : i \in DOMAIN lines' /\ lines'[i] = lines[i]
<1> DEFINE l == [where |-> Top.thing.where, rule |-> None, thing |-> Top.thing]
           new == Append(lines, l)
           thing == [Top.thing EXCEPT !.form = "message"]
           f == Dispatch("MessageSent", thing, FALSE)
<1>1. /\ stack # <<>> /\ Top.event = "ActionSent"
      /\ \/ stack' = Rest /\ lines' = lines
         \/ Replace(f) /\ lines' = lines
         \/ stack' = Rest /\ lines' = new
  BY Zenon DEF ActionIsSent, Dispatched
<1>2. Top.thing \in Things /\ Untold(Top, lines) /\ stack = <<Top>> /\ Rest = <<>>
  BY <1>1, TopThing, TopAlone, StackOps DEF Rest
<1>3. lines \in Seq(Lines) /\ NoneTwice(lines)
  BY DEF RelayInv
<1>4. CASE stack' = Rest /\ lines' = lines
  BY <1>2, <1>4, RelayStops
<1>5. CASE stack' = Rest /\ lines' = new
  <2>1. l \in Lines /\ l.rule = None
    BY <1>2, ThingIs, MakeLine
  <2> HIDE DEF l
  <2>2. /\ new \in Seq(Lines) /\ NoneTwice(new)
        /\ \A i \in DOMAIN lines : i \in DOMAIN new /\ new[i] = lines[i]
    BY <1>3, <2>1, AddOwn
  <2> HIDE DEF new
  <2> QED
    BY <1>2, <1>5, <2>2, RelayInvIs
<1>6. CASE Replace(f) /\ lines' = lines
  <2>1. thing \in Things /\ thing.n = Top.thing.n /\ thing.form = "message"
    BY <1>2, SameThingAs DEF Form
  <2> HIDE DEF thing
  <2>2. f.event = "MessageSent" /\ f.thing = thing
    BY DEF Dispatch
  <2> HIDE DEF f
  <2>3. /\ f.thing.n = Count(lines) + 1 /\ UpTo(lines, Count(lines) + 1)
        /\ Unsaid(lines, f.thing.n, "message")
    BY <1>1, <1>2, <2>1, <2>2 DEF Untold, Saying
  <2>4. Untold(f, lines)
    BY <2>1, <2>2, <2>3 DEF Untold, Saying, Heeding
  <2> QED
    BY <1>1, <1>6, <2>1, <2>2, <2>4, RelayGoesOn
<1> QED
  BY <1>1, <1>4, <1>5, <1>6

LEMMA RelayMembership == HeardInv /\ RelayInv /\ MembershipEnds => RelayInv'
<1> SUFFICES ASSUME HeardInv, RelayInv, MembershipEnds PROVE RelayInv'
  OBVIOUS
<1> DEFINE thing == [Top.thing EXCEPT !.form = "disconnect"]
           f == Dispatch("Membership", thing, FALSE)
<1>1. /\ stack # <<>> /\ Top.event = "Membership" /\ lines' = lines
      /\ \/ stack' = <<>>
         \/ Replace(f) /\ Top.thing.form \in {"quit", "remove"}
  BY Zenon DEF MembershipEnds, Dispatched, Ended
<1>2. Top.thing \in Things /\ Untold(Top, lines)
  BY <1>1, TopThing
<1>3. CASE stack' = <<>>
  BY <1>1, <1>3, RelayStops
<1>4. CASE Replace(f) /\ Top.thing.form \in {"quit", "remove"}
  <2>1. thing \in Things /\ thing.n = Top.thing.n /\ thing.form = "disconnect"
    BY <1>2, SameThingAs DEF Form
  <2> HIDE DEF thing
  <2>2. f.event = "Membership" /\ f.thing = thing
    BY DEF Dispatch
  <2> HIDE DEF f
  <2>3. Top.thing.n = 0 /\ UpTo(lines, Count(lines)) /\ Unsaid(lines, 0, "disconnect")
    BY <1>1, <1>2, <1>4 DEF Untold, Saying, Heeding
  <2>4. Untold(f, lines)
    BY <2>1, <2>2, <2>3 DEF Untold, Saying, Heeding
  <2> QED
    BY <1>1, <1>4, <2>1, <2>2, <2>4, RelayGoesOn
<1> QED
  BY <1>1, <1>3, <1>4

LEMMA RelayCTCP == HeardInv /\ RelayInv /\ (CTCPEnds \/ ActionEnds) => RelayInv'
<1> SUFFICES ASSUME HeardInv, RelayInv, CTCPEnds \/ ActionEnds PROVE RelayInv'
  OBVIOUS
<1>1. CASE ActionEnds
  BY <1>1, RelayStops DEF ActionEnds, Ended
<1>2. CASE CTCPEnds
  <2> DEFINE f == Dispatch("ActionReceived", Top.thing, Top.cancelled)
  <2>1. stack # <<>> /\ Top.event = "CTCPQueryReceived" /\ lines' = lines /\ Replace(f)
    BY <1>2 DEF CTCPEnds, Dispatched
  <2>2. Top.thing \in Things /\ Untold(Top, lines)
    BY <2>1, TopThing
  <2>3. f.event = "ActionReceived" /\ f.thing = Top.thing
    BY DEF Dispatch
  <2> HIDE DEF f
  <2>4. /\ f.thing.n = 0 /\ UpTo(lines, Count(lines)) /\ f.thing.form = "action"
        /\ Unsaid(lines, f.thing.n, f.thing.form)
    BY <2>1, <2>2, <2>3 DEF Untold, Saying, Heeding
  <2>5. Untold(f, lines)
    BY <2>3, <2>4 DEF Untold, Saying, Heeding
  <2> QED
    BY <2>1, <2>2, <2>3, <2>5, RelayGoesOn
<1> QED
  BY <1>1, <1>2

LEMMA RelayDecides ==
  HeardInv /\ RelayInv /\ (Decide \/ Unknown \/ UnknownEnds \/ NoPermission \/ MessageEnds) => RelayInv'
<1> SUFFICES ASSUME HeardInv, RelayInv,
                    Decide \/ Unknown \/ UnknownEnds \/ NoPermission \/ MessageEnds
             PROVE  RelayInv'
  OBVIOUS
<1>1. /\ stack # <<>> /\ lines' = lines
      /\ Top.event \in {"PreMessageReceived", "PreCommand", "UnknownCommand", "MessageReceived"}
      /\ \/ stack' = <<>>
         \/ \E e \in {"MessageReceived", "PreCommand", "UnknownCommand"} :
              Replace(Dispatch(e, Top.thing, FALSE))
  BY DEF Decide, Unknown, UnknownEnds, NoPermission, MessageEnds, Dispatched, Deliver, Ended
<1>2. CASE stack' = <<>>
  BY <1>1, <1>2, RelayStops
<1>3. CASE \E e \in {"MessageReceived", "PreCommand", "UnknownCommand"} :
              Replace(Dispatch(e, Top.thing, FALSE))
  <2>1. PICK e \in {"MessageReceived", "PreCommand", "UnknownCommand"} :
          Replace(Dispatch(e, Top.thing, FALSE))
    BY <1>3
  <2> DEFINE f == Dispatch(e, Top.thing, FALSE)
  <2>2. Good(f, Hooked) /\ f.event = e /\ f.thing = Top.thing
    <3>1. e \in Event /\ CallbacksExact
      BY EventNames DEF HeardInv
    <3>2. /\ Good(f, Hooked) /\ f.event = e /\ f.left = callbacks[e]
          /\ f.thing = Top.thing /\ f.cancelled = FALSE
      BY <3>1, PlainDispatch
    <3> QED
      BY <3>2
  <2>3. Replace(f)
    BY <2>1
  <2> HIDE DEF f
  <2>4. Top.thing \in Things /\ Untold(Top, lines)
    BY <1>1, TopThing
  <2>5. UpTo(lines, Count(lines))
    BY <1>1, <2>4 DEF Untold, Saying
  <2>6. Untold(f, lines)
    BY <2>1, <2>2, <2>5, OthersUntold
  <2> QED
    BY <1>1, <2>2, <2>3, <2>4, <2>6, RelayGoesOn
<1> QED
  BY <1>1, <1>2, <1>3

LEMMA RelayRuns == HeardInv /\ RelayInv /\ Run => RelayInv'
<1> SUFFICES ASSUME HeardInv, RelayInv, Run PROVE RelayInv'
  OBVIOUS
<1>1. stack # <<>> /\ Top.event = "PreCommand" /\ lines' = lines
  BY DEF Run, Dispatched
<1>2. Top.thing \in Things /\ Untold(Top, lines)
  BY <1>1, TopThing
<1>3. lines \in Seq(Lines) /\ UpTo(lines, Count(lines)) /\ CallbacksExact
  BY <1>1, <1>2 DEF Untold, Saying, RelayInv, HeardInv
<1>4. Top.thing.where \in Place /\ <<Top.thing.where[1], Private>> \in Place
  BY <1>2, ThingIs DEF Place
<1>5. \/ stack' = <<>>
      \/ \E form \in {"message", "action"}, w \in Place : stack' = <<Say(form, w)>>
  BY <1>4 DEF Run, Ended, Answered
<1>6. CASE stack' = <<>>
  BY <1>1, <1>6, RelayStops
<1>7. CASE \E form \in {"message", "action"}, w \in Place : stack' = <<Say(form, w)>>
  <2>1. PICK form \in {"message", "action"}, w \in Place : stack' = <<Say(form, w)>>
    BY <1>7
  <2> DEFINE f == Say(form, w)
  <2>2. f.thing \in Things /\ Untold(f, lines)
    BY <1>3, SaysUntold
  <2>3. stack' = <<f>>
    BY <2>1
  <2> HIDE DEF f
  <2> QED
    BY <1>1, <2>2, <2>3, RelayGoesOn
<1> QED
  BY <1>5, <1>6, <1>7

LEMMA RelayBegins ==
  ASSUME NEW e \in {"PreMessageReceived", "CTCPQueryReceived", "Membership"}, NEW c,
         NEW where \in Place, NEW form \in Form, e = "CTCPQueryReceived" => form = "action",
         Begin(e, c, where, form)
  PROVE  RelayInv'
<1> DEFINE f == Dispatch(e, received', c)
<1>1. /\ received' = [where |-> where, form |-> form, n |-> 0]
      /\ stack' = <<f>> /\ lines' = <<>>
  BY DEF Begin
<1>2. f.event = e /\ f.thing = received'
  BY DEF Dispatch
<1>3. f.thing \in Things /\ f.thing.n = 0 /\ f.thing.form = form
  BY <1>1, <1>2, MakeThing
<1> HIDE DEF f
<1>4. f.event \notin Saying /\ f.event # "ActionSent"
  BY <1>2 DEF Saying
<1>5. Untold(f, <<>>)
  BY <1>2, <1>3, <1>4, Nothing DEF Untold
<1> QED
  BY <1>1, <1>3, <1>5, Nothing, RelayInvIs

LEMMA RelayArrives == Receive \/ ReceiveCTCP \/ Happen => RelayInv'
<1> SUFFICES ASSUME Receive \/ ReceiveCTCP \/ Happen PROVE RelayInv'
  OBVIOUS
<1>1. CASE Receive
  <2>1. PICK where \in Place, t \in Text, form \in {"message", "notice"} :
          Begin("PreMessageReceived", FALSE, where, form)
    BY <1>1 DEF Receive
  <2>2. form \in Form
    BY DEF Form
  <2> QED
    BY <2>1, <2>2, RelayBegins, Zenon
<1>2. CASE ReceiveCTCP
  <2>1. PICK p \in Irc, c \in Chan \cup {Private}, blocked \in BOOLEAN :
          Begin("CTCPQueryReceived", blocked, <<p, c>>, "action")
    BY <1>2, Zenon DEF ReceiveCTCP
  <2>2. "action" \in Form /\ <<p, c>> \in Place
    BY DEF Form, Place, Prot
  <2> QED
    BY <2>1, <2>2, RelayBegins, Zenon
<1>3. CASE Happen
  <2>1. PICK where \in Place, form \in Form : Begin("Membership", FALSE, where, form)
    BY <1>3 DEF Happen
  <2> QED
    BY <2>1, RelayBegins, Zenon
<1> QED
  BY <1>1, <1>2, <1>3

LEMMA RelayStep == HeardInv /\ RelayInv /\ [Next]_vars => RelayInv'
<1> SUFFICES ASSUME HeardInv, RelayInv, [Next]_vars PROVE RelayInv'
  OBVIOUS
<1>1. CASE \E p \in Plugin : Handle(p)
  BY <1>1, RelayHandles, RelayAnswers DEF Handle
<1>2. CASE PassOver
  BY <1>2, RelayHandles
<1>3. CASE UNCHANGED vars
  BY <1>3 DEF vars, RelayInv, Top
<1>4. CASE Load
  BY <1>4, RelayStops DEF Load
<1>5. CASE CallBridge \/ MessageIsSent \/ ActionIsSent
  BY <1>5, BridgeTells, RelayMessageGoes, RelayAction
<1>6. CASE Next /\ ~(\E p \in Plugin : Handle(p)) /\ ~PassOver /\ ~Load
                /\ ~(CallBridge \/ MessageIsSent \/ ActionIsSent)
  BY <1>6, RelayArrives, RelayMembership, RelayCTCP, RelayDecides, RelayRuns, Zenon DEF Next
<1> QED
  BY <1>1, <1>2, <1>3, <1>4, <1>5, <1>6

LEMMA RelayInit == Init => RelayInv
BY Nothing DEF Init, RelayInv

-----------------------------------------------------------------------------
(***************************************************************************)
(* What is received is relayed                                             *)
(***************************************************************************)
\* The bridge is still to hear of a message, which nobody has cancelled.
Pending ==
  /\ stack # <<>> /\ Top.event = "PreMessageReceived" /\ Has(Top.left, Bridge)
  /\ Top.thing = received /\ ~Top.cancelled

TellsAll(thing, ls) ==
  \A r \in Rule : Matches(r, thing.where, thing.form) =>
    \E i \in DOMAIN ls : ls[i].rule = r /\ ls[i].thing.n = 0 /\ ls[i].thing.form = thing.form

Concerned ==
  /\ stack # <<>> \/ result \notin {"none", "Managed"}
  /\ received.form \in {"message", "notice"} /\ Bridge \in whole

AllTold == Concerned => Pending \/ TellsAll(received, lines)

LEMMA NotPending ==
  ASSUME Top.left = <<>> \/ Top.event # "PreMessageReceived"
  PROVE  ~Pending
BY NobodyYet DEF Pending

\* What has been relayed stays so.
LEMMA TellsOn ==
  ASSUME AllTold, stack # <<>>, UNCHANGED <<received, whole>>,
         \A i \in DOMAIN lines : i \in DOMAIN lines' /\ lines'[i] = lines[i],
         Pending => Pending' \/ TellsAll(received, lines')
  PROVE  AllTold'
<1> SUFFICES ASSUME Concerned' PROVE Pending' \/ TellsAll(received, lines')
  BY DEF AllTold
<1>1. Concerned
  BY DEF Concerned
<1>2. CASE TellsAll(received, lines)
  BY <1>2 DEF TellsAll
<1> QED
  BY <1>1, <1>2 DEF AllTold

\* Handlers are called in their order: the bridge is not passed over, and those
\* that cancel or change messages come after it.
LEMMA TellsHandles ==
  ASSUME HeardInv, AllTold, \A p \in Canceller : Rank[p] < Rank[Bridge],
         PassOver \/ \E p \in Plugin : CallQuiet(p) \/ CallCancels(p) \/ CallRewrites(p)
  PROVE  AllTold'
<1>1. /\ stack # <<>> /\ Top.left # <<>> /\ lines' = lines /\ UNCHANGED <<received, whole>>
  BY DEF PassOver, CallQuiet, CallCancels, CallRewrites, Calls, Dispatching, Hooked, registry
<1>2. Good(Top, Hooked)
  BY <1>1, TopIs
<1>3. ASSUME Pending PROVE Pending'
  <2> DEFINE left == Top.left
             h == [Top EXCEPT !.left = Tail(@)]
  <2>1. left \in Seq(Plugin) /\ Ranked(left)
    BY <1>2 DEF Good
  <2>2. left # <<>> /\ Has(left, Bridge) /\ ~Top.cancelled /\ Top.event = "PreMessageReceived"
    BY <1>1, <1>3 DEF Pending
  <2>3. stack = <<Top>>
    BY <1>1, <2>2, TopAlone
  <2> HIDE DEF left
  <2>4. Bridge \in Plugin /\ Head(left) = left[1] /\ 1 \in DOMAIN left
    BY <2>1, <2>2, SequenceIs, HeadAndTail DEF Has
  <2>5. Head(left) \notin Canceller
    <3> SUFFICES ASSUME Head(left) \in Canceller PROVE FALSE
      OBVIOUS
    <3>1. PICK i \in DOMAIN left : left[i] = Bridge
      BY <2>2 DEF Has
    <3>2. Head(left) \in Plugin /\ Rank[Head(left)] \in Int /\ Rank[Bridge] \in Int
      BY <2>1, <2>2, <2>4, HeadAndTail, RankIs
    <3>3. Rank[left[1]] < Rank[Bridge] /\ Rank[left[1]] \in Int
      BY <2>4, <3>2
    <3>4. i # 1
      BY <2>4, <3>1, <3>3
    <3>5. i \in Nat /\ 1 < i
      BY <2>1, <3>1, <3>4, SequenceIs
    <3>6. Rank[left[1]] > Rank[left[i]]
      BY <2>1, <2>4, <3>1, <3>5 DEF Ranked
    <3> QED
      BY <3>1, <3>2, <3>3, <3>6
  <2>6. PICK p \in Plugin : CallQuiet(p)
    BY <2>2, <2>5 DEF PassOver, Takes, CallCancels, CallRewrites, Calls, left
  <2>7. Head(left) # Bridge /\ stack' = <<h>> \o Rest
    BY <2>6 DEF CallQuiet, Calls, Replace, left
  <2>8. Has(Tail(left), Bridge)
    BY <2>1, <2>2, <2>4, <2>7, HeadThenTail
  <2>9. /\ h = [event |-> Top.event, left |-> Tail(left), cancelled |-> Top.cancelled,
                thing |-> Top.thing]
    BY <1>2, Changed DEF left
  <2> HIDE DEF h
  <2>10. stack' = <<h>> /\ Top' = h
    <3>1. stack' = <<h>>
      BY <2>3, <2>7, StackOps DEF Rest
    <3> QED
      BY <3>1, StackOps DEF Top
  <2>11. h.event = Top.event /\ h.left = Tail(left) /\ h.thing = Top.thing
    BY <2>9
  <2>12. ~h.cancelled
    BY <2>2, <2>9, Zenon
  <2>13. stack' # <<>>
    BY <2>10, StackOps
  <2> QED
    BY <1>1, <1>3, <2>8, <2>10, <2>11, <2>12, <2>13, Zenon DEF Pending
<1> QED
  BY <1>1, <1>3, TellsOn

\* Told, the bridge relays it.
LEMMA TellsBridge ==
  ASSUME HeardInv, RelayInv, AllTold, CallBridge
  PROVE  AllTold'
<1>1. stack # <<>> /\ UNCHANGED <<received, whole>>
  BY DEF CallBridge, Calls, Dispatching, Hooked, registry
<1>2. Untold(Top, lines)
  BY <1>1, TopThing
<1>3. /\ \A i \in DOMAIN lines : i \in DOMAIN lines' /\ lines'[i] = lines[i]
      /\ \A r \in Rule : Matches(r, Top.thing.where, Top.thing.form) =>
           \E i \in DOMAIN lines' : lines'[i].rule = r /\ lines'[i].thing = Top.thing
  BY BridgeTells
<1>4. Pending => TellsAll(received, lines')
  <2> SUFFICES ASSUME Pending PROVE TellsAll(received, lines')
    OBVIOUS
  <2>1. Top.thing = received /\ received.n = 0
    BY <1>2 DEF Pending, Untold, Heeding
  <2> QED
    BY <1>3, <2>1 DEF TellsAll
<1> QED
  BY <1>1, <1>3, <1>4, TellsOn

\* After that, nothing is taken back.
LEMMA TellsGoesOn ==
  ASSUME HeardInv, RelayInv, AllTold,
         \/ MessageIsSent \/ ActionIsSent \/ MembershipEnds \/ CTCPEnds \/ ActionEnds
         \/ Decide \/ Unknown \/ UnknownEnds \/ NoPermission \/ MessageEnds
         \/ \E p \in Plugin : CallAnswers(p)
  PROVE  AllTold'
<1>1. /\ stack # <<>> /\ (Top.left = <<>> \/ Top.event # "PreMessageReceived")
      /\ UNCHANGED <<received, whole>>
  BY DEF MessageIsSent, ActionIsSent, MembershipEnds, CTCPEnds, ActionEnds, Decide, Unknown,
         UnknownEnds, NoPermission, MessageEnds, CallAnswers, Calls, Dispatching, Dispatched, Hooked, registry
<1>2. \A i \in DOMAIN lines : i \in DOMAIN lines' /\ lines'[i] = lines[i]
  <2>1. CASE MessageIsSent \/ ActionIsSent
    BY <2>1, RelayMessageGoes, RelayAction
  <2>2. CASE ~(MessageIsSent \/ ActionIsSent)
    <3>1. lines' = lines
      BY <2>2 DEF MembershipEnds, CTCPEnds, ActionEnds, Decide, Unknown, UnknownEnds, NoPermission,
                  MessageEnds, CallAnswers
    <3> QED
      BY <3>1
  <2> QED
    BY <2>1, <2>2
<1> QED
  BY <1>1, <1>2, NotPending, TellsOn

LEMMA TellsRuns == HeardInv /\ AllTold /\ Run => AllTold'
<1> SUFFICES ASSUME HeardInv, AllTold, Run PROVE AllTold'
  OBVIOUS
<1>1. /\ stack # <<>> /\ Top.left = <<>> /\ received' = received /\ lines' = lines
  BY DEF Run, Dispatched
<1>2. whole' = whole \/ (stack' = <<>> /\ result' = "Managed")
  <2>1. \/ UNCHANGED registry
        \/ Ended("Managed")
    BY Zenon DEF Run
  <2> QED
    BY <2>1 DEF Ended, registry
<1>3. CASE whole' = whole
  BY <1>1, <1>3, NotPending, TellsOn
<1>4. CASE stack' = <<>> /\ result' = "Managed"
  BY <1>4 DEF AllTold, Concerned
<1> QED
  BY <1>2, <1>3, <1>4

LEMMA TellsArrives ==
  ASSUME HeardInv, Bridge \in Plugin, Receive \/ ReceiveCTCP \/ Happen
  PROVE  AllTold'
<1>1. CASE Receive
  <2>1. PICK where \in Place, form \in {"message", "notice"} :
          Begin("PreMessageReceived", FALSE, where, form)
    BY <1>1 DEF Receive
  <2>0. PICK e, thing : e = "PreMessageReceived" /\ thing = received'
    OBVIOUS
  <2> DEFINE f == Dispatch(e, thing, FALSE)
  <2>2. stack' = <<f>> /\ whole' = whole
    BY <2>0, <2>1, Zenon DEF Begin, registry
  <2>3. e \in Event /\ CallbacksExact
    BY <2>0, EventNames DEF HeardInv
  <2>4. /\ Good(f, Hooked) /\ f.event = e /\ f.left = callbacks[e]
        /\ f.thing = thing /\ f.cancelled = FALSE
    BY <2>3, PlainDispatch
  <2>5. Bridge \in whole => Has(f.left, Bridge)
    <3> SUFFICES ASSUME Bridge \in whole PROVE Has(f.left, Bridge)
      OBVIOUS
    <3>1. <<Bridge, e>> \in Hooked
      BY <2>0, <2>3, BridgeAssumption DEF Hooked
    <3> QED
      BY <2>3, <2>4, <3>1 DEF CallbacksExact
  <2> HIDE DEF f
  <2>6. stack' # <<>> /\ Top' = f
    BY <2>2, StackOps DEF Top
  <2>7. ~f.cancelled
    BY <2>4, Zenon
  <2>8. Bridge \in whole' => Pending'
    BY <2>0, <2>2, <2>4, <2>5, <2>6, <2>7, Zenon DEF Pending
  <2> QED
    BY <2>8 DEF AllTold, Concerned
<1>2. CASE ReceiveCTCP \/ Happen
  <2>1. received'.form \notin {"message", "notice"}
    <3>1. PICK e, c, where, form : form \in Form \ {"message", "notice"} /\ Begin(e, c, where, form)
      <4>1. "action" \in Form \ {"message", "notice"}
        BY DEF Form
      <4>2. CASE ReceiveCTCP
        <5>1. PICK p \in Irc, c \in Chan \cup {Private}, blocked \in BOOLEAN :
                Begin("CTCPQueryReceived", blocked, <<p, c>>, "action")
          BY <4>2, Zenon DEF ReceiveCTCP
        <5> QED
          BY <4>1, <5>1, Zenon
      <4>3. CASE Happen
        <5>1. PICK where \in Place, form \in Form \ {"message", "notice", "action", "moved-from"} :
                Begin("Membership", FALSE, where, form)
          BY <4>3, Zenon DEF Happen
        <5>2. form \in Form \ {"message", "notice"}
          OBVIOUS
        <5> QED
          BY <5>1, <5>2, Zenon
      <4> QED
        BY <1>2, <4>2, <4>3
    <3> QED
      BY <3>1 DEF Begin
  <2> QED
    BY <2>1 DEF AllTold, Concerned
<1> QED
  BY <1>1, <1>2

LEMMA TellsStep ==
  ASSUME HeardInv, RelayInv, AllTold, Bridge \in Plugin,
         \A p \in Canceller : Rank[p] < Rank[Bridge], [Next]_vars
  PROVE  AllTold'
<1>1. CASE PassOver \/ \E p \in Plugin : Handle(p)
  <2>1. \/ PassOver \/ \E p \in Plugin : CallQuiet(p) \/ CallCancels(p) \/ CallRewrites(p)
        \/ \E p \in Plugin : CallAnswers(p)
    BY <1>1 DEF Handle
  <2> QED
    BY <2>1, TellsHandles, TellsGoesOn
<1>2. CASE UNCHANGED vars
  BY <1>2 DEF vars, registry, AllTold, Concerned, Pending, Top
<1>3. CASE Load
  BY <1>3 DEF Load, AllTold, Concerned
<1>4. CASE CallBridge
  BY <1>4, TellsBridge
<1>5. CASE Next /\ ~(PassOver \/ \E p \in Plugin : Handle(p)) /\ ~Load /\ ~CallBridge
  BY <1>5, TellsArrives, TellsGoesOn, TellsRuns, Zenon DEF Next
<1> QED
  BY <1>1, <1>2, <1>3, <1>4, <1>5

\* Whatever rules the bridge has, circular ones too, no rule relays anything
\* twice, what the bot says and what is relayed included.
LEMMA NothingTwice ==
  ASSUME RelayInv, NEW r \in Rule, NEW n, NEW form
  PROVE  /\ Relayed(r, n, form) \in {0, 1}
         /\ Relayed(r, n, form) = 1 <=>
              \E i \in DOMAIN lines : lines[i].rule = r /\ lines[i].thing.n = n
                                     /\ lines[i].thing.form = form
<1> DEFINE P(i) == lines[i].rule = r /\ lines[i].thing.n = n /\ lines[i].thing.form = form
           all == {i \in DOMAIN lines : P(i)}
<1>1. r # None
  BY RuleAssumption
<1>2. \A i, j \in all : i = j
  BY <1>1 DEF RelayInv, NoneTwice
<1>3. Relayed(r, n, form) = Cardinality(all)
  BY DEF Relayed
<1>4. CASE all = {}
  BY <1>3, <1>4, FS_EmptySet
<1>5. CASE all # {}
  <2>1. PICK i : i \in all
    BY <1>5
  <2>2. all = {i}
    BY <1>2, <2>1
  <2>3. Cardinality(all) = 1
    BY <2>2, FS_Singleton
  <2> QED
    BY <1>3, <2>1, <2>3
<1> QED
  BY <1>4, <1>5

\* Where the bridge has the say before those that cancel messages, which is what
\* its priority is for, a message of a place it has a rule for is relayed by
\* every such rule exactly once, whatever becomes of the message; nothing else
\* is relayed twice, and what is relayed is never relayed again.
THEOREM EverythingIsRelayedOnce ==
  ASSUME Bridge \in Plugin, \A p \in Canceller : Rank[p] < Rank[Bridge]
  PROVE  Spec => []RelayedOnce
<1> DEFINE All == HeardInv /\ RelayInv /\ AllTold
<1>1. Init => All
  BY HeardInit, RelayInit DEF Init, AllTold, Concerned
<1>2. All /\ [Next]_vars => All'
  BY HeardStep, RelayStep, TellsStep
<1>3. All => RelayedOnce
  <2> SUFFICES ASSUME All PROVE RelayedOnce
    OBVIOUS
  <2>1. \A r \in Rule, n \in 0 .. 3, form \in Form : Relayed(r, n, form) <= 1
    BY NothingTwice
  <2>2. ASSUME Done, received.form \in {"message", "notice"}, Bridge \in whole,
               result # "Managed", NEW r \in Rule, Matches(r, received.where, received.form)
        PROVE  Relayed(r, 0, received.form) = 1
    <3>1. Concerned /\ ~Pending
      BY <2>2 DEF Concerned, Pending, Done
    <3>2. TellsAll(received, lines)
      BY <3>1 DEF AllTold
    <3> QED
      BY <2>2, <3>2, NothingTwice DEF TellsAll
  <2> QED
    BY <2>1, <2>2 DEF RelayedOnce
<1> QED
  BY <1>1, <1>2, <1>3, PTL DEF Spec
=============================================================================
