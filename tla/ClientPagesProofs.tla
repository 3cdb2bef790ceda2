-------------------------- MODULE ClientPagesProofs --------------------------
(* Theorems about ClientPages, one part after the other: every window of the   *)
(* play page has one home, the canvas shows what the stores say, and the admin *)
(* page shows the server's tree whenever it has nothing under way; and about   *)
(* ClientConnection: one live socket, a true status, and no stranded page.     *)
EXTENDS ClientPages, ClientConnection, FiniteSetTheorems, SequenceTheorems, NaturalsInduction, TLAPS

------------------------------------------------------------------------------
(* Numbers: a set of them has a least one, and a bounded one a greatest.       *)
LEMMA Least ==
  ASSUME NEW S \in SUBSET Nat, S # {}
  PROVE  \E m \in S : \A k \in S : m <= k
<1> DEFINE R == {p \in Nat \X Nat : p[1] < p[2]}
<1>1. OpToRel(<, Nat) = R
  BY DEF OpToRel
<1>2. IsWellFoundedOn(R, Nat)
  BY <1>1, NatLessThanWellFounded
<1>3. PICK x \in S : \A y \in S : <<y, x>> \notin R
  BY <1>2, WFMin
<1>4. \A y \in S : ~(y < x)
  BY <1>3
<1> QED BY <1>4

(* A bounded set of numbers has a greatest one: the least bound is in it.      *)
LEMMA MaxIsGreatest ==
  ASSUME NEW S \in SUBSET Nat, S # {}, NEW b \in Nat, \A x \in S : x <= b
  PROVE  Max(S) \in S /\ \A x \in S : x <= Max(S)
<1> DEFINE U == {u \in Nat : \A x \in S : x <= u}
<1>1. U \in SUBSET Nat /\ U # {}
  OBVIOUS
<1> HIDE DEF U
<1>2. PICK u \in U : \A v \in U : u <= v
  BY <1>1, Least
<1>3. u \in Nat /\ \A x \in S : x <= u
  BY <1>2 DEF U
<1>4. u \in S
  <2> SUFFICES ASSUME u \notin S
               PROVE  FALSE
    OBVIOUS
  <2>1. \A x \in S : x <= u - 1
    BY <1>3
  <2>2. u - 1 \in Nat
    <3>1. PICK y \in S : TRUE
      OBVIOUS
    <3> QED BY <1>3, <2>1, <3>1
  <2>3. u - 1 \in U
    BY <2>1, <2>2 DEF U
  <2> QED BY <1>2, <1>3, <2>3
<1>5. \E x \in S : \A y \in S : x >= y
  BY <1>3, <1>4
<1> QED BY <1>5 DEF Max

(* What the filter of a list has taken over after i of its elements, when the  *)
(* one it leaves out is at k and nowhere else.                                 *)
Skips(seq, k, i) ==
  [j \in 1..(IF i < k THEN i ELSE i - 1) |-> IF j < k THEN seq[j] ELSE seq[j + 1]]

LEMMA SkipsRecurs ==
  ASSUME NEW S, NEW seq \in Seq(S), NEW k \in 1..Len(seq),
         \A i \in 1..Len(seq) : i # k => seq[i] # seq[k],
         NEW i \in 0..Len(seq)
  PROVE  Skips(seq, k, i) = IF i = 0 THEN << >>
                            ELSE IF seq[i] = seq[k] THEN Skips(seq, k, i - 1)
                            ELSE Append(Skips(seq, k, i - 1), seq[i])
<1>0. Len(seq) \in Nat
  OBVIOUS
<1>1. CASE i = 0
  BY <1>0, <1>1 DEF Skips
<1>2. CASE i # 0 /\ i = k
  BY <1>0, <1>2 DEF Skips
<1>3. CASE i # 0 /\ i # k
  <2> DEFINE a == Skips(seq, k, i - 1)
             n == IF i - 1 < k THEN i - 1 ELSE i - 2
  <2>1. n \in Nat /\ n < Len(seq) /\ \A j \in 1..n : a[j] \in S
    BY <1>0, <1>3 DEF Skips
  <2>2. a \in Seq(S) /\ Len(a) = n
    BY <1>0, <1>3, <2>1 DEF Skips
  <2>3. Append(a, seq[i]) \in Seq(S) /\ Len(Append(a, seq[i])) = n + 1
        /\ \A j \in 1..n+1 : Append(a, seq[i])[j] = IF j = n + 1 THEN seq[i] ELSE a[j]
    BY <2>1, <2>2, <1>3
  <2>4. Skips(seq, k, i) \in Seq(S) /\ Len(Skips(seq, k, i)) = n + 1
    BY <1>0, <1>3 DEF Skips
  <2>5. \A j \in 1..n+1 : Skips(seq, k, i)[j] = IF j = n + 1 THEN seq[i] ELSE a[j]
    BY <1>0, <1>3 DEF Skips
  <2>6. Append(a, seq[i]) = Skips(seq, k, i)
    <3> HIDE DEF a, n
    <3> QED BY <2>1, <2>3, <2>4, <2>5, SeqEqual
  <2> QED BY <1>0, <1>3, <2>6
<1> QED BY <1>1, <1>2, <1>3

LEMMA WithoutIs ==
  ASSUME NEW S, NEW seq \in Seq(S), NEW k \in 1..Len(seq),
         \A i \in 1..Len(seq) : i # k => seq[i] # seq[k]
  PROVE  Without(seq, seq[k]) = Skips(seq, k, Len(seq))
<1> DEFINE x == seq[k]
           n == Len(seq)
           Is(f) == f = [i \in 0..n |-> IF i = 0 THEN << >>
                                        ELSE IF seq[i] = x THEN f[i - 1]
                                        ELSE Append(f[i - 1], seq[i])]
           g == [i \in 0..n |-> Skips(seq, k, i)]
           kept == CHOOSE f : Is(f)
<1>1. Is(g)
  <2>1. \A i \in 0..n : g[i] = IF i = 0 THEN << >>
                               ELSE IF seq[i] = x THEN g[i - 1] ELSE Append(g[i - 1], seq[i])
    <3> TAKE i \in 0..n
    <3>1. g[i] = Skips(seq, k, i) /\ (i # 0 => g[i - 1] = Skips(seq, k, i - 1))
      OBVIOUS
    <3>2. Skips(seq, k, i) = IF i = 0 THEN << >>
                             ELSE IF seq[i] = seq[k] THEN Skips(seq, k, i - 1)
                             ELSE Append(Skips(seq, k, i - 1), seq[i])
      BY SkipsRecurs
    <3> HIDE DEF g
    <3> QED BY <3>1, <3>2
  <2> QED BY <2>1
<1>2. Is(kept)
  BY <1>1
<1>3. Without(seq, x) = kept[n]
  BY DEF Without
<1> HIDE DEF kept
<1>4. \A i \in 0..n : kept[i] = g[i]
  <2> DEFINE D == {i \in 0..n : kept[i] # g[i]}
  <2> SUFFICES ASSUME D # {}
               PROVE  FALSE
    OBVIOUS
  <2>1. D \in SUBSET Nat
    OBVIOUS
  <2>2. PICK m \in D : \A i \in D : m <= i
    <3> HIDE DEF D
    <3> QED BY <2>1, Least
  <2>3. m \in 0..n /\ kept[m] # g[m] /\ (m # 0 => kept[m - 1] = g[m - 1])
    BY <2>2
  <2>4. kept[m] = IF m = 0 THEN << >>
                  ELSE IF seq[m] = x THEN kept[m - 1] ELSE Append(kept[m - 1], seq[m])
    BY <1>2, <2>3
  <2>5. g[m] = IF m = 0 THEN << >>
               ELSE IF seq[m] = x THEN g[m - 1] ELSE Append(g[m - 1], seq[m])
    BY <1>1, <2>3
  <2> HIDE DEF g
  <2> QED BY <2>3, <2>4, <2>5
<1>5. n \in 0..n
  OBVIOUS
<1> QED BY <1>3, <1>4, <1>5

------------------------------------------------------------------------------
(* The windows. A list that has every id once, and the ids it has.             *)
Once(seq) == \A i, j \in 1..Len(seq) : seq[i] = seq[j] => i = j
Elements(seq) == {seq[i] : i \in 1..Len(seq)}

(* What the filter leaves of a list that has every id once.                    *)
LEMMA WithoutKeeps ==
  ASSUME NEW seq \in Seq(Nat), Once(seq), NEW k \in 1..Len(seq), NEW rest, rest = Without(seq, seq[k])
  PROVE  /\ rest \in Seq(Nat) /\ Len(rest) = Len(seq) - 1
         /\ Once(rest) /\ Elements(rest) = Elements(seq) \ {seq[k]}
<1> DEFINE n == Len(seq)
           At(j) == IF j < k THEN j ELSE j + 1
<1>0. n \in Nat \ {0} /\ k \in 1..n /\ n - 1 \in Nat
  OBVIOUS
<1>1. rest = Skips(seq, k, n)
  <2>1. \A i \in 1..n : i # k => seq[i] # seq[k]
    BY DEF Once
  <2> QED BY <2>1, WithoutIs
<1>2. \A j \in 1..n-1 : At(j) \in 1..n /\ At(j) # k
  BY <1>0
<1>3. rest = [j \in 1..n-1 |-> IF j < k THEN seq[j] ELSE seq[j + 1]]
  BY <1>0, <1>1 DEF Skips
<1>4. \A j \in 1..n-1 : rest[j] = seq[At(j)] /\ rest[j] \in Nat
  BY <1>0, <1>2, <1>3, SMTT(20)
<1>5. rest \in Seq(Nat) /\ Len(rest) = n - 1
  BY <1>0, <1>3, <1>4
<1>6. \A i \in 1..n : i # k => \E j \in 1..n-1 : At(j) = i
  <2> TAKE i \in 1..n
  <2> HAVE i # k
  <2>1. CASE i < k
    BY <1>0, <2>1
  <2>2. CASE i > k
    <3>1. i - 1 \in 1..n-1 /\ At(i - 1) = i
      BY <1>0, <2>2
    <3> QED BY <3>1
  <2> QED BY <1>0, <2>1, <2>2
<1>7. \A i, j \in 1..n-1 : At(i) = At(j) => i = j
  BY <1>0
<1> HIDE DEF At
<1>8. Once(rest)
  <2> SUFFICES ASSUME NEW i \in 1..n-1, NEW j \in 1..n-1, rest[i] = rest[j]
               PROVE  i = j
    BY <1>5 DEF Once
  <2>1. At(i) \in 1..n /\ At(j) \in 1..n /\ seq[At(i)] = seq[At(j)]
    BY <1>2, <1>4
  <2>2. At(i) = At(j)
    BY <2>1 DEF Once
  <2> QED BY <1>7, <2>2
<1>9. Elements(rest) = Elements(seq) \ {seq[k]}
  <2>1. \A j \in 1..n-1 : rest[j] \in Elements(seq) \ {seq[k]}
    <3> TAKE j \in 1..n-1
    <3>1. rest[j] = seq[At(j)] /\ At(j) \in 1..n /\ At(j) # k
      BY <1>2, <1>4
    <3>2. seq[At(j)] # seq[k]
      BY <1>0, <3>1 DEF Once
    <3> QED BY <3>1, <3>2 DEF Elements
  <2>2. \A v \in Elements(seq) \ {seq[k]} : \E j \in 1..n-1 : rest[j] = v
    <3> TAKE v \in Elements(seq) \ {seq[k]}
    <3>1. PICK i \in 1..n : seq[i] = v /\ i # k
      BY DEF Elements
    <3> QED BY <1>4, <1>6, <3>1
  <2>3. Elements(rest) = {rest[j] : j \in 1..n-1}
    BY <1>5 DEF Elements
  <2> QED BY <2>1, <2>2, <2>3
<1> QED BY <1>5, <1>8, <1>9

Group == [zIndex : 0..MaxZ, activeTabId : Nat, tabs : Seq(Nat)]

(* The tabs of the group are the ids in S, each once, and one of them is shown. *)
Holds(group, S) ==
  /\ group \in Group
  /\ Elements(group.tabs) = S
  /\ Once(group.tabs)
  /\ group.activeTabId \in S

MappedTo(map, g) == {w \in DOMAIN map : map[w] = g}

(* Every group holds the windows that are mapped to it, on a level of its own. *)
Homes(groups, map) ==
  /\ \A w \in DOMAIN map : map[w] \in DOMAIN groups
  /\ \A g \in DOMAIN groups : Holds(groups[g], MappedTo(map, g))
  /\ \A g, h \in DOMAIN groups : g # h => groups[g].zIndex # groups[h].zIndex

(* The ids in use are among the first n handed out.                            *)
Named(n, groups, map) == DOMAIN groups \subseteq 1..n /\ DOMAIN map \subseteq 1..n

(* The inductive invariant of the windows.                                     *)
WindowsInv ==
  /\ nextSeq \in Nat
  /\ Named(nextSeq, windowGroups, windowGroupMap)
  /\ openWindows = DOMAIN windowGroupMap
  /\ Homes(windowGroups, windowGroupMap)

LEMMA TopLevel ==
  ASSUME NEW groups, NEW map, Homes(groups, map)
  PROVE  /\ getMaxZIndex(groups) \in Nat
         /\ \A g \in DOMAIN groups : groups[g].zIndex <= getMaxZIndex(groups)
         /\ getMaxZIndex(groups) = 0 \/ \E g \in DOMAIN groups : groups[g].zIndex = getMaxZIndex(groups)
<1> DEFINE S == {0} \cup {groups[g].zIndex : g \in DOMAIN groups}
<1>1. MaxZ \in Nat
  BY WindowsAssumption
<1>2. S \in SUBSET Nat /\ S # {} /\ \A x \in S : x <= MaxZ
  BY <1>1 DEF Homes, Holds, Group
<1>3. getMaxZIndex(groups) = Max(S)
  BY DEF getMaxZIndex
<1>4. Max(S) \in S /\ \A x \in S : x <= Max(S)
  <2> HIDE DEF S
  <2> QED BY <1>1, <1>2, MaxIsGreatest
<1> QED BY <1>2, <1>3, <1>4

(* A new group on top holds one window that no group had.                      *)
LEMMA OpenedIsHome ==
  ASSUME NEW groups, NEW map, Homes(groups, map),
         NEW w \in Nat, w \notin DOMAIN map, NEW g, g \notin DOMAIN groups,
         NEW z \in 0..MaxZ, \A h \in DOMAIN groups : groups[h].zIndex < z,
         NEW map2, map2 = Put(map, w, g)
  PROVE  Homes(Put(groups, g, Alone(w, z)), map2)
<1> DEFINE G == Put(groups, g, Alone(w, z))
           M == map2
<1>1. /\ DOMAIN G = DOMAIN groups \cup {g} /\ G[g] = Alone(w, z)
      /\ \A h \in DOMAIN groups : G[h] = groups[h]
  BY DEF Put
<1>2. /\ DOMAIN M = DOMAIN map \cup {w} /\ M[w] = g
      /\ \A v \in DOMAIN map : M[v] = map[v]
  BY DEF Put
<1>3. Holds(Alone(w, z), {w})
  <2>1. Alone(w, z).tabs = <<w>> /\ <<w>> \in Seq(Nat) /\ Len(<<w>>) = 1 /\ <<w>>[1] = w
    BY DEF Alone
  <2>2. Alone(w, z) \in Group
    BY <2>1 DEF Alone, Group
  <2>3. Elements(<<w>>) = {w} /\ Once(<<w>>)
    BY <2>1 DEF Elements, Once
  <2> QED BY <2>1, <2>2, <2>3 DEF Holds, Alone
<1> HIDE DEF G, M
<1>4. MappedTo(M, g) = {w}
  BY <1>2 DEF Homes, MappedTo
<1>5. \A h \in DOMAIN groups : MappedTo(M, h) = MappedTo(map, h)
  BY <1>2 DEF MappedTo
<1>6. \A h \in DOMAIN G : Holds(G[h], MappedTo(M, h))
  BY <1>1, <1>3, <1>4, <1>5 DEF Homes
<1>7. \A h, k \in DOMAIN G : h # k => G[h].zIndex # G[k].zIndex
  <2>1. G[g].zIndex = z
    BY <1>1 DEF Alone
  <2>2. \A h \in DOMAIN groups : groups[h].zIndex \in Int /\ groups[h].zIndex < z
    BY DEF Homes, Holds, Group
  <2> QED BY <1>1, <2>1, <2>2 DEF Homes
<1> QED BY <1>1, <1>2, <1>6, <1>7 DEF Homes, G, M

(* A window goes: what is left of its group holds the others.                  *)
LEMMA TabGoneHolds ==
  ASSUME NEW group, NEW S, Holds(group, S), NEW w \in S, group.tabs # <<w>>
  PROVE  Holds(TabGone(group, w), S \ {w}) /\ TabGone(group, w).zIndex = group.zIndex
<1> DEFINE seq == group.tabs
           index == CHOOSE i \in DOMAIN seq : seq[i] = w
           rest == Without(seq, w)
           next == IF group.activeTabId # w THEN group.activeTabId
                   ELSE rest[IF index <= Len(rest) THEN index ELSE Len(rest)]
<1>1. /\ seq \in Seq(Nat) /\ Len(seq) \in Nat /\ DOMAIN seq = 1..Len(seq)
      /\ group.zIndex \in 0..MaxZ /\ group.activeTabId \in Nat
      /\ Once(seq) /\ Elements(seq) = S /\ group.activeTabId \in S
  BY DEF Holds, Group
<1>2. TabGone(group, w) = [zIndex |-> group.zIndex, activeTabId |-> next, tabs |-> rest]
  <2> HIDE DEF rest
  <2>1. group = [zIndex |-> group.zIndex, activeTabId |-> group.activeTabId, tabs |-> group.tabs]
    BY DEF Holds, Group
  <2>2. TabGone(group, w) =
          [group EXCEPT !.tabs = rest,
                        !.activeTabId = IF @ # w THEN @
                                        ELSE rest[IF index <= Len(rest) THEN index ELSE Len(rest)]]
    BY DEF TabGone, rest
  <2> HIDE DEF index
  <2> QED BY <2>1, <2>2
<1>3. seq # <<w>>
  OBVIOUS
<1> HIDE DEF seq
<1>4. index \in 1..Len(seq) /\ seq[index] = w
  BY <1>1 DEF Elements
<1> HIDE DEF index
<1>5. Len(seq) # 1
  BY <1>1, <1>3, <1>4
<1>6. rest \in Seq(Nat) /\ Len(rest) = Len(seq) - 1 /\ Once(rest) /\ Elements(rest) = S \ {w}
  BY <1>1, <1>4, WithoutKeeps
<1> HIDE DEF rest
<1>7. next \in S \ {w} /\ next \in Nat
  <2>1. CASE group.activeTabId # w
    BY <1>1, <2>1
  <2>2. CASE group.activeTabId = w
    <3> DEFINE j == IF index <= Len(rest) THEN index ELSE Len(rest)
    <3>1. j \in 1..Len(rest) /\ next = rest[j]
      BY <1>1, <1>4, <1>5, <1>6, <2>2
    <3> HIDE DEF j, next
    <3> QED BY <1>6, <3>1 DEF Elements
  <2> QED BY <2>1, <2>2
<1> HIDE DEF next
<1>8. TabGone(group, w) \in Group
  BY <1>1, <1>2, <1>6, <1>7 DEF Group
<1> QED BY <1>2, <1>6, <1>7, <1>8 DEF Holds

LEMMA LeavesIsHome ==
  ASSUME NEW map, map = windowGroupMap, Homes(windowGroups, map), NEW w \in DOMAIN map,
         NEW rest, rest = Leaves(windowGroups, map[w], w)
  PROVE  /\ Homes(rest, Drop(map, w))
         /\ DOMAIN rest \subseteq DOMAIN windowGroups
         /\ \A h \in DOMAIN rest : rest[h].zIndex = windowGroups[h].zIndex
<1> DEFINE g == map[w]
           M == Drop(map, w)
<1>1. /\ g \in DOMAIN windowGroups /\ w \in MappedTo(map, g)
      /\ \A h \in DOMAIN windowGroups : Holds(windowGroups[h], MappedTo(map, h))
      /\ \A v \in DOMAIN map : map[v] \in DOMAIN windowGroups
      /\ \A h, k \in DOMAIN windowGroups : h # k => windowGroups[h].zIndex # windowGroups[k].zIndex
  BY DEF Homes, MappedTo
<1>2. DOMAIN M = DOMAIN map \ {w} /\ \A v \in DOMAIN M : M[v] = map[v]
  BY DEF Drop
<1>3. \A h : MappedTo(M, h) = IF h = g THEN MappedTo(map, g) \ {w} ELSE MappedTo(map, h)
  BY <1>2 DEF MappedTo
<1>4. CASE Tabs(g) = <<w>>
  <2>1. rest = Drop(windowGroups, g)
    BY <1>4 DEF Leaves
  <2>2. DOMAIN rest = DOMAIN windowGroups \ {g} /\ \A h \in DOMAIN rest : rest[h] = windowGroups[h]
    BY <2>1 DEF Drop
  <2>3. MappedTo(map, g) = {w}
    <3>1. windowGroups[g].tabs = <<w>>
      BY <1>4 DEF Tabs
    <3>2. Elements(<<w>>) = {w}
      BY DEF Elements
    <3>3. Elements(windowGroups[g].tabs) = MappedTo(map, g)
      BY <1>1 DEF Holds
    <3> HIDE DEF g
    <3> QED BY <3>1, <3>2, <3>3
  <2> HIDE DEF g, M
  <2>4. \A v \in DOMAIN M : M[v] # g
    BY <1>2, <2>3 DEF MappedTo
  <2>5. \A h \in DOMAIN rest : Holds(rest[h], MappedTo(M, h))
    BY <1>1, <1>3, <2>2
  <2>6. \A v \in DOMAIN M : M[v] \in DOMAIN rest
    BY <1>1, <1>2, <2>2, <2>4
  <2>7. Homes(rest, M)
    BY <1>1, <2>2, <2>5, <2>6 DEF Homes
  <2> QED BY <2>2, <2>7 DEF M
<1>5. CASE Tabs(g) # <<w>>
  <2>1. rest = [windowGroups EXCEPT ![g] = TabGone(@, w)]
    BY <1>5 DEF Leaves
  <2>2. /\ DOMAIN rest = DOMAIN windowGroups
        /\ rest[g] = TabGone(windowGroups[g], w)
        /\ \A h \in DOMAIN rest \ {g} : rest[h] = windowGroups[h]
    BY <1>1, <2>1
  <2>3. Holds(rest[g], MappedTo(map, g) \ {w}) /\ rest[g].zIndex = windowGroups[g].zIndex
    <3>1. windowGroups[g].tabs # <<w>> /\ Holds(windowGroups[g], MappedTo(map, g)) /\ w \in MappedTo(map, g)
      BY <1>1, <1>5 DEF Tabs
    <3> HIDE DEF g
    <3> QED BY <2>2, <3>1, TabGoneHolds
  <2> HIDE DEF g, M
  <2>4. \A h \in DOMAIN rest : Holds(rest[h], MappedTo(M, h))
    BY <1>1, <1>3, <2>2, <2>3
  <2>5. \A v \in DOMAIN M : M[v] \in DOMAIN rest
    BY <1>1, <1>2, <2>2
  <2>6. \A h \in DOMAIN rest : rest[h].zIndex = windowGroups[h].zIndex
    BY <2>2, <2>3
  <2>7. Homes(rest, M)
    BY <1>1, <2>2, <2>4, <2>5, <2>6 DEF Homes
  <2> QED BY <2>2, <2>6, <2>7 DEF M
<1> QED BY <1>4, <1>5

LEMMA JoinedTabs ==
  ASSUME NEW a \in Seq(Nat), NEW b \in Seq(Nat), Once(a), Once(b),
         Elements(a) \cap Elements(b) = {}
  PROVE  /\ a \o b \in Seq(Nat) /\ Once(a \o b)
         /\ Elements(a \o b) = Elements(a) \cup Elements(b)
<1> DEFINE c == a \o b
           m == Len(a)
           n == Len(b)
<1>1. m \in Nat /\ n \in Nat /\ c \in Seq(Nat) /\ Len(c) = m + n
      /\ \A i \in 1..m+n : c[i] = IF i <= m THEN a[i] ELSE b[i - m]
  BY ConcatProperties
<1> HIDE DEF c, m, n
<1>2. \A i \in 1..m : c[i] = a[i] /\ a[i] \in Elements(a)
  BY <1>1 DEF Elements, m
<1>3. \A i \in 1..m+n : i > m => i - m \in 1..n /\ c[i] = b[i - m] /\ b[i - m] \in Elements(b)
  BY <1>1 DEF Elements, n
<1>4. \A i \in 1..n : i + m \in 1..m+n /\ c[i + m] = b[i]
  <2> TAKE i \in 1..n
  <2>1. i + m \in 1..m+n /\ i + m > m /\ (i + m) - m = i
    BY <1>1
  <2> QED BY <1>1, <2>1
<1>5. Elements(c) = Elements(a) \cup Elements(b)
  <2>1. \A i \in 1..m+n : c[i] \in Elements(a) \cup Elements(b)
    <3> TAKE i \in 1..m+n
    <3>1. i \in 1..m \/ i > m
      BY <1>1
    <3> QED BY <1>2, <1>3, <3>1
  <2>2. \A v \in Elements(a) : v \in Elements(c)
    <3> TAKE v \in Elements(a)
    <3>1. PICK i \in 1..m : a[i] = v
      BY DEF Elements, m
    <3>2. i \in 1..m+n /\ c[i] = v
      BY <1>1, <1>2, <3>1
    <3> QED BY <1>1, <3>2 DEF Elements
  <2>3. \A v \in Elements(b) : v \in Elements(c)
    <3> TAKE v \in Elements(b)
    <3>1. PICK i \in 1..n : b[i] = v
      BY DEF Elements, n
    <3> QED BY <1>1, <1>4, <3>1 DEF Elements
  <2>4. \A v \in Elements(c) : v \in Elements(a) \cup Elements(b)
    BY <1>1, <2>1 DEF Elements
  <2> QED BY <2>2, <2>3, <2>4
<1>6. Once(c)
  <2> SUFFICES ASSUME NEW i \in 1..m+n, NEW j \in 1..m+n, c[i] = c[j]
               PROVE  i = j
    BY <1>1 DEF Once
  <2>1. CASE i \in 1..m /\ j \in 1..m
    BY <1>2, <2>1 DEF Once, m
  <2>2. CASE i > m /\ j > m
    <3>1. i - m \in 1..n /\ j - m \in 1..n /\ b[i - m] = b[j - m]
      BY <1>3, <2>2
    <3>2. i - m = j - m
      BY <3>1 DEF Once, n
    <3> QED BY <1>1, <3>2
  <2>3. CASE i \in 1..m /\ j > m
    BY <1>2, <1>3, <2>3
  <2>4. CASE i > m /\ j \in 1..m
    BY <1>2, <1>3, <2>4
  <2>5. (i \in 1..m \/ i > m) /\ (j \in 1..m \/ j > m)
    BY <1>1
  <2> QED BY <2>1, <2>2, <2>3, <2>4, <2>5
<1> QED BY <1>1, <1>5, <1>6 DEF c

LEMMA MergedIsHome ==
  ASSUME NEW groups, NEW map, Homes(groups, map),
         NEW s \in DOMAIN groups, NEW t \in DOMAIN groups, s # t,
         NEW G, G = Merged(groups, s, t),
         NEW M, M = [w \in DOMAIN map |-> IF map[w] = s THEN t ELSE map[w]]
  PROVE  Homes(G, M) /\ DOMAIN G \subseteq DOMAIN groups
<1> DEFINE tabs == groups[t].tabs \o groups[s].tabs
           D == Drop(groups, s)
<1>1. /\ \A h \in DOMAIN groups : Holds(groups[h], MappedTo(map, h))
      /\ \A v \in DOMAIN map : map[v] \in DOMAIN groups
      /\ \A h, k \in DOMAIN groups : h # k => groups[h].zIndex # groups[k].zIndex
  BY DEF Homes
<1>2. DOMAIN M = DOMAIN map /\ \A v \in DOMAIN M : M[v] = IF map[v] = s THEN t ELSE map[v]
  OBVIOUS
<1>3. \A h : h # s => MappedTo(M, h) = IF h = t THEN MappedTo(map, t) \cup MappedTo(map, s) ELSE MappedTo(map, h)
  BY <1>2 DEF MappedTo
<1>4. DOMAIN D = DOMAIN groups \ {s} /\ \A h \in DOMAIN D : D[h] = groups[h]
  BY DEF Drop
<1>5. G = [D EXCEPT ![t].tabs = tabs]
  BY <1>4 DEF Merged
<1> HIDE DEF D
<1>6. /\ DOMAIN G = DOMAIN groups \ {s}
      /\ \A h \in DOMAIN G \ {t} : G[h] = groups[h]
      /\ G[t] = [groups[t] EXCEPT !.tabs = tabs]
  BY <1>4, <1>5
<1>7. Holds(groups[s], MappedTo(map, s)) /\ Holds(groups[t], MappedTo(map, t)) /\ MappedTo(map, s) \cap MappedTo(map, t) = {}
  BY <1>1 DEF MappedTo
<1>8. tabs \in Seq(Nat) /\ Once(tabs) /\ Elements(tabs) = MappedTo(map, t) \cup MappedTo(map, s)
  <2>1. /\ groups[t].tabs \in Seq(Nat) /\ groups[s].tabs \in Seq(Nat)
        /\ Once(groups[t].tabs) /\ Once(groups[s].tabs)
        /\ Elements(groups[t].tabs) = MappedTo(map, t) /\ Elements(groups[s].tabs) = MappedTo(map, s)
    BY <1>7 DEF Holds, Group
  <2> QED BY <1>7, <2>1, JoinedTabs
<1> HIDE DEF tabs
<1>9. G[t] = [zIndex |-> groups[t].zIndex, activeTabId |-> groups[t].activeTabId, tabs |-> tabs]
  BY <1>6, <1>7 DEF Holds, Group
<1>10. Holds(G[t], MappedTo(map, t) \cup MappedTo(map, s)) /\ G[t].zIndex = groups[t].zIndex
  BY <1>7, <1>8, <1>9 DEF Holds, Group
<1>11. \A h \in DOMAIN G : Holds(G[h], MappedTo(M, h))
  BY <1>1, <1>3, <1>6, <1>10
<1>12. \A v \in DOMAIN M : M[v] \in DOMAIN G
  BY <1>1, <1>2, <1>6
<1>13. \A h \in DOMAIN G : G[h].zIndex = groups[h].zIndex
  BY <1>6, <1>10
<1>14. \A h, k \in DOMAIN G : h # k => G[h].zIndex # G[k].zIndex
  BY <1>1, <1>6, <1>13
<1> QED BY <1>6, <1>11, <1>12, <1>14 DEF Homes

LEMMA RaisedIsHome ==
  ASSUME NEW groups, NEW map, Homes(groups, map), NEW g \in DOMAIN groups,
         getMaxZIndex(groups) + 1 <= MaxZ
  PROVE  Homes(Raised(groups, g), map) /\ DOMAIN Raised(groups, g) = DOMAIN groups
<1> DEFINE top == getMaxZIndex(groups)
           G == Raised(groups, g)
<1>1. top \in Nat /\ \A h \in DOMAIN groups : groups[h].zIndex <= top
  BY TopLevel
<1>2. MaxZ \in Nat
  BY WindowsAssumption
<1>3. /\ DOMAIN G = DOMAIN groups /\ G[g] = [groups[g] EXCEPT !.zIndex = top + 1]
      /\ \A h \in DOMAIN G \ {g} : G[h] = groups[h]
  BY DEF Raised
<1> HIDE DEF G, top
<1>4. \A h \in DOMAIN groups : Holds(groups[h], MappedTo(map, h)) /\ groups[h].zIndex \in Nat
  BY DEF Homes, Holds, Group
<1>5. Holds(G[g], MappedTo(map, g)) /\ G[g].zIndex = top + 1
  <2>1. top + 1 \in 0..MaxZ
    BY <1>1, <1>2 DEF top
  <2>2. G[g] = [zIndex |-> top + 1, activeTabId |-> groups[g].activeTabId, tabs |-> groups[g].tabs]
    BY <1>3, <1>4 DEF Holds, Group
  <2> QED BY <1>4, <2>1, <2>2 DEF Holds, Group
<1>6. \A h, k \in DOMAIN G : h # k => G[h].zIndex # G[k].zIndex
  <2>1. \A h \in DOMAIN groups \ {g} : G[h].zIndex = groups[h].zIndex /\ G[h].zIndex < top + 1
    BY <1>1, <1>3, <1>4
  <2>2. \A h \in DOMAIN groups \ {g} : G[h].zIndex # G[g].zIndex
    BY <1>1, <1>4, <1>5, <2>1
  <2>3. \A h, k \in DOMAIN groups \ {g} : h # k => G[h].zIndex # G[k].zIndex
    BY <2>1 DEF Homes
  <2> QED BY <1>3, <2>2, <2>3
<1> QED BY <1>3, <1>4, <1>5, <1>6 DEF Homes, G

------------------------------------------------------------------------------
(* Every step of the windows keeps their homes.                                *)
LEMMA WindowsInitInv == WindowsInit => WindowsInv
BY DEF WindowsInit, WindowsInv, Named, Homes

(* Gestures that leave groups and windows alone.                               *)
LEMMA GroupsUntouched ==
  ASSUME WindowsInv, UNCHANGED <<openWindows, windowGroups, windowGroupMap, nextSeq>>
  PROVE  WindowsInv'
BY DEF WindowsInv

LEMMA OpenWindowKeeps ==
  ASSUME WindowsInv, OpenWindow
  PROVE  WindowsInv'
<1> DEFINE w == nextSeq + 1
           g == nextSeq + 2
           z == getMaxZIndex(windowGroups) + 1
<1>1. /\ Homes(windowGroups, windowGroupMap) /\ nextSeq \in Nat /\ nextSeq' = g
      /\ windowGroups' = Put(windowGroups, g, Alone(w, z))
      /\ windowGroupMap' = Put(windowGroupMap, w, g)
      /\ openWindows' = openWindows \cup {w} /\ openWindows = DOMAIN windowGroupMap
      /\ DOMAIN windowGroups \subseteq 1..nextSeq /\ DOMAIN windowGroupMap \subseteq 1..nextSeq
      /\ getMaxZIndex(windowGroups) + 2 <= MaxZ
  BY DEF WindowsInv, OpenWindow, Named, CanRaise
<1>2. MaxZ \in Nat
  BY WindowsAssumption
<1>3. z \in 0..MaxZ /\ \A h \in DOMAIN windowGroups : windowGroups[h].zIndex < z
  <2>1. /\ getMaxZIndex(windowGroups) \in Nat
        /\ \A h \in DOMAIN windowGroups : windowGroups[h].zIndex <= getMaxZIndex(windowGroups)
        /\ \A h \in DOMAIN windowGroups : windowGroups[h].zIndex \in Nat
    BY <1>1, TopLevel DEF Homes, Holds, Group
  <2> QED BY <1>1, <1>2, <2>1
<1>4. w \in Nat /\ g \in Nat /\ w \notin DOMAIN windowGroupMap /\ g \notin DOMAIN windowGroups
  BY <1>1
<1> HIDE DEF w, g, z
<1>5. Homes(windowGroups', windowGroupMap')
  BY <1>1, <1>3, <1>4, OpenedIsHome
<1>6. DOMAIN windowGroups' = DOMAIN windowGroups \cup {g} /\ DOMAIN windowGroupMap' = openWindows'
  BY <1>1 DEF Put
<1>7. Named(nextSeq', windowGroups', windowGroupMap')
  <2>1. \A i \in 1..nextSeq \cup {w, g} : i \in 1..g
    BY <1>1 DEF w, g
  <2> QED BY <1>1, <1>6, <2>1 DEF Named
<1> QED BY <1>1, <1>4, <1>5, <1>6, <1>7 DEF WindowsInv

LEMMA CloseTabKeeps ==
  ASSUME WindowsInv, NEW w, CloseTab(w)
  PROVE  WindowsInv'
<1>1. /\ w \in DOMAIN windowGroupMap /\ openWindows = DOMAIN windowGroupMap
      /\ windowGroups' = Leaves(windowGroups, windowGroupMap[w], w)
      /\ windowGroupMap' = Drop(windowGroupMap, w)
      /\ openWindows' = openWindows \ {w} /\ nextSeq' = nextSeq
  BY DEF CloseTab, WindowsInv
<1>2. Homes(windowGroups', windowGroupMap') /\ DOMAIN windowGroups' \subseteq DOMAIN windowGroups
  BY <1>1, LeavesIsHome DEF WindowsInv
<1>3. DOMAIN windowGroupMap' = openWindows'
  BY <1>1 DEF Drop
<1> QED BY <1>1, <1>2, <1>3 DEF WindowsInv, Named

(* A tab is detached to a new group on top.                                    *)
LEMMA DetachingKeeps ==
  ASSUME WindowsInv, NEW w, CanDetach(w), NEW above \in {1, 2},
         NEW rest, rest = Leaves(windowGroups, windowGroupMap[w], w),
         windowGroups' = Put(rest, nextSeq + 1, Alone(w, getMaxZIndex(rest) + above)),
         windowGroupMap' = [windowGroupMap EXCEPT ![w] = nextSeq + 1],
         nextSeq' = nextSeq + 1, openWindows' = openWindows
  PROVE  WindowsInv'
<1> DEFINE new == nextSeq + 1
           left == Drop(windowGroupMap, w)
           z == getMaxZIndex(rest) + above
<1>1. /\ w \in DOMAIN windowGroupMap /\ openWindows = DOMAIN windowGroupMap /\ nextSeq \in Nat
      /\ Homes(windowGroups, windowGroupMap)
      /\ DOMAIN windowGroups \subseteq 1..nextSeq /\ DOMAIN windowGroupMap \subseteq 1..nextSeq
      /\ getMaxZIndex(windowGroups) + 2 <= MaxZ
  BY DEF WindowsInv, Named, CanDetach, CanRaise
<1>2. /\ Homes(rest, left) /\ DOMAIN rest \subseteq DOMAIN windowGroups
      /\ \A h \in DOMAIN rest : rest[h].zIndex = windowGroups[h].zIndex
  BY <1>1, LeavesIsHome
<1>3. z \in 0..MaxZ /\ \A h \in DOMAIN rest : rest[h].zIndex < z
  <2> DEFINE top == getMaxZIndex(rest)
             was == getMaxZIndex(windowGroups)
  <2>1. /\ top \in Nat /\ \A h \in DOMAIN rest : rest[h].zIndex <= top
        /\ top = 0 \/ \E h \in DOMAIN rest : rest[h].zIndex = top
    BY <1>2, TopLevel
  <2>2. was \in Nat /\ \A h \in DOMAIN windowGroups : windowGroups[h].zIndex <= was
    BY <1>1, TopLevel
  <2>3. \A h \in DOMAIN rest : rest[h].zIndex \in Nat
    BY <1>2 DEF Homes, Holds, Group
  <2>4. MaxZ \in Nat /\ was + 2 <= MaxZ
    BY <1>1, WindowsAssumption
  <2> HIDE DEF top, was
  <2>5. top <= was
    BY <1>2, <2>1, <2>2
  <2>6. top + above \in 0..MaxZ
    BY <2>1, <2>2, <2>4, <2>5
  <2>7. \A h \in DOMAIN rest : rest[h].zIndex < top + above
    BY <2>1, <2>3
  <2> QED BY <2>6, <2>7 DEF top
<1>4. /\ new \in Nat /\ new \notin DOMAIN rest /\ w \in Nat
      /\ DOMAIN left = DOMAIN windowGroupMap \ {w}
  BY <1>1, <1>2 DEF Drop
<1>5. windowGroupMap' = Put(left, w, new)
  BY <1>1 DEF Put, Drop
<1> HIDE DEF new, left, z
<1>6. Homes(windowGroups', windowGroupMap')
  BY <1>2, <1>3, <1>4, <1>5, OpenedIsHome DEF new, z
<1>7. DOMAIN windowGroups' = DOMAIN rest \cup {new} /\ DOMAIN windowGroupMap' = DOMAIN windowGroupMap
  BY DEF Put, new
<1>8. Named(nextSeq', windowGroups', windowGroupMap')
  <2>1. \A i \in 1..nextSeq \cup {new} : i \in 1..nextSeq'
    BY <1>1 DEF new
  <2> QED BY <1>1, <1>2, <1>7, <2>1 DEF Named
<1> QED BY <1>1, <1>4, <1>6, <1>7, <1>8 DEF WindowsInv, new

LEMMA MergingKeeps ==
  ASSUME WindowsInv, NEW g \in DOMAIN windowGroups, NEW target, mergeGroups(g, target),
         nextSeq' = nextSeq, openWindows' = openWindows
  PROVE  WindowsInv'
<1>1. CASE g = target \/ target \notin DOMAIN windowGroups
  BY <1>1 DEF mergeGroups, WindowsInv
<1>2. CASE g # target /\ target \in DOMAIN windowGroups
  <2>1. /\ windowGroups' = Merged(windowGroups, g, target)
        /\ windowGroupMap' = [w \in DOMAIN windowGroupMap |->
                                IF windowGroupMap[w] = g THEN target ELSE windowGroupMap[w]]
    BY <1>2 DEF mergeGroups
  <2>2. Homes(windowGroups', windowGroupMap') /\ DOMAIN windowGroups' \subseteq DOMAIN windowGroups
    BY <1>2, <2>1, MergedIsHome DEF WindowsInv
  <2>3. DOMAIN windowGroupMap' = DOMAIN windowGroupMap
    BY <2>1
  <2> QED BY <2>2, <2>3 DEF WindowsInv, Named
<1> QED BY <1>1, <1>2

LEMMA PressKeeps ==
  ASSUME WindowsInv, NEW g \in DOMAIN windowGroups, NEW loc, Press(g, loc)
  PROVE  WindowsInv'
<1>1. /\ windowGroups' = Raised(windowGroups, g) /\ getMaxZIndex(windowGroups) + 2 <= MaxZ
      /\ openWindows' = openWindows /\ windowGroupMap' = windowGroupMap /\ nextSeq' = nextSeq
      /\ Homes(windowGroups, windowGroupMap)
  BY DEF Press, CanRaise, WindowsInv
<1>2. getMaxZIndex(windowGroups) + 1 <= MaxZ
  BY <1>1, TopLevel, WindowsAssumption
<1>3. Homes(windowGroups', windowGroupMap') /\ DOMAIN windowGroups' = DOMAIN windowGroups
  BY <1>1, <1>2, RaisedIsHome
<1> QED BY <1>1, <1>3 DEF WindowsInv, Named

LEMMA SetActiveTabKeeps ==
  ASSUME WindowsInv, NEW g \in DOMAIN windowGroups, NEW w, SetActiveTab(g, w)
  PROVE  WindowsInv'
<1>1. /\ windowGroups' = [windowGroups EXCEPT ![g].activeTabId = w]
      /\ openWindows' = openWindows /\ windowGroupMap' = windowGroupMap /\ nextSeq' = nextSeq
      /\ w \in ToSet(windowGroups[g].tabs)
      /\ Homes(windowGroups, windowGroupMap) /\ Holds(windowGroups[g], MappedTo(windowGroupMap, g))
  BY DEF SetActiveTab, WindowsInv, Homes, Tabs
<1>2. w \in MappedTo(windowGroupMap, g) /\ w \in Nat
  <2>1. windowGroups[g].tabs \in Seq(Nat) /\ Elements(windowGroups[g].tabs) = MappedTo(windowGroupMap, g)
    BY <1>1 DEF Holds, Group
  <2>2. PICK i \in DOMAIN windowGroups[g].tabs : windowGroups[g].tabs[i] = w
    BY <1>1 DEF ToSet
  <2> DEFINE seq == windowGroups[g].tabs
  <2> HIDE DEF seq
  <2>3. seq[i] \in Elements(seq) /\ seq[i] \in Nat
    BY <2>1, <2>2 DEF Elements, seq
  <2> QED BY <2>1, <2>2, <2>3 DEF seq
<1>3. /\ DOMAIN windowGroups' = DOMAIN windowGroups
      /\ \A h \in DOMAIN windowGroups \ {g} : windowGroups'[h] = windowGroups[h]
      /\ windowGroups'[g] = [zIndex |-> windowGroups[g].zIndex, activeTabId |-> w,
                             tabs |-> windowGroups[g].tabs]
  BY <1>1 DEF Holds, Group
<1>4. Holds(windowGroups'[g], MappedTo(windowGroupMap, g)) /\ windowGroups'[g].zIndex = windowGroups[g].zIndex
  BY <1>1, <1>2, <1>3 DEF Holds, Group
<1>5. Homes(windowGroups', windowGroupMap)
  <2>1. \A h \in DOMAIN windowGroups : windowGroups'[h].zIndex = windowGroups[h].zIndex
    BY <1>3, <1>4
  <2>2. \A h \in DOMAIN windowGroups : Holds(windowGroups'[h], MappedTo(windowGroupMap, h))
    BY <1>1, <1>3, <1>4 DEF Homes
  <2> QED BY <1>1, <1>3, <2>1, <2>2 DEF Homes
<1> QED BY <1>1, <1>3, <1>5 DEF WindowsInv, Named

LEMMA WindowMouseMoveKeeps ==
  ASSUME WindowsInv, NEW g, WindowMouseMove(g)
  PROVE  WindowsInv'
<1>1. CASE PullTab(g)
  <2> DEFINE w == local[g].tabDragWindowId
  <2>1. /\ CanDetach(w)
        /\ windowGroups' = Put(Leaves(windowGroups, windowGroupMap[w], w), nextSeq + 1,
                Alone(w, getMaxZIndex(Leaves(windowGroups, windowGroupMap[w], w)) + 2))
        /\ windowGroupMap' = [windowGroupMap EXCEPT ![w] = nextSeq + 1]
        /\ nextSeq' = nextSeq + 1
    BY <1>1 DEF PullTab
  <2>2. openWindows' = openWindows
    BY DEF WindowMouseMove
  <2> HIDE DEF w
  <2> QED BY <2>1, <2>2, DetachingKeeps
<1>2. CASE ~PullTab(g)
  <2>1. UNCHANGED <<openWindows, windowGroups, windowGroupMap, nextSeq>>
    BY <1>2 DEF WindowMouseMove, PullClosedTab
  <2> QED BY <2>1, GroupsUntouched
<1> QED BY <1>1, <1>2

LEMMA WindowMouseUpKeeps ==
  ASSUME WindowsInv, NEW g \in DOMAIN windowGroups, WindowMouseUp(g)
  PROVE  WindowsInv'
<1>1. nextSeq' = nextSeq /\ openWindows' = openWindows
  BY DEF WindowMouseUp
<1>2. CASE mergeGroups(g, dropTargetGroupId)
  BY <1>1, <1>2, MergingKeeps
<1>3. CASE ~mergeGroups(g, dropTargetGroupId)
  <2>1. UNCHANGED <<openWindows, windowGroups, windowGroupMap, nextSeq>>
    BY <1>1, <1>3 DEF WindowMouseUp
  <2> QED BY <2>1, GroupsUntouched
<1> QED BY <1>2, <1>3

LEMMA MenuKeeps ==
  ASSUME WindowsInv, NEW g \in DOMAIN windowGroups, NEW target,
         MenuDetach(g) \/ MenuMerge(g, target)
  PROVE  WindowsInv'
<1>1. CASE MenuMerge(g, target)
  BY <1>1, MergingKeeps DEF MenuMerge
<1>2. CASE MenuDetach(g)
  <2> DEFINE w == local[g].menuTab
  <2>1. openWindows' = openWindows
    BY <1>2 DEF MenuDetach
  <2>2. CASE CanDetach(w) /\ detachTab(w)
    <3>1. /\ windowGroups' = Put(Leaves(windowGroups, windowGroupMap[w], w), nextSeq + 1,
                Alone(w, getMaxZIndex(Leaves(windowGroups, windowGroupMap[w], w)) + 1))
          /\ windowGroupMap' = [windowGroupMap EXCEPT ![w] = nextSeq + 1]
          /\ nextSeq' = nextSeq + 1
      BY <2>2 DEF detachTab
    <3> HIDE DEF w
    <3> QED BY <2>1, <2>2, <3>1, DetachingKeeps
  <2>3. CASE ~(CanDetach(w) /\ detachTab(w))
    <3>1. UNCHANGED <<openWindows, windowGroups, windowGroupMap, nextSeq>>
      BY <1>2, <2>1, <2>3 DEF MenuDetach
    <3> QED BY <3>1, GroupsUntouched
  <2> QED BY <2>2, <2>3
<1> QED BY <1>1, <1>2

LEMMA WindowsStepInv == WindowsInv /\ [WindowsNext]_winVars => WindowsInv'
<1> SUFFICES ASSUME WindowsInv, [WindowsNext]_winVars
             PROVE  WindowsInv'
  OBVIOUS
<1>1. CASE MouseMoves \/ MouseReleased \/ ReleaseLost \/ Escape \/ ClickElsewhere \/ LeaveAndReturn
  <2>1. UNCHANGED <<openWindows, windowGroups, windowGroupMap, nextSeq>>
    BY <1>1 DEF MouseMoves, MouseReleased, ReleaseLost, Escape, ClickElsewhere, LeaveAndReturn
  <2> QED BY <2>1, GroupsUntouched
<1>2. CASE \E w \in openWindows : CloseTab(w)
  BY <1>2, CloseTabKeeps
<1>3. ASSUME NEW g \in DOMAIN windowGroups,
             HeaderMouseDown(g) \/ ResizeMouseDown(g) \/ WindowMouseDown(g)
      PROVE  WindowsInv'
  BY <1>3, PressKeeps DEF HeaderMouseDown, ResizeMouseDown, WindowMouseDown
<1>4. ASSUME NEW g \in DOMAIN windowGroups, NEW w, TabMouseDown(g, w) \/ OpenMenu(g, w)
      PROVE  WindowsInv'
  <2>1. UNCHANGED <<openWindows, windowGroups, windowGroupMap, nextSeq>>
    BY <1>4 DEF TabMouseDown, OpenMenu
  <2> QED BY <2>1, GroupsUntouched
<1>5. CASE \E g \in DOMAIN windowGroups :
             \/ HeaderMouseDown(g) \/ ResizeMouseDown(g) \/ WindowMouseDown(g)
             \/ WindowMouseMove(g) \/ WindowMouseUp(g) \/ MenuDetach(g)
             \/ \E w \in openWindows : SetActiveTab(g, w) \/ TabMouseDown(g, w)
             \/ \E w \in openWindows \cup {None} : OpenMenu(g, w)
             \/ \E target \in DOMAIN windowGroups : MenuMerge(g, target)
  BY <1>3, <1>4, <1>5, WindowMouseMoveKeeps, WindowMouseUpKeeps, MenuKeeps, SetActiveTabKeeps
<1>6. CASE UNCHANGED winVars
  BY <1>6, GroupsUntouched DEF winVars
<1> QED BY <1>1, <1>2, <1>5, <1>6, OpenWindowKeeps DEF WindowsNext

(* Every group lists exactly the windows mapped to it.                         *)
THEOREM WindowsInvariant == WindowsSpec => []WindowsInv
BY WindowsInitInv, WindowsStepInv, PTL DEF WindowsSpec

LEMMA HomesAreSound == WindowsInv => EachWindowHasOneHome
<1> SUFFICES ASSUME WindowsInv
             PROVE  EachWindowHasOneHome
  OBVIOUS
<1>1. /\ openWindows = DOMAIN windowGroupMap
      /\ \A w \in DOMAIN windowGroupMap : windowGroupMap[w] \in DOMAIN windowGroups
      /\ \A g \in DOMAIN windowGroups : Holds(windowGroups[g], MappedTo(windowGroupMap, g))
      /\ \A g, h \in DOMAIN windowGroups : g # h => windowGroups[g].zIndex # windowGroups[h].zIndex
  BY DEF WindowsInv, Homes
<1>2. \A g \in DOMAIN windowGroups :
        /\ windowGroups[g].activeTabId \in MappedTo(windowGroupMap, g)
        /\ ToSet(Tabs(g)) = MappedTo(windowGroupMap, g)
        /\ DOMAIN Tabs(g) = 1..Len(Tabs(g)) /\ Once(Tabs(g))
  BY <1>1 DEF Holds, Group, Elements, ToSet, Tabs
<1>3. Range(windowGroupMap) = DOMAIN windowGroups
  BY <1>1, <1>2 DEF Range, MappedTo
<1>4. ASSUME NEW w \in openWindows, NEW g \in DOMAIN windowGroups
      PROVE  Cardinality({i \in DOMAIN Tabs(g) : Tabs(g)[i] = w}) =
                (IF windowGroupMap[w] = g THEN 1 ELSE 0)
  <2> DEFINE C == {i \in DOMAIN Tabs(g) : Tabs(g)[i] = w}
  <2>1. CASE windowGroupMap[w] = g
    <3>1. w \in ToSet(Tabs(g))
      BY <1>1, <1>2, <2>1 DEF MappedTo
    <3>2. PICK i \in DOMAIN Tabs(g) : Tabs(g)[i] = w
      BY <3>1 DEF ToSet
    <3>3. C = {i}
      BY <1>2, <3>2 DEF Once
    <3> HIDE DEF C
    <3> QED BY <2>1, <3>3, FS_Singleton DEF C
  <2>2. CASE windowGroupMap[w] # g
    <3>1. w \notin ToSet(Tabs(g))
      BY <1>2, <2>2 DEF MappedTo
    <3>2. C = {}
      BY <3>1 DEF ToSet
    <3> HIDE DEF C
    <3> QED BY <2>2, <3>2, FS_EmptySet DEF C
  <2> QED BY <2>1, <2>2
<1>5. \A g \in DOMAIN windowGroups :
        ToSet(Tabs(g)) \subseteq openWindows /\ windowGroups[g].activeTabId \in ToSet(Tabs(g))
  BY <1>1, <1>2 DEF MappedTo
<1> QED BY <1>1, <1>3, <1>4, <1>5 DEF EachWindowHasOneHome

(* Whatever gestures overlap and whichever lose their release, every window is *)
(* a tab of one group, once, and no two groups lie on one level.               *)
THEOREM WindowsHaveOneHome == WindowsSpec => []EachWindowHasOneHome
BY WindowsInvariant, HomesAreSound, PTL

------------------------------------------------------------------------------
(* The canvas.                                                                 *)
PartialFn(S, T) == UNION {[D -> T] : D \in SUBSET S}

TokenOrNone == CanvasTokens \cup {NoToken}
Sprite == [at : Places, committed : Places, dragging : BOOLEAN]
Layers ==
  [sprites : PartialFn(CanvasTokens, Sprite), outlines : PartialFn(CanvasTokens, Places),
   hoverId : TokenOrNone, hoverAt : Places \cup {Nowhere}, marquee : BOOLEAN]
Spot == [at : Places, here : BOOLEAN]
Board == PartialFn(CanvasTokens, Spot)
Modes == {"idle", "panning", "tokenDragging", "marqueeSelecting"}

Stores ==
  /\ board \in Board
  /\ selected \subseteq CanvasTokens /\ hovered \in TokenOrNone
Controller ==
  /\ stage \in {"unmounted", "creating", "starting", "ready"}
  /\ gesture \in [mode : Modes, pointer : Pointers \cup {Nowhere}, token : TokenOrNone,
                  started : BOOLEAN]
  /\ gesture.mode = "tokenDragging" => gesture.token \in CanvasTokens

(* The sprites of L are those of the board b; what is committed is where the   *)
(* board has it, and a sprite that is not in the hand is there.                *)
SpritesOf(L, b) ==
  /\ DOMAIN L.sprites = OnScene(b)
  /\ \A t \in DOMAIN L.sprites :
       /\ L.sprites[t].committed = b[t].at
       /\ ~L.sprites[t].dragging => L.sprites[t].at = b[t].at

(* The ghosts of L are those of the tokens in sel and of h, but some may miss. *)
GhostsOf(L, sel, h) ==
  /\ DOMAIN L.outlines \subseteq sel \cap DOMAIN L.sprites
  /\ L.hoverId \in {h, NoToken}
  /\ L.hoverAt # Nowhere => L.hoverId = h /\ h \in DOMAIN L.sprites

Drawn(L, b, sel, h) == L \in Layers /\ SpritesOf(L, b) /\ GhostsOf(L, sel, h)

Dragged(L) == {t \in DOMAIN L.sprites : L.sprites[t].dragging}

(* The inductive invariant: without a renderer nothing is drawn, and only the  *)
(* controller of a canvas that is ready has a gesture.                         *)
Scene == IF HasRenderer THEN Drawn(layers, board, selected, hovered) ELSE layers = NoLayers
Hand ==
  /\ gesture.mode # "idle" => stage = "ready"
  /\ Dragged(layers) # {} => gesture.mode = "tokenDragging" /\ gesture.started
  /\ Dragged(layers) \subseteq {gesture.token}
  /\ layers.marquee => gesture.mode = "marqueeSelecting"

CanvasInv == Stores /\ Controller /\ Scene /\ Hand

------------------------------------------------------------------------------
(* What the methods of the renderer keep.                                      *)

LEMMA PartialFnMembers ==
  ASSUME NEW S, NEW T, NEW f
  PROVE  f \in PartialFn(S, T) <=>
           /\ f = [x \in DOMAIN f |-> f[x]]
           /\ DOMAIN f \subseteq S
           /\ \A x \in DOMAIN f : f[x] \in T
BY DEF PartialFn

LEMMA BoardMembers ==
  ASSUME NEW b \in Board
  PROVE  /\ OnScene(b) \subseteq CanvasTokens /\ OnScene(b) \subseteq DOMAIN b
         /\ DOMAIN b \subseteq CanvasTokens
         /\ \A t \in DOMAIN b : b[t] \in Spot
         /\ \A t \in OnScene(b) : b[t].at \in Places
<1>1. DOMAIN b \subseteq CanvasTokens /\ \A t \in DOMAIN b : b[t] \in Spot
  BY PartialFnMembers DEF Board
<1> QED BY <1>1 DEF OnScene, Spot

(* A function with no arguments.                                               *)
LEMMA NothingIsPartial ==
  ASSUME NEW S, NEW T
  PROVE  <<>> \in PartialFn(S, T) /\ DOMAIN <<>> = {}
<1>1. DOMAIN <<>> = {} /\ <<>> = [x \in {} |-> x]
  OBVIOUS
<1>2. <<>> \in [{} -> T]
  BY <1>1
<1> QED BY <1>1, <1>2 DEF PartialFn

(* A drawing of the tokens keeps the ghosts whose tokens are still there, and  *)
(* no token comes into the hand.                                               *)
LEMMA UpdateTokensDraws ==
  ASSUME NEW L \in Layers, NEW b \in Board, NEW sel, NEW h,
         GhostsOf(L, sel, h)
  PROVE  /\ Drawn(updateTokens(L, b), b, sel, h)
         /\ Dragged(updateTokens(L, b)) \subseteq Dragged(L)
         /\ updateTokens(L, b).marquee = L.marquee
<1> DEFINE M == [L EXCEPT !.sprites =
                    [t \in OnScene(b) |-> IF t \in DOMAIN L.sprites
                                          THEN applyTokenData(L.sprites[t], b[t].at)
                                          ELSE createSprite(b[t].at)]]
           N == updateTokens(L, b)
<1>1. /\ L.sprites \in PartialFn(CanvasTokens, Sprite)
      /\ L.outlines \in PartialFn(CanvasTokens, Places)
      /\ L.hoverId \in TokenOrNone /\ L.hoverAt \in Places \cup {Nowhere}
  BY DEF Layers
<1>2. /\ OnScene(b) \subseteq CanvasTokens
      /\ \A t \in OnScene(b) : b[t].at \in Places
  BY BoardMembers
<1>3. \A t \in DOMAIN L.sprites : L.sprites[t] \in Sprite
  BY <1>1, PartialFnMembers
<1>4. \A t \in OnScene(b) :
        /\ M.sprites[t] \in Sprite
        /\ M.sprites[t].committed = b[t].at
        /\ ~M.sprites[t].dragging => M.sprites[t].at = b[t].at
        /\ M.sprites[t].dragging => t \in Dragged(L)
  BY <1>2, <1>3 DEF Layers, applyTokenData, createSprite, Sprite, Dragged
<1>5. /\ DOMAIN M.sprites = OnScene(b)
      /\ M.sprites \in PartialFn(CanvasTokens, Sprite)
      /\ M.outlines = L.outlines /\ M.hoverId = L.hoverId /\ M.hoverAt = L.hoverAt
      /\ M.marquee = L.marquee
  <2>1. DOMAIN M.sprites = OnScene(b) /\ M.sprites = [t \in DOMAIN M.sprites |-> M.sprites[t]]
    BY DEF Layers
  <2>2. M.sprites \in PartialFn(CanvasTokens, Sprite)
    BY <2>1, <1>2, <1>4, PartialFnMembers
  <2> QED BY <2>1, <2>2 DEF Layers
<1>6. M \in Layers
  BY <1>5 DEF Layers
<1> HIDE DEF M
<1>7. N = syncPositions(M)
  BY DEF updateTokens, M
<1>8. /\ N.sprites = M.sprites /\ N.marquee = M.marquee
      /\ N.outlines = [t \in DOMAIN M.outlines \cap DOMAIN M.sprites |-> M.sprites[t].at]
      /\ N.hoverId \in {M.hoverId, NoToken}
      /\ N.hoverAt # Nowhere => /\ N.hoverId = M.hoverId /\ M.hoverAt # Nowhere
                                /\ M.hoverId \in DOMAIN M.sprites
                                /\ N.hoverAt = M.sprites[M.hoverId].at
      /\ N = [sprites |-> N.sprites, outlines |-> N.outlines, hoverId |-> N.hoverId,
              hoverAt |-> N.hoverAt, marquee |-> N.marquee]
  BY <1>6, <1>7 DEF syncPositions, Layers
<1>9. N \in Layers
  <2>1. N.outlines \in PartialFn(CanvasTokens, Places)
    BY <1>2, <1>4, <1>5, <1>8, PartialFnMembers DEF Sprite
  <2>2. N.hoverAt \in Places \cup {Nowhere} /\ N.hoverId \in TokenOrNone
    BY <1>1, <1>4, <1>5, <1>8 DEF Sprite, TokenOrNone
  <2>3. N.sprites \in PartialFn(CanvasTokens, Sprite) /\ N.marquee \in BOOLEAN
    BY <1>5, <1>8 DEF Layers
  <2> HIDE DEF N
  <2> QED BY <1>8, <2>1, <2>2, <2>3 DEF Layers
<1> HIDE DEF N
<1>10. SpritesOf(N, b)
  BY <1>4, <1>5, <1>8 DEF SpritesOf
<1>11. GhostsOf(N, sel, h)
  BY <1>5, <1>8 DEF GhostsOf
<1>12. Dragged(N) \subseteq Dragged(L) /\ N.marquee = L.marquee
  BY <1>4, <1>5, <1>8 DEF Dragged
<1> QED BY <1>9, <1>10, <1>11, <1>12 DEF Drawn, N

LEMMA SetSelectionDraws ==
  ASSUME NEW L, NEW b \in Board, NEW sel, NEW h, NEW ids \in SUBSET CanvasTokens,
         Drawn(L, b, sel, h)
  PROVE  /\ Drawn(setSelection(L, ids), b, ids, h)
         /\ Dragged(setSelection(L, ids)) = Dragged(L)
         /\ setSelection(L, ids).marquee = L.marquee
<1> DEFINE N == setSelection(L, ids)
<1>1. /\ L.sprites \in PartialFn(CanvasTokens, Sprite)
      /\ L.outlines \in PartialFn(CanvasTokens, Places)
      /\ DOMAIN L.outlines \subseteq DOMAIN L.sprites
  BY DEF Drawn, Layers, GhostsOf
<1>2. /\ N.sprites = L.sprites /\ N.marquee = L.marquee
      /\ N.hoverId = L.hoverId /\ N.hoverAt = L.hoverAt
      /\ DOMAIN N.outlines = ids \cap DOMAIN L.sprites
      /\ N.outlines = [t \in DOMAIN N.outlines |-> N.outlines[t]]
      /\ \A t \in DOMAIN N.outlines : N.outlines[t] = L.sprites[t].at
      /\ N = [sprites |-> N.sprites, outlines |-> N.outlines, hoverId |-> N.hoverId,
              hoverAt |-> N.hoverAt, marquee |-> N.marquee]
  BY <1>1 DEF setSelection, Drawn, Layers
<1>3. \A t \in DOMAIN L.sprites : L.sprites[t] \in Sprite
  BY <1>1, PartialFnMembers
<1> HIDE DEF N
<1>4. N.outlines \in PartialFn(CanvasTokens, Places)
  BY <1>2, <1>3, PartialFnMembers DEF Sprite
<1>5. N \in Layers
  BY <1>2, <1>4 DEF Layers, Drawn
<1> QED BY <1>2, <1>5 DEF Drawn, SpritesOf, GhostsOf, Dragged, N

LEMMA SetHoverDraws ==
  ASSUME NEW L, NEW b \in Board, NEW sel, NEW h, NEW t \in TokenOrNone,
         Drawn(L, b, sel, h)
  PROVE  /\ Drawn(setHover(L, t), b, sel, t)
         /\ Dragged(setHover(L, t)) = Dragged(L)
         /\ setHover(L, t).marquee = L.marquee
<1>1. CASE t = L.hoverId
  BY <1>1 DEF setHover, Drawn, GhostsOf
<1>2. CASE t # L.hoverId
  <2>1. setHover(L, t) =
          [L EXCEPT !.hoverId = t,
                    !.hoverAt = IF t \in DOMAIN L.sprites THEN L.sprites[t].at ELSE Nowhere]
    BY <1>2 DEF setHover
  <2>2. \A u \in DOMAIN L.sprites : L.sprites[u] \in Sprite
    BY PartialFnMembers DEF Drawn, Layers
  <2>3. setHover(L, t) \in Layers
    BY <2>1, <2>2 DEF Drawn, Layers, Sprite
  <2>4. /\ setHover(L, t).sprites = L.sprites /\ setHover(L, t).outlines = L.outlines
        /\ setHover(L, t).marquee = L.marquee /\ setHover(L, t).hoverId = t
        /\ setHover(L, t).hoverAt # Nowhere => t \in DOMAIN L.sprites
    BY <2>1 DEF Drawn, Layers
  <2> QED BY <2>3, <2>4 DEF Drawn, SpritesOf, GhostsOf, Dragged
<1> QED BY <1>1, <1>2

(* A preview puts one sprite in the hand and leaves what is committed.         *)
LEMMA DragPreviewDraws ==
  ASSUME NEW L, NEW b \in Board, NEW sel, NEW h, NEW t, NEW place \in Places,
         Drawn(L, b, sel, h)
  PROVE  /\ Drawn(setTokenDragPreview(L, t, place), b, sel, h)
         /\ Dragged(setTokenDragPreview(L, t, place)) \subseteq Dragged(L) \cup {t}
         /\ setTokenDragPreview(L, t, place).marquee = L.marquee
<1> DEFINE N == setTokenDragPreview(L, t, place)
<1>1. CASE t \notin DOMAIN L.sprites
  BY <1>1 DEF setTokenDragPreview
<1>2. CASE t \in DOMAIN L.sprites
  <2>1. /\ L.sprites \in PartialFn(CanvasTokens, Sprite)
        /\ \A u \in DOMAIN L.sprites : L.sprites[u] \in Sprite
        /\ DOMAIN L.sprites \subseteq CanvasTokens
    BY PartialFnMembers DEF Drawn, Layers
  <2>2. /\ N.outlines = L.outlines /\ N.hoverId = L.hoverId /\ N.hoverAt = L.hoverAt
        /\ N.marquee = L.marquee
        /\ N.sprites = [[L.sprites EXCEPT ![t].at = place] EXCEPT ![t].dragging = TRUE]
        /\ N = [sprites |-> N.sprites, outlines |-> N.outlines, hoverId |-> N.hoverId,
                hoverAt |-> N.hoverAt, marquee |-> N.marquee]
    BY <1>2 DEF setTokenDragPreview, Drawn, Layers
  <2>. HIDE DEF N
  <2>3. /\ DOMAIN N.sprites = DOMAIN L.sprites
        /\ N.sprites = [u \in DOMAIN N.sprites |-> N.sprites[u]]
        /\ \A u \in DOMAIN L.sprites \ {t} : N.sprites[u] = L.sprites[u]
    BY <1>2, <2>1, <2>2
  <2>4. N.sprites[t] = [at |-> place, committed |-> L.sprites[t].committed, dragging |-> TRUE]
    BY <1>2, <2>1, <2>2 DEF Sprite
  <2>5. \A u \in DOMAIN N.sprites : N.sprites[u] \in Sprite
    <3>1. N.sprites[t] \in Sprite
      BY <1>2, <2>1, <2>4 DEF Sprite
    <3> QED BY <2>1, <2>3, <3>1
  <2>6. N.sprites \in PartialFn(CanvasTokens, Sprite)
    BY <2>1, <2>3, <2>5, PartialFnMembers
  <2>7. N \in Layers
    BY <2>2, <2>6 DEF Drawn, Layers
  <2>8. SpritesOf(N, b) /\ GhostsOf(N, sel, h) /\ Dragged(N) \subseteq Dragged(L) \cup {t}
    BY <1>2, <2>2, <2>3, <2>4 DEF Drawn, SpritesOf, GhostsOf, Dragged
  <2> QED BY <2>2, <2>7, <2>8 DEF Drawn, N
<1> QED BY <1>1, <1>2

(* Taking the preview away puts the sprite where the token is committed.       *)
LEMMA ClearPreviewDraws ==
  ASSUME NEW L, NEW b \in Board, NEW sel, NEW h, NEW t,
         Drawn(L, b, sel, h)
  PROVE  /\ Drawn(clearTokenDragPreview(L, t), b, sel, h)
         /\ Dragged(clearTokenDragPreview(L, t)) \subseteq Dragged(L) \ {t}
         /\ clearTokenDragPreview(L, t).marquee = L.marquee
<1> DEFINE N == clearTokenDragPreview(L, t)
<1>1. CASE t \notin DOMAIN L.sprites
  BY <1>1 DEF clearTokenDragPreview, Dragged
<1>2. CASE t \in DOMAIN L.sprites
  <2>1. /\ L.sprites \in PartialFn(CanvasTokens, Sprite)
        /\ \A u \in DOMAIN L.sprites : L.sprites[u] \in Sprite
        /\ DOMAIN L.sprites \subseteq CanvasTokens
    BY PartialFnMembers DEF Drawn, Layers
  <2>2. /\ N.outlines = L.outlines /\ N.hoverId = L.hoverId /\ N.hoverAt = L.hoverAt
        /\ N.marquee = L.marquee
        /\ N.sprites = [u \in DOMAIN L.sprites |->
              IF u = t THEN createSprite(L.sprites[t].committed) ELSE L.sprites[u]]
        /\ N = [sprites |-> N.sprites, outlines |-> N.outlines, hoverId |-> N.hoverId,
                hoverAt |-> N.hoverAt, marquee |-> N.marquee]
    BY <1>2, <2>1 DEF clearTokenDragPreview, Drawn, Layers
  <2> HIDE DEF N
  <2>3. \A u \in DOMAIN N.sprites : N.sprites[u] \in Sprite
    BY <1>2, <2>1, <2>2 DEF Sprite, createSprite
  <2>4. N.sprites \in PartialFn(CanvasTokens, Sprite)
    BY <2>1, <2>2, <2>3, PartialFnMembers
  <2>5. N \in Layers
    BY <2>2, <2>4 DEF Drawn, Layers
  <2>6. SpritesOf(N, b) /\ GhostsOf(N, sel, h) /\ Dragged(N) \subseteq Dragged(L) \ {t}
    BY <1>2, <2>2 DEF Drawn, SpritesOf, GhostsOf, Dragged, createSprite
  <2> QED BY <2>2, <2>5, <2>6 DEF Drawn, N
<1> QED BY <1>1, <1>2

LEMMA MarqueeRectDraws ==
  ASSUME NEW L, NEW b, NEW sel, NEW h, NEW drawn \in BOOLEAN, Drawn(L, b, sel, h)
  PROVE  /\ Drawn(setMarqueeRect(L, drawn), b, sel, h)
         /\ Dragged(setMarqueeRect(L, drawn)) = Dragged(L)
         /\ setMarqueeRect(L, drawn).marquee = drawn
BY DEF setMarqueeRect, Drawn, Layers, SpritesOf, GhostsOf, Dragged

(* The effects bring any drawing up to date, if they run for every store that  *)
(* was written to.                                                             *)
LEMMA EffectsDraw ==
  ASSUME NEW L, NEW written, board \in Board, board' \in Board,
         selected' \subseteq CanvasTokens, hovered' \in TokenOrNone,
         Drawn(L, board, selected, hovered),
         "tokens" \in written \/ board' = board,
         "selection" \in written \/ selected' = selected
  PROVE  /\ Drawn(Effects(L, written), board', selected', hovered')
         /\ Dragged(Effects(L, written)) \subseteq Dragged(L)
         /\ Effects(L, written).marquee = L.marquee
<1> DEFINE T == IF "tokens" \in written THEN updateTokens(L, board') ELSE L
           S == IF "selection" \in written THEN setSelection(T, selected') ELSE T
<1>1. /\ Drawn(T, board', selected, hovered)
      /\ Dragged(T) \subseteq Dragged(L) /\ T.marquee = L.marquee
  <2>1. L \in Layers /\ GhostsOf(L, selected, hovered)
    BY DEF Drawn
  <2> QED BY <2>1, UpdateTokensDraws
<1>2. Effects(L, written) = IF hovered' = hovered THEN S ELSE setHover(S, hovered')
  BY DEF Effects
<1> HIDE DEF T
<1>3. /\ Drawn(S, board', selected', hovered)
      /\ Dragged(S) \subseteq Dragged(L) /\ S.marquee = L.marquee
  BY <1>1, SetSelectionDraws
<1> HIDE DEF S
<1>4. CASE hovered' = hovered
  BY <1>2, <1>3, <1>4
<1>5. CASE hovered' # hovered
  <2>1. Effects(L, written) = setHover(S, hovered')
    BY <1>2, <1>5
  <2>2. \A x \in TokenOrNone : /\ Drawn(setHover(S, x), board', selected', x)
                               /\ Dragged(setHover(S, x)) = Dragged(S)
                               /\ setHover(S, x).marquee = S.marquee
    BY <1>3, SetHoverDraws
  <2> QED BY <2>1, <2>2, <1>3
<1> QED BY <1>4, <1>5

------------------------------------------------------------------------------
(* The steps. A step that ends with the effects of a canvas that is drawn.     *)

LEMMA FlushKeeps ==
  ASSUME CanvasInv, Stores', NEW L, NEW written, Flush(L, written), stage' = stage,
         HasRenderer => /\ Drawn(L, board, selected, hovered)
                        /\ "tokens" \in written \/ board' = board
                        /\ "selection" \in written \/ selected' = selected
  PROVE  /\ Scene'
         /\ HasRenderer => Dragged(layers') \subseteq Dragged(L) /\ layers'.marquee = L.marquee
         /\ ~HasRenderer => layers' = NoLayers
BY EffectsDraw DEF Flush, HasRenderer, CanvasInv, Stores, Scene

LEMMA NothingDrawn ==
  /\ NoLayers \in Layers /\ Dragged(NoLayers) = {} /\ ~NoLayers.marquee
  /\ \A sel, h : GhostsOf(NoLayers, sel, h)
<1>1. /\ <<>> \in PartialFn(CanvasTokens, Sprite) /\ <<>> \in PartialFn(CanvasTokens, Places)
      /\ DOMAIN <<>> = {}
  BY NothingIsPartial
<1> QED BY <1>1 DEF NoLayers, Layers, TokenOrNone, Dragged, GhostsOf

LEMMA CanvasInitInv == CanvasInit => CanvasInv
<1>1. <<>> \in Board
  BY NothingIsPartial DEF Board
<1> QED BY <1>1, NothingDrawn
        DEF CanvasInit, CanvasInv, Stores, Controller, Scene, Hand, HasRenderer, IdleGesture,
            TokenOrNone, Modes

(* What the steps below have in common: the board stays a board.               *)
LEMMA BoardStays ==
  ASSUME NEW b \in Board
  PROVE  /\ \A t \in DOMAIN b : [u \in DOMAIN b \ {t} |-> b[u]] \in Board
         /\ [t \in DOMAIN b |-> [b[t] EXCEPT !.here = ~@]] \in Board
         /\ \A t \in DOMAIN b, place \in Places : [b EXCEPT ![t].at = place] \in Board
<1>1. /\ DOMAIN b \subseteq CanvasTokens
      /\ \A t \in DOMAIN b : b[t] \in Spot
  BY BoardMembers
<1>3. ASSUME NEW t \in DOMAIN b
      PROVE  [u \in DOMAIN b \ {t} |-> b[u]] \in Board
  BY <1>1, PartialFnMembers DEF Board
<1>4. [t \in DOMAIN b |-> [b[t] EXCEPT !.here = ~@]] \in Board
  <2>1. \A t \in DOMAIN b : [b[t] EXCEPT !.here = ~@] \in Spot
    BY <1>1 DEF Spot
  <2> QED BY <1>1, <2>1, PartialFnMembers DEF Board
<1>5. ASSUME NEW t \in DOMAIN b, NEW place \in Places
      PROVE  [b EXCEPT ![t].at = place] \in Board
  <2> DEFINE c == [b EXCEPT ![t].at = place]
  <2>1. [b[t] EXCEPT !.at = place] \in Spot
    BY <1>1 DEF Spot
  <2>2. DOMAIN c = DOMAIN b /\ \A u \in DOMAIN b : c[u] = IF u = t THEN [b[t] EXCEPT !.at = place] ELSE b[u]
    BY <1>1 DEF Spot
  <2>3. c = [u \in DOMAIN c |-> c[u]]
    OBVIOUS
  <2> HIDE DEF c
  <2>4. c \in PartialFn(CanvasTokens, Spot)
    BY <1>1, <2>1, <2>2, <2>3, PartialFnMembers
  <2> QED BY <2>4 DEF Board, c
<1> QED BY <1>3, <1>4, <1>5

(* On a canvas that is ready the layers are drawn before the step.             *)
LEMMA ReadyDrawn ==
  ASSUME CanvasInv, stage = "ready"
  PROVE  HasRenderer /\ Drawn(layers, board, selected, hovered)
BY DEF CanvasInv, Scene, HasRenderer

LEMMA HitsAreTokens ==
  ASSUME CanvasInv, stage = "ready"
  PROVE  DOMAIN layers.sprites \subseteq CanvasTokens
<1>1. layers.sprites \in PartialFn(CanvasTokens, Sprite)
  BY ReadyDrawn DEF Drawn, Layers
<1> QED BY <1>1, PartialFnMembers

(* Mounting and leaving the page.                                              *)
LEMMA MountingKeeps ==
  ASSUME CanvasInv, MountCanvas \/ RendererCreated \/ RendererReady \/ UnmountCanvas \/ AbandonedReady
  PROVE  CanvasInv'
<1> USE DEF CanvasInv, Stores, Controller
<1>1. CASE MountCanvas
  BY <1>1 DEF MountCanvas, Scene, Hand, HasRenderer
<1>2. CASE RendererCreated
  <2> DEFINE T == updateTokens(NoLayers, board)
             S == setSelection(T, selected)
  <2>1. /\ Drawn(T, board, selected, hovered) /\ Dragged(T) = {} /\ ~T.marquee
    BY NothingDrawn, UpdateTokensDraws
  <2>2. layers' = setHover(S, hovered)
    BY <1>2 DEF RendererCreated
  <2> HIDE DEF T
  <2>3. /\ Drawn(S, board, selected, hovered) /\ Dragged(S) = {} /\ ~S.marquee
    BY <2>1, SetSelectionDraws
  <2> HIDE DEF S
  <2>4. Drawn(layers', board, selected, hovered) /\ Dragged(layers') = {} /\ ~layers'.marquee
    BY <2>2, <2>3, SetHoverDraws
  <2> QED BY <1>2, <2>4 DEF RendererCreated, Scene, Hand, HasRenderer
<1>3. CASE RendererReady
  BY <1>3 DEF RendererReady, Scene, Hand, HasRenderer
<1>4. CASE UnmountCanvas
  BY <1>4, NothingDrawn
     DEF UnmountCanvas, Scene, Hand, HasRenderer, IdleGesture, Modes, TokenOrNone
<1>5. CASE AbandonedReady
  BY <1>5 DEF AbandonedReady, Scene, Hand, HasRenderer
<1> QED BY <1>1, <1>2, <1>3, <1>4, <1>5

(* A pointer goes down or hovers over an idle canvas: nothing is in the hand,  *)
(* and nothing comes into it.                                                  *)
LEMMA IdleHand ==
  ASSUME CanvasInv, stage = "ready", gesture.mode = "idle"
  PROVE  Dragged(layers) = {} /\ ~layers.marquee
BY DEF CanvasInv, Hand, Scene, HasRenderer, Drawn, Layers

LEMMA PointerDownKeeps ==
  ASSUME CanvasInv, NEW p \in Pointers, PointerDown(p)
  PROVE  CanvasInv'
<1>1. CASE MiddleDown(p)
  <2>1. Stores' /\ Controller' /\ gesture'.mode = "panning"
    BY <1>1 DEF MiddleDown, Begins, CanvasInv, Stores, Controller, Modes, TokenOrNone
  <2>2. Scene' /\ Dragged(layers') = {} /\ ~layers'.marquee
    BY <1>1, <2>1, ReadyDrawn, IdleHand, FlushKeeps DEF MiddleDown
  <2> QED BY <1>1, <2>1, <2>2 DEF MiddleDown, CanvasInv, Hand
<1>2. ASSUME NEW hit \in DOMAIN layers.sprites, LeftDownOnToken(p, hit)
      PROVE  CanvasInv'
  <2>1. Stores' /\ Controller' /\ gesture'.mode = "tokenDragging"
    BY <1>2, HitsAreTokens
       DEF LeftDownOnToken, Begins, CanvasInv, Stores, Controller, Modes, TokenOrNone
  <2>2. Scene' /\ Dragged(layers') = {} /\ ~layers'.marquee
    BY <1>2, <2>1, ReadyDrawn, IdleHand, FlushKeeps DEF LeftDownOnToken
  <2> QED BY <1>2, <2>1, <2>2 DEF LeftDownOnToken, CanvasInv, Hand
<1>3. ASSUME NEW hit \in DOMAIN layers.sprites, ShiftDownOnToken(hit)
      PROVE  CanvasInv'
  <2>1. Stores' /\ Controller'
    BY <1>3, HitsAreTokens DEF ShiftDownOnToken, CanvasInv, Stores, Controller
  <2>2. selected' = selected \/ "selection" \in (IF hit \in selected THEN {} ELSE {"selection"})
    BY <1>3 DEF ShiftDownOnToken
  <2>3. Scene' /\ Dragged(layers') = {} /\ ~layers'.marquee
    BY <1>3, <2>1, <2>2, ReadyDrawn, IdleHand, FlushKeeps DEF ShiftDownOnToken
  <2> QED BY <1>3, <2>1, <2>3 DEF ShiftDownOnToken, CanvasInv, Hand
<1>4. CASE LeftDownOnCanvas(p)
  <2>1. Stores' /\ Controller'
    BY <1>4 DEF LeftDownOnCanvas, Begins, CanvasInv, Stores, Controller, Modes, TokenOrNone
  <2>2. Scene' /\ Dragged(layers') = {} /\ ~layers'.marquee
    BY <1>4, IdleHand DEF LeftDownOnCanvas, CanvasInv, Scene, HasRenderer
  <2> QED BY <1>4, <2>1, <2>2 DEF LeftDownOnCanvas, CanvasInv, Hand
<1> QED BY <1>1, <1>2, <1>3, <1>4 DEF PointerDown

LEMMA HoverKeeps ==
  ASSUME CanvasInv, NEW hit \in hitTestToken, HoverMoves(hit)
  PROVE  CanvasInv'
<1>1. Stores' /\ Controller'
  BY HitsAreTokens DEF HoverMoves, hitTestToken, CanvasInv, Stores, Controller, TokenOrNone
<1>2. Scene' /\ Dragged(layers') = {} /\ ~layers'.marquee
  BY <1>1, ReadyDrawn, IdleHand, FlushKeeps DEF HoverMoves
<1> QED BY <1>1, <1>2 DEF HoverMoves, CanvasInv, Hand

(* A gesture goes on.                                                          *)
LEMMA InIsReady ==
  ASSUME CanvasInv, gesture.mode # "idle"
  PROVE  stage = "ready"
BY DEF CanvasInv, Hand

LEMMA GestureGoesOn ==
  ASSUME CanvasInv, NEW p \in Pointers,
         \/ \E place \in Places : DragMoves(p, place)
         \/ \E drawn \in BOOLEAN : MarqueeMoves(p, drawn)
  PROVE  CanvasInv'
<1>1. ASSUME NEW place \in Places, DragMoves(p, place)
      PROVE  CanvasInv'
  <2>1. stage = "ready" /\ Drawn(layers, board, selected, hovered)
    BY <1>1, InIsReady, ReadyDrawn DEF DragMoves, In
  <2>2. /\ Drawn(layers', board, selected, hovered)
        /\ Dragged(layers') \subseteq Dragged(layers) \cup {gesture.token}
        /\ layers'.marquee = layers.marquee
    BY <1>1, <2>1, DragPreviewDraws DEF DragMoves, CanvasInv, Stores
  <2>3. Stores' /\ Controller' /\ Scene'
    BY <1>1, <2>1, <2>2 DEF DragMoves, CanvasInv, Stores, Controller, Scene, HasRenderer
  <2>4. /\ gesture'.token = gesture.token /\ gesture'.started
        /\ gesture'.mode = "tokenDragging" /\ gesture.mode = "tokenDragging"
    BY <1>1 DEF DragMoves, In, CanvasInv, Controller
  <2> QED BY <1>1, <2>1, <2>2, <2>3, <2>4 DEF DragMoves, CanvasInv, Hand
<1>2. ASSUME NEW drawn \in BOOLEAN, MarqueeMoves(p, drawn)
      PROVE  CanvasInv'
  <2>1. stage = "ready" /\ Drawn(layers, board, selected, hovered)
    BY <1>2, InIsReady, ReadyDrawn DEF MarqueeMoves, In
  <2>2. Drawn(layers', board, selected, hovered) /\ Dragged(layers') = Dragged(layers)
    BY <1>2, <2>1, MarqueeRectDraws DEF MarqueeMoves
  <2>3. Stores' /\ Controller' /\ Scene'
    BY <1>2, <2>1, <2>2 DEF MarqueeMoves, CanvasInv, Stores, Controller, Scene, HasRenderer
  <2> QED BY <1>2, <2>1, <2>2, <2>3 DEF MarqueeMoves, In, CanvasInv, Hand
<1> QED BY <1>1, <1>2

(* A gesture ends: the hand is empty and no rectangle is left.                 *)
LEMMA EndedIsClean ==
  ASSUME CanvasInv, Stores', NEW L, NEW written, Flush(L, written), stage' = stage,
         stage = "ready", gesture' = IdleGesture,
         Drawn(L, board, selected, hovered), Dragged(L) = {}, ~L.marquee,
         "tokens" \in written \/ board' = board,
         "selection" \in written \/ selected' = selected
  PROVE  CanvasInv'
<1>1. Scene' /\ Dragged(layers') = {} /\ ~layers'.marquee
  BY FlushKeeps DEF HasRenderer
<1>2. Controller'
  BY DEF CanvasInv, Controller, IdleGesture, Modes, TokenOrNone
<1> QED BY <1>1, <1>2 DEF CanvasInv, Hand, IdleGesture

LEMMA GestureEnds ==
  ASSUME CanvasInv, NEW p \in Pointers,
         \/ PanUp(p) \/ ClickToken(p) \/ PointerCancel(p)
         \/ \E place \in Places : DropToken(p, place)
         \/ \E area \in SUBSET Places : MarqueeUp(p, area)
  PROVE  CanvasInv'
<1>0. /\ gesture.mode # "idle" /\ stage = "ready" /\ HasRenderer
      /\ Drawn(layers, board, selected, hovered) /\ layers \in Layers
      /\ board \in Board
  BY InIsReady, ReadyDrawn
     DEF PanUp, ClickToken, PointerCancel, DropToken, MarqueeUp, In, Drawn, CanvasInv, Stores
<1>1. CASE PanUp(p)
  <2>1. Dragged(layers) = {} /\ ~layers.marquee
    BY <1>0, <1>1 DEF PanUp, In, CanvasInv, Hand, Layers
  <2>2. Stores' /\ Controller' /\ Scene'
    BY <1>1 DEF PanUp, CanvasInv, Stores, Controller, Scene, HasRenderer, IdleGesture, Modes, TokenOrNone
  <2> QED BY <1>1, <2>1, <2>2 DEF PanUp, CanvasInv, Hand, IdleGesture
<1>2. CASE ClickToken(p)
  <2>1. Dragged(layers) = {} /\ ~layers.marquee
    BY <1>0, <1>2 DEF ClickToken, In, CanvasInv, Hand, Layers
  <2>2. Stores'
    BY <1>2 DEF ClickToken, In, CanvasInv, Stores, Controller
  <2> QED BY <1>0, <1>2, <2>1, <2>2, EndedIsClean DEF ClickToken
<1>3. CASE PointerCancel(p)
  <2> DEFINE L == IF gesture.mode = "marqueeSelecting" THEN setMarqueeRect(layers, FALSE)
                  ELSE IF gesture.started THEN clearTokenDragPreview(layers, gesture.token)
                  ELSE layers
  <2>1. Drawn(L, board, selected, hovered) /\ Dragged(L) = {} /\ ~L.marquee
    <3>1. CASE gesture.mode = "marqueeSelecting"
      BY <1>0, <3>1, MarqueeRectDraws DEF CanvasInv, Hand
    <3>2. CASE gesture.mode # "marqueeSelecting" /\ gesture.started
      <4>1. Dragged(layers) \subseteq {gesture.token} /\ ~layers.marquee
        BY <3>2 DEF CanvasInv, Hand
      <4>2. layers.marquee \in BOOLEAN
        BY <1>0 DEF Layers
      <4> QED BY <1>0, <3>2, <4>1, <4>2, ClearPreviewDraws
    <3>3. CASE gesture.mode # "marqueeSelecting" /\ ~gesture.started
      BY <1>0, <3>3 DEF CanvasInv, Hand, Layers
    <3> QED BY <3>1, <3>2, <3>3
  <2>2. Stores'
    BY <1>3 DEF PointerCancel, CanvasInv, Stores, TokenOrNone
  <2>3. Flush(L, {}) /\ stage' = stage /\ gesture' = IdleGesture /\ board' = board /\ selected' = selected
    BY <1>3 DEF PointerCancel
  <2> HIDE DEF L
  <2> QED BY <1>0, <2>1, <2>2, <2>3, EndedIsClean
<1>4. ASSUME NEW place \in Places, DropToken(p, place)
      PROVE  CanvasInv'
  <2> DEFINE L == clearTokenDragPreview(layers, gesture.token)
             W == IF gesture.token \in DOMAIN board THEN {"tokens"} ELSE {}
  <2>1. Drawn(L, board, selected, hovered) /\ Dragged(L) = {} /\ ~L.marquee
    BY <1>0, <1>4, ClearPreviewDraws, ZenonT(30) DEF DropToken, In, CanvasInv, Hand, Layers
  <2>2. Stores' /\ ("tokens" \in W \/ board' = board) /\ selected' = selected
    BY <1>0, <1>4, BoardStays DEF DropToken, CanvasInv, Stores
  <2>3. Flush(L, W) /\ stage' = stage /\ gesture' = IdleGesture
    BY <1>4 DEF DropToken
  <2> HIDE DEF L, W
  <2> QED BY <1>0, <2>1, <2>2, <2>3, EndedIsClean
<1>5. ASSUME NEW area \in SUBSET Places, MarqueeUp(p, area)
      PROVE  CanvasInv'
  <2> DEFINE L == setMarqueeRect(layers, FALSE)
  <2>1. Drawn(L, board, selected, hovered) /\ Dragged(L) = {} /\ ~L.marquee
    BY <1>0, <1>5, MarqueeRectDraws DEF MarqueeUp, In, CanvasInv, Hand
  <2>2. Stores'
    BY <1>0, <1>5, BoardMembers DEF MarqueeUp, CanvasInv, Stores
  <2>3. /\ Flush(L, {"selection"}) /\ stage' = stage /\ gesture' = IdleGesture
        /\ board' = board
    BY <1>5 DEF MarqueeUp
  <2> HIDE DEF L
  <2> QED BY <1>0, <2>1, <2>2, <2>3, EndedIsClean
<1> QED BY <1>1, <1>2, <1>3, <1>4, <1>5

(* The keyboard and the server, whatever the controller is doing.              *)
LEMMA OthersKeep ==
  ASSUME CanvasInv, Deselect \/ BoardChanges
  PROVE  CanvasInv'
<1>1. ASSUME NEW written, Stores', Flush(layers, written), stage' = stage, gesture' = gesture,
             "tokens" \in written \/ board' = board,
             "selection" \in written \/ selected' = selected
      PROVE  CanvasInv'
  <2>1. /\ Scene'
        /\ HasRenderer => Dragged(layers') \subseteq Dragged(layers)
                          /\ layers'.marquee = layers.marquee
        /\ ~HasRenderer => layers' = NoLayers
    BY <1>1, FlushKeeps DEF CanvasInv, Scene
  <2>2. Controller'
    BY <1>1 DEF CanvasInv, Controller
  <2> QED BY <1>1, <2>1, <2>2, NothingDrawn DEF CanvasInv, Hand
<1>2. CASE Deselect
  <2>1. Stores'
    BY <1>2 DEF Deselect, CanvasInv, Stores
  <2> QED BY <1>1, <1>2, <2>1 DEF Deselect
<1>3. ASSUME NEW b \in Board, TokensWritten(b)
      PROVE  CanvasInv'
  <2>1. Stores'
    BY <1>3 DEF TokensWritten, CanvasInv, Stores
  <2> QED BY <1>1, <1>3, <2>1 DEF TokensWritten
<1>4. CASE BoardChanges
  <2>1. board \in Board
    BY DEF CanvasInv, Stores
  <2>2. CASE \E t \in CanvasTokens, place \in Places, here \in BOOLEAN :
               TokensWritten([u \in DOMAIN board \cup {t} |->
                                IF u = t THEN [at |-> place, here |-> here] ELSE board[u]])
    <3>1. PICK t \in CanvasTokens, place \in Places, here \in BOOLEAN :
            TokensWritten([u \in DOMAIN board \cup {t} |->
                             IF u = t THEN [at |-> place, here |-> here] ELSE board[u]])
      BY <2>2
    <3>2. [u \in DOMAIN board \cup {t} |->
             IF u = t THEN [at |-> place, here |-> here] ELSE board[u]] \in Board
      <4>1. [at |-> place, here |-> here] \in Spot
        BY <3>1 DEF Spot
      <4>2. DOMAIN board \subseteq CanvasTokens /\ \A u \in DOMAIN board : board[u] \in Spot
        BY <2>1, BoardMembers
      <4> QED BY <3>1, <4>1, <4>2, PartialFnMembers DEF Board
    <3> QED BY <3>1, <3>2, <1>3
  <2>3. CASE \E t \in DOMAIN board : TokensWritten([u \in DOMAIN board \ {t} |-> board[u]])
    <3>1. PICK t \in DOMAIN board : TokensWritten([u \in DOMAIN board \ {t} |-> board[u]])
      BY <2>3
    <3>2. [u \in DOMAIN board \ {t} |-> board[u]] \in Board
      BY <2>1, BoardStays
    <3> QED BY <3>1, <3>2, <1>3
  <2>4. CASE TokensWritten([t \in DOMAIN board |-> [board[t] EXCEPT !.here = ~@]])
    <3>1. [t \in DOMAIN board |-> [board[t] EXCEPT !.here = ~@]] \in Board
      BY <2>1, BoardStays
    <3> QED BY <2>4, <3>1, <1>3
  <2> QED BY <1>4, <2>2, <2>3, <2>4 DEF BoardChanges
<1> QED BY <1>2, <1>4

LEMMA CanvasStepInv == CanvasInv /\ [CanvasNext]_canvasVars => CanvasInv'
<1> SUFFICES ASSUME CanvasInv, [CanvasNext]_canvasVars
             PROVE  CanvasInv'
  OBVIOUS
<1>1. CASE CanvasNext
  BY <1>1, MountingKeeps, PointerDownKeeps, HoverKeeps, GestureGoesOn, GestureEnds, OthersKeep
     DEF CanvasNext
<1>2. CASE UNCHANGED canvasVars
  BY <1>2 DEF canvasVars, CanvasInv, Stores, Controller, Scene, Hand, HasRenderer
<1> QED BY <1>1, <1>2

(* The layers of a renderer are those of the stores, and what is in the hand   *)
(* belongs to the gesture.                                                     *)
THEOREM CanvasInvariant == CanvasSpec => []CanvasInv
BY CanvasInitInv, CanvasStepInv, PTL DEF CanvasSpec

LEMMA CanvasIsSound == CanvasInv => CanvasShowsStores /\ GesturesCleanUp
BY DEF CanvasInv, Scene, Hand, CanvasShowsStores, GesturesCleanUp, Drawn, SpritesOf, GhostsOf, Dragged

(* The canvas is what the stores say, whatever pointers, server and page do,   *)
(* for any number of tokens, places and pointers.                              *)
THEOREM CanvasShowsStoresAlways == CanvasSpec => []CanvasShowsStores
BY CanvasInvariant, CanvasIsSound, PTL

(* No gesture leaves a sprite out of its place or a rectangle behind.          *)
THEOREM GesturesCleanUpAlways == CanvasSpec => []GesturesCleanUp
BY CanvasInvariant, CanvasIsSound, PTL

------------------------------------------------------------------------------
(* The admin page.                                                             *)
Kinds == SliceKinds \cup ListKinds \cup {"deleteCampaign", "load"}

(* The seats of the server belong to its campaigns and the invites to its      *)
(* seats.                                                                      *)
ServerFields == {"campaigns", "madeCampaigns", "seats", "madeSeats", "invites"}
ServerRow(s) == DOMAIN s = ServerFields /\ s = [f \in DOMAIN s |-> s[f]]
ServerOK ==
  /\ ServerRow(srv)
  /\ \A s \in srv.seats : s.camp \in srv.campaigns
  /\ \A i \in srv.invites : i.seat \in srv.seats

OpFields == {"id", "kind", "camp", "seat", "own", "stage", "oldSeatIds", "list", "want",
             "gotSeats", "gotInvites"}
OpRow(o) == DOMAIN o = OpFields /\ o = [f \in DOMAIN o |-> o[f]]

(* An operation on one campaign asks for that one only, and the seats it got   *)
(* under a campaign are of that campaign.                                      *)
OpOK(o) ==
  /\ OpRow(o) /\ o.kind \in Kinds /\ o.own \in BOOLEAN
  /\ o.stage \in {"sent", "served", "list", "listed", "refresh"}
  /\ o.kind # "load" => o.want = {o.camp}
  /\ o.kind \in SliceKinds \ {"createSeat"} => o.seat.camp = o.camp
  /\ \A c \in DOMAIN o.gotSeats : \A s \in o.gotSeats[c] : s.camp = c

Ones(b) == b = SetToBag(BagToSet(b))

TreeOK ==
  /\ Root("settings") \in DOMAIN nodes
  /\ \A id \in DOMAIN nodes : nodes[id] \subseteq DOMAIN nodes
  /\ selectedId \in DOMAIN nodes /\ expandedIds \subseteq DOMAIN nodes

OpsOK == \A o \in ops : OpOK(o)

------------------------------------------------------------------------------
(* Bags that have every element once are sets.                                 *)
LEMMA SetBag ==
  ASSUME NEW S
  PROVE  /\ BagToSet(SetToBag(S)) = S /\ Ones(SetToBag(S))
         /\ \A x \in S : SetToBag(S)[x] = 1
BY DEF SetToBag, BagToSet, Ones

LEMMA RestrictedBag ==
  ASSUME NEW b, Ones(b), NEW T, T \subseteq BagToSet(b)
  PROVE  [x \in T |-> b[x]] = SetToBag(T)
BY DEF SetToBag, BagToSet, Ones

LEMMA DisjointBags ==
  ASSUME NEW S, NEW T, S \cap T = {}
  PROVE  SetToBag(S) (+) SetToBag(T) = SetToBag(S \cup T)
BY DEF SetToBag, BagToSet, (+)

LEMMA TreeClosed ==
  ASSUME NEW camps, NEW sts, NEW tree, tree = Tree(camps, sts)
  PROVE  /\ Root("settings") \in DOMAIN tree
         /\ \A id \in DOMAIN tree : tree[id] \subseteq DOMAIN tree
<1> DEFINE children == [id \in {Root("campaigns")} \cup {CampaignNode(c) : c \in camps} |->
                     IF id.kind = "campaigns" THEN {CampaignNode(c) : c \in camps}
                     ELSE {s \in BagToSet(sts) : s.camp = id.camp}]
           D == DOMAIN children \cup BagToSet(sts) \cup {Root("settings"), Root("accounts")}
<1>1. tree = [id \in D |-> IF id \in DOMAIN children THEN children[id] ELSE {}]
  BY DEF Tree
<1>2. \A id \in DOMAIN children : children[id] \subseteq D
  OBVIOUS
<1> HIDE DEF children
<1> QED BY <1>1, <1>2

(* Rebuilding and navigating.                                                  *)
LEMMA AncestorsAreNodes ==
  ASSUME NEW id, NEW nds
  PROVE  Ancestors(id, nds) \subseteq DOMAIN nds
BY DEF Ancestors

LEMMA RebuildTree ==
  ASSUME TreeOK, _rebuildTree
  PROVE  TreeOK'
<1>1. /\ Root("settings") \in DOMAIN nodes'
      /\ \A id \in DOMAIN nodes' : nodes'[id] \subseteq DOMAIN nodes'
  BY TreeClosed DEF _rebuildTree
<1> QED BY <1>1 DEF _rebuildTree, TreeOK, StillSelected

LEMMA RebuildThenNavigate ==
  ASSUME TreeOK, NEW id, rebuildThenNavigateTo(id)
  PROVE  TreeOK'
<1>1. /\ Root("settings") \in DOMAIN nodes'
      /\ \A x \in DOMAIN nodes' : nodes'[x] \subseteq DOMAIN nodes'
  BY TreeClosed DEF rebuildThenNavigateTo
<1>2. Ancestors(id, nodes') \subseteq DOMAIN nodes'
  BY AncestorsAreNodes
<1> QED BY <1>1, <1>2 DEF rebuildThenNavigateTo, TreeOK, StillSelected

LEMMA NavigateTo ==
  ASSUME TreeOK, NEW id, NEW expanded, expanded \subseteq DOMAIN nodes, navigateTo(id, expanded)
  PROVE  TreeOK'
<1>1. Ancestors(id, nodes) \subseteq DOMAIN nodes
  BY AncestorsAreNodes
<1> QED BY <1>1 DEF navigateTo, TreeOK

------------------------------------------------------------------------------
(* The operations in flight.                                                   *)
SameBut(o, p) == OpRow(p) /\ p = [o EXCEPT !.own = p.own] /\ p.own \in BOOLEAN
                 /\ (o.kind = "load" => p.own = o.own)

LEMMA PanelsOps ==
  ASSUME NEW F, NEW flag, Panels(F, flag), \A o \in F : OpRow(o) /\ o.own \in BOOLEAN
  PROVE  \A p \in ops' : \E o \in F : SameBut(o, p)
<1>1. CASE ops' = F
  BY <1>1 DEF SameBut, OpRow
<1>2. CASE ops' = {[o EXCEPT !.own = o.own /\ o.kind = "load"] : o \in F}
  <2> TAKE p \in ops'
  <2>1. PICK o \in F : p = [o EXCEPT !.own = o.own /\ o.kind = "load"]
    BY <1>2
  <2>2. OpRow(o) /\ o.own \in BOOLEAN
    OBVIOUS
  <2>4. p.own = (o.own /\ o.kind = "load") /\ p = [o EXCEPT !.own = p.own] /\ OpRow(p)
    BY <2>1, <2>2 DEF OpRow, OpFields
  <2>5. p.own \in BOOLEAN /\ (o.kind = "load" => p.own = o.own)
    BY <2>2, <2>4
  <2> QED BY <2>4, <2>5 DEF SameBut
<1> QED BY <1>1, <1>2 DEF Panels

LEMMA SameButOK ==
  ASSUME NEW o, NEW p, OpRow(o), SameBut(o, p)
  PROVE  /\ p.kind = o.kind /\ p.camp = o.camp /\ p.seat = o.seat /\ p.stage = o.stage
         /\ p.oldSeatIds = o.oldSeatIds /\ p.list = o.list /\ p.want = o.want
         /\ p.gotSeats = o.gotSeats /\ p.gotInvites = o.gotInvites
         /\ OpOK(o) => OpOK(p)
<1>1. /\ p.kind = o.kind /\ p.camp = o.camp /\ p.seat = o.seat /\ p.stage = o.stage
      /\ p.oldSeatIds = o.oldSeatIds /\ p.list = o.list /\ p.want = o.want
      /\ p.gotSeats = o.gotSeats /\ p.gotInvites = o.gotInvites
  BY DEF SameBut, OpRow, OpFields
<1> QED BY <1>1 DEF OpOK, SameBut

(* An operation is replaced by what it has become; the others wait.            *)
LEMMA ReplaceKeeps ==
  ASSUME OpsOK, NEW o \in ops, NEW p, OpOK(o) => OpOK(p), ops' = Replace(o, p)
  PROVE  OpsOK'
<1>1. \A q \in ops' : OpOK(q)
  BY DEF OpsOK, Replace
<1> QED BY <1>1 DEF OpsOK

LEMMA PanelsKeep ==
  ASSUME OpsOK, NEW F, F \subseteq ops, NEW flag, Panels(F, flag)
  PROVE  OpsOK'
<1>1. \A p \in ops' : OpOK(p)
  <2> TAKE p \in ops'
  <2>1. \A o \in F : OpRow(o) /\ o.own \in BOOLEAN
    BY DEF OpsOK, OpOK
  <2>2. PICK o \in F : SameBut(o, p)
    BY <2>1, PanelsOps
  <2> QED BY <2>1, <2>2, SameButOK DEF OpsOK
<1> QED BY <1>1 DEF OpsOK

StartsAs(o, kind, c, s) ==
  /\ OpRow(o) /\ o.kind = kind /\ o.camp = c /\ o.seat = s /\ o.own = TRUE
  /\ o.stage = "sent" /\ o.want = {c}
  /\ o.gotSeats = << >> /\ o.gotInvites = << >> /\ DOMAIN o.gotSeats = {} /\ DOMAIN o.gotInvites = {}

LEMMA NewOp ==
  ASSUME NEW kind, NEW c, NEW s
  PROVE  StartsAs(Op(kind, c, s), kind, c, s)
<1> DEFINE o == Op(kind, c, s)
<1>1. OpRow(o)
  BY DEF Op, OpRow, OpFields
<1>2. /\ o.kind = kind /\ o.camp = c /\ o.seat = s /\ o.own = TRUE
      /\ o.stage = "sent" /\ o.want = {c} /\ o.gotSeats = << >> /\ o.gotInvites = << >>
  BY DEF Op
<1>3. DOMAIN << >> = {}
  OBVIOUS
<1> HIDE DEF o
<1> QED BY <1>1, <1>2, <1>3 DEF StartsAs, o

------------------------------------------------------------------------------
(* Every step keeps the tree closed and the operations well formed.            *)
TreeInv == OpsOK /\ TreeOK /\ Ones(seats)

LEMMA StartsKeepsOps ==
  ASSUME OpsOK, NEW kind \in Kinds \ {"load"}, NEW c, NEW s, Starts(kind, c, s),
         kind \in SliceKinds \ {"createSeat"} => s.camp = c
  PROVE  OpsOK'
<1>1. OpOK(Op(kind, c, s))
  <2> DEFINE o == Op(kind, c, s)
  <2>1. StartsAs(o, kind, c, s)
    BY NewOp
  <2> HIDE DEF o
  <2>2. OpOK(o)
    BY <2>1 DEF StartsAs, OpOK
  <2> QED BY <2>2 DEF o
<1> QED BY <1>1 DEF Starts, OpsOK

LEMMA StartsLoadKeepsOps ==
  ASSUME OpsOK, NEW visible, StartsLoad(visible)
  PROVE  OpsOK'
<1> DEFINE old(o) == [o EXCEPT !.own = FALSE]
           p == Op("load", "", Root("settings"))
           new == [p EXCEPT !.stage = "list", !.want = {}]
<1>1. ops' = {old(o) : o \in ops} \cup {new}
  BY DEF StartsLoad
<1>2. ASSUME NEW o, OpOK(o)
      PROVE  OpOK(old(o))
  <2>1. OpRow(old(o)) /\ \A f \in OpFields \ {"own"} : old(o)[f] = o[f]
    BY <1>2 DEF OpOK, OpRow, OpFields
  <2>2. old(o).own = FALSE
    BY <1>2 DEF OpOK, OpRow, OpFields
  <2> HIDE DEF old
  <2> QED BY <1>2, <2>1, <2>2 DEF OpOK, OpFields
<1>3. OpOK(new)
  <2>1. StartsAs(p, "load", "", Root("settings"))
    BY NewOp
  <2> HIDE DEF p
  <2>2. /\ OpRow(new) /\ new.kind = "load" /\ new.own = TRUE /\ DOMAIN new.gotSeats = {}
        /\ new.stage = "list"
    BY <2>1 DEF StartsAs, OpRow, OpFields
  <2> HIDE DEF new
  <2> QED BY <2>2 DEF OpOK, Kinds, SliceKinds
<1> HIDE DEF old, new
<1> QED BY <1>1, <1>2, <1>3 DEF OpsOK

LEMMA StartOpKeepsOps ==
  ASSUME OpsOK, StartSettingsOp \/ StartCampaignOp \/ StartSeatOp
  PROVE  OpsOK'
BY StartsKeepsOps
   DEF StartSettingsOp, StartCampaignOp, StartSeatOp, Kinds, SliceKinds, ListKinds

LEMMA ServerMutatesKeepsOps ==
  ASSUME OpsOK, NEW o \in ops, ServerMutates(o)
  PROVE  OpsOK'
<1>1. PICK made : Effect(o, made) /\ ops' = Replace(o, [o EXCEPT !.stage = "served", !.seat = made])
  BY DEF ServerMutates
<1> DEFINE p == [o EXCEPT !.stage = "served", !.seat = made]
<1>2. OpOK(o)
  BY DEF OpsOK
<1>3. /\ OpRow(p) /\ p.stage = "served" /\ p.seat = made
      /\ \A f \in OpFields \ {"stage", "seat"} : p[f] = o[f]
  BY <1>2 DEF OpOK, OpRow, OpFields
<1>4. o.kind \in SliceKinds \ {"createSeat"} => made = o.seat
  BY <1>1 DEF Effect, SliceKinds, ListKinds
<1> HIDE DEF p
<1>5. OpOK(p)
  BY <1>2, <1>3, <1>4 DEF OpOK, OpFields
<1> QED BY <1>1, <1>5, ReplaceKeeps DEF p

LEMMA ServeKeepsOps ==
  ASSUME OpsOK, NEW o \in ops, NEW c, ServeList(o) \/ ServeSeats(o, c) \/ ServeInvites(o, c)
  PROVE  OpsOK'
<1>0. OpOK(o) /\ OpRow(o)
  BY DEF OpsOK, OpOK
<1>1. CASE ServeList(o)
  <2> DEFINE p == [o EXCEPT !.stage = "listed", !.list = srv.campaigns]
  <2>1. /\ OpRow(p) /\ p.stage = "listed" /\ \A f \in OpFields \ {"stage", "list"} : p[f] = o[f]
    BY <1>0 DEF OpRow, OpFields
  <2>2. ops' = Replace(o, p)
    BY <1>1 DEF ServeList, Served
  <2> HIDE DEF p
  <2>3. OpOK(p)
    BY <1>0, <2>1 DEF OpOK, OpFields
  <2> QED BY <2>2, <2>3, ReplaceKeeps
<1>2. CASE ServeSeats(o, c)
  <2> DEFINE rows == {s \in srv.seats : s.camp = c}
             got == Received(o.gotSeats, c, rows)
             p == [o EXCEPT !.gotSeats = got]
  <2>1. /\ OpRow(p) /\ p.gotSeats = got /\ \A f \in OpFields \ {"gotSeats"} : p[f] = o[f]
    BY <1>0 DEF OpRow, OpFields
  <2>2. ops' = Replace(o, p)
    BY <1>2 DEF ServeSeats, Served
  <2>3. \A d \in DOMAIN got : \A s \in got[d] : s.camp = d
    BY <1>0 DEF Received, OpOK
  <2> HIDE DEF p, got
  <2>4. OpOK(p)
    BY <1>0, <2>1, <2>3 DEF OpOK, OpFields
  <2> QED BY <2>2, <2>4, ReplaceKeeps
<1>3. CASE ServeInvites(o, c)
  <2> DEFINE got == Received(o.gotInvites, c, {i \in srv.invites : i.seat.camp = c})
             p == [o EXCEPT !.gotInvites = got]
  <2>1. /\ OpRow(p) /\ \A f \in OpFields \ {"gotInvites"} : p[f] = o[f]
    BY <1>0 DEF OpRow, OpFields
  <2>2. ops' = Replace(o, p)
    BY <1>3 DEF ServeInvites, Served
  <2> HIDE DEF p, got
  <2>4. OpOK(p)
    BY <1>0, <2>1 DEF OpOK, OpFields
  <2> QED BY <2>2, <2>4, ReplaceKeeps
<1> QED BY <1>1, <1>2, <1>3

LEMMA AnswerKeepsOps ==
  ASSUME OpsOK, NEW o \in ops, AnswerMutation(o) \/ LoadListed(o)
  PROVE  OpsOK'
<1>0. OpOK(o) /\ OpRow(o)
  BY DEF OpsOK, OpOK
<1>1. CASE AnswerMutation(o)
  <2> DEFINE p == [o EXCEPT !.stage = "list"]
             q == [o EXCEPT !.stage = "refresh", !.oldSeatIds = getSeatsForCampaign(o.camp)]
  <2>1. ops' = Replace(o, IF o.kind \in ListKinds THEN p ELSE q)
    BY <1>1 DEF AnswerMutation
  <2>2. /\ OpRow(p) /\ p.stage = "list" /\ \A f \in OpFields \ {"stage"} : p[f] = o[f]
        /\ OpRow(q) /\ q.stage = "refresh" /\ \A f \in OpFields \ {"stage", "oldSeatIds"} : q[f] = o[f]
    BY <1>0 DEF OpRow, OpFields
  <2> HIDE DEF p, q
  <2>3. OpOK(p) /\ OpOK(q)
    BY <1>0, <2>2 DEF OpOK, OpFields
  <2> QED BY <2>1, <2>3, ReplaceKeeps
<1>2. CASE LoadListed(o)
  <2> DEFINE p == [o EXCEPT !.stage = "refresh", !.want = o.list]
  <2>1. ops' = Replace(o, p) /\ o.kind = "load"
    BY <1>2 DEF LoadListed
  <2>2. /\ OpRow(p) /\ p.stage = "refresh" /\ \A f \in OpFields \ {"stage", "want"} : p[f] = o[f]
    BY <1>0 DEF OpRow, OpFields
  <2> HIDE DEF p
  <2>3. OpOK(p)
    BY <1>0, <2>1, <2>2 DEF OpOK, OpFields
  <2> QED BY <2>1, <2>3, ReplaceKeeps
<1> QED BY <1>1, <1>2

LEMMA EndsKeepOps ==
  ASSUME OpsOK, NEW o \in ops,
         CampaignDeleted(o) \/ CampaignsListed(o) \/ SliceLands(o) \/ LoadLands(o) \/ OpFails(o)
  PROVE  OpsOK'
<1>1. PICK flag : Panels(ops \ {o}, flag)
  BY DEF CampaignDeleted, CampaignsListed, SliceLands, LoadLands, OpFails
<1> QED BY <1>1, PanelsKeep

(* The slice that lands takes the place of the one that was there.             *)
LEMMA SliceLandsIs ==
  ASSUME NEW o, OpOK(o), Ones(seats), SliceLands(o)
  PROVE  /\ seats' = SetToBag({s \in BagToSet(seats) : s.camp # o.camp} \cup o.gotSeats[o.camp])
         /\ o.camp \in DOMAIN o.gotSeats /\ o.camp \in DOMAIN o.gotInvites
<1> DEFINE other == {s \in BagToSet(seats) : s.camp # o.camp}
           got == o.gotSeats[o.camp]
<1>1. o.camp \in DOMAIN o.gotSeats /\ o.camp \in DOMAIN o.gotInvites
  BY DEF SliceLands, Complete, OpOK, SliceKinds
<1>2. OtherSeats(o.camp) = SetToBag(other)
  <2>1. OtherSeats(o.camp) = [x \in other |-> seats[x]]
    BY DEF OtherSeats, Keep
  <2> HIDE DEF other
  <2> QED BY <2>1, RestrictedBag DEF other
<1>3. other \cap got = {}
  BY <1>1 DEF OpOK
<1>4. seats' = OtherSeats(o.camp) (+) SetToBag(got)
  BY DEF SliceLands
<1> HIDE DEF other, got
<1>5. seats' = SetToBag(other \cup got)
  BY <1>2, <1>3, <1>4, DisjointBags
<1> QED BY <1>1, <1>5 DEF other, got

LEMMA EndsKeepTree ==
  ASSUME TreeInv, NEW o \in ops,
         CampaignDeleted(o) \/ CampaignsListed(o) \/ SliceLands(o) \/ LoadLands(o)
  PROVE  TreeOK' /\ Ones(seats')
<1>0. OpOK(o) /\ TreeOK /\ Ones(seats)
  BY DEF TreeInv, OpsOK
<1>1. CASE CampaignDeleted(o)
  <2> DEFINE other == {s \in BagToSet(seats) : s.camp # o.camp}
  <2>1. seats' = [x \in other |-> seats[x]]
    BY <1>1 DEF CampaignDeleted, Keep
  <2>2. other \subseteq BagToSet(seats)
    OBVIOUS
  <2> HIDE DEF other
  <2>3. Ones(seats')
    BY <1>0, <2>1, <2>2, RestrictedBag, SetBag
  <2> QED BY <1>0, <1>1, <2>3, RebuildTree DEF CampaignDeleted
<1>2. CASE CampaignsListed(o)
  BY <1>0, <1>2, RebuildTree DEF CampaignsListed
<1>3. CASE SliceLands(o)
  <2>1. Ones(seats')
    BY <1>0, <1>3, SliceLandsIs, SetBag
  <2>2. \/ _rebuildTree \/ rebuildThenNavigateTo(CampaignNode(o.camp)) \/ UNCHANGED navVars
    BY <1>3 DEF SliceLands
  <2>3. UNCHANGED navVars => TreeOK'
    BY <1>0 DEF navVars, TreeOK
  <2> QED BY <1>0, <2>1, <2>2, <2>3, RebuildTree, RebuildThenNavigate
<1>4. CASE LoadLands(o)
  <2>1. Ones(seats')
    BY <1>4, SetBag DEF LoadLands
  <2> QED BY <1>0, <1>4, <2>1, RebuildTree DEF LoadLands
<1> QED BY <1>1, <1>2, <1>3, <1>4

LEMMA NavigationKeeps ==
  ASSUME TreeInv, NEW id, ClickNode(id) \/ FollowLink(id)
  PROVE  TreeInv'
<1>0. OpsOK /\ TreeOK /\ Ones(seats)
  BY DEF TreeInv
<1>1. PICK expanded : expanded \subseteq DOMAIN nodes /\ Goes(id, expanded)
  <2>1. CASE ClickNode(id)
    <3>1. toggled(id) \subseteq DOMAIN nodes /\ Goes(id, toggled(id))
      BY <1>0, <2>1 DEF ClickNode, toggled, TreeOK
    <3> QED BY <3>1
  <2>2. CASE FollowLink(id)
    <3>1. expandedIds \subseteq DOMAIN nodes /\ Goes(id, expandedIds)
      BY <1>0, <2>2 DEF FollowLink, TreeOK
    <3> QED BY <3>1
  <2> QED BY <2>1, <2>2
<1>2. TreeOK'
  BY <1>0, <1>1, NavigateTo DEF Goes
<1>3. OpsOK'
  BY <1>0, <1>1, PanelsKeep DEF Goes
<1> QED BY <1>0, <1>1, <1>2, <1>3 DEF Goes, TreeInv, dataVars

LEMMA TreeStepInv == TreeInv /\ [AdminTreeNext]_treeVars => TreeInv'
<1> SUFFICES ASSUME TreeInv, [AdminTreeNext]_treeVars
             PROVE  TreeInv'
  OBVIOUS
<1>0. OpsOK /\ TreeOK /\ Ones(seats)
  BY DEF TreeInv
<1>1. ASSUME UNCHANGED <<dataVars, navVars>>, OpsOK'
      PROVE  TreeInv'
  BY <1>0, <1>1 DEF dataVars, navVars, TreeInv, TreeOK
<1>2. CASE Mount \/ Retry
  BY <1>0, <1>1, <1>2, StartsLoadKeepsOps DEF Mount, Retry, StartsLoad
<1>3. CASE StartSettingsOp \/ StartCampaignOp \/ StartSeatOp
  <2>1. UNCHANGED <<dataVars, navVars>>
    BY <1>3 DEF StartSettingsOp, StartCampaignOp, StartSeatOp, Starts
  <2> QED BY <1>0, <1>1, <1>3, <2>1, StartOpKeepsOps
<1>4. CASE AnotherTab
  BY <1>0, <1>1, <1>4 DEF AnotherTab, OpsOK
<1>5. ASSUME NEW o \in ops, NEW c \in o.want,
             \/ ServerMutates(o) \/ ServeList(o) \/ ServeSeats(o, c) \/ ServeInvites(o, c)
             \/ AnswerMutation(o)
      PROVE  TreeInv'
  <2>1. UNCHANGED <<dataVars, navVars>>
    BY <1>5 DEF ServerMutates, ServeList, ServeSeats, ServeInvites, Served, AnswerMutation
  <2>2. OpsOK'
    BY <1>0, <1>5, ServerMutatesKeepsOps, ServeKeepsOps, AnswerKeepsOps
  <2> QED BY <1>1, <2>1, <2>2
<1>6. ASSUME NEW o \in ops, ServerMutates(o) \/ ServeList(o) \/ AnswerMutation(o) \/ OpFails(o)
      PROVE  TreeInv'
  <2>1. UNCHANGED <<dataVars, navVars>>
    BY <1>6 DEF ServerMutates, ServeList, Served, AnswerMutation, OpFails
  <2>2. OpsOK'
    BY <1>0, <1>6, ServerMutatesKeepsOps, ServeKeepsOps, AnswerKeepsOps, EndsKeepOps
  <2> QED BY <1>1, <2>1, <2>2
<1>7. ASSUME NEW o \in ops,
             CampaignDeleted(o) \/ CampaignsListed(o) \/ SliceLands(o) \/ LoadLands(o)
      PROVE  TreeInv'
  BY <1>0, <1>7, EndsKeepOps, EndsKeepTree DEF TreeInv
<1>8. ASSUME NEW o \in ops, LoadListed(o)
      PROVE  TreeInv'
  <2>1. OpsOK' /\ seats' = seats /\ UNCHANGED navVars
    BY <1>0, <1>8, AnswerKeepsOps DEF LoadListed
  <2> QED BY <1>0, <2>1 DEF TreeInv, TreeOK, navVars
<1>9. CASE UNCHANGED treeVars
  BY <1>0, <1>1, <1>9 DEF treeVars, OpsOK, dataVars, navVars
<1> QED BY <1>2, <1>3, <1>4, <1>5, <1>6, <1>7, <1>8, <1>9, NavigationKeeps DEF AdminTreeNext

------------------------------------------------------------------------------
(* The server.                                                                 *)
SeatsIn(set, c) == {s \in set : s.camp = c}
SeatsOut(set, c) == {s \in set : s.camp # c}
InvitesIn(set, c) == {i \in set : i.seat.camp = c}
InvitesOut(set, c) == {i \in set : i.seat.camp # c}

(* What a request changes, as the four lists it may touch.                     *)
Changes(o, made) ==
  \/ /\ o.kind = "createCampaign" /\ srv'.campaigns = srv.campaigns \cup {o.camp}
     /\ srv'.seats = srv.seats /\ srv'.invites = srv.invites
  \/ /\ o.kind \in {"renameCampaign", "updateSeat"} /\ srv' = srv
  \/ /\ o.kind = "deleteCampaign" /\ srv'.campaigns = srv.campaigns \ {o.camp}
     /\ srv'.seats = SeatsOut(srv.seats, o.camp)
     /\ srv'.invites = {i \in srv.invites : i.seat \notin SeatsIn(srv.seats, o.camp)}
  \/ /\ o.kind = "createSeat" /\ o.camp \in srv.campaigns
     /\ made \in Seats /\ made.camp = o.camp
     /\ srv'.campaigns = srv.campaigns /\ srv'.seats = srv.seats \cup {made}
     /\ srv'.invites = srv.invites
  \/ /\ o.kind = "deleteSeat" /\ o.seat \in srv.seats
     /\ srv'.campaigns = srv.campaigns /\ srv'.seats = srv.seats \ {o.seat}
     /\ srv'.invites = {i \in srv.invites : i.seat # o.seat}
  \/ /\ o.kind \in {"createInvite", "revokeInvite"} /\ o.seat \in srv.seats
     /\ srv'.campaigns = srv.campaigns /\ srv'.seats = srv.seats
     /\ \A i \in srv'.invites : i \in srv.invites \/ i.seat = o.seat
     /\ \A i \in srv.invites : i \in srv'.invites \/ i.seat = o.seat

LEMMA EffectChanges ==
  ASSUME ServerOK, NEW o, NEW made, Effect(o, made)
  PROVE  ServerRow(srv') /\ Changes(o, made)
<1>0. ServerRow(srv)
  BY DEF ServerOK
<1>1. CASE /\ o.kind = "createCampaign"
           /\ srv' = [srv EXCEPT !.campaigns = @ \cup {o.camp}, !.madeCampaigns = @ \cup {o.camp}]
  <2>1. ServerRow(srv') /\ srv'.campaigns = srv.campaigns \cup {o.camp}
        /\ srv'.seats = srv.seats /\ srv'.invites = srv.invites
    BY <1>0, <1>1 DEF ServerRow, ServerFields
  <2> QED BY <1>1, <2>1 DEF Changes
<1>2. CASE o.kind \in {"renameCampaign", "updateSeat"} /\ srv' = srv
  BY <1>0, <1>2 DEF Changes
<1>3. CASE /\ o.kind = "deleteCampaign"
           /\ srv' = [Drops(srv, {s \in srv.seats : s.camp = o.camp}) EXCEPT !.campaigns = @ \ {o.camp}]
  <2> DEFINE gone == {s \in srv.seats : s.camp = o.camp}
             d == Drops(srv, gone)
  <2>1. gone = SeatsIn(srv.seats, o.camp)
    BY DEF SeatsIn
  <2> HIDE DEF gone
  <2>2. /\ ServerRow(d) /\ d.campaigns = srv.campaigns
        /\ d.seats = srv.seats \ gone /\ d.invites = {i \in srv.invites : i.seat \notin gone}
    BY <1>0 DEF Drops, ServerRow, ServerFields
  <2> HIDE DEF d
  <2>3. srv' = [d EXCEPT !.campaigns = @ \ {o.camp}]
    BY <1>3 DEF gone, d
  <2>4. /\ ServerRow(srv') /\ srv'.campaigns = srv.campaigns \ {o.camp}
        /\ srv'.seats = srv.seats \ gone /\ srv'.invites = {i \in srv.invites : i.seat \notin gone}
    BY <2>2, <2>3 DEF ServerRow, ServerFields
  <2>5. srv.seats \ gone = SeatsOut(srv.seats, o.camp)
    BY <2>1 DEF SeatsIn, SeatsOut
  <2> QED BY <1>3, <2>1, <2>4, <2>5 DEF Changes
<1>4. CASE /\ o.kind = "createSeat" /\ o.camp \in srv.campaigns
           /\ made = Node("seat", o.camp, Cardinality({s \in srv.madeSeats : s.camp = o.camp}) + 1)
           /\ made \in Seats
           /\ srv' = [srv EXCEPT !.seats = @ \cup {made}, !.madeSeats = @ \cup {made}]
  <2>1. made.camp = o.camp
    BY <1>4 DEF Node
  <2>2. ServerRow(srv') /\ srv'.campaigns = srv.campaigns
        /\ srv'.seats = srv.seats \cup {made} /\ srv'.invites = srv.invites
    BY <1>0, <1>4 DEF ServerRow, ServerFields
  <2> QED BY <1>4, <2>1, <2>2 DEF Changes
<1>5. CASE o.kind = "deleteSeat" /\ o.seat \in srv.seats /\ srv' = Drops(srv, {o.seat})
  <2>1. /\ ServerRow(srv') /\ srv'.campaigns = srv.campaigns
        /\ srv'.seats = srv.seats \ {o.seat} /\ srv'.invites = {i \in srv.invites : i.seat \notin {o.seat}}
    BY <1>0, <1>5 DEF Drops, ServerRow, ServerFields
  <2>2. {i \in srv.invites : i.seat \notin {o.seat}} = {i \in srv.invites : i.seat # o.seat}
    OBVIOUS
  <2> QED BY <1>5, <2>1, <2>2 DEF Changes
<1>6. ASSUME o.kind \in {"createInvite", "revokeInvite"}, o.seat \in srv.seats,
             NEW new, srv' = [srv EXCEPT !.invites = new],
             \A i \in new : i \in srv.invites \/ i.seat = o.seat,
             \A i \in srv.invites : i \in new \/ i.seat = o.seat
      PROVE  ServerRow(srv') /\ Changes(o, made)
  <2>1. /\ ServerRow(srv') /\ srv'.campaigns = srv.campaigns /\ srv'.seats = srv.seats
        /\ srv'.invites = new
    BY <1>0, <1>6 DEF ServerRow, ServerFields
  <2> QED BY <1>6, <2>1 DEF Changes
<1>7. CASE /\ o.kind = "createInvite" /\ o.seat \in srv.seats
           /\ srv' = [srv EXCEPT !.invites = @ \cup {Invite(o.seat, FALSE)}]
  <2> DEFINE new == srv.invites \cup {Invite(o.seat, FALSE)}
  <2>1. srv' = [srv EXCEPT !.invites = new]
    BY <1>7
  <2>2. /\ \A i \in new : i \in srv.invites \/ i.seat = o.seat
        /\ \A i \in srv.invites : i \in new \/ i.seat = o.seat
    BY DEF Invite
  <2> HIDE DEF new
  <2> QED BY <1>6, <1>7, <2>1, <2>2
<1>8. CASE /\ o.kind = "revokeInvite" /\ o.seat \in srv.seats
           /\ srv' = [srv EXCEPT !.invites = (@ \ {Invite(o.seat, FALSE)}) \cup {Invite(o.seat, TRUE)}]
  <2> DEFINE new == (srv.invites \ {Invite(o.seat, FALSE)}) \cup {Invite(o.seat, TRUE)}
  <2>1. srv' = [srv EXCEPT !.invites = new]
    BY <1>8
  <2>2. /\ \A i \in new : i \in srv.invites \/ i.seat = o.seat
        /\ \A i \in srv.invites : i \in new \/ i.seat = o.seat
    BY DEF Invite
  <2> HIDE DEF new
  <2> QED BY <1>6, <1>8, <2>1, <2>2
<1> QED BY <1>1, <1>2, <1>3, <1>4, <1>5, <1>7, <1>8 DEF Effect

LEMMA EffectKeepsServer ==
  ASSUME ServerOK, NEW o, NEW made, Effect(o, made)
  PROVE  ServerOK'
<1>1. ServerRow(srv') /\ Changes(o, made)
  BY EffectChanges
<1>2. /\ \A s \in srv.seats : s.camp \in srv.campaigns
      /\ \A i \in srv.invites : i.seat \in srv.seats
  BY DEF ServerOK
<1>3. /\ \A s \in srv'.seats : s.camp \in srv'.campaigns
      /\ \A i \in srv'.invites : i.seat \in srv'.seats
  BY <1>1, <1>2 DEF Changes, SeatsIn, SeatsOut
<1> QED BY <1>1, <1>3 DEF ServerOK

LEMMA ServerStepInv == ServerOK /\ [AdminTreeNext]_treeVars => ServerOK'
<1> SUFFICES ASSUME ServerOK, [AdminTreeNext]_treeVars
             PROVE  ServerOK'
  OBVIOUS
<1>1. CASE UNCHANGED srv
  BY <1>1 DEF ServerOK
<1>2. CASE AnotherTab
  BY <1>2, EffectKeepsServer DEF AnotherTab
<1>3. CASE \E o \in ops : ServerMutates(o)
  BY <1>3, EffectKeepsServer DEF ServerMutates
<1>4. CASE Mount \/ Retry \/ StartSettingsOp \/ StartCampaignOp \/ StartSeatOp
  BY <1>1, <1>4 DEF Mount, Retry, StartsLoad, StartSettingsOp, StartCampaignOp, StartSeatOp, Starts
<1>5. ASSUME NEW o \in ops,
             \/ ServeList(o) \/ AnswerMutation(o) \/ CampaignDeleted(o) \/ CampaignsListed(o)
             \/ SliceLands(o) \/ LoadListed(o) \/ LoadLands(o) \/ OpFails(o)
             \/ \E c \in o.want : ServeSeats(o, c) \/ ServeInvites(o, c)
      PROVE  ServerOK'
  BY <1>1, <1>5 DEF ServeList, AnswerMutation, CampaignDeleted, CampaignsListed, SliceLands,
                    LoadListed, LoadLands, OpFails, ServeSeats, ServeInvites, Served, Rest
<1>6. ASSUME NEW id, ClickNode(id) \/ FollowLink(id)
      PROVE  ServerOK'
  BY <1>1, <1>6 DEF ClickNode, FollowLink, Goes, Rest
<1>7. CASE UNCHANGED treeVars
  BY <1>1, <1>7 DEF treeVars
<1> QED BY <1>2, <1>3, <1>4, <1>5, <1>6, <1>7 DEF AdminTreeNext

------------------------------------------------------------------------------
(* A calm store: R is the server, S and I the bags of seats and of invites.    *)
Same(R, S, I) == S = SetToBag(R.seats) /\ I = SetToBag(R.invites)

(* The store knows all but what became of the campaign c.                      *)
Behind(R, S, I, c) ==
  /\ Ones(I)
  /\ SeatsOut(BagToSet(S), c) = SeatsOut(R.seats, c)
  /\ \A i \in BagToSet(I) : i.seat \in BagToSet(S)
  /\ InvitesOut(BagToSet(I), c) = InvitesOut(R.invites, c)

NothingGot(o) == DOMAIN o.gotSeats = {} /\ DOMAIN o.gotInvites = {}
Got(o, R) ==
  /\ \A c \in DOMAIN o.gotSeats : o.gotSeats[c] = SeatsIn(R.seats, c)
  /\ \A c \in DOMAIN o.gotInvites : o.gotInvites[c] = InvitesIn(R.invites, c)

(* How far an operation has come that runs alone, and what the store then is.  *)
CalmLoad(o, R, C) ==
  /\ o.own
  /\ \/ o.stage = "list" /\ NothingGot(o)
     \/ o.stage = "listed" /\ o.list = R.campaigns /\ NothingGot(o)
     \/ o.stage = "refresh" /\ C = R.campaigns /\ o.want = R.campaigns /\ Got(o, R)

CalmList(o, R, C, S, I) ==
  /\ Same(R, S, I)
  /\ o.stage # "refresh"
  /\ o.stage = "sent" => C = R.campaigns
  /\ o.stage = "listed" => o.list = R.campaigns

CalmDelete(o, R, C, S, I) ==
  \/ o.stage = "sent" /\ C = R.campaigns /\ Same(R, S, I)
  \/ /\ o.stage = "served" /\ R.campaigns = C \ {o.camp}
     /\ Behind(R, S, I, o.camp) /\ SeatsIn(R.seats, o.camp) = {}

CalmSlice(o, R, C, S, I) ==
  /\ C = R.campaigns
  /\ \/ o.stage = "sent" /\ Same(R, S, I) /\ NothingGot(o)
     \/ o.stage = "served" /\ Behind(R, S, I, o.camp) /\ NothingGot(o)
     \/ /\ o.stage = "refresh" /\ Behind(R, S, I, o.camp) /\ Got(o, R)
        /\ o.oldSeatIds = SeatsIn(BagToSet(S), o.camp)

CalmOp(o, R, C, S, I) ==
  /\ o.kind = "load" => CalmLoad(o, R, C)
  /\ o.kind \in ListKinds => CalmList(o, R, C, S, I)
  /\ o.kind = "deleteCampaign" => CalmDelete(o, R, C, S, I)
  /\ o.kind \in SliceKinds => CalmSlice(o, R, C, S, I)

Calm ==
  ~mixed => /\ \A o, p \in ops : o = p
            /\ \A o \in ops : CalmOp(o, srv, campaigns, seats, invites)
            /\ ops = {} /\ shown => campaigns = srv.campaigns /\ Same(srv, seats, invites)

AdminInv == ServerOK /\ TreeInv /\ Calm

LEMMA SameIsBehind ==
  ASSUME ServerOK, NEW c, Same(srv, seats, invites)
  PROVE  Behind(srv, seats, invites, c)
<1>1. BagToSet(seats) = srv.seats /\ BagToSet(invites) = srv.invites /\ Ones(invites)
  BY SetBag DEF Same
<1> QED BY <1>1 DEF Behind, ServerOK

(* Of the operations of a calm store there is one, and it is the one that moves. *)
LEMMA OnlyOne ==
  ASSUME AdminInv, NEW o \in ops, ~mixed
  PROVE  /\ ops = {o} /\ ops \ {o} = {} /\ CalmOp(o, srv, campaigns, seats, invites)
         /\ OpOK(o) /\ OpRow(o) /\ Ones(seats) /\ ServerOK
         /\ \A p : Replace(o, p) = {p}
BY DEF AdminInv, TreeInv, Calm, OpsOK, OpOK, Replace

LEMMA NoneLeft ==
  ASSUME NEW flag, Panels({}, flag)
  PROVE  ops' = {}
BY DEF Panels

LEMMA ServerMutatesCalm ==
  ASSUME AdminInv, ~mixed, NEW o \in ops, ServerMutates(o)
  PROVE  Calm'
<1>0. /\ ops = {o} /\ CalmOp(o, srv, campaigns, seats, invites) /\ OpOK(o) /\ OpRow(o) /\ ServerOK
      /\ \A p : Replace(o, p) = {p}
  BY OnlyOne
<1>1. PICK made : Effect(o, made) /\ ops' = Replace(o, [o EXCEPT !.stage = "served", !.seat = made])
  BY DEF ServerMutates
<1> DEFINE p == [o EXCEPT !.stage = "served", !.seat = made]
<1>2. /\ p.stage = "served" /\ p.kind = o.kind /\ p.camp = o.camp
      /\ p.gotSeats = o.gotSeats /\ p.gotInvites = o.gotInvites
  BY <1>0 DEF OpRow, OpFields
<1>3. o.stage = "sent" /\ campaigns' = campaigns /\ seats' = seats /\ invites' = invites
  BY DEF ServerMutates, dataVars
<1>4. ops' = {p}
  BY <1>0, <1>1
<1> HIDE DEF p
<1>5. Changes(o, made)
  BY <1>0, <1>1, EffectChanges
<1>6. CASE o.kind \in ListKinds
  <2>1. Same(srv, seats, invites) /\ srv'.seats = srv.seats /\ srv'.invites = srv.invites
    BY <1>0, <1>5, <1>6 DEF Changes, ListKinds, CalmOp, CalmList
  <2>2. CalmList(p, srv', campaigns', seats', invites')
    BY <1>2, <1>3, <2>1 DEF CalmList, Same
  <2> QED BY <1>2, <1>4, <1>6, <2>2 DEF Calm, CalmOp, ListKinds, SliceKinds
<1>7. CASE o.kind = "deleteCampaign"
  <2>1. campaigns = srv.campaigns /\ Same(srv, seats, invites)
    BY <1>0, <1>3, <1>7 DEF CalmOp, CalmDelete
  <2>2. /\ srv'.campaigns = srv.campaigns \ {o.camp}
        /\ srv'.seats = SeatsOut(srv.seats, o.camp)
        /\ srv'.invites = {i \in srv.invites : i.seat \notin SeatsIn(srv.seats, o.camp)}
    BY <1>5, <1>7 DEF Changes
  <2>3. \A i \in srv.invites : i.seat \in srv.seats
    BY <1>0 DEF ServerOK
  <2>4. Behind(srv, seats, invites, o.camp)
    BY <1>0, <2>1, SameIsBehind
  <2>5. /\ SeatsOut(srv'.seats, o.camp) = SeatsOut(srv.seats, o.camp)
        /\ SeatsIn(srv'.seats, o.camp) = {}
        /\ InvitesOut(srv'.invites, o.camp) = InvitesOut(srv.invites, o.camp)
    BY <2>2, <2>3 DEF SeatsOut, SeatsIn, InvitesOut
  <2>6. CalmDelete(p, srv', campaigns', seats', invites')
    BY <1>2, <1>3, <2>1, <2>2, <2>4, <2>5 DEF CalmDelete, Behind
  <2> QED BY <1>2, <1>4, <1>7, <2>6 DEF Calm, CalmOp, ListKinds, SliceKinds
<1>8. CASE o.kind \in SliceKinds
  <2>1. campaigns = srv.campaigns /\ Same(srv, seats, invites) /\ NothingGot(o)
    BY <1>0, <1>3, <1>8 DEF CalmOp, CalmSlice
  <2>2. Behind(srv, seats, invites, o.camp)
    BY <1>0, <2>1, SameIsBehind
  <2>3. o.kind # "createSeat" => o.seat.camp = o.camp
    BY <1>0, <1>8 DEF OpOK
  <2>4. srv'.campaigns = srv.campaigns
    BY <1>5, <1>8 DEF Changes, SliceKinds
  <2>5. SeatsOut(srv'.seats, o.camp) = SeatsOut(srv.seats, o.camp)
    BY <1>5, <1>8, <2>3 DEF Changes, SliceKinds, SeatsOut
  <2>6. InvitesOut(srv'.invites, o.camp) = InvitesOut(srv.invites, o.camp)
    BY <1>5, <1>8, <2>3 DEF Changes, SliceKinds, InvitesOut
  <2>7. CalmSlice(p, srv', campaigns', seats', invites')
    BY <1>2, <1>3, <2>1, <2>2, <2>4, <2>5, <2>6 DEF CalmSlice, Behind, NothingGot
  <2> QED BY <1>2, <1>4, <1>8, <2>7 DEF Calm, CalmOp, ListKinds, SliceKinds
<1>9. o.kind # "load"
  BY <1>5 DEF Changes
<1> QED BY <1>0, <1>6, <1>7, <1>8, <1>9 DEF OpOK, Kinds

LEMMA ServeCalm ==
  ASSUME AdminInv, ~mixed, NEW o \in ops, NEW c,
         ServeList(o) \/ ServeSeats(o, c) \/ ServeInvites(o, c)
  PROVE  Calm'
<1>0. /\ ops = {o} /\ CalmOp(o, srv, campaigns, seats, invites) /\ OpOK(o) /\ OpRow(o) /\ ServerOK
      /\ \A p : Replace(o, p) = {p}
  BY OnlyOne
<1>1. /\ srv' = srv /\ campaigns' = campaigns /\ seats' = seats /\ invites' = invites
  BY DEF ServeList, ServeSeats, ServeInvites, Served, dataVars
<1>2. CASE ServeList(o)
  <2> DEFINE p == [o EXCEPT !.stage = "listed", !.list = srv.campaigns]
  <2>1. ops' = {p} /\ o.stage = "list"
    BY <1>0, <1>2 DEF ServeList, Served
  <2>2. /\ p.stage = "listed" /\ p.list = srv.campaigns /\ p.kind = o.kind /\ p.camp = o.camp
        /\ p.own = o.own /\ p.gotSeats = o.gotSeats /\ p.gotInvites = o.gotInvites
    BY <1>0 DEF OpRow, OpFields
  <2> HIDE DEF p
  <2>3. CalmOp(p, srv, campaigns, seats, invites)
    BY <1>0, <2>1, <2>2
       DEF CalmOp, CalmLoad, CalmList, CalmDelete, CalmSlice, NothingGot, ListKinds, SliceKinds
  <2> QED BY <1>1, <2>1, <2>3 DEF Calm
<1>3. ASSUME NEW p, ops' = {p}, o.stage = "refresh",
             \A f \in OpFields \ {"gotSeats", "gotInvites"} : p[f] = o[f],
             Got(o, srv) => Got(p, srv)
      PROVE  Calm'
  <2>1. /\ p.kind = o.kind /\ p.camp = o.camp /\ p.own = o.own /\ p.stage = o.stage
        /\ p.want = o.want /\ p.oldSeatIds = o.oldSeatIds
    BY <1>3 DEF OpFields
  <2>2. CalmOp(p, srv, campaigns, seats, invites)
    BY <1>0, <1>3, <2>1
       DEF CalmOp, CalmLoad, CalmList, CalmDelete, CalmSlice, ListKinds, SliceKinds
  <2> QED BY <1>1, <1>3, <2>2 DEF Calm
<1>4. CASE ServeSeats(o, c)
  <2> DEFINE got == Received(o.gotSeats, c, {s \in srv.seats : s.camp = c})
             p == [o EXCEPT !.gotSeats = got]
  <2>1. ops' = {p} /\ o.stage = "refresh"
    BY <1>0, <1>4 DEF ServeSeats, Served, Fetches
  <2>2. Got(o, srv) => \A d \in DOMAIN got : got[d] = SeatsIn(srv.seats, d)
    BY DEF Got, Received, SeatsIn
  <2>3. p.gotSeats = got /\ \A f \in OpFields \ {"gotSeats"} : p[f] = o[f]
    BY <1>0 DEF OpRow, OpFields
  <2> HIDE DEF p, got
  <2>4. Got(o, srv) => Got(p, srv)
    BY <2>2, <2>3 DEF Got, OpFields
  <2> QED BY <1>3, <2>1, <2>3, <2>4
<1>5. CASE ServeInvites(o, c)
  <2> DEFINE got == Received(o.gotInvites, c, {i \in srv.invites : i.seat.camp = c})
             p == [o EXCEPT !.gotInvites = got]
  <2>1. ops' = {p} /\ o.stage = "refresh"
    BY <1>0, <1>5 DEF ServeInvites, Served, Fetches
  <2>2. Got(o, srv) => \A d \in DOMAIN got : got[d] = InvitesIn(srv.invites, d)
    BY DEF Got, Received, InvitesIn
  <2>3. p.gotInvites = got /\ \A f \in OpFields \ {"gotInvites"} : p[f] = o[f]
    BY <1>0 DEF OpRow, OpFields
  <2> HIDE DEF p, got
  <2>4. Got(o, srv) => Got(p, srv)
    BY <2>2, <2>3 DEF Got, OpFields
  <2> QED BY <1>3, <2>1, <2>3, <2>4
<1> QED BY <1>2, <1>4, <1>5

LEMMA AnswerCalm ==
  ASSUME AdminInv, ~mixed, NEW o \in ops, AnswerMutation(o)
  PROVE  Calm'
<1>0. /\ ops = {o} /\ CalmOp(o, srv, campaigns, seats, invites) /\ OpOK(o) /\ OpRow(o) /\ ServerOK
      /\ \A p : Replace(o, p) = {p}
  BY OnlyOne
<1>1. /\ srv' = srv /\ campaigns' = campaigns /\ seats' = seats /\ invites' = invites
      /\ o.stage = "served" /\ o.kind \in SliceKinds \cup ListKinds
  BY DEF AnswerMutation, dataVars
<1>2. CASE o.kind \in ListKinds
  <2> DEFINE p == [o EXCEPT !.stage = "list"]
  <2>1. ops' = {p}
    BY <1>0, <1>2 DEF AnswerMutation
  <2>2. p.stage = "list" /\ p.kind = o.kind
    BY <1>0 DEF OpRow, OpFields
  <2> HIDE DEF p
  <2>3. CalmOp(p, srv, campaigns, seats, invites)
    BY <1>0, <1>2, <2>2 DEF CalmOp, CalmList, ListKinds, SliceKinds
  <2> QED BY <1>1, <2>1, <2>3 DEF Calm
<1>3. CASE o.kind \in SliceKinds
  <2> DEFINE old == getSeatsForCampaign(o.camp)
             p == [o EXCEPT !.stage = "refresh", !.oldSeatIds = old]
  <2>1. ops' = {p}
    BY <1>0, <1>3 DEF AnswerMutation, ListKinds, SliceKinds
  <2>2. /\ p.stage = "refresh" /\ p.oldSeatIds = old /\ p.kind = o.kind /\ p.camp = o.camp
        /\ p.gotSeats = o.gotSeats /\ p.gotInvites = o.gotInvites
    BY <1>0 DEF OpRow, OpFields
  <2>3. old = SeatsIn(BagToSet(seats), o.camp)
    BY DEF getSeatsForCampaign, SeatsIn
  <2> HIDE DEF p, old
  <2>4. CalmSlice(o, srv, campaigns, seats, invites)
    BY <1>0, <1>3 DEF CalmOp
  <2>5. CalmSlice(p, srv, campaigns, seats, invites)
    BY <1>1, <2>2, <2>3, <2>4 DEF CalmSlice, NothingGot, Got
  <2> QED BY <1>1, <1>3, <2>1, <2>2, <2>5 DEF Calm, CalmOp, ListKinds, SliceKinds
<1> QED BY <1>1, <1>2, <1>3

(* The last answer of an operation: the store is the server.                   *)
LEMMA CampaignDeletedCalm ==
  ASSUME AdminInv, ~mixed, NEW o \in ops, CampaignDeleted(o)
  PROVE  Calm'
<1>0. /\ ops \ {o} = {} /\ CalmOp(o, srv, campaigns, seats, invites) /\ ServerOK /\ Ones(seats)
  BY OnlyOne
<1> DEFINE c == o.camp
<1>1. /\ srv' = srv /\ campaigns' = campaigns \ {c}
      /\ srv.campaigns = campaigns \ {c} /\ Behind(srv, seats, invites, c)
      /\ SeatsIn(srv.seats, c) = {}
  BY <1>0 DEF CampaignDeleted, Rest, CalmOp, CalmDelete
<1>2. ops' = {}
  BY <1>0, NoneLeft DEF CampaignDeleted
<1>3. seats' = SetToBag(srv.seats)
  <2> DEFINE other == {s \in BagToSet(seats) : s.camp # c}
  <2>1. seats' = [x \in other |-> seats[x]] /\ other \subseteq BagToSet(seats)
    BY DEF CampaignDeleted, Keep
  <2>2. other = SeatsOut(BagToSet(seats), c)
    BY DEF SeatsOut
  <2> HIDE DEF other
  <2>3. seats' = SetToBag(other)
    BY <1>0, <2>1, RestrictedBag
  <2>4. SeatsOut(srv.seats, c) = srv.seats
    BY <1>1 DEF SeatsIn, SeatsOut
  <2> QED BY <1>1, <2>2, <2>3, <2>4 DEF Behind
<1>4. invites' = SetToBag(srv.invites)
  <2> DEFINE other == {i \in BagToSet(invites) : i.seat \notin getSeatsForCampaign(c)}
  <2>1. invites' = [x \in other |-> invites[x]] /\ other \subseteq BagToSet(invites)
    BY DEF CampaignDeleted, Keep, PrunedInvites
  <2>2. other = InvitesOut(BagToSet(invites), c)
    BY <1>1 DEF InvitesOut, getSeatsForCampaign, Behind
  <2> HIDE DEF other
  <2>3. invites' = SetToBag(other)
    BY <1>1, <2>1, RestrictedBag DEF Behind
  <2>4. InvitesOut(srv.invites, c) = srv.invites
    BY <1>0, <1>1 DEF InvitesOut, SeatsIn, ServerOK
  <2> QED BY <1>1, <2>2, <2>3, <2>4 DEF Behind
<1> QED BY <1>1, <1>2, <1>3, <1>4 DEF Calm, Same

LEMMA CampaignsListedCalm ==
  ASSUME AdminInv, ~mixed, NEW o \in ops, CampaignsListed(o)
  PROVE  Calm'
<1>0. /\ ops \ {o} = {} /\ CalmOp(o, srv, campaigns, seats, invites)
  BY OnlyOne
<1>1. /\ srv' = srv /\ campaigns' = srv.campaigns /\ seats' = seats /\ invites' = invites
      /\ Same(srv, seats, invites)
  BY <1>0 DEF CampaignsListed, Rest, CalmOp, CalmList
<1>2. ops' = {}
  BY <1>0, NoneLeft DEF CampaignsListed
<1> QED BY <1>1, <1>2 DEF Calm

LEMMA SliceLandsCalm ==
  ASSUME AdminInv, ~mixed, NEW o \in ops, SliceLands(o)
  PROVE  Calm'
<1>0. /\ ops \ {o} = {} /\ CalmOp(o, srv, campaigns, seats, invites) /\ OpOK(o) /\ Ones(seats)
  BY OnlyOne
<1> DEFINE c == o.camp
<1>1. o.stage = "refresh" /\ o.kind \in SliceKinds /\ srv' = srv /\ campaigns' = campaigns
  BY DEF SliceLands, Complete, Rest
<1>2. /\ campaigns = srv.campaigns /\ Behind(srv, seats, invites, c) /\ Got(o, srv)
      /\ o.oldSeatIds = SeatsIn(BagToSet(seats), c)
  BY <1>0, <1>1 DEF CalmOp, CalmSlice
<1>3. /\ seats' = SetToBag({s \in BagToSet(seats) : s.camp # c} \cup o.gotSeats[c])
      /\ c \in DOMAIN o.gotSeats /\ c \in DOMAIN o.gotInvites
  BY <1>0, SliceLandsIs
<1>4. o.gotSeats[c] = SeatsIn(srv.seats, c) /\ o.gotInvites[c] = InvitesIn(srv.invites, c)
  BY <1>2, <1>3 DEF Got
<1>5. ops' = {}
  <2>1. PICK flag : Panels(ops \ {o}, flag)
    BY DEF SliceLands
  <2> QED BY <1>0, <2>1, NoneLeft
<1>6. seats' = SetToBag(srv.seats)
  <2>1. {s \in BagToSet(seats) : s.camp # c} = SeatsOut(srv.seats, c)
    BY <1>2 DEF Behind, SeatsOut
  <2>2. SeatsOut(srv.seats, c) \cup SeatsIn(srv.seats, c) = srv.seats
    BY DEF SeatsOut, SeatsIn
  <2> QED BY <1>3, <1>4, <2>1, <2>2
<1>7. invites' = SetToBag(srv.invites)
  <2> DEFINE other == {i \in BagToSet(invites) : i.seat \notin o.oldSeatIds}
             kept == Keep(invites, LAMBDA i : i.seat \notin o.oldSeatIds)
  <2>1. invites' = kept (+) SetToBag(InvitesIn(srv.invites, c))
    BY <1>4 DEF SliceLands
  <2>2. kept = [x \in other |-> invites[x]] /\ other \subseteq BagToSet(invites)
    BY DEF Keep
  <2>3. other = InvitesOut(BagToSet(invites), c)
    BY <1>2 DEF InvitesOut, SeatsIn, Behind
  <2> HIDE DEF other, kept
  <2>4. kept = SetToBag(InvitesOut(srv.invites, c))
    BY <1>2, <2>2, <2>3, RestrictedBag DEF Behind
  <2>5. InvitesOut(srv.invites, c) \cap InvitesIn(srv.invites, c) = {}
    BY DEF InvitesOut, InvitesIn
  <2>6. InvitesOut(srv.invites, c) \cup InvitesIn(srv.invites, c) = srv.invites
    BY DEF InvitesOut, InvitesIn
  <2> QED BY <2>1, <2>4, <2>5, <2>6, DisjointBags
<1> QED BY <1>1, <1>2, <1>5, <1>6, <1>7 DEF Calm, Same

LEMMA LoadListedCalm ==
  ASSUME AdminInv, ~mixed, NEW o \in ops, LoadListed(o)
  PROVE  Calm'
<1>0. /\ CalmOp(o, srv, campaigns, seats, invites) /\ OpRow(o) /\ \A p : Replace(o, p) = {p}
  BY OnlyOne
<1>1. /\ o.kind = "load" /\ o.stage = "listed" /\ o.own /\ o.list = srv.campaigns /\ NothingGot(o)
      /\ srv' = srv /\ campaigns' = o.list
  BY <1>0 DEF LoadListed, Rest, CalmOp, CalmLoad
<1> DEFINE p == [o EXCEPT !.stage = "refresh", !.want = o.list]
<1>2. ops' = {p}
  BY <1>0 DEF LoadListed
<1>3. /\ p.stage = "refresh" /\ p.want = o.list /\ p.kind = o.kind /\ p.own = o.own
      /\ p.gotSeats = o.gotSeats /\ p.gotInvites = o.gotInvites
  BY <1>0 DEF OpRow, OpFields
<1> HIDE DEF p
<1>4. CalmLoad(p, srv', campaigns')
  BY <1>1, <1>3 DEF CalmLoad, NothingGot, Got
<1> QED BY <1>1, <1>2, <1>3, <1>4 DEF Calm, CalmOp, ListKinds, SliceKinds

LEMMA LoadLandsCalm ==
  ASSUME AdminInv, ~mixed, NEW o \in ops, LoadLands(o)
  PROVE  Calm'
<1>0. /\ ops \ {o} = {} /\ CalmOp(o, srv, campaigns, seats, invites) /\ ServerOK
  BY OnlyOne
<1>1. /\ o.kind = "load" /\ o.stage = "refresh" /\ DOMAIN o.gotSeats = o.want
      /\ DOMAIN o.gotInvites = o.want /\ srv' = srv /\ campaigns' = campaigns
  BY DEF LoadLands, Complete, Rest
<1>2. campaigns = srv.campaigns /\ o.want = srv.campaigns /\ Got(o, srv)
  BY <1>0, <1>1 DEF CalmOp, CalmLoad
<1>3. ops' = {}
  BY <1>0, NoneLeft DEF LoadLands
<1>4. UNION {o.gotSeats[c] : c \in o.want} = srv.seats
  <2>1. \A c \in o.want : o.gotSeats[c] = SeatsIn(srv.seats, c)
    BY <1>1, <1>2 DEF Got
  <2>2. \A s \in srv.seats : s.camp \in o.want
    BY <1>0, <1>2 DEF ServerOK
  <2> QED BY <2>1, <2>2 DEF SeatsIn
<1>5. UNION {o.gotInvites[c] : c \in o.want} = srv.invites
  <2>1. \A c \in o.want : o.gotInvites[c] = InvitesIn(srv.invites, c)
    BY <1>1, <1>2 DEF Got
  <2>2. \A i \in srv.invites : i.seat.camp \in o.want
    BY <1>0, <1>2 DEF ServerOK
  <2> QED BY <2>1, <2>2 DEF InvitesIn
<1>6. Same(srv', seats', invites')
  BY <1>1, <1>4, <1>5 DEF LoadLands, Same
<1> QED BY <1>1, <1>2, <1>3, <1>6 DEF Calm

(* An operation begins, on a store that is the server.                         *)
LEMMA StartsCalm ==
  ASSUME AdminInv, ~mixed, NEW kind \in Kinds \ {"load"}, NEW c, NEW s, shown, Starts(kind, c, s)
  PROVE  Calm'
<1>1. /\ mixed' = (mixed \/ ops # {}) /\ ops' = ops \cup {Op(kind, c, s)}
      /\ srv' = srv /\ campaigns' = campaigns /\ seats' = seats /\ invites' = invites
  BY DEF Starts, dataVars
<1>2. CASE ops # {}
  BY <1>1, <1>2 DEF Calm
<1>3. CASE ops = {}
  <2> DEFINE o == Op(kind, c, s)
  <2>1. ops' = {o}
    BY <1>1, <1>3
  <2>2. StartsAs(o, kind, c, s)
    BY NewOp
  <2> HIDE DEF o
  <2>3. campaigns = srv.campaigns /\ Same(srv, seats, invites)
    BY <1>3 DEF AdminInv, Calm
  <2>4. CalmOp(o, srv, campaigns, seats, invites)
    BY <2>2, <2>3 DEF CalmOp, CalmList, CalmDelete, CalmSlice, StartsAs, NothingGot
  <2> QED BY <1>1, <2>1, <2>4 DEF Calm
<1> QED BY <1>2, <1>3

LEMMA StartOpCalm ==
  ASSUME AdminInv, ~mixed, StartSettingsOp \/ StartCampaignOp \/ StartSeatOp
  PROVE  Calm'
<1>1. shown
  BY DEF StartSettingsOp, StartCampaignOp, StartSeatOp, PanelShown, Panel
<1>2. {"createCampaign", "deleteCampaign", "renameCampaign", "createSeat", "updateSeat",
       "deleteSeat", "createInvite", "revokeInvite"} \subseteq Kinds \ {"load"}
  BY DEF Kinds, SliceKinds, ListKinds
<1>3. PICK kind, c, s : kind \in Kinds \ {"load"} /\ Starts(kind, c, s)
  BY <1>2 DEF StartSettingsOp, StartCampaignOp, StartSeatOp
<1> QED BY <1>1, <1>3, StartsCalm

LEMMA StartsLoadCalm ==
  ASSUME AdminInv, ~mixed, NEW visible, StartsLoad(visible)
  PROVE  Calm'
<1> DEFINE p == Op("load", "", Root("settings"))
           new == [p EXCEPT !.stage = "list", !.want = {}]
<1>1. /\ mixed' = (mixed \/ ops # {})
      /\ ops' = {[o EXCEPT !.own = FALSE] : o \in ops} \cup {new}
  BY DEF StartsLoad
<1>2. CASE ops # {}
  BY <1>1, <1>2 DEF Calm
<1>3. CASE ops = {}
  <2>1. ops' = {new}
    BY <1>1, <1>3
  <2>2. StartsAs(p, "load", "", Root("settings"))
    BY NewOp
  <2> HIDE DEF p
  <2>3. /\ new.kind = "load" /\ new.own = TRUE /\ new.stage = "list" /\ NothingGot(new)
    BY <2>2 DEF StartsAs, OpRow, OpFields, NothingGot
  <2> HIDE DEF new
  <2>4. CalmOp(new, srv', campaigns', seats', invites')
    BY <2>3 DEF CalmOp, CalmLoad, ListKinds, SliceKinds
  <2> QED BY <2>1, <2>4 DEF Calm
<1> QED BY <1>2, <1>3

LEMMA NavigationCalm ==
  ASSUME AdminInv, ~mixed, NEW id, ClickNode(id) \/ FollowLink(id)
  PROVE  Calm'
<1>1. /\ Panels(ops, panelLoading) /\ shown' = shown
      /\ srv' = srv /\ campaigns' = campaigns /\ seats' = seats /\ invites' = invites
  BY DEF ClickNode, FollowLink, Goes, Rest, dataVars
<1>2. CASE ops = {}
  <2>1. ops' = {}
    BY <1>1, <1>2, NoneLeft
  <2> QED BY <1>1, <1>2, <2>1 DEF Calm, AdminInv
<1>3. CASE ops # {}
  <2>1. PICK o \in ops : TRUE
    BY <1>3
  <2>2. ops = {o} /\ CalmOp(o, srv, campaigns, seats, invites) /\ OpRow(o)
    BY OnlyOne
  <2>3. \A p \in ops' : SameBut(o, p)
    <3>1. \A q \in ops : OpRow(q) /\ q.own \in BOOLEAN
      BY DEF AdminInv, TreeInv, OpsOK, OpOK
    <3> QED BY <1>1, <2>2, <3>1, PanelsOps
  <2>4. \A p, q \in ops' : p = q
    BY <1>1, <2>2 DEF Panels
  <2>5. ops' # {}
    BY <1>1, <2>2 DEF Panels
  <2>6. \A p \in ops' : CalmOp(p, srv, campaigns, seats, invites)
    <3> TAKE p \in ops'
    <3>1. SameBut(o, p)
      BY <2>3
    <3>2. /\ p.kind = o.kind /\ p.camp = o.camp /\ p.stage = o.stage
          /\ p.oldSeatIds = o.oldSeatIds /\ p.list = o.list /\ p.want = o.want
          /\ p.gotSeats = o.gotSeats /\ p.gotInvites = o.gotInvites
          /\ o.kind = "load" => p.own = o.own
      BY <2>2, <3>1, SameButOK DEF SameBut
    <3> QED BY <2>2, <3>2 DEF CalmOp, CalmLoad, CalmList, CalmDelete, CalmSlice, NothingGot, Got
  <2> QED BY <1>1, <2>4, <2>5, <2>6 DEF Calm
<1> QED BY <1>2, <1>3

LEMMA CalmStepInv == AdminInv /\ [AdminTreeNext]_treeVars => Calm'
<1> SUFFICES ASSUME AdminInv, [AdminTreeNext]_treeVars
             PROVE  Calm'
  OBVIOUS
<1>1. CASE mixed
  <2>1. mixed'
    BY <1>1 DEF AdminTreeNext, treeVars, Mount, Retry, StartsLoad, AnotherTab, StartSettingsOp,
                StartCampaignOp, StartSeatOp, Starts, ServerMutates, ServeList, Served,
                AnswerMutation, CampaignDeleted, CampaignsListed, SliceLands, LoadListed,
                LoadLands, OpFails, ServeSeats, ServeInvites, ClickNode, FollowLink, Goes
  <2> QED BY <2>1 DEF Calm
<1>2. CASE ~mixed
  <2>1. CASE AnotherTab \/ \E o \in ops : OpFails(o)
    BY <2>1 DEF AnotherTab, OpFails, Calm
  <2>2. CASE Mount \/ Retry
    BY <1>2, <2>2, StartsLoadCalm DEF Mount, Retry
  <2>3. CASE StartSettingsOp \/ StartCampaignOp \/ StartSeatOp
    BY <1>2, <2>3, StartOpCalm
  <2>4. ASSUME NEW o \in ops,
               \/ ServerMutates(o) \/ ServeList(o) \/ AnswerMutation(o)
               \/ CampaignDeleted(o) \/ CampaignsListed(o) \/ SliceLands(o)
               \/ LoadListed(o) \/ LoadLands(o)
               \/ \E c \in o.want : ServeSeats(o, c) \/ ServeInvites(o, c)
        PROVE  Calm'
    BY <1>2, <2>4, ServerMutatesCalm, ServeCalm, AnswerCalm, CampaignDeletedCalm,
       CampaignsListedCalm, SliceLandsCalm, LoadListedCalm, LoadLandsCalm
  <2>5. CASE \E id : ClickNode(id) \/ FollowLink(id)
    BY <1>2, <2>5, NavigationCalm
  <2>6. CASE UNCHANGED treeVars
    BY <2>6 DEF treeVars, dataVars, AdminInv, Calm
  <2> QED BY <2>1, <2>2, <2>3, <2>4, <2>5, <2>6 DEF AdminTreeNext
<1> QED BY <1>1, <1>2

LEMMA AdminInitInv == AdminTreeInit => AdminInv
<1> SUFFICES ASSUME AdminTreeInit
             PROVE  AdminInv
  OBVIOUS
<1>1. ServerOK
  <2>1. PICK c : srv = [campaigns |-> {c}, madeCampaigns |-> {c},
                        seats |-> {Node("seat", c, 1)}, madeSeats |-> {Node("seat", c, 1)},
                        invites |-> {}]
    BY DEF AdminTreeInit
  <2>2. ServerRow(srv) /\ srv.campaigns = {c} /\ srv.seats = {Node("seat", c, 1)} /\ srv.invites = {}
    BY <2>1 DEF ServerRow, ServerFields
  <2>3. Node("seat", c, 1).camp = c
    BY DEF Node
  <2> QED BY <2>2, <2>3 DEF ServerOK
<1>2. TreeOK
  BY TreeClosed DEF AdminTreeInit, TreeOK
<1>3. OpsOK /\ Calm /\ Ones(seats)
  BY SetBag DEF AdminTreeInit, OpsOK, Calm, EmptyBag
<1> QED BY <1>1, <1>2, <1>3 DEF AdminInv, TreeInv

LEMMA AdminStepInv == AdminInv /\ [AdminTreeNext]_treeVars => AdminInv'
BY ServerStepInv, TreeStepInv, CalmStepInv DEF AdminInv

LEMMA AdminIsSound == AdminInv => TreeIsSound /\ CalmStoreIsTheServer
<1> SUFFICES ASSUME AdminInv
             PROVE  TreeIsSound /\ CalmStoreIsTheServer
  OBVIOUS
<1>1. \A s \in BagToSet(seats) : seats[s] = 1
  <2>1. Ones(seats)
    BY DEF AdminInv, TreeInv
  <2> QED BY <2>1, SetBag DEF Ones
<1>2. TreeIsSound
  BY <1>1 DEF AdminInv, TreeInv, TreeOK, TreeIsSound
<1>3. CalmStoreIsTheServer
  BY DEF AdminInv, Calm, CalmStoreIsTheServer, Same
<1> QED BY <1>2, <1>3

(* The tree is closed, and while operations run one at a time the store is     *)
(* the server but for what the one in flight has still to fetch.               *)
THEOREM AdminInvariant == AdminTreeSpec => []AdminInv
BY AdminInitInv, AdminStepInv, PTL DEF AdminTreeSpec

(* The tree never shows what is gone and lists no seat twice, whatever         *)
(* operations, loads and other tabs overlap and in any order of the answers.   *)
THEOREM TreeStaysSound == AdminTreeSpec => []TreeIsSound
BY AdminInvariant, AdminIsSound, PTL

(* Operations that ran alone and succeeded leave the arrays of the page equal  *)
(* to what the server has.                                                     *)
THEOREM CalmStoreStaysTheServer == AdminTreeSpec => []CalmStoreIsTheServer
BY AdminInvariant, AdminIsSound, PTL

------------------------------------------------------------------------------
(* What an operation did is shown when it ends. R is the server: its seats are *)
(* of those it ever made, and the numbers of those of a campaign do not exceed *)
(* their count, so that the next one is new and what was deleted stays so.     *)
Made(R) ==
  /\ R.seats \subseteq R.madeSeats
  /\ IsFiniteSet(R.madeSeats)
  /\ \A s \in R.madeSeats : s.n \in Nat /\ s.n <= Cardinality(SeatsIn(R.madeSeats, s.camp))

Has(s, rows) == \E revoked \in BOOLEAN : Invite(s, revoked) \in rows

(* What o has made is on the server, unless it was undone since, and in what o *)
(* has fetched of it.                                                          *)
Wrote(o, R) ==
  /\ o.kind \in SliceKinds => o.stage \in {"sent", "served", "refresh"}
  /\ o.stage \in {"sent", "served"} => NothingGot(o)
  /\ (o.kind = "createSeat" /\ o.stage \in {"served", "refresh"}) =>
       /\ o.seat \in R.madeSeats /\ o.seat.camp = o.camp
       /\ (o.camp \in DOMAIN o.gotSeats /\ o.seat \in R.seats) => o.seat \in o.gotSeats[o.camp]
  /\ (o.kind = "deleteSeat" /\ o.stage \in {"served", "refresh"}) =>
       /\ o.seat \in R.madeSeats /\ o.seat \notin R.seats
       /\ o.camp \in DOMAIN o.gotSeats => o.seat \notin o.gotSeats[o.camp]
  /\ (o.kind = "createInvite" /\ o.stage \in {"served", "refresh"}) =>
       /\ o.seat \in R.madeSeats
       /\ o.seat \in R.seats =>
            /\ Has(o.seat, R.invites)
            /\ o.camp \in DOMAIN o.gotInvites => Has(o.seat, o.gotInvites[o.camp])

(* From R to Q the server only makes what is new, and a seat that stays keeps  *)
(* its invites.                                                                *)
Evolves(R, Q) ==
  /\ R.madeSeats \subseteq Q.madeSeats
  /\ \A s \in R.madeSeats : s \in Q.seats => s \in R.seats
  /\ \A s \in Q.seats : Has(s, R.invites) => Has(s, Q.invites)

WriteInv == Made(srv) /\ \A o \in ops : Wrote(o, srv)

LEMMA WroteStays ==
  ASSUME NEW o, NEW R, NEW Q, Wrote(o, R), Evolves(R, Q)
  PROVE  Wrote(o, Q)
<1>1. ASSUME o.kind = "createSeat", o.stage \in {"served", "refresh"}
      PROVE  /\ o.seat \in Q.madeSeats /\ o.seat.camp = o.camp
             /\ (o.camp \in DOMAIN o.gotSeats /\ o.seat \in Q.seats) => o.seat \in o.gotSeats[o.camp]
  BY <1>1 DEF Wrote, Evolves
<1>2. ASSUME o.kind = "deleteSeat", o.stage \in {"served", "refresh"}
      PROVE  /\ o.seat \in Q.madeSeats /\ o.seat \notin Q.seats
             /\ o.camp \in DOMAIN o.gotSeats => o.seat \notin o.gotSeats[o.camp]
  BY <1>2 DEF Wrote, Evolves
<1>3. ASSUME o.kind = "createInvite", o.stage \in {"served", "refresh"}
      PROVE  /\ o.seat \in Q.madeSeats
             /\ o.seat \in Q.seats =>
                  /\ Has(o.seat, Q.invites)
                  /\ o.camp \in DOMAIN o.gotInvites => Has(o.seat, o.gotInvites[o.camp])
  BY <1>3 DEF Wrote, Evolves
<1> QED BY <1>1, <1>2, <1>3 DEF Wrote

LEMMA SameButWrote ==
  ASSUME NEW o, NEW p, OpRow(o), SameBut(o, p), NEW R, Wrote(o, R)
  PROVE  Wrote(p, R)
BY SameButOK DEF Wrote, NothingGot

(* What a request does to the server, seen from the operations.                *)
Did(o, made, R, Q) ==
  /\ o.kind = "createSeat" => made \in Q.madeSeats /\ made.camp = o.camp
  /\ o.kind = "deleteSeat" => o.seat \in R.seats /\ o.seat \notin Q.seats
  /\ o.kind = "createInvite" => o.seat \in R.seats /\ Has(o.seat, Q.invites)

(* A fresh number is no number of the campaign yet.                            *)
LEMMA FreshSeat ==
  ASSUME NEW R, Made(R), NEW s, s.n = Cardinality(SeatsIn(R.madeSeats, s.camp)) + 1,
         NEW Q, Q.seats = R.seats \cup {s}, Q.madeSeats = R.madeSeats \cup {s}
  PROVE  s \notin R.madeSeats /\ Made(Q)
<1> DEFINE old(c) == SeatsIn(R.madeSeats, c)
           new(c) == SeatsIn(Q.madeSeats, c)
<1>1. \A c : IsFiniteSet(old(c)) /\ Cardinality(old(c)) \in Nat
  <2> TAKE c
  <2>1. old(c) \subseteq R.madeSeats
    BY DEF SeatsIn
  <2> HIDE DEF old
  <2> QED BY <2>1, FS_Subset, FS_CardinalityType DEF Made
<1>2. s \notin R.madeSeats
  BY <1>1 DEF Made
<1>3. new(s.camp) = old(s.camp) \cup {s} /\ s \notin old(s.camp)
      /\ \A c : c # s.camp => new(c) = old(c)
  BY <1>2 DEF SeatsIn
<1> HIDE DEF old, new
<1>4. Cardinality(new(s.camp)) = Cardinality(old(s.camp)) + 1
  BY <1>1, <1>3, FS_AddElement
<1>5. IsFiniteSet(Q.madeSeats)
  BY FS_AddElement DEF Made
<1>6. ASSUME NEW t \in Q.madeSeats
      PROVE  t.n \in Nat /\ t.n <= Cardinality(new(t.camp))
  <2>1. CASE t = s
    BY <1>1, <1>4, <2>1 DEF old
  <2>2. CASE t # s
    <3>1. t \in R.madeSeats
      BY <2>2
    <3>2. t.n \in Nat /\ t.n <= Cardinality(old(t.camp))
      BY <3>1 DEF Made, old
    <3>3. CASE t.camp = s.camp
      BY <1>1, <1>4, <3>2, <3>3
    <3>4. CASE t.camp # s.camp
      BY <1>3, <3>2, <3>4
    <3> QED BY <3>3, <3>4
  <2> QED BY <2>1, <2>2
<1>7. Q.seats \subseteq Q.madeSeats
  BY DEF Made
<1> QED BY <1>2, <1>5, <1>6, <1>7 DEF Made, new

LEMMA Shrunk ==
  ASSUME NEW R, Made(R), NEW Q, Q.madeSeats = R.madeSeats, Q.seats \subseteq R.seats
  PROVE  Made(Q)
BY DEF Made

LEMMA EffectWrites ==
  ASSUME ServerOK, Made(srv), NEW o, NEW made, Effect(o, made)
  PROVE  Made(srv') /\ Evolves(srv, srv') /\ Did(o, made, srv, srv')
<1>0. ServerRow(srv)
  BY DEF ServerOK
<1>1. CASE /\ o.kind = "createCampaign"
           /\ srv' = [srv EXCEPT !.campaigns = @ \cup {o.camp}, !.madeCampaigns = @ \cup {o.camp}]
  <2>1. /\ srv'.seats = srv.seats /\ srv'.madeSeats = srv.madeSeats /\ srv'.invites = srv.invites
    BY <1>0, <1>1 DEF ServerRow, ServerFields
  <2> QED BY <1>1, <2>1, Shrunk DEF Evolves, Did
<1>2. CASE o.kind \in {"renameCampaign", "updateSeat"} /\ srv' = srv
  BY <1>2 DEF Evolves, Did
<1>3. ASSUME NEW gone, NEW d, d = Drops(srv, gone), NEW Q,
             Q.seats = d.seats, Q.madeSeats = d.madeSeats, Q.invites = d.invites
      PROVE  /\ Made(Q) /\ Evolves(srv, Q) /\ Q.seats = srv.seats \ gone
  <2>1. /\ d.seats = srv.seats \ gone /\ d.madeSeats = srv.madeSeats
        /\ d.invites = {i \in srv.invites : i.seat \notin gone}
    BY <1>0, <1>3 DEF Drops, ServerRow, ServerFields
  <2>2. ASSUME NEW s \in Q.seats, Has(s, srv.invites)
        PROVE  Has(s, Q.invites)
    <3>1. PICK revoked \in BOOLEAN : Invite(s, revoked) \in srv.invites
      BY <2>2 DEF Has
    <3>2. Invite(s, revoked).seat = s
      BY DEF Invite
    <3>3. Invite(s, revoked) \in Q.invites
      BY <1>3, <2>1, <3>1, <3>2
    <3> QED BY <3>3 DEF Has
  <2> QED BY <1>3, <2>1, <2>2, Shrunk DEF Evolves
<1>4. CASE /\ o.kind = "deleteCampaign"
           /\ srv' = [Drops(srv, {s \in srv.seats : s.camp = o.camp}) EXCEPT !.campaigns = @ \ {o.camp}]
  <2> DEFINE gone == {s \in srv.seats : s.camp = o.camp}
             d == Drops(srv, gone)
  <2>1. ServerRow(d)
    BY <1>0 DEF Drops, ServerRow, ServerFields
  <2>2. srv' = [d EXCEPT !.campaigns = @ \ {o.camp}]
    BY <1>4
  <2> HIDE DEF d
  <2>3. srv'.seats = d.seats /\ srv'.madeSeats = d.madeSeats /\ srv'.invites = d.invites
    BY <2>1, <2>2 DEF ServerRow, ServerFields
  <2> HIDE DEF gone
  <2> QED BY <1>3, <1>4, <2>3 DEF d, Did
<1>5. CASE /\ o.kind = "createSeat"
           /\ made = Node("seat", o.camp, Cardinality({s \in srv.madeSeats : s.camp = o.camp}) + 1)
           /\ srv' = [srv EXCEPT !.seats = @ \cup {made}, !.madeSeats = @ \cup {made}]
  <2>1. made.camp = o.camp /\ made.n = Cardinality(SeatsIn(srv.madeSeats, made.camp)) + 1
    BY <1>5 DEF Node, SeatsIn
  <2>2. /\ srv'.seats = srv.seats \cup {made} /\ srv'.madeSeats = srv.madeSeats \cup {made}
        /\ srv'.invites = srv.invites
    BY <1>0, <1>5 DEF ServerRow, ServerFields
  <2>3. made \notin srv.madeSeats /\ Made(srv')
    BY <2>1, <2>2, FreshSeat
  <2> QED BY <1>5, <2>1, <2>2, <2>3 DEF Evolves, Did, Made
<1>6. CASE o.kind = "deleteSeat" /\ o.seat \in srv.seats /\ srv' = Drops(srv, {o.seat})
  BY <1>3, <1>6 DEF Did
<1>7. ASSUME NEW new, srv' = [srv EXCEPT !.invites = new]
      PROVE  srv'.seats = srv.seats /\ srv'.madeSeats = srv.madeSeats /\ srv'.invites = new
  BY <1>0, <1>7 DEF ServerRow, ServerFields
<1>8. CASE /\ o.kind = "createInvite" /\ o.seat \in srv.seats
           /\ srv' = [srv EXCEPT !.invites = @ \cup {Invite(o.seat, FALSE)}]
  <2> DEFINE new == srv.invites \cup {Invite(o.seat, FALSE)}
  <2>1. srv' = [srv EXCEPT !.invites = new]
    BY <1>8
  <2>2. Has(o.seat, new) /\ \A s : Has(s, srv.invites) => Has(s, new)
    BY DEF Has
  <2> HIDE DEF new
  <2>3. srv'.seats = srv.seats /\ srv'.madeSeats = srv.madeSeats /\ srv'.invites = new
    BY <1>7, <2>1
  <2> QED BY <1>8, <2>2, <2>3, Shrunk DEF Evolves, Did
<1>9. CASE /\ o.kind = "revokeInvite" /\ o.seat \in srv.seats
           /\ srv' = [srv EXCEPT !.invites = (@ \ {Invite(o.seat, FALSE)}) \cup {Invite(o.seat, TRUE)}]
  <2> DEFINE new == (srv.invites \ {Invite(o.seat, FALSE)}) \cup {Invite(o.seat, TRUE)}
  <2>1. srv' = [srv EXCEPT !.invites = new]
    BY <1>9
  <2>2. ASSUME NEW s, Has(s, srv.invites)
        PROVE  Has(s, new)
    <3>1. PICK revoked \in BOOLEAN : Invite(s, revoked) \in srv.invites
      BY <2>2 DEF Has
    <3>2. CASE Invite(s, revoked) = Invite(o.seat, FALSE)
      <4>1. s = o.seat
        BY <3>2 DEF Invite
      <4> QED BY <4>1 DEF Has
    <3>3. CASE Invite(s, revoked) # Invite(o.seat, FALSE)
      BY <3>1, <3>3 DEF Has
    <3> QED BY <3>2, <3>3
  <2> HIDE DEF new
  <2>3. srv'.seats = srv.seats /\ srv'.madeSeats = srv.madeSeats /\ srv'.invites = new
    BY <1>7, <2>1
  <2> QED BY <1>9, <2>2, <2>3, Shrunk DEF Evolves, Did
<1> QED BY <1>1, <1>2, <1>4, <1>5, <1>6, <1>8, <1>9 DEF Effect

(* The operations: what each step leaves of them.                              *)
LEMMA ReplaceWrites ==
  ASSUME WriteInv, NEW o \in ops, NEW p, ops' = Replace(o, p), UNCHANGED srv,
         Wrote(o, srv) => Wrote(p, srv)
  PROVE  WriteInv'
<1>1. \A q \in ops' : Wrote(q, srv')
  BY DEF WriteInv, Replace
<1> QED BY <1>1 DEF WriteInv

LEMMA PanelsWrite ==
  ASSUME WriteInv, OpsOK, NEW F, F \subseteq ops, NEW flag, Panels(F, flag), UNCHANGED srv
  PROVE  WriteInv'
<1>1. ASSUME NEW p \in ops'
      PROVE  Wrote(p, srv')
  <2>1. \A o \in F : OpRow(o) /\ o.own \in BOOLEAN
    BY DEF OpsOK, OpOK
  <2>2. PICK o \in F : SameBut(o, p)
    BY <2>1, PanelsOps
  <2> QED BY <2>1, <2>2, SameButWrote DEF WriteInv
<1> QED BY <1>1 DEF WriteInv

LEMMA StartsWrites ==
  ASSUME WriteInv, NEW kind, NEW c, NEW s, Starts(kind, c, s)
  PROVE  WriteInv'
<1> DEFINE o == Op(kind, c, s)
<1>1. ops' = ops \cup {o} /\ srv' = srv
  BY DEF Starts
<1>2. StartsAs(o, kind, c, s)
  BY NewOp
<1> HIDE DEF o
<1>3. Wrote(o, srv)
  BY <1>2 DEF StartsAs, Wrote, NothingGot
<1> QED BY <1>1, <1>3 DEF WriteInv

LEMMA StartsLoadWrites ==
  ASSUME WriteInv, OpsOK, NEW visible, StartsLoad(visible)
  PROVE  WriteInv'
<1> DEFINE old(o) == [o EXCEPT !.own = FALSE]
           p == Op("load", "", Root("settings"))
           new == [p EXCEPT !.stage = "list", !.want = {}]
<1>1. ops' = {old(o) : o \in ops} \cup {new} /\ srv' = srv
  BY DEF StartsLoad
<1>2. ASSUME NEW o \in ops
      PROVE  Wrote(old(o), srv)
  <2>1. OpRow(o) /\ Wrote(o, srv)
    BY DEF OpsOK, OpOK, WriteInv
  <2>2. \A f \in OpFields \ {"own"} : old(o)[f] = o[f]
    BY <2>1 DEF OpRow, OpFields
  <2> HIDE DEF old
  <2> QED BY <2>1, <2>2 DEF Wrote, NothingGot, OpFields
<1>3. Wrote(new, srv)
  <2>1. StartsAs(p, "load", "", Root("settings"))
    BY NewOp
  <2> HIDE DEF p
  <2>2. new.kind = "load" /\ new.stage = "list"
    BY <2>1 DEF StartsAs, OpRow, OpFields
  <2> HIDE DEF new
  <2> QED BY <2>2 DEF Wrote, SliceKinds
<1> HIDE DEF old, new
<1> QED BY <1>1, <1>2, <1>3 DEF WriteInv

LEMMA ServerMutatesWrites ==
  ASSUME WriteInv, OpsOK, ServerOK, NEW o \in ops, ServerMutates(o)
  PROVE  WriteInv'
<1>1. PICK made : Effect(o, made) /\ ops' = Replace(o, [o EXCEPT !.stage = "served", !.seat = made])
  BY DEF ServerMutates
<1> DEFINE p == [o EXCEPT !.stage = "served", !.seat = made]
<1>2. OpOK(o) /\ o.stage = "sent" /\ Wrote(o, srv)
  BY DEF OpsOK, WriteInv, ServerMutates
<1>3. /\ p.stage = "served" /\ p.seat = made
      /\ \A f \in OpFields \ {"stage", "seat"} : p[f] = o[f]
  BY <1>2 DEF OpOK, OpRow, OpFields
<1>4. o.kind \in SliceKinds \ {"createSeat"} => made = o.seat
  BY <1>1 DEF Effect, SliceKinds, ListKinds
<1>5. Made(srv') /\ Evolves(srv, srv') /\ Did(o, made, srv, srv') /\ srv.seats \subseteq srv.madeSeats
  BY <1>1, EffectWrites DEF WriteInv, Made
<1> HIDE DEF p
<1>6. NothingGot(p) /\ p.kind = o.kind /\ p.camp = o.camp
  BY <1>2, <1>3 DEF Wrote, NothingGot, OpFields
<1>7. /\ o.kind = "createSeat" => made \in srv'.madeSeats /\ made.camp = o.camp
      /\ o.kind = "deleteSeat" => made \in srv'.madeSeats /\ made \notin srv'.seats
      /\ o.kind = "createInvite" => made \in srv'.madeSeats /\ Has(made, srv'.invites)
  BY <1>4, <1>5 DEF Did, Evolves, SliceKinds
<1>8. Wrote(p, srv')
  BY <1>3, <1>6, <1>7 DEF Wrote, NothingGot
<1>9. \A q \in ops' : Wrote(q, srv')
  BY <1>1, <1>5, <1>8, WroteStays DEF WriteInv, Replace, p
<1> QED BY <1>5, <1>9 DEF WriteInv

LEMMA AnotherTabWrites ==
  ASSUME WriteInv, ServerOK, AnotherTab
  PROVE  WriteInv'
<1>1. PICK o, made : Effect(o, made)
  BY DEF AnotherTab
<1>2. Made(srv') /\ Evolves(srv, srv') /\ ops' = ops
  BY <1>1, EffectWrites DEF WriteInv, AnotherTab
<1> QED BY <1>2, WroteStays DEF WriteInv

(* What is fetched has what the operation made, when it is still there.        *)
LEMMA ServeWrites ==
  ASSUME WriteInv, OpsOK, NEW o \in ops, NEW c, ServeList(o) \/ ServeSeats(o, c) \/ ServeInvites(o, c)
  PROVE  WriteInv'
<1>0. OpOK(o) /\ OpRow(o) /\ Wrote(o, srv)
  BY DEF OpsOK, OpOK, WriteInv
<1>1. CASE ServeList(o)
  <2> DEFINE p == [o EXCEPT !.stage = "listed", !.list = srv.campaigns]
  <2>1. /\ p.stage = "listed" /\ \A f \in OpFields \ {"stage", "list"} : p[f] = o[f]
    BY <1>0 DEF OpRow, OpFields
  <2>2. ops' = Replace(o, p) /\ srv' = srv /\ o.stage = "list"
    BY <1>1 DEF ServeList, Served
  <2> HIDE DEF p
  <2>3. Wrote(p, srv)
    BY <1>0, <2>1, <2>2 DEF Wrote, OpFields
  <2> QED BY <2>2, <2>3, ReplaceWrites
<1>2. CASE ServeSeats(o, c)
  <2> DEFINE rows == {s \in srv.seats : s.camp = c}
             got == Received(o.gotSeats, c, rows)
             p == [o EXCEPT !.gotSeats = got]
  <2>1. /\ p.gotSeats = got /\ \A f \in OpFields \ {"gotSeats"} : p[f] = o[f]
    BY <1>0 DEF OpRow, OpFields
  <2>2. ops' = Replace(o, p) /\ srv' = srv /\ o.stage = "refresh"
    BY <1>2 DEF ServeSeats, Served, Fetches
  <2>3. /\ DOMAIN got = DOMAIN o.gotSeats \cup {c}
        /\ \A s \in got[c] : s \in srv.seats
        /\ \A s \in srv.seats : s.camp = c => s \in got[c]
        /\ \A d \in DOMAIN o.gotSeats : d # c => got[d] = o.gotSeats[d]
    BY DEF Received
  <2> HIDE DEF p, got
  <2>4. o.kind = "createSeat" =>
          /\ o.seat \in srv.madeSeats /\ o.seat.camp = o.camp
          /\ (o.camp \in DOMAIN got /\ o.seat \in srv.seats) => o.seat \in got[o.camp]
    BY <1>0, <2>2, <2>3 DEF Wrote
  <2>5. o.kind = "deleteSeat" =>
          /\ o.seat \in srv.madeSeats /\ o.seat \notin srv.seats
          /\ o.camp \in DOMAIN got => o.seat \notin got[o.camp]
    BY <1>0, <2>2, <2>3 DEF Wrote
  <2>6. Wrote(p, srv)
    BY <1>0, <2>1, <2>2, <2>4, <2>5 DEF Wrote, OpFields
  <2> QED BY <2>2, <2>6, ReplaceWrites
<1>3. CASE ServeInvites(o, c)
  <2> DEFINE rows == {i \in srv.invites : i.seat.camp = c}
             got == Received(o.gotInvites, c, rows)
             p == [o EXCEPT !.gotInvites = got]
  <2>1. /\ p.gotInvites = got /\ \A f \in OpFields \ {"gotInvites"} : p[f] = o[f]
    BY <1>0 DEF OpRow, OpFields
  <2>2. ops' = Replace(o, p) /\ srv' = srv /\ o.stage = "refresh"
    BY <1>3 DEF ServeInvites, Served, Fetches
  <2>3. /\ DOMAIN got = DOMAIN o.gotInvites \cup {c}
        /\ \A i \in srv.invites : i.seat.camp = c => i \in got[c]
        /\ \A d \in DOMAIN o.gotInvites : d # c => got[d] = o.gotInvites[d]
    BY DEF Received
  <2> HIDE DEF p, got
  <2>4. ASSUME o.kind = "createInvite", o.seat \in srv.seats, o.camp \in DOMAIN got
        PROVE  Has(o.seat, got[o.camp])
    <3>1. Has(o.seat, srv.invites) /\ o.seat.camp = o.camp
      BY <1>0, <2>2, <2>4 DEF Wrote, OpOK, SliceKinds
    <3>2. CASE o.camp = c
      <4>1. PICK revoked \in BOOLEAN : Invite(o.seat, revoked) \in srv.invites
        BY <3>1 DEF Has
      <4>2. Invite(o.seat, revoked).seat = o.seat
        BY DEF Invite
      <4> QED BY <2>3, <3>1, <3>2, <4>1, <4>2 DEF Has
    <3>3. CASE o.camp # c
      BY <1>0, <2>2, <2>3, <2>4, <3>3 DEF Wrote
    <3> QED BY <3>2, <3>3
  <2>5. Wrote(p, srv)
    BY <1>0, <2>1, <2>2, <2>4 DEF Wrote, OpFields
  <2> QED BY <2>2, <2>5, ReplaceWrites
<1> QED BY <1>1, <1>2, <1>3

LEMMA AnswerWrites ==
  ASSUME WriteInv, OpsOK, NEW o \in ops, AnswerMutation(o) \/ LoadListed(o)
  PROVE  WriteInv'
<1>0. OpOK(o) /\ OpRow(o) /\ Wrote(o, srv)
  BY DEF OpsOK, OpOK, WriteInv
<1>1. CASE AnswerMutation(o)
  <2> DEFINE p == [o EXCEPT !.stage = "list"]
             q == [o EXCEPT !.stage = "refresh", !.oldSeatIds = getSeatsForCampaign(o.camp)]
  <2>1. ops' = Replace(o, IF o.kind \in ListKinds THEN p ELSE q) /\ srv' = srv
    BY <1>1 DEF AnswerMutation
  <2>2. /\ p.stage = "list" /\ \A f \in OpFields \ {"stage"} : p[f] = o[f]
        /\ q.stage = "refresh" /\ \A f \in OpFields \ {"stage", "oldSeatIds"} : q[f] = o[f]
    BY <1>0 DEF OpRow, OpFields
  <2>3. o.stage = "served"
    BY <1>1 DEF AnswerMutation
  <2> HIDE DEF p, q
  <2>4. o.kind \in ListKinds => Wrote(p, srv)
    BY <2>2 DEF Wrote, OpFields, ListKinds, SliceKinds
  <2>5. Wrote(q, srv)
    BY <1>0, <2>2, <2>3 DEF Wrote, OpFields
  <2> QED BY <2>1, <2>4, <2>5, ReplaceWrites
<1>2. CASE LoadListed(o)
  <2> DEFINE p == [o EXCEPT !.stage = "refresh", !.want = o.list]
  <2>1. ops' = Replace(o, p) /\ o.kind = "load" /\ srv' = srv
    BY <1>2 DEF LoadListed, Rest
  <2>2. p.stage = "refresh" /\ \A f \in OpFields \ {"stage", "want"} : p[f] = o[f]
    BY <1>0 DEF OpRow, OpFields
  <2> HIDE DEF p
  <2>3. Wrote(p, srv)
    BY <2>1, <2>2 DEF Wrote, OpFields, SliceKinds
  <2> QED BY <2>1, <2>3, ReplaceWrites
<1> QED BY <1>1, <1>2

LEMMA WriteInitInv == AdminTreeInit => WriteInv
<1> SUFFICES ASSUME AdminTreeInit
             PROVE  WriteInv
  OBVIOUS
<1>1. PICK c : srv.seats = {Node("seat", c, 1)} /\ srv.madeSeats = {Node("seat", c, 1)}
  BY DEF AdminTreeInit
<1> DEFINE s == Node("seat", c, 1)
<1>2. s.n = 1 /\ SeatsIn({s}, s.camp) = {s}
  BY DEF Node, SeatsIn
<1> HIDE DEF s
<1>3. IsFiniteSet({s}) /\ Cardinality({s}) = 1
  BY FS_Singleton
<1>4. srv.seats = {s} /\ srv.madeSeats = {s}
  BY <1>1 DEF s
<1>5. Made(srv)
  BY <1>2, <1>3, <1>4 DEF Made
<1> QED BY <1>5 DEF WriteInv, AdminTreeInit

LEMMA WriteStepInv == AdminInv /\ WriteInv /\ [AdminTreeNext]_treeVars => WriteInv'
<1> SUFFICES ASSUME AdminInv, WriteInv, [AdminTreeNext]_treeVars
             PROVE  WriteInv'
  OBVIOUS
<1>0. ServerOK /\ OpsOK
  BY DEF AdminInv, TreeInv
<1>1. CASE Mount \/ Retry
  BY <1>0, <1>1, StartsLoadWrites DEF Mount, Retry
<1>2. CASE StartSettingsOp \/ StartCampaignOp \/ StartSeatOp
  BY <1>2, StartsWrites DEF StartSettingsOp, StartCampaignOp, StartSeatOp
<1>3. CASE AnotherTab
  BY <1>0, <1>3, AnotherTabWrites
<1>4. ASSUME NEW o \in ops,
             \/ ServerMutates(o) \/ ServeList(o) \/ AnswerMutation(o) \/ LoadListed(o)
             \/ \E c \in o.want : ServeSeats(o, c) \/ ServeInvites(o, c)
      PROVE  WriteInv'
  BY <1>0, <1>4, ServerMutatesWrites, ServeWrites, AnswerWrites
<1>5. ASSUME NEW o \in ops,
             CampaignDeleted(o) \/ CampaignsListed(o) \/ SliceLands(o) \/ LoadLands(o) \/ OpFails(o)
      PROVE  WriteInv'
  <2>1. PICK flag : Panels(ops \ {o}, flag)
    BY <1>5 DEF CampaignDeleted, CampaignsListed, SliceLands, LoadLands, OpFails
  <2>2. srv' = srv
    BY <1>5 DEF CampaignDeleted, CampaignsListed, SliceLands, LoadLands, OpFails, Rest
  <2> QED BY <1>0, <2>1, <2>2, PanelsWrite
<1>6. ASSUME NEW id, ClickNode(id) \/ FollowLink(id)
      PROVE  WriteInv'
  <2>1. Panels(ops, panelLoading) /\ srv' = srv
    BY <1>6 DEF ClickNode, FollowLink, Goes, Rest
  <2> QED BY <1>0, <2>1, PanelsWrite
<1>7. CASE UNCHANGED treeVars
  BY <1>7 DEF treeVars, WriteInv
<1> QED BY <1>1, <1>2, <1>3, <1>4, <1>5, <1>6, <1>7 DEF AdminTreeNext

------------------------------------------------------------------------------
(* An operation that has all it asked for leaves only by landing.              *)
LEMMA PanelsKeepIds ==
  ASSUME OpsOK, NEW F, F \subseteq ops, NEW flag, Panels(F, flag), NEW o \in F
  PROVE  \E p \in ops' : p.id = o.id
<1>1. CASE ops' = F
  BY <1>1
<1>2. CASE ops' = {[q EXCEPT !.own = q.own /\ q.kind = "load"] : q \in F}
  <2> DEFINE p == [o EXCEPT !.own = o.own /\ o.kind = "load"]
  <2>1. p \in ops'
    BY <1>2
  <2>2. OpRow(o)
    BY DEF OpsOK, OpOK
  <2>3. p.id = o.id
    BY <2>2 DEF OpRow, OpFields
  <2> QED BY <2>1, <2>3
<1> QED BY <1>1, <1>2 DEF Panels

LEMMA ReplaceKeepsIds ==
  ASSUME NEW q, NEW p, ops' = Replace(q, p), NEW o \in ops, o # q
  PROVE  \E r \in ops' : r.id = o.id
BY DEF Replace

LEMMA LeavesByLanding ==
  ASSUME OpsOK, [AdminTreeNext]_treeVars, NEW o \in ops, Complete(o), \A p \in ops' : p.id # o.id
  PROVE  SliceLands(o) \/ LoadLands(o)
<1>0. o.stage = "refresh" /\ DOMAIN o.gotSeats = o.want /\ DOMAIN o.gotInvites = o.want
  BY DEF Complete
<1>1. CASE Mount \/ Retry
  <2> DEFINE p == [o EXCEPT !.own = FALSE]
  <2>1. p \in ops'
    BY <1>1 DEF Mount, Retry, StartsLoad
  <2>2. OpRow(o)
    BY DEF OpsOK, OpOK
  <2>3. p.id = o.id
    BY <2>2 DEF OpRow, OpFields
  <2> QED BY <2>1, <2>3
<1>2. CASE StartSettingsOp \/ StartCampaignOp \/ StartSeatOp
  BY <1>2 DEF StartSettingsOp, StartCampaignOp, StartSeatOp, Starts
<1>3. CASE AnotherTab
  BY <1>3 DEF AnotherTab
<1>4. ASSUME NEW q \in ops,
             \/ ServerMutates(q) \/ ServeList(q) \/ AnswerMutation(q) \/ LoadListed(q)
             \/ \E c \in q.want : ServeSeats(q, c) \/ ServeInvites(q, c)
      PROVE  FALSE
  <2>1. q # o
    BY <1>0, <1>4 DEF ServerMutates, ServeList, AnswerMutation, LoadListed, ServeSeats, ServeInvites
  <2>2. \E p : ops' = Replace(q, p)
    BY <1>4 DEF ServerMutates, ServeList, AnswerMutation, LoadListed, ServeSeats, ServeInvites, Served
  <2> QED BY <2>1, <2>2, ReplaceKeepsIds
<1>5. ASSUME NEW q \in ops,
             CampaignDeleted(q) \/ CampaignsListed(q) \/ SliceLands(q) \/ LoadLands(q) \/ OpFails(q)
      PROVE  SliceLands(o) \/ LoadLands(o)
  <2>1. PICK flag : Panels(ops \ {q}, flag)
    BY <1>5 DEF CampaignDeleted, CampaignsListed, SliceLands, LoadLands, OpFails
  <2>2. q = o
    BY <2>1, PanelsKeepIds
  <2> QED BY <1>0, <1>5, <2>2 DEF CampaignDeleted, CampaignsListed, OpFails
<1>6. ASSUME NEW id, ClickNode(id) \/ FollowLink(id)
      PROVE  FALSE
  <2>1. Panels(ops, panelLoading)
    BY <1>6 DEF ClickNode, FollowLink, Goes
  <2> QED BY <2>1, PanelsKeepIds
<1>7. CASE UNCHANGED treeVars
  BY <1>7 DEF treeVars
<1> QED BY <1>1, <1>2, <1>3, <1>4, <1>5, <1>6, <1>7 DEF AdminTreeNext

LEMMA LandingShows ==
  ASSUME AdminInv, WriteInv, NEW o \in ops, SliceLands(o) \/ LoadLands(o)
  PROVE  ShowsItsOwnWrite(o)
<1>0. OpOK(o) /\ Ones(seats) /\ Wrote(o, srv)
  BY DEF AdminInv, TreeInv, OpsOK, WriteInv
<1>1. CASE LoadLands(o)
  BY <1>1 DEF LoadLands, ShowsItsOwnWrite
<1>2. CASE SliceLands(o)
  <2> DEFINE other == {s \in BagToSet(seats) : s.camp # o.camp}
  <2>1. /\ seats' = SetToBag(other \cup o.gotSeats[o.camp])
        /\ o.camp \in DOMAIN o.gotSeats /\ o.camp \in DOMAIN o.gotInvites
    BY <1>0, <1>2, SliceLandsIs
  <2>2. o.stage = "refresh"
    BY <1>2 DEF SliceLands, Complete
  <2>3. BagToSet(seats') = other \cup o.gotSeats[o.camp]
    BY <2>1, SetBag
  <2>4. o.kind = "createSeat" => IsIn(seats', o.seat) \/ o.seat \notin srv.seats
    BY <1>0, <2>1, <2>2, <2>3 DEF Wrote, IsIn
  <2>5. o.kind = "deleteSeat" => ~IsIn(seats', o.seat)
    BY <1>0, <2>1, <2>2, <2>3 DEF Wrote, IsIn, OpOK, SliceKinds
  <2>6. ASSUME o.kind = "createInvite", o.seat \in srv.seats
        PROVE  \E revoked \in BOOLEAN : IsIn(invites', Invite(o.seat, revoked))
    <3>1. PICK revoked \in BOOLEAN : Invite(o.seat, revoked) \in o.gotInvites[o.camp]
      BY <1>0, <2>1, <2>2, <2>6 DEF Wrote, Has
    <3> DEFINE kept == Keep(invites, LAMBDA i : i.seat \notin o.oldSeatIds)
               got == SetToBag(o.gotInvites[o.camp])
    <3>2. invites' = kept (+) got
      BY <1>2 DEF SliceLands
    <3>3. DOMAIN got = o.gotInvites[o.camp]
      BY SetBag DEF BagToSet
    <3> HIDE DEF kept, got
    <3>4. Invite(o.seat, revoked) \in DOMAIN invites'
      BY <3>1, <3>2, <3>3 DEF (+)
    <3> QED BY <3>4 DEF IsIn, BagToSet
  <2> QED BY <2>4, <2>5, <2>6 DEF ShowsItsOwnWrite
<1> QED BY <1>1, <1>2

(* An operation that ends well shows what it did, unless it was undone since,  *)
(* for any number of operations and whatever the order of their answers.       *)
THEOREM AnswersShowTheirWrites == AdminTreeSpec => AnswerShowsItsWrite
<1>1. AdminInv /\ WriteInv /\ [AdminTreeNext]_treeVars
        => [\A o \in ops : (Complete(o) /\ \A p \in ops' : p.id # o.id) => ShowsItsOwnWrite(o)]_treeVars
  BY LeavesByLanding, LandingShows DEF AdminInv, TreeInv
<1> QED BY <1>1, AdminInitInv, AdminStepInv, WriteInitInv, WriteStepInv, PTL
        DEF AdminTreeSpec, AnswerShowsItsWrite

------------------------------------------------------------------------------
(* The tab: its parts leave each other's state alone, so each keeps its        *)
(* invariant.                                                                  *)
PagesInv == WindowsInv /\ CanvasInv /\ AdminInv /\ WriteInv

LEMMA WindowsStand == WindowsInv /\ UNCHANGED winVars => WindowsInv'
BY WindowsStepInv

LEMMA CanvasStands == CanvasInv /\ UNCHANGED canvasVars => CanvasInv'
BY CanvasStepInv

LEMMA AdminStands == AdminInv /\ WriteInv /\ UNCHANGED treeVars => AdminInv' /\ WriteInv'
BY AdminStepInv, WriteStepInv

LEMMA PagesStepInv == PagesInv /\ [ClientPagesNext]_pageVars => PagesInv'
<1> SUFFICES ASSUME PagesInv, [ClientPagesNext]_pageVars
             PROVE  PagesInv'
  OBVIOUS
<1>1. CASE WindowsNext /\ UNCHANGED <<treeVars, canvasVars>>
  BY <1>1, WindowsStepInv, CanvasStands, AdminStands DEF PagesInv
<1>2. CASE CanvasNext /\ UNCHANGED <<winVars, treeVars>>
  BY <1>2, CanvasStepInv, WindowsStand, AdminStands DEF PagesInv
<1>3. CASE AdminTreeNext /\ UNCHANGED <<winVars, canvasVars>>
  BY <1>3, AdminStepInv, WriteStepInv, WindowsStand, CanvasStands DEF PagesInv
<1>4. CASE UNCHANGED pageVars
  BY <1>4, WindowsStand, CanvasStands, AdminStands DEF PagesInv, pageVars
<1> QED BY <1>1, <1>2, <1>3, <1>4 DEF ClientPagesNext

(* In the tab as a whole: what each part promises holds whichever page is      *)
(* shown.                                                                      *)
THEOREM PagesKeepTheirPromises ==
  ClientPagesSpec => [](/\ EachWindowHasOneHome /\ CanvasShowsStores /\ GesturesCleanUp
                        /\ TreeIsSound /\ CalmStoreIsTheServer)
                     /\ AnswerShowsItsWrite
<1>1. ClientPagesInit => PagesInv
  BY WindowsInitInv, CanvasInitInv, AdminInitInv, WriteInitInv DEF ClientPagesInit, PagesInv
<1>2. PagesInv => /\ EachWindowHasOneHome /\ CanvasShowsStores /\ GesturesCleanUp
                  /\ TreeIsSound /\ CalmStoreIsTheServer
  BY HomesAreSound, CanvasIsSound, AdminIsSound DEF PagesInv
<1>3. PagesInv /\ [ClientPagesNext]_pageVars
        => [\A o \in ops : (Complete(o) /\ \A p \in ops' : p.id # o.id) => ShowsItsOwnWrite(o)]_treeVars
  <2> SUFFICES ASSUME PagesInv, [ClientPagesNext]_pageVars, ~UNCHANGED treeVars
               PROVE  \A o \in ops : (Complete(o) /\ \A p \in ops' : p.id # o.id) => ShowsItsOwnWrite(o)
    OBVIOUS
  <2>1. [AdminTreeNext]_treeVars /\ AdminInv /\ WriteInv
    BY DEF ClientPagesNext, pageVars, PagesInv
  <2> QED BY <2>1, LeavesByLanding, LandingShows DEF AdminInv, TreeInv
<1> QED BY <1>1, <1>2, <1>3, PagesStepInv, PTL DEF ClientPagesSpec, AnswerShowsItsWrite

------------------------------------------------------------------------------
(* The connection of the play page, for any number of sockets, refreshes and   *)
(* faults.                                                                     *)
\* connect() leaves the client with a live socket, the only one.
LEMMA ConnectGivesSocket ==
  ASSUME ConnectionInv, Connect
  PROVE  /\ ws' \in Sockets /\ socket'[ws'] \in Live
         /\ socket' \in [Sockets -> Live \cup Leaving \cup {"none"}]
         /\ \A s \in Sockets : socket'[s] \in Live => ws' = s
         /\ shouldReconnect' /\ shouldReconnect' \in BOOLEAN /\ gaveUp' = FALSE
         /\ \/ status' = "connecting" /\ socket'[ws'] = "connecting" /\ ~HasSocket
            \/ UNCHANGED <<ws, socket, status>> /\ HasSocket
<1> USE ClientAssumption DEF ConnectionInv
<1>1. CASE HasSocket
  BY <1>1 DEF Connect, HasSocket, ConnectionTypeOK, OneLiveSocket
<1>2. CASE ~HasSocket
  <2>1. PICK s \in Sockets : /\ socket[s] = "none"
                             /\ socket' = [socket EXCEPT ![s] = "connecting"]
                             /\ ws' = s
    BY <1>2 DEF Connect
  <2>2. \A t \in Sockets : socket[t] \notin Live
    BY <1>2 DEF HasSocket, OneLiveSocket
  <2>3. QED
    BY <1>2, <2>1, <2>2 DEF Connect, ConnectionTypeOK, Live
<1>3. QED
  BY <1>1, <1>2

\* disconnect() leaves no live socket.
LEMMA DisconnectLeavesNone ==
  ASSUME ConnectionInv, Disconnect
  PROVE  /\ ws' = NoSocket /\ mounted' = FALSE /\ ping' = FALSE /\ timer' = FALSE
         /\ shouldReconnect' = FALSE /\ status' = "disconnected"
         /\ socket' \in [Sockets -> Live \cup Leaving \cup {"none"}]
         /\ OneLiveSocket' /\ StatusIsTrue' /\ PingHasSocket' /\ NeverStranded'
<1> SUFFICES /\ socket' \in [Sockets -> Live \cup Leaving \cup {"none"}]
             /\ \A s \in Sockets : socket'[s] \notin Live
  BY DEF Disconnect, OneLiveSocket, StatusIsTrue, PingHasSocket, NeverStranded
<1> USE ClientAssumption DEF ConnectionInv
<1>1. CASE ws = NoSocket
  BY <1>1 DEF Disconnect, CloseOwn, ConnectionTypeOK, OneLiveSocket
<1>2. CASE ws # NoSocket
  <2>1. Closed(socket[ws]) \in Leaving
    BY <1>2 DEF Closed, Leaving
  <2>2. \A s \in Sockets : socket[s] \in Live => s = ws
    BY DEF OneLiveSocket
  <2>3. socket' = [socket EXCEPT ![ws] = Closed(socket[ws])]
    BY <1>2 DEF Disconnect, CloseOwn
  <2>4. \A s \in Sockets : socket'[s] \notin Live
    BY <1>2, <2>1, <2>2, <2>3 DEF ConnectionTypeOK, Live, Leaving
  <2>5. QED
    BY <2>1, <2>3, <2>4 DEF Disconnect, ConnectionTypeOK
<1>3. QED
  BY <1>1, <1>2

\* A socket that closes takes nothing else with it.
LEMMA ClosesOne ==
  ASSUME ConnectionInv, NEW s \in Sockets, NEW code, Closes(s, code)
  PROVE  /\ ws' \in Sockets \cup {NoSocket}
         /\ socket' \in [Sockets -> Live \cup Leaving \cup {"none"}]
         /\ \A t \in Sockets : socket'[t] \in Live => ws' = t
         /\ ws' # NoSocket => socket'[ws'] \in Live
         /\ session' \in BOOLEAN /\ seat' \in BOOLEAN /\ faults' \in 0..MaxFaults
<1> USE ClientAssumption DEF ConnectionInv
<1>1. session' \in BOOLEAN /\ seat' \in BOOLEAN
  BY DEF Closes, MayClose, serverVars, ConnectionTypeOK
<1>2. faults' \in 0..MaxFaults
  BY DEF Closes, MayClose, serverVars, ConnectionTypeOK
<1>3. ws' \in Sockets \cup {NoSocket} /\ socket' = [socket EXCEPT ![s] = "none"]
      /\ ws' = IF ws = s THEN NoSocket ELSE ws
  BY DEF Closes, ConnectionTypeOK
<1>4. QED
  BY <1>1, <1>2, <1>3 DEF ConnectionTypeOK, OneLiveSocket, Live, Leaving

\* What the client knows of itself is always so.
THEOREM ConnectionIsSound == ConnectionSpec => []ConnectionInv
<1> USE ClientAssumption
<1>1. ConnectionInit => ConnectionInv
  <2> SUFFICES ASSUME ConnectionInit PROVE ConnectionInv
    OBVIOUS
  <2>1. refreshing \in 0..MaxRefreshes /\ faults \in 0..MaxFaults /\ tries \in 0..2
    BY DEF ConnectionInit
  <2>2. ConnectionTypeOK
    BY <2>1 DEF ConnectionInit, ConnectionTypeOK
  <2>3. QED
    BY <2>2 DEF ConnectionInit, ConnectionInv, OneLiveSocket, StatusIsTrue, PingHasSocket,
       NeverStranded, Live
<1>2. ConnectionInv /\ [ConnectionNext]_connectionVars => ConnectionInv'
  <2> SUFFICES ASSUME ConnectionInv, [ConnectionNext]_connectionVars
               PROVE  ConnectionInv'
    OBVIOUS
  <2> USE DEF ConnectionInv, serverVars, historyVars
  <2>1. CASE MountPage
    BY <2>1, ConnectGivesSocket DEF MountPage, ConnectionTypeOK, OneLiveSocket, StatusIsTrue,
       PingHasSocket, NeverStranded, HasSocket
  <2>2. CASE UnmountPage
    <3>1. ConnectionTypeOK'
      BY <2>2, DisconnectLeavesNone DEF UnmountPage, ConnectionTypeOK
    <3>2. QED
      BY <2>2, <3>1, DisconnectLeavesNone DEF UnmountPage
  <2>3. CASE TimerFires
    BY <2>3, ConnectGivesSocket DEF TimerFires, ConnectionTypeOK, OneLiveSocket,
       StatusIsTrue, PingHasSocket, NeverStranded, HasSocket
  <2>4. CASE RefreshSucceeds
    <3>1. refreshing' \in 0..MaxRefreshes
      BY <2>4 DEF RefreshSucceeds, ConnectionTypeOK
    <3>2. ConnectionTypeOK'
      BY <2>4, <3>1, ConnectGivesSocket DEF RefreshSucceeds, ConnectionTypeOK
    <3>3. QED
      BY <2>4, <3>2, ConnectGivesSocket DEF RefreshSucceeds, OneLiveSocket,
         StatusIsTrue, PingHasSocket, NeverStranded, HasSocket
  <2>5. CASE RefreshFails
    <3>1. CASE mounted
      <4>1. refreshing' \in 0..MaxRefreshes /\ faults' \in 0..MaxFaults
        BY <2>5 DEF RefreshFails, ConnectionTypeOK
      <4>2. ConnectionTypeOK'
        BY <2>5, <3>1, <4>1, DisconnectLeavesNone DEF RefreshFails, ConnectionTypeOK
      <4>3. QED
        BY <2>5, <3>1, <4>2, DisconnectLeavesNone DEF RefreshFails
    <3>2. CASE ~mounted
      BY <2>5, <3>2 DEF RefreshFails, ConnectionTypeOK, OneLiveSocket, StatusIsTrue,
         PingHasSocket, NeverStranded
    <3>3. QED
      BY <3>1, <3>2
  <2>6. ASSUME NEW s \in Sockets, Opens(s)
        PROVE  ConnectionInv'
    <3>1. ws = s
      BY <2>6 DEF Opens, OneLiveSocket, Live
    <3>2. QED
      BY <2>6, <3>1 DEF Opens, ConnectionTypeOK, OneLiveSocket, StatusIsTrue,
         PingHasSocket, NeverStranded, HasSocket, Live, Leaving
  <2>7. ASSUME NEW s \in Sockets, Welcome(s)
        PROVE  ConnectionInv'
    <3>1. ws = s
      BY <2>7 DEF Welcome, OneLiveSocket, Live
    <3>2. QED
      BY <2>7, <3>1 DEF Welcome, ConnectionTypeOK, OneLiveSocket, StatusIsTrue,
         PingHasSocket, NeverStranded, HasSocket, Live, Leaving
  <2>8. ASSUME NEW s \in Sockets, NEW code \in Codes, CloseUnwanted(s, code)
        PROVE  ConnectionInv'
    BY <2>8, ClosesOne DEF CloseUnwanted, ConnectionTypeOK, OneLiveSocket, StatusIsTrue,
       PingHasSocket, NeverStranded
  <2>9. ASSUME NEW s \in Sockets, CloseUnauthorized(s)
        PROVE  ConnectionInv'
    <3>1. refreshing' \in 0..MaxRefreshes /\ refreshing' > 0 /\ tries' \in 0..2
      BY <2>9 DEF CloseUnauthorized, ConnectionTypeOK
    <3>2. ConnectionTypeOK'
      BY <2>9, <3>1, ClosesOne DEF CloseUnauthorized, ConnectionTypeOK
    <3>3. QED
      BY <2>9, <3>1, <3>2, ClosesOne DEF CloseUnauthorized, OneLiveSocket,
         StatusIsTrue, PingHasSocket, NeverStranded
  <2>10. ASSUME NEW s \in Sockets, CloseRevoked(s)
         PROVE  ConnectionInv'
    <3>1. session' \in BOOLEAN /\ seat' \in BOOLEAN
      BY <2>10 DEF CloseRevoked, MayClose, ConnectionTypeOK
    <3>2. faults' \in 0..MaxFaults
      BY <2>10 DEF CloseRevoked, MayClose, ConnectionTypeOK
    <3>3. CASE mounted
      <4>1. socket' = [t \in Sockets |-> IF t = s THEN "none"
                                        ELSE IF t = ws THEN Closed(socket[t])
                                        ELSE socket[t]]
            /\ ws' = NoSocket
        BY <2>10, <3>3 DEF CloseRevoked
      <4>2. \A t \in Sockets : socket'[t] \in Leaving \cup {"none"}
        <5>1. TAKE t \in Sockets
        <5>2. CASE t = ws
          BY <4>1, <5>2 DEF Closed, ConnectionTypeOK, Leaving
        <5>3. CASE t # ws
          BY <4>1, <5>3 DEF ConnectionTypeOK, OneLiveSocket
        <5>4. QED
          BY <5>2, <5>3
      <4>3. socket' \in [Sockets -> Live \cup Leaving \cup {"none"}]
        BY <4>1, <4>2
      <4>4. \A t \in Sockets : socket'[t] \notin Live
        BY <4>2 DEF Live, Leaving
      <4>5. QED
        BY <2>10, <3>1, <3>2, <3>3, <4>1, <4>3, <4>4 DEF CloseRevoked, ConnectionTypeOK,
           OneLiveSocket, StatusIsTrue, PingHasSocket, NeverStranded
    <3>4. CASE ~mounted
      <4>1. /\ socket' = [socket EXCEPT ![s] = "none"]
            /\ ws' = IF ws = s THEN NoSocket ELSE ws
            /\ UNCHANGED <<shouldReconnect, timer, mounted>>
        BY <2>10, <3>4 DEF CloseRevoked
      <4>2. OneLiveSocket' /\ (ws' # NoSocket => socket'[ws'] \in Live)
        BY <4>1 DEF ConnectionTypeOK, OneLiveSocket, Live
      <4>3. ConnectionTypeOK'
        BY <2>10, <3>1, <3>2, <4>1 DEF CloseRevoked, ConnectionTypeOK
      <4>4. QED
        BY <2>10, <3>4, <4>1, <4>2, <4>3 DEF CloseRevoked, StatusIsTrue,
           PingHasSocket, NeverStranded
    <3>5. QED
      BY <3>3, <3>4
  <2>11. ASSUME NEW s \in Sockets, CloseRefused(s)
         PROVE  ConnectionInv'
    BY <2>11, ClosesOne DEF CloseRefused, ConnectionTypeOK, OneLiveSocket, StatusIsTrue,
       PingHasSocket, NeverStranded
  <2>12. ASSUME NEW s \in Sockets, CloseLost(s)
         PROVE  ConnectionInv'
    BY <2>12, ClosesOne DEF CloseLost, ConnectionTypeOK, OneLiveSocket, StatusIsTrue,
       PingHasSocket, NeverStranded
  <2>13. CASE SessionEnds \/ LogsIn \/ SeatChanges
    <3>1. UNCHANGED <<clientVars, browserVars, faults, historyVars>>
          /\ session' \in BOOLEAN /\ seat' \in BOOLEAN
      BY <2>13 DEF SessionEnds, LogsIn, SeatChanges, ConnectionTypeOK
    <3>2. QED
      BY <3>1 DEF clientVars, browserVars, ConnectionTypeOK, OneLiveSocket, StatusIsTrue,
         PingHasSocket, NeverStranded, HasSocket
  <2>14. CASE UNCHANGED connectionVars
    BY <2>14 DEF connectionVars, clientVars, browserVars, ConnectionTypeOK, OneLiveSocket,
       StatusIsTrue, PingHasSocket, NeverStranded, HasSocket
  <2>15. QED
    BY <2>1, <2>2, <2>3, <2>4, <2>5, <2>6, <2>7, <2>8, <2>9, <2>10, <2>11,
       <2>12, <2>13, <2>14 DEF ConnectionNext, Refreshed, CloseEvent
<1>3. QED
  BY <1>1, <1>2, PTL DEF ConnectionSpec

\* Every variable keeps its type.
THEOREM ConnectionTypeCorrect == ConnectionSpec => []ConnectionTypeOK
<1>1. ConnectionInv => ConnectionTypeOK
  BY DEF ConnectionInv
<1>2. QED
  BY <1>1, ConnectionIsSound, PTL

\* There is never more than one live socket.
THEOREM OneSocket == ConnectionSpec => []OneLiveSocket
<1>1. ConnectionInv => OneLiveSocket
  BY DEF ConnectionInv
<1>2. QED
  BY <1>1, ConnectionIsSound, PTL

\* The status on the page is true, whatever order the events come in.
THEOREM StatusCorrect == ConnectionSpec => []StatusIsTrue
<1>1. ConnectionInv => StatusIsTrue
  BY DEF ConnectionInv
<1>2. QED
  BY <1>1, ConnectionIsSound, PTL

\* No order of events leaves a page that is shown without a connection and
\* without anything under way that can bring it back.
THEOREM NotStranded == ConnectionSpec => []NeverStranded
<1>1. ConnectionInv => NeverStranded
  BY DEF ConnectionInv
<1>2. QED
  BY <1>1, ConnectionIsSound, PTL

\* The keepalive interval stops with its socket.
THEOREM PingStops == ConnectionSpec => []PingHasSocket
<1>1. ConnectionInv => PingHasSocket
  BY DEF ConnectionInv
<1>2. QED
  BY <1>1, ConnectionIsSound, PTL
==============================================================================
