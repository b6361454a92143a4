----------------------- MODULE PeersAndFindingsProofs -----------------------
(***************************************************************************)
(* Theorems about two components that share nothing: the peers' mesh       *)
(* (PeerMesh), for every set of daemons and every debounce window with a   *)
(* longer cooldown; and what the health endpoint says of offending paths   *)
(* (Findings), for every tree, every set of times and all caps.            *)
(***************************************************************************)
EXTENDS PeerMesh, Findings, SequenceTheorems, FiniteSetTheorems,
        WellFoundedInduction, TLAPS


-----------------------------------------------------------------------------
\* Every variable keeps the type of what it models (the locals of Engine.Run,
\* the watcher's timer, the requests of NotifyPeers).
THEOREM MeshTypeOK == Spec => []TypeOK
<1> USE PeerMeshAssumption
<1>1. Init => TypeOK
  BY DEF Init, TypeOK, Events, FromWatcher, Closed
<1>2. TypeOK /\ [Next]_vars => TypeOK'
  <2> SUFFICES ASSUME TypeOK, [Next]_vars
               PROVE  TypeOK'
    OBVIOUS
  <2> USE DEF TypeOK, Events, FromWatcher, Closed, engine, sources, files
  <2>1. ASSUME NEW n \in Nodes, Fire(n) PROVE TypeOK'
    BY <2>1 DEF Fire, Put
  <2>2. ASSUME NEW n \in Nodes, Poll(n) PROVE TypeOK'
    BY <2>2 DEF Poll, Put
  <2>3. ASSUME NEW n \in Nodes, Take(n) PROVE TypeOK'
    <3>1. CASE Discard(n)
      BY <3>1 DEF Discard
    <3>2. CASE Begin(n)
      BY <3>2 DEF Begin
    <3> QED
      BY <2>3, <3>1, <3>2 DEF Take
  <2>4. ASSUME NEW n \in Nodes, Work(n) PROVE TypeOK'
    <3>1. CASE Upload(n)
      BY <3>1 DEF Upload
    <3>2. CASE Download(n)
      BY <3>2 DEF Download
    <3>3. CASE Succeed(n)
      BY <3>3 DEF Succeed, Stop, NotifyPeers
    <3> QED
      BY <2>4, <3>1, <3>2, <3>3 DEF Work
  <2>5. ASSUME NEW n \in Nodes, Disturb(n) PROVE TypeOK'
    <3>1. CASE Edit(n)
      BY <3>1 DEF Edit
    <3>2. CASE Fail(n)
      BY <3>2 DEF Fail, Stop
    <3>3. CASE Restart(n)
      BY <3>3 DEF Restart, Stop
    <3> QED
      BY <2>5, <3>1, <3>2, <3>3 DEF Disturb
  <2>6. ASSUME NEW n \in Nodes, NEW m \in Nodes, Deliver(n, m) \/ Lose(n, m)
        PROVE  TypeOK'
    BY <2>6 DEF Deliver, Lose, Put
  <2>7. CASE Tick
    BY <2>7 DEF Tick
  <2>8. CASE UNCHANGED vars
    BY <2>8 DEF vars
  <2> QED
    BY <2>1, <2>2, <2>3, <2>4, <2>5, <2>6, <2>7, <2>8 DEF Next
<1> QED
  BY <1>1, <1>2, PTL DEF Spec

-----------------------------------------------------------------------------
\* What nextcloudcmd writes falls into a debounce window that began during
\* the sync, so its event arrives during a sync or so soon after one that the
\* cooldown is not over: the window and the rest together never exceed a
\* debounce window.
OnlyWhileRunning(n) == ~running[n] => toDo[n] = {}
EchoWindow(n) ==
    window[n] >= 0 /\ ~edited[n] => running[n] \/ rest[n] + window[n] <= Debounce
EchoEvent(n) == event[n] = "echo" => running[n] \/ rest[n] <= Debounce

EchoInv ==
    \A n \in Nodes : /\ OnlyWhileRunning(n)
                     /\ EchoWindow(n)
                     /\ EchoEvent(n)
                     /\ by[n] # "echo"

\* engine.go:136 and main.go's cooldown, when it is longer than the debounce
\* window: of the events of the watcher only those that stand for an edit
\* reach a sync, so no sync that answers a download notifies the peers,
\* however many there are.
THEOREM MeshNoPingPong ==
    ASSUME Debounce < Cooldown
    PROVE  Spec => []NoPingPong
<1> USE PeerMeshAssumption
<1>1. Init => EchoInv
  BY DEF Init, EchoInv, OnlyWhileRunning, EchoWindow, EchoEvent, Closed
<1>2. TypeOK /\ EchoInv /\ [Next]_vars => EchoInv'
  <2> SUFFICES ASSUME TypeOK, EchoInv, [Next]_vars
               PROVE  EchoInv'
    OBVIOUS
  <2> USE DEF TypeOK, EchoInv, OnlyWhileRunning, EchoWindow, EchoEvent, Closed,
              engine, sources, files
  <2>1. ASSUME NEW n \in Nodes, Fire(n) PROVE EchoInv'
    BY <2>1 DEF Fire, Put
  <2>2. ASSUME NEW n \in Nodes, Poll(n) PROVE EchoInv'
    BY <2>2 DEF Poll, Put
  <2>3. ASSUME NEW n \in Nodes, Take(n) PROVE EchoInv'
    <3>1. CASE Discard(n)
      BY <3>1 DEF Discard
    <3>2. CASE Begin(n)
      BY <3>2 DEF Begin
    <3> QED
      BY <2>3, <3>1, <3>2 DEF Take
  <2>4. ASSUME NEW n \in Nodes, Work(n) PROVE EchoInv'
    <3>1. CASE Upload(n)
      BY <3>1 DEF Upload
    <3>2. CASE Download(n)
      BY <3>2 DEF Download
    <3>3. CASE Succeed(n)
      BY <3>3 DEF Succeed, Stop
    <3> QED
      BY <2>4, <3>1, <3>2, <3>3 DEF Work
  <2>5. ASSUME NEW n \in Nodes, Disturb(n) PROVE EchoInv'
    <3>1. CASE Edit(n)
      BY <3>1 DEF Edit
    <3>2. CASE Fail(n)
      BY <3>2 DEF Fail, Stop
    <3>3. CASE Restart(n)
      BY <3>3 DEF Restart, Stop
    <3> QED
      BY <2>5, <3>1, <3>2, <3>3 DEF Disturb
  <2>6. ASSUME NEW n \in Nodes, NEW m \in Nodes, Deliver(n, m) \/ Lose(n, m)
        PROVE  EchoInv'
    BY <2>6 DEF Deliver, Lose, Put
  <2>7. CASE Tick
    BY <2>7 DEF Tick, Urgent
  <2>8. CASE UNCHANGED vars
    BY <2>8 DEF vars
  <2> QED
    BY <2>1, <2>2, <2>3, <2>4, <2>5, <2>6, <2>7, <2>8 DEF Next
<1>3. EchoInv => NoPingPong
  BY DEF EchoInv, NoPingPong
<1> QED
  BY <1>1, <1>2, <1>3, MeshTypeOK, PTL DEF Spec

-----------------------------------------------------------------------------
(* Sorting and shortening lists (HealthLists).                             *)

\* Whether the sort puts entry j before entry i, or is i.
NoLater(list, j, i) ==
    \/ list[j].modified > list[i].modified
    \/ list[j].modified = list[i].modified /\ j <= i

\* The places of two entries are in the list, and differ as the sort has it.
LEMMA Places ==
    ASSUME NEW E, \A e \in E : e.modified \in Int, NEW list \in Seq(E),
           NEW i \in 1..Len(list), NEW j \in 1..Len(list)
    PROVE  /\ Place(list, i) \in 1..Len(list)
           /\ i # j /\ NoLater(list, i, j) => Place(list, i) < Place(list, j)
<1> DEFINE D == DOMAIN list
           Ahead(k) == {m \in D : NoLater(list, m, k)}
<1>1. D = 1..Len(list) /\ Len(list) \in Nat
  BY LenProperties
<1>2. IsFiniteSet(D) /\ Cardinality(D) = Len(list)
  <2> HIDE DEF D
  <2> DEFINE n == Len(list)
  <2>1. n \in Nat
    BY <1>1
  <2> HIDE DEF n
  <2>2. IsFiniteSet(1..n) /\ Cardinality(1..n) = IF 1 > n THEN 0 ELSE n - 1 + 1
    BY <2>1, FS_Interval
  <2>3. Cardinality(1..n) = n
    BY <2>1, <2>2
  <2> QED
    BY <1>1, <2>2, <2>3 DEF n
<1>3. \A k \in D : list[k].modified \in Int
  BY <1>1, ElementOfSeq
<1>4. \A k \in D : Place(list, k) = Cardinality(Ahead(k)) /\ Ahead(k) \subseteq D
  BY DEF Place, NoLater
<1>5. \A k \in D : IsFiniteSet(Ahead(k)) /\ Cardinality(Ahead(k)) \in 0..Len(list)
  BY <1>1, <1>2, <1>4, FS_Subset, FS_CardinalityType
<1>6. i \in Ahead(i)
  BY <1>1, <1>3 DEF NoLater
<1>7. Cardinality(Ahead(i)) # 0
  BY <1>5, <1>6, FS_EmptySet
<1>8. ASSUME i # j, NoLater(list, i, j)
      PROVE  Cardinality(Ahead(i)) < Cardinality(Ahead(j))
  <2>1. Ahead(i) \subseteq Ahead(j)
    BY <1>1, <1>3, <1>8 DEF NoLater
  <2>2. j \in Ahead(j) /\ j \notin Ahead(i)
    BY <1>1, <1>3, <1>8 DEF NoLater
  <2> HIDE DEF Ahead
  <2>3. Cardinality(Ahead(i)) <= Cardinality(Ahead(j))
        /\ Cardinality(Ahead(j)) # Cardinality(Ahead(i))
    BY <1>5, <2>1, <2>2, FS_Subset
  <2> QED
    BY <1>5, <2>3
<1> HIDE DEF Ahead
<1> QED
  BY <1>1, <1>4, <1>5, <1>7, <1>8

\* One list has the entries of another in an order of its own.
Rearranges(other, list) ==
    \E from \in [1..Len(list) -> 1..Len(list)] :
        /\ \A i \in 1..Len(list) : other[i] = list[from[i]]
        /\ \A i, j \in 1..Len(list) : from[i] = from[j] => i = j
        /\ \A i \in 1..Len(list) : \E j \in 1..Len(list) : from[j] = i

\* The list that NewestFirst returns has the entries of the one it was
\* given, in an order of their own, the newer first.
LEMMA Sorting ==
    ASSUME NEW E, \A e \in E : e.modified \in Int, NEW list \in Seq(E)
    PROVE  LET sorted == NewestFirst(list)
               n == Len(list)
           IN  /\ sorted \in Seq(E) /\ Len(sorted) = n
               /\ \A i, j \in 1..n :
                     i < j => sorted[i].modified >= sorted[j].modified
               /\ Rearranges(sorted, list)
<1> DEFINE n == Len(list)
           D == DOMAIN list
           place == [i \in D |-> Place(list, i)]
           from == [k \in D |-> From(list, k)]
           sorted == NewestFirst(list)
<1>1. D = 1..n /\ n \in Nat
  BY LenProperties
<1>2. IsFiniteSet(D)
  BY <1>1, FS_Interval
<1>3. \A i \in D : list[i] \in E /\ list[i].modified \in Int
  BY <1>1, ElementOfSeq
<1>4. place \in [D -> D]
  BY <1>1, Places
<1>5. \A i, j \in D : i # j => NoLater(list, i, j) \/ NoLater(list, j, i)
  BY <1>3 DEF NoLater
<1>6. \A i, j \in D : i # j /\ NoLater(list, i, j) => place[i] < place[j]
  BY <1>1, Places
<1>7. \A i, j \in D : place[i] = place[j] => i = j
  <2> SUFFICES ASSUME NEW i \in D, NEW j \in D, i # j PROVE place[i] # place[j]
    OBVIOUS
  <2> HIDE DEF place
  <2> QED
    BY <1>1, <1>4, <1>5, <1>6
<1>8. place \in Surjection(D, D)
  <2>1. place \in Injection(D, D)
    <3> HIDE DEF place, D
    <3> QED BY <1>4, <1>7 DEF Injection, IsInjective
  <2> HIDE DEF place, D
  <2> QED
    BY <1>2, <2>1, FS_Injection
<1>9. \A k \in D : from[k] \in D /\ place[from[k]] = k
  <2> SUFFICES ASSUME NEW k \in D
               PROVE  From(list, k) \in D /\ place[From(list, k)] = k
    OBVIOUS
  <2>1. \E i \in D : place[i] = k
    <3> HIDE DEF place, D
    <3> QED BY <1>8 DEF Surjection
  <2>2. \E i \in D : Place(list, i) = k
    BY <2>1
  <2> QED
    BY <2>2 DEF From
<1>10. \A i \in D : from[place[i]] = i
  <2> HIDE DEF place, from, D
  <2> QED
    BY <1>4, <1>7, <1>9
<1>11. sorted = [k \in D |-> list[from[k]]]
  BY DEF NewestFirst
<1>12. /\ \A k \in D : sorted[k] = list[from[k]] /\ sorted[k] \in E
       /\ sorted \in [1..n -> E]
  <2> HIDE DEF from, D
  <2>1. \A k \in D : sorted[k] = list[from[k]] /\ sorted[k] \in E
    BY <1>3, <1>9, <1>11
  <2>2. sorted \in [D -> E]
    BY <1>3, <1>9, <1>11
  <2> QED
    BY <1>1, <2>1, <2>2
<1>13. sorted \in Seq(E) /\ Len(sorted) = n
  <2> HIDE DEF sorted, n
  <2> QED BY <1>1, <1>12, SeqDef
<1>14. ASSUME NEW k \in D, NEW l \in D, k < l
       PROVE  sorted[k].modified >= sorted[l].modified
  <2> HIDE DEF place, from, D
  <2> DEFINE a == from[k]
             b == from[l]
  <2>1. a \in D /\ b \in D /\ place[a] = k /\ place[b] = l
    BY <1>9
  <2>2. k \in Int /\ l \in Int
    BY <1>1
  <2>3. a # b /\ ~ (place[b] < place[a])
    BY <1>14, <2>1, <2>2
  <2>5. ~ NoLater(list, b, a)
    BY <1>6, <2>1, <2>3
  <2>4. list[a].modified >= list[b].modified
    BY <1>3, <2>1, <2>5 DEF NoLater
  <2> QED
    BY <1>12, <2>4
<1>15. from \in [D -> D] /\ (\A i, j \in D : from[i] = from[j] => i = j)
       /\ \A i \in D : \E j \in D : from[j] = i
  <2>1. from \in [D -> D]
    BY <1>9
  <2> HIDE DEF place, from, D
  <2> QED
    BY <1>4, <1>9, <1>10, <2>1
<1>16. Rearranges(sorted, list)
  <2> HIDE DEF from, place, D, sorted
  <2> QED
    BY <1>1, <1>12, <1>15 DEF Rearranges
<1> HIDE DEF from, place, D
<1> QED
  BY <1>1, <1>12, <1>13, <1>14, <1>16

\* UpTo keeps as many as there are, or as the cap allows, from the front.
LEMMA FromTheFront ==
    ASSUME NEW E, NEW list \in Seq(E), NEW cap \in Nat
    PROVE  LET front == UpTo(list, cap)
           IN  /\ front \in Seq(E)
               /\ Len(front) = Least(Len(list), cap)
               /\ \A i \in 1..Len(front) : front[i] = list[i] /\ i <= Len(list)
<1> DEFINE m == Least(Len(list), cap)
           front == UpTo(list, cap)
<1>1. Len(list) \in Nat /\ m \in 0..Len(list) /\ m <= cap
  BY LenProperties DEF Least
<1>2. front = SubSeq(list, 1, m)
  BY DEF UpTo, Least
<1> HIDE DEF m, front
<1>3. /\ \A i \in 1..m : list[i] \in E
      /\ 1..m \subseteq 1..Len(list)
  BY <1>1, ElementOfSeq
<1>4. front = [i \in 1..m |-> list[i]]
  BY <1>1, <1>2
<1>5. front \in Seq(E) /\ Len(front) = m
  BY <1>1, <1>3, <1>4, SeqDef
<1> QED
  BY <1>1, <1>3, <1>4, <1>5 DEF m, front

\* What Append changes in a list and in the set of its entries.
LEMMA Appended ==
    ASSUME NEW E, NEW list \in Seq(E), NEW e \in E
    PROVE  LET longer == Append(list, e)
           IN  /\ longer \in Seq(E) /\ Len(longer) = Len(list) + 1
               /\ \A i \in 1..Len(list) : longer[i] = list[i]
               /\ longer[Len(list) + 1] = e
               /\ ToSet(longer) = ToSet(list) \cup {e}
<1> DEFINE longer == Append(list, e)
<1>1. /\ Len(list) \in Nat /\ DOMAIN list = 1..Len(list)
      /\ longer \in Seq(E) /\ Len(longer) = Len(list) + 1
      /\ \A i \in 1..Len(list) : longer[i] = list[i]
      /\ longer[Len(list) + 1] = e
  BY LenProperties, AppendProperties
<1>2. DOMAIN longer = 1..Len(list) + 1
  BY <1>1, LenProperties
<1> HIDE DEF longer
<1>3. ToSet(longer) = ToSet(list) \cup {e}
  BY <1>1, <1>2 DEF ToSet
<1> QED
  BY <1>1, <1>3 DEF longer

-----------------------------------------------------------------------------
(* The list that is shown.                                                 *)

\* So that times can be compared.
LEMMA TimesAreNumbers == \A c \in Copied : c.modified \in Int
<1> SUFFICES ASSUME NEW c \in Copied
             PROVE  c.modified \in Int
  OBVIOUS
<1>1. c.modified \in Times \cup {0}
  BY DEF Copied, NoTime
<1>2. Times \subseteq Nat \ {0}
  BY FindingsAssumption
<1>3. \A t \in Times \cup {0} : t \in Int
  BY <1>2
<1> QED
  BY <1>1, <1>3

\* The copies listed are the newest of all, newest first; and they are as
\* many as the display allows when there are others.
Newest(all, list) ==
    /\ \A i, j \in DOMAIN list : i < j => list[i].modified >= list[j].modified
    /\ ToSet(list) \subseteq all
    /\ \A k \in all \ ToSet(list) :
          /\ Len(list) >= MaxDisplayedConflicts
          /\ \A s \in ToSet(list) : s.modified >= k.modified

\* The entries of a sorted list, up to the cap, are the newest.
LEMMA ShowsNewest ==
    ASSUME NEW list \in Seq(Copied)
    PROVE  LET shown == UpTo(NewestFirst(list), MaxDisplayedConflicts)
           IN  /\ shown \in Seq(Copied)
               /\ Len(shown) = Least(Len(list), MaxDisplayedConflicts)
               /\ Newest(ToSet(list), shown)
               /\ ToSet(NewestFirst(list)) = ToSet(list)
<1> DEFINE sorted == NewestFirst(list)
           n == Len(list)
           shown == UpTo(sorted, MaxDisplayedConflicts)
<1>0. \A c \in Copied : c.modified \in Int
  BY TimesAreNumbers
<1>1. n \in Nat /\ DOMAIN list = 1..n
  BY LenProperties
<1>2. /\ sorted \in Seq(Copied) /\ Len(sorted) = n
      /\ \A i, j \in 1..n : i < j => sorted[i].modified >= sorted[j].modified
      /\ Rearranges(sorted, list)
  BY <1>0, Sorting
<1>3. PICK from \in [1..n -> 1..n] :
        /\ \A i \in 1..n : sorted[i] = list[from[i]]
        /\ \A i, j \in 1..n : from[i] = from[j] => i = j
        /\ \A i \in 1..n : \E j \in 1..n : from[j] = i
  BY <1>2 DEF Rearranges
<1>4. DOMAIN sorted = 1..n
  BY <1>2, LenProperties
<1> HIDE DEF sorted, n
<1>5. ToSet(sorted) = ToSet(list)
  <2>1. /\ ToSet(sorted) = {sorted[i] : i \in 1..n}
        /\ ToSet(list) = {list[i] : i \in 1..n}
    BY <1>1, <1>4, Zenon DEF ToSet
  <2>2. ASSUME NEW i \in 1..n PROVE sorted[i] \in ToSet(list)
    BY <1>3, <2>1
  <2>3. ASSUME NEW i \in 1..n PROVE list[i] \in ToSet(sorted)
    <3>1. PICK j \in 1..n : from[j] = i
      BY <1>3
    <3>2. sorted[j] = list[i]
      BY <1>3, <3>1
    <3> QED
      BY <2>1, <3>2
  <2> QED
    BY <2>1, <2>2, <2>3
<1>6. /\ shown \in Seq(Copied)
      /\ Len(shown) = Least(n, MaxDisplayedConflicts)
      /\ \A i \in 1..Len(shown) : shown[i] = sorted[i]
  BY <1>2, DisplayAssumption, FromTheFront
<1>7. DOMAIN shown = 1..Len(shown) /\ Len(shown) \in Nat /\ Len(shown) <= n
  BY <1>1, <1>6, DisplayAssumption, LenProperties DEF Least
<1> HIDE DEF shown
<1>8. 1..Len(shown) \subseteq 1..n
  BY <1>1, <1>7
<1>9. ASSUME NEW k \in ToSet(list) \ ToSet(shown)
      PROVE  /\ Len(shown) >= MaxDisplayedConflicts
             /\ \A s \in ToSet(shown) : s.modified >= k.modified
  <2>1. PICK j \in 1..n : k = sorted[j]
    BY <1>4, <1>5 DEF ToSet
  <2>2. j > Len(shown)
    <3>1. ASSUME j \in 1..Len(shown) PROVE FALSE
      BY <1>6, <1>7, <2>1, <3>1 DEF ToSet
    <3> QED
      BY <1>1, <1>7, <3>1
  <2>3. Len(shown) >= MaxDisplayedConflicts
    BY <1>1, <1>6, <1>7, <2>2, DisplayAssumption DEF Least
  <2>4. ASSUME NEW i \in 1..Len(shown) PROVE shown[i].modified >= k.modified
    <3>1. shown[i] = sorted[i] /\ i \in 1..n
      BY <1>6, <1>8
    <3>2. i < j
      BY <1>1, <1>7, <2>2
    <3> QED
      BY <1>2, <2>1, <3>1, <3>2
  <2> QED
    BY <1>7, <2>3, <2>4 DEF ToSet
<1>10. \A i, j \in DOMAIN shown :
          i < j => shown[i].modified >= shown[j].modified
  BY <1>2, <1>6, <1>7, <1>8
<1>11. ToSet(shown) \subseteq ToSet(list)
  BY <1>4, <1>5, <1>6, <1>7, <1>8 DEF ToSet
<1>12. Newest(ToSet(list), shown)
  BY <1>9, <1>10, <1>11 DEF Newest
<1> QED
  BY <1>5, <1>6, <1>12 DEF shown, sorted, n
\* A copy put into the list that is shown leaves there the newest of all.
LEMMA StaysNewest ==
    ASSUME NEW all \in SUBSET Copied, NEW list \in Seq(Copied),
           NEW e \in Copied, Newest(all, list)
    PROVE  LET shown == UpTo(NewestFirst(Append(list, e)), MaxDisplayedConflicts)
           IN  /\ shown \in Seq(Copied)
               /\ Len(shown) = Least(Len(list) + 1, MaxDisplayedConflicts)
               /\ Newest(all \cup {e}, shown)
<1> DEFINE longer == Append(list, e)
           sorted == NewestFirst(longer)
           n == Len(list)
           shown == UpTo(sorted, MaxDisplayedConflicts)
<1>1. /\ longer \in Seq(Copied) /\ Len(longer) = n + 1
      /\ \A i \in 1..n : longer[i] = list[i]
      /\ longer[n + 1] = e
      /\ ToSet(longer) = ToSet(list) \cup {e}
  BY Appended
<1>2. n \in Nat /\ DOMAIN list = 1..n
  BY LenProperties
<1> HIDE DEF longer, n
<1>3. /\ sorted \in Seq(Copied) /\ Len(sorted) = n + 1
      /\ \A i, j \in 1..n + 1 : i < j => sorted[i].modified >= sorted[j].modified
      /\ Rearranges(sorted, longer)
  BY <1>1, TimesAreNumbers, Sorting
<1>4. PICK from \in [1..Len(longer) -> 1..Len(longer)] :
        /\ \A i \in 1..Len(longer) : sorted[i] = longer[from[i]]
        /\ \A i, j \in 1..Len(longer) : from[i] = from[j] => i = j
  BY <1>3 DEF Rearranges
<1>5. /\ shown \in Seq(Copied)
      /\ Len(shown) = Least(n + 1, MaxDisplayedConflicts)
      /\ Newest(ToSet(longer), shown)
  <2>1. longer \in Seq(Copied) /\ n + 1 = Len(longer)
    BY <1>1
  <2> QED
    BY <2>1, ShowsNewest
<1>6. \A i \in 1..Len(shown) : shown[i] = sorted[i] /\ i \in 1..n + 1
  BY <1>2, <1>3, DisplayAssumption, FromTheFront
<1> HIDE DEF sorted, shown
<1>7. DOMAIN shown = 1..Len(shown)
  BY <1>5, LenProperties
\* What was left out before is older than what is shown now.
<1>8. ASSUME NEW k \in all \ ToSet(list), NEW s \in ToSet(shown)
      PROVE  s.modified >= k.modified
  <2>1. /\ n >= MaxDisplayedConflicts
        /\ \A o \in ToSet(list) : o.modified >= k.modified
    BY DEF Newest, n
  <2>2. PICK r \in 1..Len(shown) : s = shown[r]
    BY <1>7 DEF ToSet
  <2>3. s = longer[from[r]] /\ r \in 1..n + 1 /\ from[r] \in 1..n + 1
    BY <1>1, <1>4, <1>6, <2>2
  <2>4. CASE from[r] \in 1..n
    BY <1>1, <1>2, <2>1, <2>3, <2>4 DEF ToSet
  \* It is the new one: an older entry is cut.
  <2>5. CASE from[r] = n + 1
    <3>1. Len(shown) <= n
      BY <1>2, <1>5, <2>1, DisplayAssumption DEF Least
    <3>2. r < n + 1 /\ r # n + 1 /\ n + 1 \in 1..n + 1
      <4>1. Len(shown) \in Nat
        BY <1>5, LenProperties
      <4> QED
        BY <1>2, <2>2, <3>1, <4>1
    <3>3. from[n + 1] \in 1..n
      BY <1>1, <1>2, <1>4, <2>3, <2>5, <3>2
    <3>4. sorted[n + 1] \in ToSet(list)
      BY <1>1, <1>2, <1>4, <3>2, <3>3 DEF ToSet
    <3>5. sorted[r].modified >= sorted[n + 1].modified
      BY <1>3, <2>3, <3>2
    <3>6. sorted[n + 1].modified >= k.modified /\ s = sorted[r]
      BY <1>6, <2>1, <2>2, <3>4
    <3>7. sorted[n + 1] \in Copied /\ s \in Copied /\ k \in Copied
      BY <1>3, <1>6, <2>2, <3>2, ElementOfSeq
    <3> QED
      BY <3>5, <3>6, <3>7, TimesAreNumbers
  <2> QED
    BY <1>2, <2>3, <2>4, <2>5
<1>9. ASSUME NEW k \in (all \cup {e}) \ ToSet(shown)
      PROVE  /\ Len(shown) >= MaxDisplayedConflicts
             /\ \A s \in ToSet(shown) : s.modified >= k.modified
  <2>1. CASE k \in ToSet(longer)
    BY <1>5, <2>1 DEF Newest
  <2>2. CASE k \in all \ ToSet(list)
    <3>1. n >= MaxDisplayedConflicts
      BY <2>2 DEF Newest, n
    <3>2. Len(shown) = MaxDisplayedConflicts
      BY <1>2, <1>5, <3>1, DisplayAssumption DEF Least
    <3> QED
      BY <1>8, <2>2, <3>2, DisplayAssumption
  <2> QED
    BY <1>1, <2>1, <2>2
<1>10. ToSet(shown) \subseteq all \cup {e}
  BY <1>1, <1>5 DEF Newest
<1>11. Newest(all \cup {e}, shown)
  BY <1>5, <1>9, <1>10 DEF Newest
<1> QED
  BY <1>5, <1>11 DEF shown, sorted, longer, n

\* Every set of numbers has a least one: the sets of its numbers up to each
\* are finite, and finite sets cannot shrink for ever.
LEMMA LeastNumber ==
    ASSUME NEW T \in SUBSET Nat, T # {}
    PROVE  \E x \in T : \A y \in T : x <= y
<1> DEFINE Till(n) == {m \in T : m <= n}
           R == StrictSubsetOrdering(Nat)
           F == FiniteSubsetsOf(Nat)
           C == {Till(n) : n \in T}
<1>1. IsWellFoundedOn(R, F)
  BY FS_StrictSubsetOrderingWellFounded
<1>2. C \subseteq F
  <2> SUFFICES ASSUME NEW n \in T PROVE Till(n) \in F
    OBVIOUS
  <2>1. Till(n) \in SUBSET Nat /\ \A s \in Till(n) : s <= n
    OBVIOUS
  <2> QED
    BY <2>1, FS_BoundedSetOfNaturals DEF FiniteSubsetsOf
<1>3. PICK U \in C : \A V \in C : <<V, U>> \notin R
  <2>1. C # {}
    OBVIOUS
  <2> HIDE DEF R, F, C
  <2> QED
    BY <1>1, <1>2, <2>1, WFMin
<1>4. PICK x \in T : U = Till(x)
  OBVIOUS
<1>5. ASSUME NEW y \in T, y < x PROVE FALSE
  <2>1. Till(y) \in SUBSET Nat /\ Till(x) \in SUBSET Nat
    OBVIOUS
  <2>2. Till(y) \in C
    <3> HIDE DEF Till
    <3> QED OBVIOUS
  <2>3. Till(y) \subseteq Till(x)
    <3>1. ASSUME NEW m \in T, m <= y PROVE m <= x
      <4>1. m \in Nat /\ x \in Nat /\ y \in Nat
        OBVIOUS
      <4> QED
        BY <1>5, <3>1, <4>1
    <3> QED
      BY <3>1
  <2>4. x \in Till(x) /\ x \notin Till(y)
    BY <1>5
  <2>5. <<Till(y), Till(x)>> \in R
    BY <2>1, <2>3, <2>4 DEF StrictSubsetOrdering
  <2> QED
    BY <1>3, <1>4, <2>2, <2>5
<1> QED
  BY <1>4, <1>5

-----------------------------------------------------------------------------
(* The walk, and the directories a path is in.                             *)

\* The walk meets the one path before the other.
Before(p, q) ==
    \E i, j \in DOMAIN WalkOrder :
        WalkOrder[i] = p /\ WalkOrder[j] = q /\ i < j

\* The walk has an order, in which a directory precedes what is in it.
LEMMA WalkIsOrdered ==
    /\ \A p, q, r : Before(p, q) /\ Before(q, r) => Before(p, r)
    /\ \A p : ~ Before(p, p)
    /\ \A p \in Paths : Parent[p] \in Paths => Before(Parent[p], p)
<1>1. DOMAIN WalkOrder = 1..Len(WalkOrder)
  BY WalkOrderAssumption, LenProperties
<1>2. \A i, j \in DOMAIN WalkOrder :
         /\ WalkOrder[i] = WalkOrder[j] => i = j
         /\ Parent[WalkOrder[j]] = WalkOrder[i] => i < j
  BY WalkOrderAssumption
<1>3. ASSUME NEW p, NEW q, NEW r, Before(p, q), Before(q, r)
      PROVE  Before(p, r)
  <2>1. PICK i, j \in DOMAIN WalkOrder :
            WalkOrder[i] = p /\ WalkOrder[j] = q /\ i < j
    BY <1>3 DEF Before
  <2>2. PICK k, l \in DOMAIN WalkOrder :
            WalkOrder[k] = q /\ WalkOrder[l] = r /\ k < l
    BY <1>3 DEF Before
  <2>3. j = k
    BY <1>2, <2>1, <2>2
  <2>4. i < l
    BY <1>1, <2>1, <2>2, <2>3
  <2> QED
    BY <2>1, <2>2, <2>4 DEF Before
<1>4. ASSUME NEW p, Before(p, p) PROVE FALSE
  <2>1. PICK i, j \in DOMAIN WalkOrder :
            WalkOrder[i] = p /\ WalkOrder[j] = p /\ i < j
    BY <1>4 DEF Before
  <2> QED
    BY <1>1, <1>2, <2>1
<1>5. ASSUME NEW p \in Paths, Parent[p] \in Paths PROVE Before(Parent[p], p)
  <2>1. PICK i \in DOMAIN WalkOrder : WalkOrder[i] = Parent[p]
    BY <1>5 DEF Paths, ToSet
  <2>2. PICK j \in DOMAIN WalkOrder : WalkOrder[j] = p
    BY DEF Paths, ToSet
  <2> QED
    BY <1>2, <2>1, <2>2 DEF Before
<1> QED
  BY <1>3, <1>4, <1>5

\* A path's directories lead from it to the root and to nowhere else, and a
\* connected set that holds the path holds them.
LEMMA WayUp ==
    ASSUME NEW p \in Paths
    PROVE  /\ Above[p] \subseteq Paths \ {p}
           /\ \A q \in {p} \cup Above[p] : Parent[q] \in Above[p] \cup {Root}
           /\ \A a \in Above[p] : \E c \in {p} \cup Above[p] : Parent[c] = a
           /\ \A S \in SUBSET Paths :
                 p \in S /\ Connected(S) => Above[p] \subseteq S
<1>1. Above[p] = {a \in Paths \ {p} :
                     \A S \in SUBSET Paths : p \in S /\ Connected(S) => a \in S}
  BY DEF Above
<1>2. \A q \in Paths : Parent[q] \in Paths \cup {Root}
  BY FindingsAssumption
<1>3. \A a \in Above[p] : Before(a, p)
  <2> DEFINE S == {q \in Paths : q = p \/ Before(q, p)}
  <2>1. Connected(S)
    BY <1>2, WalkIsOrdered DEF Connected
  <2> QED
    BY <1>1, <2>1
<1>4. ASSUME NEW q \in {p} \cup Above[p], Parent[q] # Root
      PROVE  Parent[q] \in Above[p]
  <2>1. q \in Paths /\ Parent[q] \in Paths
    BY <1>1, <1>2, <1>4
  <2>2. Parent[q] # p
    BY <1>3, <2>1, WalkIsOrdered
  <2>3. ASSUME NEW S \in SUBSET Paths, p \in S, Connected(S)
        PROVE  Parent[q] \in S
    BY <1>1, <1>4, <2>3 DEF Connected
  <2> QED
    BY <1>1, <2>1, <2>2, <2>3
<1>5. ASSUME NEW a \in Above[p], \A c \in {p} \cup Above[p] : Parent[c] # a
      PROVE  FALSE
  <2> DEFINE S == ({p} \cup Above[p]) \ {a}
  <2>1. S \in SUBSET Paths /\ p \in S
    BY <1>1
  <2>2. Connected(S)
    BY <1>4, <1>5 DEF Connected
  <2> QED
    BY <1>1, <2>1, <2>2
<1> QED
  BY <1>1, <1>4, <1>5

\* The uppermost of them is in the root.
LEMMA Uppermost ==
    ASSUME NEW p \in Paths
    PROVE  \E t \in {p} \cup Above[p] : Parent[t] = Root
<1> DEFINE T == {i \in DOMAIN WalkOrder : WalkOrder[i] \in {p} \cup Above[p]}
<1>1. DOMAIN WalkOrder = 1..Len(WalkOrder) /\ Len(WalkOrder) \in Nat
  BY WalkOrderAssumption, LenProperties
<1>2. T \in SUBSET Nat /\ T # {}
  BY <1>1 DEF Paths, ToSet
<1>3. PICK i \in T : \A j \in T : i <= j
  <2> HIDE DEF T
  <2> QED
    BY <1>2, LeastNumber
<1> DEFINE t == WalkOrder[i]
<1>4. t \in {p} \cup Above[p] /\ t \in Paths
  BY WayUp
<1>5. ASSUME Parent[t] # Root PROVE FALSE
  <2>1. Parent[t] \in Above[p] /\ Parent[t] \in Paths
    BY <1>4, <1>5, WayUp
  <2>2. PICK j, k \in DOMAIN WalkOrder :
            WalkOrder[j] = Parent[t] /\ WalkOrder[k] = t /\ j < k
    BY <1>4, <2>1, WalkIsOrdered DEF Before
  <2>3. k = i /\ j \in T
    BY <2>1, <2>2, WalkOrderAssumption
  <2> QED
    BY <1>1, <1>3, <2>2, <2>3
<1> QED
  BY <1>4, <1>5

-----------------------------------------------------------------------------
(* What the scan notes.                                                    *)

\* A list holds all of the paths, each once, or as many as it may.
Kept(paths, list, total) ==
    /\ IsFiniteSet(paths) /\ Cardinality(paths) = Len(list)
    /\ Len(list) <= total
    /\ total > Len(list) => Len(list) >= MaxFindings

CopyPaths(list) == {c.path : c \in ToSet(list)}

\* The fields of the findings.
LEMMA FoundFields ==
    ASSUME NEW f \in Found
    PROVE  /\ f.names \in Seq(Unusable) /\ Len(f.names) \in Nat
           /\ f.total \in Nat
           /\ f.copies \in Seq(Copied) /\ Len(f.copies) \in Nat
           /\ f.copyTotal \in Nat
<1>1. /\ f.names \in Seq(Unusable) /\ f.total \in Nat
      /\ f.copies \in Seq(Copied) /\ f.copyTotal \in Nat
  BY DEF Found
<1>2. f.names \in Seq(Unusable) /\ f.copies \in Seq(Copied)
  BY <1>1
<1>3. Len(f.names) \in Nat /\ Len(f.copies) \in Nat
  BY <1>2, LenProperties
<1> QED
  BY <1>1, <1>3

\* A name the walk comes to is kept, or the scan says it left some out.
LEMMA NameNoted ==
    ASSUME NEW f \in Found, NEW p \in Unusable,
           Kept(ToSet(f.names), f.names, f.total), p \notin ToSet(f.names)
    PROVE  LET g == NoteName(f, p)
           IN  /\ g \in Found
               /\ Kept(ToSet(g.names), g.names, g.total)
               /\ g.copies = f.copies /\ g.copyTotal = f.copyTotal
               /\ ToSet(g.names) \subseteq ToSet(f.names) \cup {p}
               /\ \/ g.total > Len(g.names)
                  \/ f.total = Len(f.names)
                     /\ ToSet(g.names) = ToSet(f.names) \cup {p}
<1> DEFINE g == NoteName(f, p)
           names == IF Len(f.names) < MaxFindings
                    THEN Append(f.names, p) ELSE f.names
<1>1. /\ f.names \in Seq(Unusable) /\ Len(f.names) \in Nat
      /\ f.total \in Nat
      /\ f.copies \in Seq(Copied) /\ Len(f.copies) \in Nat
      /\ f.copyTotal \in Nat
  BY FoundFields
<1>2. /\ g.names = names /\ g.total = f.total + 1
      /\ g.copies = f.copies /\ g.copyTotal = f.copyTotal
  BY DEF NoteName, Found
<1>3. ASSUME names \in Seq(Unusable) PROVE g \in Found
  <2> DEFINE total == f.total + 1
  <2>1. g = [f EXCEPT !.total = total, !.names = names]
    BY DEF NoteName
  <2>2. total \in Nat
    BY <1>1
  <2> HIDE DEF names, total, g
  <2> QED
    BY <1>3, <2>1, <2>2 DEF Found
<1>4. CASE Len(f.names) < MaxFindings
  <2>1. /\ names \in Seq(Unusable) /\ Len(names) = Len(f.names) + 1
        /\ ToSet(names) = ToSet(f.names) \cup {p}
    BY <1>1, <1>4, Appended
  <2>2. IsFiniteSet(ToSet(names)) /\ Cardinality(ToSet(names)) = Len(names)
    BY <2>1, FS_AddElement DEF Kept
  <2>3. f.total = Len(f.names)
    BY <1>1, <1>4, FindingsAssumption DEF Kept
  <2> HIDE DEF names
  <2>4. g \in Found /\ g.names = names /\ g.total = f.total + 1
        /\ g.copies = f.copies /\ g.copyTotal = f.copyTotal
    BY <1>1, <1>2, <1>3, <2>1
  <2>5. Kept(ToSet(names), names, f.total + 1)
    BY <1>1, <2>1, <2>2, <2>3 DEF Kept
  <2> QED
    BY <2>1, <2>3, <2>4, <2>5
<1>5. CASE ~ (Len(f.names) < MaxFindings)
  <2>1. names = f.names
    BY <1>5
  <2> HIDE DEF names
  <2>2. g \in Found /\ g.names = f.names /\ g.total = f.total + 1
        /\ g.copies = f.copies /\ g.copyTotal = f.copyTotal
    BY <1>1, <1>2, <1>3, <2>1
  <2> QED
    BY <1>1, <1>5, <2>2, FindingsAssumption DEF Kept
<1> QED
  BY <1>4, <1>5

\* The same of a conflicted copy.
LEMMA CopyNoted ==
    ASSUME NEW f \in Found, NEW p \in Copies, modified \in [Copies -> Times],
           Kept(CopyPaths(f.copies), f.copies, f.copyTotal),
           p \notin CopyPaths(f.copies)
    PROVE  LET g == NoteCopy(f, p)
           IN  /\ g \in Found
               /\ Kept(CopyPaths(g.copies), g.copies, g.copyTotal)
               /\ g.names = f.names /\ g.total = f.total
               /\ CopyPaths(g.copies) \subseteq CopyPaths(f.copies) \cup {p}
<1> DEFINE g == NoteCopy(f, p)
           e == [path |-> p, modified |-> IF p \in present
                                          THEN modified[p] ELSE NoTime]
           copies == IF Len(f.copies) < MaxFindings
                     THEN Append(f.copies, e) ELSE f.copies
<1>1. /\ f.names \in Seq(Unusable) /\ Len(f.names) \in Nat
      /\ f.total \in Nat
      /\ f.copies \in Seq(Copied) /\ Len(f.copies) \in Nat
      /\ f.copyTotal \in Nat
  BY FoundFields
<1>2. e \in Copied /\ e.path = p
  BY DEF Copied
<1>3. /\ g.names = f.names /\ g.total = f.total
      /\ g.copies = copies /\ g.copyTotal = f.copyTotal + 1
  BY DEF NoteCopy, Found
<1>4. ASSUME copies \in Seq(Copied) PROVE g \in Found
  <2> DEFINE total == f.copyTotal + 1
  <2>1. g = [f EXCEPT !.copyTotal = total, !.copies = copies]
    BY DEF NoteCopy, e
  <2>2. total \in Nat
    BY <1>1
  <2> HIDE DEF copies, total, g
  <2> QED
    BY <1>4, <2>1, <2>2 DEF Found
<1> HIDE DEF e
<1>5. CASE Len(f.copies) < MaxFindings
  <2>1. /\ copies \in Seq(Copied) /\ Len(copies) = Len(f.copies) + 1
        /\ ToSet(copies) = ToSet(f.copies) \cup {e}
    BY <1>1, <1>2, <1>5, Appended
  <2>2. CopyPaths(copies) = CopyPaths(f.copies) \cup {p}
    BY <1>2, <2>1 DEF CopyPaths
  <2>3. /\ IsFiniteSet(CopyPaths(copies))
        /\ Cardinality(CopyPaths(copies)) = Len(copies)
    <3>1. /\ IsFiniteSet(CopyPaths(f.copies))
          /\ Cardinality(CopyPaths(f.copies)) = Len(f.copies)
      BY DEF Kept
    <3>2. /\ IsFiniteSet(CopyPaths(f.copies) \cup {p})
          /\ Cardinality(CopyPaths(f.copies) \cup {p}) = Len(f.copies) + 1
      BY <3>1, FS_AddElement
    <3> QED
      BY <2>1, <2>2, <3>2
  <2>4. f.copyTotal = Len(f.copies)
    BY <1>1, <1>5, FindingsAssumption DEF Kept
  <2> HIDE DEF copies
  <2>5. g \in Found /\ g.copies = copies /\ g.copyTotal = f.copyTotal + 1
        /\ g.names = f.names /\ g.total = f.total
    BY <1>1, <1>3, <1>4, <2>1
  <2>6. Kept(CopyPaths(copies), copies, f.copyTotal + 1)
    BY <1>1, <2>1, <2>2, <2>3, <2>4 DEF Kept
  <2> QED
    BY <2>2, <2>5, <2>6
<1>6. CASE ~ (Len(f.copies) < MaxFindings)
  <2>1. copies = f.copies
    BY <1>6
  <2> HIDE DEF copies
  <2>2. g \in Found /\ g.copies = f.copies /\ g.copyTotal = f.copyTotal + 1
        /\ g.names = f.names /\ g.total = f.total
    BY <1>1, <1>3, <1>4, <2>1
  <2> QED
    BY <1>1, <1>6, <2>2, FindingsAssumption DEF Kept
<1> QED
  BY <1>5, <1>6

-----------------------------------------------------------------------------
(* The lists of health.Status.                                             *)

\* The counts are those of distinct paths, when no path was left out, and
\* the list is as long as the display allows.
NamesRight(l, all) ==
    /\ IsFiniteSet(l.invalidSeen)
    /\ all => l.invalidNameCount = Cardinality(l.invalidSeen)
    /\ Len(l.invalidNames) = Least(l.invalidNameCount, MaxDisplayedNames)

CopiesRight(l, all) ==
    /\ IsFiniteSet(l.conflictSeen)
    /\ all => l.conflictCount = Cardinality(l.conflictSeen)
    /\ Len(l.conflictFiles) = Least(l.conflictCount, MaxDisplayedConflicts)

SameNames(l, m) ==
    /\ m.invalidSeen = l.invalidSeen /\ m.invalidNames = l.invalidNames
    /\ m.invalidNameCount = l.invalidNameCount

SameCopies(l, m) ==
    /\ m.conflictSeen = l.conflictSeen /\ m.conflictFiles = l.conflictFiles
    /\ m.conflictCount = l.conflictCount

\* The fields of the lists.
LEMMA ListsFields ==
    ASSUME NEW l \in Lists
    PROVE  /\ l.invalidSeen \in SUBSET Paths /\ l.invalidNames \in Seq(Paths)
           /\ l.invalidNameCount \in Nat /\ l.conflictSeen \in SUBSET Copies
           /\ l.conflictFiles \in Seq(Copied) /\ l.conflictCount \in Nat
           /\ l = [invalidSeen |-> l.invalidSeen,
                   invalidNames |-> l.invalidNames,
                   invalidNameCount |-> l.invalidNameCount,
                   conflictSeen |-> l.conflictSeen,
                   conflictFiles |-> l.conflictFiles,
                   conflictCount |-> l.conflictCount]
  BY DEF Lists

\* A name the watcher adds is counted unless it was before.
LEMMA NameAdded ==
    ASSUME NEW l \in Lists, NEW p \in Paths, NEW all, NamesRight(l, all)
    PROVE  LET m == AddInvalidName(l, p)
           IN  /\ m \in Lists /\ NamesRight(m, all) /\ SameCopies(l, m)
               /\ m.invalidSeen = l.invalidSeen \cup {p}
<1> DEFINE m == AddInvalidName(l, p)
           names == IF Len(l.invalidNames) < MaxDisplayedNames
                    THEN Append(l.invalidNames, p) ELSE l.invalidNames
<1>0. /\ l.invalidSeen \in SUBSET Paths /\ l.invalidNames \in Seq(Paths)
      /\ l.invalidNameCount \in Nat /\ l.conflictSeen \in SUBSET Copies
      /\ l.conflictFiles \in Seq(Copied) /\ l.conflictCount \in Nat
      /\ l = [invalidSeen |-> l.invalidSeen,
              invalidNames |-> l.invalidNames,
              invalidNameCount |-> l.invalidNameCount,
              conflictSeen |-> l.conflictSeen,
              conflictFiles |-> l.conflictFiles,
              conflictCount |-> l.conflictCount]
  BY ListsFields
<1>1. CASE p \in l.invalidSeen
  BY <1>1 DEF AddInvalidName, SameCopies
<1>2. CASE p \notin l.invalidSeen
  <2>1. m = [invalidSeen |-> l.invalidSeen \cup {p},
             invalidNames |-> names,
             invalidNameCount |-> l.invalidNameCount + 1,
             conflictSeen |-> l.conflictSeen,
             conflictFiles |-> l.conflictFiles,
             conflictCount |-> l.conflictCount]
    BY <1>2, <1>0 DEF AddInvalidName
  <2>2. /\ names \in Seq(Paths)
        /\ Len(names) = IF Len(l.invalidNames) < MaxDisplayedNames
                        THEN Len(l.invalidNames) + 1 ELSE Len(l.invalidNames)
    BY <1>0, Appended
  <2>3. Len(names) = Least(l.invalidNameCount + 1, MaxDisplayedNames)
    BY <2>2, <1>0, DisplayAssumption DEF NamesRight, Least
  <2>4. /\ IsFiniteSet(l.invalidSeen \cup {p})
        /\ Cardinality(l.invalidSeen \cup {p}) = Cardinality(l.invalidSeen) + 1
    BY <1>2, FS_AddElement DEF NamesRight
  <2> HIDE DEF names
  <2>5. m \in Lists
    BY <2>1, <2>2, <1>0 DEF Lists
  <2> QED
    BY <2>1, <2>3, <2>4, <2>5 DEF NamesRight, SameCopies
<1> QED
  BY <1>1, <1>2

\* A copy the watcher adds is counted unless it was before, and the newest
\* are shown.
LEMMA CopyAdded ==
    ASSUME NEW l \in Lists, NEW p \in Copies, NEW t \in Times, NEW all,
           CopiesRight(l, all),
           NEW seen \in SUBSET Copied, Newest(seen, l.conflictFiles)
    PROVE  LET m == AddConflictFile(l, p, t)
               e == [path |-> p, modified |-> t]
           IN  /\ m \in Lists /\ CopiesRight(m, all) /\ SameNames(l, m)
               /\ Newest(IF p \in l.conflictSeen THEN seen ELSE seen \cup {e},
                         m.conflictFiles)
<1> DEFINE m == AddConflictFile(l, p, t)
           e == [path |-> p, modified |-> t]
           listed == UpTo(NewestFirst(Append(l.conflictFiles, e)),
                         MaxDisplayedConflicts)
<1>0. /\ l.invalidSeen \in SUBSET Paths /\ l.invalidNames \in Seq(Paths)
      /\ l.invalidNameCount \in Nat /\ l.conflictSeen \in SUBSET Copies
      /\ l.conflictFiles \in Seq(Copied) /\ l.conflictCount \in Nat
      /\ l = [invalidSeen |-> l.invalidSeen,
              invalidNames |-> l.invalidNames,
              invalidNameCount |-> l.invalidNameCount,
              conflictSeen |-> l.conflictSeen,
              conflictFiles |-> l.conflictFiles,
              conflictCount |-> l.conflictCount]
  BY ListsFields
<1>1. CASE p \in l.conflictSeen
  BY <1>1 DEF AddConflictFile, SameNames
<1>2. CASE p \notin l.conflictSeen
  <2>1. m = [invalidSeen |-> l.invalidSeen,
             invalidNames |-> l.invalidNames,
             invalidNameCount |-> l.invalidNameCount,
             conflictSeen |-> l.conflictSeen \cup {p},
             conflictFiles |-> listed,
             conflictCount |-> l.conflictCount + 1]
    BY <1>2, <1>0 DEF AddConflictFile
  <2>2. e \in Copied
    BY DEF Copied
  <2> HIDE DEF e
  <2>3. /\ listed \in Seq(Copied)
        /\ Len(listed) = Least(Len(l.conflictFiles) + 1, MaxDisplayedConflicts)
        /\ Newest(seen \cup {e}, listed)
    BY <2>2, <1>0, StaysNewest
  <2> HIDE DEF listed
  <2>4. Len(listed) = Least(l.conflictCount + 1, MaxDisplayedConflicts)
    BY <2>3, <1>0, DisplayAssumption DEF CopiesRight, Least
  <2>5. /\ IsFiniteSet(l.conflictSeen \cup {p})
        /\ Cardinality(l.conflictSeen \cup {p})
              = Cardinality(l.conflictSeen) + 1
    BY <1>2, FS_AddElement DEF CopiesRight
  <2>6. m \in Lists
    BY <2>1, <2>3, <1>0 DEF Lists
  <2> QED
    BY <1>2, <2>1, <2>3, <2>4, <2>5, <2>6 DEF CopiesRight, SameNames, e
<1> QED
  BY <1>1, <1>2

-----------------------------------------------------------------------------
(* The inductive invariant.                                                *)

\* A path with an unusable name is among those given or below one of them,
\* below a directory the daemon may not read, or was out of its sight.
Covers(seen) ==
    \A p \in present \cap Unusable :
        p \in missed \/ \E a \in {p} \cup Above[p] :
                            a \in seen \/ (a # p /\ a \in Unreadable)

\* While the scan goes on: what it has found comes before all that is to be
\* visited, and the two together leave nothing out.
WalkInv ==
    /\ lists = NoLists /\ warned = {} /\ known = {}
    /\ Kept(ToSet(found.names), found.names, found.total)
    /\ Kept(CopyPaths(found.copies), found.copies, found.copyTotal)
    /\ \A q \in toVisit :
          \A p \in ToSet(found.names) \cup CopyPaths(found.copies) : Before(p, q)
    /\ Truncated \/ Covers(ToSet(found.names) \cup toVisit)

ListsInv ==
    /\ NamesRight(lists, ~ Truncated)
    /\ CopiesRight(lists, ~ CopiesTruncated)
    /\ warned \subseteq lists.invalidSeen
    /\ Newest(known, lists.conflictFiles)

FindingsInv ==
    /\ FindingsTypeOK
    /\ Connected(present)
    /\ fpc = "scan" => WalkInv
    /\ fpc # "scan" => Truncated \/ Covers(lists.invalidSeen)
    /\ ListsInv

\* What holds of the lists before there is anything in them.
LEMMA EmptyLists ==
    /\ NoLists \in Lists /\ NoFindings \in Found
    /\ \A all : NamesRight(NoLists, all) /\ CopiesRight(NoLists, all)
    /\ Newest({}, NoLists.conflictFiles)
    /\ Kept(ToSet(NoFindings.names), NoFindings.names, NoFindings.total)
    /\ Kept(CopyPaths(NoFindings.copies), NoFindings.copies, NoFindings.copyTotal)
    /\ ToSet(NoFindings.names) = {} /\ CopyPaths(NoFindings.copies) = {}
    /\ ToSet(<<>>) = {} /\ Len(<<>>) = 0
<1>1. /\ \A E : <<>> \in Seq(E)
      /\ Len(<<>>) = 0 /\ DOMAIN <<>> = {} /\ ToSet(<<>>) = {}
  BY EmptySeq DEF ToSet
<1>2. IsFiniteSet({}) /\ Cardinality({}) = 0
  BY FS_EmptySet
<1>3. NoLists \in Lists /\ NoFindings \in Found
  BY <1>1 DEF NoLists, NoFindings, Lists, Found
<1>4. /\ NoLists.invalidSeen = {} /\ NoLists.invalidNames = <<>>
      /\ NoLists.invalidNameCount = 0 /\ NoLists.conflictSeen = {}
      /\ NoLists.conflictFiles = <<>> /\ NoLists.conflictCount = 0
      /\ NoFindings.names = <<>> /\ NoFindings.copies = <<>>
      /\ NoFindings.total = 0 /\ NoFindings.copyTotal = 0
  BY DEF NoLists, NoFindings
<1>5. Least(0, MaxDisplayedNames) = 0 /\ Least(0, MaxDisplayedConflicts) = 0
  BY DisplayAssumption DEF Least
<1>6. \A all : NamesRight(NoLists, all) /\ CopiesRight(NoLists, all)
  BY <1>1, <1>2, <1>4, <1>5 DEF NamesRight, CopiesRight
<1>7. Newest({}, NoLists.conflictFiles)
  BY <1>1, <1>4 DEF Newest
<1>8. CopyPaths(<<>>) = {}
  BY <1>1 DEF CopyPaths
<1>9. Kept({}, <<>>, 0)
  BY <1>1, <1>2 DEF Kept
<1> QED
  BY <1>1, <1>3, <1>4, <1>6, <1>7, <1>8, <1>9

\* All that is in the tree is in the root or below what is.
LEMMA StartsCovered ==
    ASSUME Connected(present), present \subseteq Paths
    PROVE  Covers(Inside(Root))
<1> SUFFICES ASSUME NEW p \in present
             PROVE  \E a \in {p} \cup Above[p] : a \in Inside(Root)
  BY DEF Covers
<1>1. PICK t \in {p} \cup Above[p] : Parent[t] = Root
  BY Uppermost
<1>2. t \in present
  BY WayUp
<1> QED
  BY <1>1, <1>2 DEF Inside

\* The invariant holds when the scan begins.
LEMMA InitiallyFindings == FindingsInit => FindingsInv
<1> SUFFICES ASSUME FindingsInit PROVE FindingsInv
  OBVIOUS
<1>1. present \subseteq Paths /\ Connected(present) /\ fpc = "scan"
  BY DEF FindingsInit
<1>2. /\ modified \in [Copies -> Times] /\ toVisit = Inside(Root)
      /\ found = NoFindings /\ watched = {} /\ warned = {} /\ lists = NoLists
      /\ changes = 0 /\ missed = {} /\ known = {}
  BY DEF FindingsInit
<1>3. Inside(Root) \subseteq Paths
  BY <1>1 DEF Inside
<1>4. Len(found.names) <= found.total /\ Len(found.copies) <= found.copyTotal
  BY <1>2, EmptyLists DEF Kept
<1>5. found \in Found /\ lists \in Lists
  BY <1>2, EmptyLists
<1>6. FindingsTypeOK
  BY <1>1, <1>2, <1>3, <1>4, <1>5, FindingsAssumption DEF FindingsTypeOK
<1>7. ListsInv
  BY <1>2, EmptyLists DEF ListsInv
<1>8. WalkInv
  BY <1>1, <1>2, EmptyLists, StartsCovered DEF WalkInv
<1> QED
  BY <1>1, <1>6, <1>7, <1>8 DEF FindingsInv

\* A visit notes what it comes to and leaves out nothing that it does not
\* put off.
LEMMA VisitKeeps ==
    ASSUME FindingsInv, NEW p \in Paths, Visit(p)
    PROVE  FindingsInv'
<1>1. /\ fpc = "scan" /\ p \in toVisit /\ IsFirst(p)
      /\ found' = Judged(p) /\ toVisit' = Entries(p)
      /\ fpc' = fpc /\ present' = present /\ modified' = modified
      /\ changes' = changes /\ missed' = missed /\ watched' = watched
      /\ warned' = warned /\ lists' = lists /\ known' = known
  BY DEF Visit, tree
<1>2. FindingsTypeOK /\ Connected(present) /\ WalkInv /\ ListsInv
  BY <1>1 DEF FindingsInv
<1>3. /\ found \in Found /\ modified \in [Copies -> Times]
      /\ present \subseteq Paths /\ toVisit \subseteq Paths
  BY <1>2 DEF FindingsTypeOK
<1> DEFINE met == ToSet(found.names) \cup CopyPaths(found.copies)
<1>4. p \notin met
  BY <1>1, <1>2, WalkIsOrdered DEF WalkInv
<1>5. /\ Kept(ToSet(found.names), found.names, found.total)
      /\ Kept(CopyPaths(found.copies), found.copies, found.copyTotal)
  BY <1>2 DEF WalkInv
<1>6. /\ found' \in Found
      /\ Kept(ToSet(found'.names), found'.names, found'.total)
      /\ Kept(CopyPaths(found'.copies), found'.copies, found'.copyTotal)
      /\ ToSet(found'.names) \subseteq ToSet(found.names) \cup {p}
      /\ CopyPaths(found'.copies) \subseteq CopyPaths(found.copies) \cup {p}
      /\ \/ Truncated'
         \/ /\ ~ Truncated
            /\ ToSet(found.names) \subseteq ToSet(found'.names)
            /\ p \in Unusable => p \in ToSet(found'.names)
  <2>1. CASE p \in Unusable
    <3>1. found' = NoteName(found, p)
      BY <1>1, <2>1 DEF Judged
    <3> QED
      BY <1>3, <1>4, <1>5, <2>1, <3>1, NameNoted DEF Truncated
  <2>2. CASE p \notin Unusable /\ p \in Copies \ Dirs
    <3>1. found' = NoteCopy(found, p)
      BY <1>1, <2>2 DEF Judged
    <3> QED
      BY <1>3, <1>4, <1>5, <2>2, <3>1, CopyNoted DEF Truncated
  <2>3. CASE p \notin Unusable /\ p \notin Copies \ Dirs
    <3>1. found' = found
      BY <1>1, <2>3 DEF Judged
    <3> QED
      BY <1>3, <1>5, <2>3, <3>1 DEF Truncated
  <2> QED
    BY <2>1, <2>2, <2>3
<1>7. \A q \in toVisit' : q \in Paths /\ Before(p, q)
  <2> SUFFICES ASSUME NEW q \in toVisit'
               PROVE  q \in Paths /\ Before(p, q)
    OBVIOUS
  <2>1. CASE q \in toVisit \ {p}
    <3>1. PICK j \in DOMAIN WalkOrder : WalkOrder[j] = q
      BY <1>3, <2>1 DEF Paths, ToSet
    <3>2. PICK i \in DOMAIN WalkOrder : WalkOrder[i] = p /\ i <= j
      BY <1>1, <2>1, <3>1 DEF IsFirst
    <3>3. i < j
      <4>1. i \in Nat /\ j \in Nat /\ i # j
        BY <2>1, <3>1, <3>2, WalkOrderAssumption, LenProperties
      <4> QED
        BY <3>2, <4>1
    <3> QED
      BY <1>3, <2>1, <3>1, <3>2, <3>3 DEF Before
  <2>2. CASE q \in Inside(p)
    BY <1>3, <2>2, WalkIsOrdered DEF Inside
  <2> QED
    BY <1>1, <2>1, <2>2 DEF Entries
<1>8. \A q \in toVisit' :
         \A r \in ToSet(found'.names) \cup CopyPaths(found'.copies) : Before(r, q)
  <2> SUFFICES ASSUME NEW q \in toVisit', NEW r \in met \cup {p}
               PROVE  Before(r, q)
    BY <1>6
  <2>1. CASE r \in met
    <3>1. Before(r, p)
      BY <1>1, <1>2, <2>1 DEF WalkInv
    <3> QED
      BY <1>7, <3>1, WalkIsOrdered
  <2> QED
    BY <1>7, <2>1
<1>9. Truncated' \/ Covers(ToSet(found.names) \cup toVisit)'
  <2> SUFFICES ASSUME ~ Truncated',
                      NEW u \in present \cap Unusable, u \notin missed
               PROVE  \E a \in {u} \cup Above[u] :
                          \/ a \in ToSet(found'.names) \cup toVisit'
                          \/ a # u /\ a \in Unreadable
    BY <1>1 DEF Covers
  <2>1. PICK a \in {u} \cup Above[u] :
            a \in ToSet(found.names) \cup toVisit \/ (a # u /\ a \in Unreadable)
    BY <1>2, <1>6 DEF WalkInv, Covers
  <2>2. CASE a # p \/ a \in ToSet(found.names) \/ (a # u /\ a \in Unreadable)
    BY <1>1, <1>6, <2>1, <2>2 DEF Entries
  <2>3. CASE a = p /\ p \in Unusable
    BY <1>6, <2>3
  <2>4. CASE a = p /\ p \notin Unusable
    <3>1. p \in Above[u]
      BY <2>1, <2>4
    <3>2. PICK c \in {u} \cup Above[u] : Parent[c] = p
      BY <1>3, <3>1, WayUp
    <3>3. c \in present
      BY <1>2, <1>3, WayUp
    <3>4. p \in Dirs
      BY <1>3, <3>2, <3>3, FindingsAssumption
    <3>5. CASE p \in Unreadable
      BY <2>4, <3>1, <3>5
    <3>6. CASE p \notin Unreadable
      BY <1>1, <2>4, <3>2, <3>3, <3>4, <3>6 DEF Entries, Inside
    <3> QED
      BY <3>5, <3>6
  <2> QED
    BY <2>2, <2>3, <2>4
<1>10. WalkInv'
  BY <1>1, <1>2, <1>6, <1>8, <1>9 DEF WalkInv
<1>11. FindingsTypeOK'
  BY <1>1, <1>2, <1>6, <1>7 DEF FindingsTypeOK, Kept
<1>12. ListsInv'
  BY <1>10, EmptyLists DEF WalkInv, ListsInv
<1>13. Connected(present)'
  BY <1>1, <1>2 DEF Connected
<1> QED
  BY <1>1, <1>10, <1>11, <1>12, <1>13 DEF FindingsInv

\* The lists take what the scan has found.
LEMMA EndScanKeeps == ASSUME FindingsInv, EndScan PROVE FindingsInv'
<1> DEFINE named == IF found.total > 0
                    THEN SetInvalidNames(lists, found.names, found.total)
                    ELSE lists
<1>1. /\ fpc = "scan" /\ fpc' = "start" /\ toVisit = {}
      /\ lists' = IF found.copyTotal > 0
                  THEN SetConflictFiles(named, CopiesSorted, found.copyTotal)
                  ELSE named
      /\ known' = ToSet(CopiesSorted)
      /\ present' = present /\ modified' = modified
      /\ changes' = changes /\ missed' = missed /\ watched' = watched
      /\ warned' = warned /\ found' = found /\ toVisit' = toVisit
  BY DEF EndScan, tree
<1>2. FindingsTypeOK /\ Connected(present) /\ WalkInv /\ ListsInv
  BY <1>1 DEF FindingsInv
<1>3. /\ found.names \in Seq(Unusable) /\ found.names \in Seq(Paths)
      /\ Len(found.names) \in Nat /\ found.total \in Nat
      /\ found.copies \in Seq(Copied) /\ Len(found.copies) \in Nat
      /\ found.copyTotal \in Nat
  <2>1. found \in Found
    BY <1>2 DEF FindingsTypeOK
  <2>2. Seq(Unusable) \subseteq Seq(Paths)
    BY FindingsAssumption, SeqMonotonic
  <2> QED
    BY <2>1, <2>2, FoundFields
<1>4. /\ lists = NoLists /\ warned = {}
      /\ Kept(ToSet(found.names), found.names, found.total)
      /\ Kept(CopyPaths(found.copies), found.copies, found.copyTotal)
  BY <1>2 DEF WalkInv
<1>5. /\ named \in Lists /\ NamesRight(named, ~ Truncated)
      /\ SameCopies(NoLists, named)
      /\ named.invalidSeen = ToSet(found.names)
  <2>1. CASE found.total > 0
    <3> DEFINE front == UpTo(found.names, MaxDisplayedNames)
    <3>1. /\ front \in Seq(Paths)
          /\ Len(front) = Least(Len(found.names), MaxDisplayedNames)
      BY <1>3, DisplayAssumption, FromTheFront
    <3>2. ToSet(found.names) \subseteq Paths
      BY <1>3, LenProperties DEF ToSet
    <3>3. Len(front) = Least(found.total, MaxDisplayedNames)
      BY <1>3, <1>4, <3>1, DisplayAssumption, FindingsAssumption
      DEF Kept, Least
    <3> HIDE DEF front
    <3>4. /\ named.invalidSeen = ToSet(found.names)
          /\ named.invalidNames = front
          /\ named.invalidNameCount = found.total
          /\ SameCopies(NoLists, named) /\ named \in Lists
      BY <1>3, <1>4, <2>1, <3>1, <3>2, EmptyLists
      DEF SetInvalidNames, front, SameCopies, Lists
    <3>5. ~ Truncated => found.total = Cardinality(ToSet(found.names))
      BY <1>3, <1>4 DEF Truncated, Kept
    <3> HIDE DEF named
    <3> QED
      BY <1>4, <3>3, <3>4, <3>5 DEF NamesRight, Kept
  <2>2. CASE ~ (found.total > 0)
    <3>1. named = NoLists /\ Len(found.names) = 0
      BY <1>3, <1>4, <2>2 DEF Kept
    <3>2. ToSet(found.names) = {}
      BY <1>3, <3>1, LenProperties DEF ToSet
    <3>3. NoLists.invalidSeen = {}
      BY DEF NoLists
    <3> HIDE DEF named
    <3> QED
      BY <3>1, <3>2, <3>3, EmptyLists DEF SameCopies
  <2> QED
    BY <2>1, <2>2
<1> HIDE DEF named
<1>6. /\ ToSet(CopiesSorted) = ToSet(found.copies)
      /\ ToSet(CopiesSorted) \subseteq Copied
      /\ CopiesSorted \in Seq(Copied) /\ Len(CopiesSorted) = Len(found.copies)
  <2>1. /\ CopiesSorted \in Seq(Copied)
        /\ Len(CopiesSorted) = Len(found.copies)
    BY <1>3, TimesAreNumbers, Sorting DEF CopiesSorted
  <2>2. ToSet(CopiesSorted) = ToSet(found.copies)
    BY <1>3, ShowsNewest DEF CopiesSorted
  <2>3. ToSet(CopiesSorted) \subseteq Copied
    BY <2>1, LenProperties DEF ToSet
  <2> QED
    BY <2>1, <2>2, <2>3
<1>7. /\ lists' \in Lists /\ CopiesRight(lists', ~ CopiesTruncated)
      /\ SameNames(named, lists')
      /\ Newest(known', lists'.conflictFiles)
  <2>1. CASE found.copyTotal > 0
    <3> DEFINE shown == UpTo(CopiesSorted, MaxDisplayedConflicts)
    <3>1. /\ shown \in Seq(Copied)
          /\ Len(shown) = Least(Len(found.copies), MaxDisplayedConflicts)
          /\ Newest(known', shown)
      BY <1>1, <1>3, <1>6, ShowsNewest DEF CopiesSorted
    <3>2. CopyPaths(CopiesSorted) = CopyPaths(found.copies)
      BY <1>6 DEF CopyPaths
    <3>3. CopyPaths(CopiesSorted) \subseteq Copies
      BY <1>6 DEF CopyPaths, Copied
    <3>4. Len(shown) = Least(found.copyTotal, MaxDisplayedConflicts)
      BY <1>3, <1>4, <3>1, DisplayAssumption, FindingsAssumption
      DEF Kept, Least
    <3>5. lists' = [named EXCEPT !.conflictSeen = CopyPaths(CopiesSorted),
                                 !.conflictFiles = shown,
                                 !.conflictCount = found.copyTotal]
      BY <1>1, <2>1 DEF SetConflictFiles, CopyPaths
    <3> HIDE DEF shown
    <3>6. /\ lists'.conflictSeen = CopyPaths(CopiesSorted)
          /\ lists'.conflictFiles = shown
          /\ lists'.conflictCount = found.copyTotal
          /\ SameNames(named, lists') /\ lists' \in Lists
      BY <1>3, <1>5, <3>1, <3>3, <3>5 DEF SameNames, Lists
    <3>7. ~ CopiesTruncated
             => found.copyTotal = Cardinality(CopyPaths(CopiesSorted))
      BY <1>3, <1>4, <3>2 DEF CopiesTruncated, Kept
    <3> QED
      BY <1>4, <3>1, <3>2, <3>4, <3>6, <3>7 DEF CopiesRight, Kept
  <2>2. CASE ~ (found.copyTotal > 0)
    <3>1. lists' = named /\ Len(found.copies) = 0
      BY <1>1, <1>3, <1>4, <2>2 DEF Kept
    <3>2. known' = {}
      BY <1>1, <1>3, <1>6, <3>1, LenProperties DEF ToSet
    <3>3. CopiesRight(named, ~ CopiesTruncated)
      BY <1>5, EmptyLists DEF CopiesRight, SameCopies
    <3>4. Newest({}, named.conflictFiles)
      BY <1>5, EmptyLists DEF SameCopies
    <3> QED
      BY <1>5, <3>1, <3>2, <3>3, <3>4 DEF SameNames
  <2> QED
    BY <2>1, <2>2
<1>8. NamesRight(lists', ~ Truncated) /\ lists'.invalidSeen = ToSet(found.names)
  BY <1>5, <1>7 DEF NamesRight, SameNames
<1>9. ListsInv'
  BY <1>1, <1>4, <1>7, <1>8 DEF ListsInv, Truncated, CopiesTruncated
<1>10. Truncated' \/ Covers(lists.invalidSeen)'
  BY <1>1, <1>2, <1>8 DEF WalkInv, Covers, Truncated
<1>11. FindingsTypeOK'
  BY <1>1, <1>2, <1>6, <1>7 DEF FindingsTypeOK
<1>12. Connected(present)'
  BY <1>1, <1>2 DEF Connected
<1> QED
  BY <1>1, <1>9, <1>10, <1>11, <1>12 DEF FindingsInv

\* The watcher's look at a path adds it where it belongs and loses nothing.
LEMMA ReportKeeps ==
    ASSUME FindingsTypeOK, ListsInv, NEW p \in Paths, NEW t \in Times,
           Report(p, t)
    PROVE  /\ lists' \in Lists /\ known' \in SUBSET Copied
           /\ warned' \in SUBSET Paths
           /\ NamesRight(lists', ~ Truncated)
           /\ CopiesRight(lists', ~ CopiesTruncated)
           /\ Newest(known', lists'.conflictFiles)
           /\ warned' \subseteq lists'.invalidSeen
           /\ lists.invalidSeen \subseteq lists'.invalidSeen
           /\ p \in Unusable => p \in lists'.invalidSeen
<1> DEFINE named == IF HasControlChars(p) /\ p \notin warned
                    THEN AddInvalidName(lists, p) ELSE lists
           e == [path |-> p, modified |-> t]
<1>1. /\ warned' = IF HasControlChars(p) THEN warned \cup {p} ELSE warned
      /\ lists' = IF p \in Copies THEN AddConflictFile(named, p, t) ELSE named
      /\ known' = IF p \in Copies \ lists.conflictSeen
                  THEN known \cup {e} ELSE known
  BY DEF Report
<1>2. /\ lists \in Lists /\ known \subseteq Copied /\ warned \subseteq Paths
      /\ NamesRight(lists, ~ Truncated) /\ CopiesRight(lists, ~ CopiesTruncated)
      /\ warned \subseteq lists.invalidSeen
      /\ Newest(known, lists.conflictFiles)
  BY DEF FindingsTypeOK, ListsInv
<1>3. p \in Unusable => HasControlChars(p)
  BY DEF HasControlChars
<1>4. /\ named \in Lists /\ NamesRight(named, ~ Truncated)
      /\ SameCopies(lists, named)
      /\ lists.invalidSeen \subseteq named.invalidSeen
      /\ HasControlChars(p) => p \in named.invalidSeen
  <2>1. CASE HasControlChars(p) /\ p \notin warned
    BY <1>2, <2>1, NameAdded
  <2>2. CASE ~ (HasControlChars(p) /\ p \notin warned)
    BY <1>2, <2>2 DEF SameCopies
  <2> QED
    BY <2>1, <2>2
<1> HIDE DEF named
<1>5. /\ CopiesRight(named, ~ CopiesTruncated)
      /\ Newest(known, named.conflictFiles)
      /\ named.conflictSeen = lists.conflictSeen
  BY <1>2, <1>4 DEF CopiesRight, SameCopies
<1>6. /\ lists' \in Lists /\ CopiesRight(lists', ~ CopiesTruncated)
      /\ SameNames(named, lists')
      /\ Newest(known', lists'.conflictFiles)
  <2>1. CASE p \in Copies
    BY <1>1, <1>2, <1>4, <1>5, <2>1, CopyAdded
  <2>2. CASE p \notin Copies
    BY <1>1, <1>4, <1>5, <2>2 DEF SameNames
  <2> QED
    BY <2>1, <2>2
<1>7. NamesRight(lists', ~ Truncated) /\ lists'.invalidSeen = named.invalidSeen
  BY <1>4, <1>6 DEF NamesRight, SameNames
<1>8. e \in Copied \/ p \notin Copies
  BY DEF Copied
<1>9. known' \in SUBSET Copied /\ warned' \in SUBSET Paths
  BY <1>1, <1>2, <1>8
<1>10. warned' \subseteq lists'.invalidSeen
  BY <1>1, <1>2, <1>4, <1>7
<1> QED
  BY <1>3, <1>4, <1>6, <1>7, <1>9, <1>10

\* A change of the tree at p that leaves everything else where it was.
LEMMA ChangeKeeps ==
    ASSUME FindingsInv, NEW p \in Paths, NEW t \in Times, Seen(p, t),
           present' \subseteq present \cup {p}, present' \subseteq Paths,
           Connected(present)', modified' \in [Copies -> Times],
           watched' \subseteq watched
    PROVE  FindingsInv'
<1>1. FindingsTypeOK /\ ListsInv
  BY DEF FindingsInv
<1>2. /\ fpc' = fpc /\ toVisit' = toVisit /\ found' = found
      /\ changes < MaxChanges /\ changes' = changes + 1
  BY DEF Seen
<1>3. /\ Truncated' <=> Truncated
      /\ CopiesTruncated' <=> CopiesTruncated
  BY <1>2 DEF Truncated, CopiesTruncated
<1>4. changes' \in 0..MaxChanges
  BY <1>1, <1>2, FindingsAssumption DEF FindingsTypeOK
\* The watcher sees it.
<1>5. CASE fpc = "watch" /\ Report(p, t) /\ missed' = missed \ {p}
  <2>1. /\ lists' \in Lists /\ known' \in SUBSET Copied
        /\ warned' \in SUBSET Paths
        /\ NamesRight(lists', ~ Truncated)
        /\ CopiesRight(lists', ~ CopiesTruncated)
        /\ Newest(known', lists'.conflictFiles)
        /\ warned' \subseteq lists'.invalidSeen
        /\ lists.invalidSeen \subseteq lists'.invalidSeen
        /\ p \in Unusable => p \in lists'.invalidSeen
    BY <1>1, <1>5, ReportKeeps
  <2>2. ListsInv'
    BY <1>3, <2>1 DEF ListsInv, NamesRight, CopiesRight
  <2>3. FindingsTypeOK'
    BY <1>1, <1>2, <1>4, <1>5, <2>1 DEF FindingsTypeOK
  <2>4. Truncated \/ Covers(lists.invalidSeen)
    BY <1>5 DEF FindingsInv
  <2>5. Covers(lists.invalidSeen) => Covers(lists.invalidSeen)'
    <3> SUFFICES ASSUME Covers(lists.invalidSeen),
                        NEW u \in present' \cap Unusable, u \notin missed'
                 PROVE  \E a \in {u} \cup Above[u] :
                            a \in lists'.invalidSeen
                            \/ (a # u /\ a \in Unreadable)
      BY DEF Covers
    <3>1. CASE u = p
      BY <2>1, <3>1
    <3>2. CASE u # p
      BY <1>5, <2>1, <3>2 DEF Covers
    <3> QED
      BY <3>1, <3>2
  <2> QED
    BY <1>2, <1>3, <1>5, <2>2, <2>3, <2>4, <2>5 DEF FindingsInv
\* Or it does not.
<1>6. CASE /\ missed' = missed \cup {p}
           /\ UNCHANGED <<warned, lists, known>>
  <2>1. lists' = lists /\ warned' = warned /\ known' = known
    BY <1>6
  <2>2. ListsInv'
    BY <1>1, <1>3, <2>1 DEF ListsInv, NamesRight, CopiesRight
  <2>3. FindingsTypeOK'
    BY <1>1, <1>2, <1>4, <1>6, <2>1 DEF FindingsTypeOK
  <2>4. ASSUME NEW seen, Covers(seen)
        PROVE  \A u \in present' \cap Unusable :
                  u \in missed' \/ \E a \in {u} \cup Above[u] :
                      a \in seen \/ (a # u /\ a \in Unreadable)
    BY <1>6, <2>4 DEF Covers
  <2>5. CASE fpc = "scan"
    <3>1. WalkInv
      BY <2>5 DEF FindingsInv
    <3>2. Truncated' \/ Covers(ToSet(found.names) \cup toVisit)'
      <4>1. Truncated \/ Covers(ToSet(found.names) \cup toVisit)
        BY <3>1 DEF WalkInv
      <4> DEFINE seen == ToSet(found.names) \cup toVisit
      <4>2. seen' = seen
        BY <1>2
      <4> HIDE DEF seen
      <4>3. Covers(seen) => Covers(seen)'
        BY <2>4, <4>2 DEF Covers
      <4> QED
        BY <1>3, <4>1, <4>3 DEF seen
    <3>3. WalkInv'
      BY <1>2, <2>1, <3>1, <3>2 DEF WalkInv
    <3> QED
      BY <1>2, <2>2, <2>3, <2>5, <3>3 DEF FindingsInv
  <2>6. CASE fpc # "scan"
    <3>1. Truncated \/ Covers(lists.invalidSeen)
      BY <2>6 DEF FindingsInv
    <3>2. Truncated' \/ Covers(lists.invalidSeen)'
      BY <1>3, <2>1, <2>4, <3>1 DEF Covers
    <3> QED
      BY <1>2, <2>2, <2>3, <2>6, <3>2 DEF FindingsInv
  <2> QED
    BY <2>5, <2>6
<1> QED
  BY <1>5, <1>6 DEF Seen

\* Every step keeps the invariant.
LEMMA FindingsStep == FindingsInv /\ [FindingsNext]_findingsVars => FindingsInv'
<1> SUFFICES ASSUME FindingsInv, [FindingsNext]_findingsVars
             PROVE  FindingsInv'
  OBVIOUS
<1>1. FindingsTypeOK /\ Connected(present) /\ ListsInv
  BY DEF FindingsInv
<1>2. ASSUME UNCHANGED findingsVars PROVE FindingsInv'
  BY <1>2 DEF findingsVars, tree, FindingsInv, FindingsTypeOK, ListsInv,
     WalkInv, Covers, Truncated, CopiesTruncated, NamesRight, CopiesRight,
     Connected
<1>3. ASSUME ScanFails PROVE FindingsInv'
  <2>1. /\ fpc' = "start" /\ toVisit' = {} /\ missed' = missed \cup present
        /\ UNCHANGED <<present, modified, changes, found, watched, warned,
                       lists, known>>
    BY <1>3 DEF ScanFails
  <2>2. FindingsTypeOK'
    BY <1>1, <2>1 DEF FindingsTypeOK
  <2>3. ListsInv' /\ Connected(present)'
    BY <1>1, <2>1 DEF ListsInv, Truncated, CopiesTruncated, NamesRight,
       CopiesRight, Connected
  <2>4. Covers(lists.invalidSeen)'
    BY <2>1 DEF Covers
  <2> QED
    BY <2>1, <2>2, <2>3, <2>4 DEF FindingsInv
<1>4. ASSUME WatcherStarts PROVE FindingsInv'
  <2>1. /\ fpc = "start" /\ fpc' \in {"watch", "unwatched"}
        /\ watched' = present \cap Dirs
        /\ UNCHANGED <<present, modified, changes, missed, toVisit, found,
                       warned, lists, known>>
    BY <1>4 DEF WatcherStarts, tree
  <2>2. FindingsTypeOK'
    BY <1>1, <2>1 DEF FindingsTypeOK
  <2>3. ListsInv' /\ Connected(present)'
    BY <1>1, <2>1 DEF ListsInv, Truncated, CopiesTruncated, NamesRight,
       CopiesRight, Connected
  <2>4. (Truncated \/ Covers(lists.invalidSeen))'
    BY <2>1 DEF FindingsInv, Covers, Truncated
  <2> QED
    BY <2>1, <2>2, <2>3, <2>4 DEF FindingsInv
<1>5. ASSUME NEW p \in Paths, Write(p) PROVE FindingsInv'
  <2>1. /\ Exists(Parent[p]) /\ present' = present \cup {p}
        /\ watched' = watched
    BY <1>5 DEF Write
  <2>2. PICK t \in Times :
            /\ modified' = [c \in Copies |-> IF c = p THEN t ELSE modified[c]]
            /\ Seen(p, t)
    BY <1>5 DEF Write
  <2>3. modified' \in [Copies -> Times]
    BY <1>1, <2>2 DEF FindingsTypeOK
  <2>4. Connected(present)'
    BY <1>1, <2>1 DEF Connected, Exists
  <2>5. present' \subseteq Paths
    BY <1>1, <2>1 DEF FindingsTypeOK
  <2> QED
    BY <2>1, <2>2, <2>3, <2>4, <2>5, ChangeKeeps
<1>6. ASSUME NEW p \in Paths, Unlink(p) PROVE FindingsInv'
  <2>1. /\ Inside(p) = {} /\ present' = present \ {p}
        /\ modified' = [c \in Copies |-> IF c = p THEN Now ELSE modified[c]]
        /\ Seen(p, Now) /\ watched' \subseteq watched
    BY <1>6 DEF Unlink
  <2>2. Now \in Times
    BY FindingsAssumption DEF Now
  <2>3. modified' \in [Copies -> Times]
    BY <1>1, <2>1, <2>2 DEF FindingsTypeOK
  <2>4. Connected(present)'
    BY <1>1, <2>1 DEF Connected, Inside
  <2>5. present' \subseteq Paths
    BY <1>1, <2>1 DEF FindingsTypeOK
  <2> QED
    BY <2>1, <2>2, <2>3, <2>4, <2>5, ChangeKeeps
<1> QED
  BY <1>2, <1>3, <1>4, <1>5, <1>6, VisitKeeps, EndScanKeeps
  DEF FindingsNext, Finished

-----------------------------------------------------------------------------
(* The properties.                                                         *)

\* And so in every state.
LEMMA InvOfFindings == FindingsSpec => []FindingsInv
  BY InitiallyFindings, FindingsStep, PTL DEF FindingsSpec

\* Every variable keeps its type: what Tree returns, the lists of the health
\* endpoint, what the watcher remembers.
THEOREM FindingsTypes == FindingsSpec => []FindingsTypeOK
<1>1. FindingsInv => FindingsTypeOK
  BY DEF FindingsInv
<1> QED
  BY <1>1, InvOfFindings, PTL

\* The counts of the health endpoint are those of distinct paths, whatever the
\* tree, the caps and the changes, unless the scan met more than it keeps; and
\* the endpoint lists as many as its caps allow.
THEOREM FindingsCountsDistinct == FindingsSpec => []CountsDistinct
<1>1. FindingsInv => CountsDistinct
  BY DEF FindingsInv, ListsInv, NamesRight, CopiesRight, CountsDistinct
<1> QED
  BY <1>1, InvOfFindings, PTL

\* The conflicted copies shown are the newest ever reported, newest first.
THEOREM FindingsNewestShown == FindingsSpec => []NewestShown
<1>1. FindingsInv => NewestShown
  BY DEF FindingsInv, ListsInv, Newest, NewestShown
<1> QED
  BY <1>1, InvOfFindings, PTL

\* No path with an unusable name is overlooked but where the daemon could not
\* look, inside what is itself reported, or beyond what the scan keeps.
THEOREM FindingsNothingOverlooked == FindingsSpec => []NothingOverlooked
<1>1. FindingsInv => NothingOverlooked
  BY DEF FindingsInv, Covers, NothingOverlooked
<1> QED
  BY <1>1, InvOfFindings, PTL
=============================================================================
