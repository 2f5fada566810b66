------------------------- MODULE DhcpLeasesProofs -------------------------
(* What the table of leases keeps through every handler, every saving and  *)
(* every restart, and what the probe before an offer is worth.             *)
EXTENDS DhcpLeases, FiniteSetTheorems, SequenceTheorems, WellFoundedInduction, TLAPS

(***************************************************************************)
(* The loops of the code are recursive functions on an interval.           *)
(***************************************************************************)
LEMMA HasMinimum ==
  ASSUME NEW T \in SUBSET Nat, T # {}
  PROVE  \E i \in T : \A j \in T : i <= j
<1> DEFINE R == OpToRel(<, Nat)
<1>1. IsWellFoundedOn(R, Nat)
  BY NatLessThanWellFounded
<1>2. \A x, y \in Nat : x < y => <<x, y>> \in R
  BY DEF OpToRel
<1> HIDE DEF R
<1>3. PICK i \in T : \A j \in T : ~(<<j, i>> \in R)
  BY <1>1, WFMin
<1>4. \A j \in T : j \in Nat /\ ~(j < i)
  BY <1>2, <1>3
<1>5. \A j \in T : i <= j
  BY <1>4
<1> QED BY <1>5

LEMMA IntervalInduction ==
  ASSUME NEW m \in Int, NEW n \in Int, NEW T, m \in T,
         \A k \in m + 1 .. n : k - 1 \in T => k \in T
  PROVE  m .. n \subseteq T
<1> DEFINE U == {d \in Nat : m + d <= n /\ m + d \notin T}
<1>1. CASE U = {}
  <2> SUFFICES ASSUME NEW k \in m .. n PROVE k \in T
    OBVIOUS
  <2>1. k - m \in Nat /\ m + (k - m) = k /\ m + (k - m) <= n
    OBVIOUS
  <2>2. k - m \notin U
    BY <1>1
  <2>3. m + (k - m) \in T
    BY <2>1, <2>2
  <2> QED BY <2>1, <2>3
<1>2. ASSUME U # {} PROVE FALSE
  <2>1. U \in SUBSET Nat
    OBVIOUS
  <2>2. PICK d \in U : \A e \in U : d <= e
    <3> HIDE DEF U
    <3> QED BY <1>2, <2>1, HasMinimum
  <2>3. d \in Nat /\ m + d <= n /\ m + d \notin T
    BY <2>2
  <2>4. d # 0
    BY <2>3
  <2>5. d - 1 \in Nat /\ ~(d <= d - 1) /\ m + (d - 1) <= n
    BY <2>3, <2>4
  <2>6. m + (d - 1) \in T
    BY <2>2, <2>5
  <2>7. m + d \in m + 1 .. n /\ (m + d) - 1 = m + (d - 1)
    BY <2>3, <2>4
  <2> QED BY <2>3, <2>6, <2>7
<1> QED BY <1>1, <1>2

(* A loop whose step stays in X runs, and stays in X.                      *)
Steps(m, n, X) == [m + 1 .. n -> [X -> X]]
Loops(f, m, n, b, F) == f[m] = b /\ \A k \in m + 1 .. n : f[k] = F[k][f[k - 1]]

LEMMA LoopIsDefined ==
  ASSUME NEW m \in Int, NEW n \in Int, m <= n, NEW X, NEW b \in X, NEW F \in Steps(m, n, X)
  PROVE  \E f \in [m .. n -> X] : Loops(f, m, n, b, F)
<1> USE DEF Steps
<1> DEFINE Runs(j, f) == \A k \in m .. j : f[k] = IF k = m THEN b ELSE F[k][f[k - 1]]
           T == {j \in m .. n : \E f \in [m .. j -> X] : Runs(j, f)}
<1>1. m \in T
  <2>1. [k \in m .. m |-> b] \in [m .. m -> X]
    OBVIOUS
  <2>2. Runs(m, [k \in m .. m |-> b])
    OBVIOUS
  <2>3. m \in m .. n
    OBVIOUS
  <2>4. \E f \in [m .. m -> X] : Runs(m, f)
    BY <2>1, <2>2
  <2> HIDE DEF Runs
  <2> QED BY <2>3, <2>4
<1>2. ASSUME NEW j \in m + 1 .. n, j - 1 \in T PROVE j \in T
  <2>1. PICK f \in [m .. j - 1 -> X] : Runs(j - 1, f)
    BY <1>2
  <2>2. j \in m .. n /\ j - 1 \in m .. j - 1 /\ j # m
    OBVIOUS
  <2>3. f[j - 1] \in X
    BY <2>2
  <2>4. F[j][f[j - 1]] \in X
    BY <2>3
  <2> DEFINE g == [k \in m .. j |-> IF k = j THEN F[j][f[j - 1]] ELSE f[k]]
  <2>5. g \in [m .. j -> X]
    <3> SUFFICES ASSUME NEW k \in m .. j, k # j PROVE f[k] \in X
      BY <2>4
    <3>1. k \in m .. j - 1
      OBVIOUS
    <3> QED BY <3>1
  <2>6. Runs(j, g)
    <3> SUFFICES ASSUME NEW k \in m .. j
                 PROVE  g[k] = IF k = m THEN b ELSE F[k][g[k - 1]]
      OBVIOUS
    <3>1. CASE k = j
      <4>1. g[k - 1] = f[j - 1]
        BY <2>2, <3>1
      <4> QED BY <2>2, <3>1, <4>1
    <3>2. CASE k # j
      <4>1. k \in m .. j - 1 /\ g[k] = f[k]
        BY <3>2
      <4>2. CASE k = m
        BY <2>1, <4>1, <4>2
      <4>3. CASE k # m
        <5>1. k - 1 \in m .. j /\ k - 1 # j
          BY <4>3
        <5>2. g[k - 1] = f[k - 1]
          BY <5>1
        <5> QED BY <2>1, <4>1, <4>3, <5>2
      <4> QED BY <4>2, <4>3
    <3> QED BY <3>1, <3>2
  <2> HIDE DEF g
  <2> QED BY <2>2, <2>5, <2>6
<1>3. n \in T
  <2> HIDE DEF T
  <2>1. m .. n \subseteq T
    BY <1>1, <1>2, IntervalInduction
  <2> QED BY <2>1
<1>4. PICK f \in [m .. n -> X] : Runs(n, f)
  BY <1>3
<1>5. f[m] = b
  BY <1>4
<1>6. \A k \in m + 1 .. n : f[k] = F[k][f[k - 1]]
  BY <1>4
<1> QED BY <1>5, <1>6 DEF Loops

-----------------------------------------------------------------------------
(* Looking for an entry.                                                   *)
LEMMA Bounds ==
  /\ Slots \in Nat /\ 0 \notin Slot /\ None \notin Ip /\ Nobody \notin Client
  /\ start \in Nat \ {0} /\ end \in Nat \ {0} /\ start <= end /\ Pool \subseteq Ip
<1>1. \A k \in DOMAIN StaticOf : StaticOf[k].ip \in Nat \ {0}
  <2> SUFFICES ASSUME NEW k \in DOMAIN StaticOf PROVE StaticOf[k].ip \in Nat \ {0}
    OBVIOUS
  <2> DEFINE R == [ch : Client, ip : Nat \ {0}]
  <2>1. StaticOf \in Seq(R)
    BY ClientAssumption
  <2> HIDE DEF R
  <2>2. StaticOf[k] \in R
    BY <2>1, LenProperties
  <2> QED BY <2>2 DEF R
<1> QED BY <1>1, PoolAssumption, ClientAssumption, TimeAssumption DEF Slot, Ip, Pool

LEMMA FirstIs ==
  ASSUME NEW S \in SUBSET Slot
  PROVE  /\ S = {} => First(S) = 0
         /\ S # {} => First(S) \in S
<1>1. CASE S = {}
  BY <1>1 DEF First
<1>2. CASE S # {}
  <2>1. S \in SUBSET Nat
    BY Bounds DEF Slot
  <2>2. \E i \in S : \A j \in S : i <= j
    BY <1>2, <2>1, HasMinimum
  <2> QED BY <1>2, <2>2 DEF First, Min
<1> QED BY <1>1, <1>2

LEMMA ByChaddr ==
  ASSUME NEW L, NEW c
  PROVE  /\ FindLeaseByChaddr(L, c) # 0 =>
              FindLeaseByChaddr(L, c) \in Slot /\ L[FindLeaseByChaddr(L, c)].ch = c
         /\ FindLeaseByChaddr(L, c) = 0 => \A i \in Slot : L[i].ch # c
<1> DEFINE S == {i \in Slot : L[i].ch = c}
<1>1. S = {} => First(S) = 0
  <2> HIDE DEF S
  <2> QED BY DEF First
<1>2. S # {} => First(S) \in S
  <2>1. S \in SUBSET Slot
    OBVIOUS
  <2> HIDE DEF S
  <2> QED BY <2>1, FirstIs
<1>3. FindLeaseByChaddr(L, c) = First(S)
  BY DEF FindLeaseByChaddr
<1> QED BY <1>1, <1>2, <1>3, Bounds

LEMMA ByYiaddr ==
  ASSUME NEW L, NEW a
  PROVE  /\ FindLeaseByYiaddr(L, a) # 0 =>
              FindLeaseByYiaddr(L, a) \in Slot /\ L[FindLeaseByYiaddr(L, a)].ip = a
         /\ FindLeaseByYiaddr(L, a) = 0 => \A i \in Slot : L[i].ip # a
<1> DEFINE S == {i \in Slot : L[i].ip = a}
<1>1. S = {} => First(S) = 0
  <2> HIDE DEF S
  <2> QED BY DEF First
<1>2. S # {} => First(S) \in S
  <2>1. S \in SUBSET Slot
    OBVIOUS
  <2> HIDE DEF S
  <2> QED BY <2>1, FirstIs
<1>3. FindLeaseByYiaddr(L, a) = First(S)
  BY DEF FindLeaseByYiaddr
<1> QED BY <1>1, <1>2, <1>3, Bounds

LEMMA OldestIs ==
  ASSUME NEW L \in [Slot -> Entry]
  PROVE  /\ OldestExpiredLease(L) # 0 =>
              OldestExpiredLease(L) \in Slot /\ ~Static(L[OldestExpiredLease(L)])
         /\ OldestExpiredLease(L) = 0 => \A i \in Slot : ~(L[i].exp < now /\ ~Static(L[i]))
<1> DEFINE old == {i \in Slot : L[i].exp < now /\ ~Static(L[i])}
           S == {i \in old : \A j \in old : L[i].exp <= L[j].exp}
           times == {L[i].exp : i \in old}
<1>1. \A i \in Slot : L[i].exp \in Nat
  BY TimeAssumption DEF Entry, Time
<1>2. old # {} => S # {}
  <2> SUFFICES ASSUME old # {} PROVE \E i \in old : \A j \in old : L[i].exp <= L[j].exp
    OBVIOUS
  <2>1. times \in SUBSET Nat /\ times # {}
    BY <1>1
  <2>2. \E s \in times : \A u \in times : s <= u
    <3> HIDE DEF times
    <3> QED BY <2>1, HasMinimum
  <2> QED BY <2>2
<1>3. S = {} => First(S) = 0
  <2> HIDE DEF S
  <2> QED BY DEF First
<1>4. S # {} => First(S) \in S
  <2>1. S \in SUBSET Slot
    OBVIOUS
  <2> HIDE DEF S
  <2> QED BY <2>1, FirstIs
<1>5. OldestExpiredLease(L) = First(S)
  BY DEF OldestExpiredLease
<1>6. \A i \in S : i \in Slot /\ ~Static(L[i])
  OBVIOUS
<1>7. S = {} => \A i \in Slot : ~(L[i].exp < now /\ ~Static(L[i]))
  BY <1>2
<1> HIDE DEF S, old
<1> QED BY <1>3, <1>4, <1>5, <1>6, <1>7, Bounds

(***************************************************************************)
(* The tables the code can have: an unused entry is blank, one in use has  *)
(* an address, and no client has two.                                      *)
(***************************************************************************)
GoodTable(L) ==
  /\ L \in [Slot -> Entry]
  /\ \A i \in Slot : L[i].ch = Nobody => L[i] = Empty
  /\ \A i \in Slot : L[i].ch # Nobody => L[i].ip \in Ip
  /\ \A i, j \in Slot : L[i].ch # Nobody /\ L[i].ch = L[j].ch => i = j

(* The slot for c is its own, or one no static lease has, c having none.   *)
LEMMA SlotForIs ==
  ASSUME NEW L, GoodTable(L), NEW c \in Client
  PROVE  /\ SlotFor(L, c) # 0 =>
              /\ SlotFor(L, c) \in Slot
              /\ \/ L[SlotFor(L, c)].ch = c
                 \/ (\A i \in Slot : L[i].ch # c) /\ ~Static(L[SlotFor(L, c)])
         /\ SlotFor(L, c) = 0 =>
              \A i \in Slot : L[i].ch # c /\ ~(L[i].exp < now /\ ~Static(L[i]))
<1>1. L \in [Slot -> Entry]
  BY DEF GoodTable
<1>2. CASE FindLeaseByChaddr(L, c) # 0
  BY <1>2, ByChaddr DEF SlotFor
<1>3. CASE FindLeaseByChaddr(L, c) = 0
  <2>1. \A i \in Slot : L[i].ch # c
    BY <1>3, ByChaddr
  <2>2. SlotFor(L, c) = OldestExpiredLease(L)
    BY <1>3 DEF SlotFor
  <2> QED BY <1>1, <2>1, <2>2, OldestIs
<1> QED BY <1>2, <1>3

(* An entry for c is put into a slot that is its own, or it has none.      *)
LEMMA PutGood ==
  ASSUME NEW L, GoodTable(L), NEW i \in Slot, NEW c \in Client, NEW a \in Ip,
         NEW exp \in Time, NEW flag \in SUBSET Flag,
         L[i].ch = c \/ \A j \in Slot : L[j].ch # c
  PROVE  GoodTable([L EXCEPT ![i] = [ch |-> c, ip |-> a, exp |-> exp, flag |-> flag]])
<1> DEFINE e == [ch |-> c, ip |-> a, exp |-> exp, flag |-> flag]
           M == [L EXCEPT ![i] = e]
<1>1. e \in Entry /\ e.ch = c /\ e.ip = a
  BY DEF Entry
<1>2. L \in [Slot -> Entry]
  BY DEF GoodTable
<1> HIDE DEF e
<1>3. M \in [Slot -> Entry] /\ M[i] = e /\ \A j \in Slot : j # i => M[j] = L[j]
  BY <1>1, <1>2
<1> HIDE DEF M
<1>4. c # Nobody
  BY Bounds
<1>5. \A j \in Slot : M[j].ch = Nobody => M[j] = Empty
  BY <1>1, <1>3, <1>4 DEF GoodTable
<1>6. \A j \in Slot : M[j].ch # Nobody => M[j].ip \in Ip
  BY <1>1, <1>3 DEF GoodTable
<1>7. \A j \in Slot : j # i => L[j].ch # c
  BY <1>4 DEF GoodTable
<1>8. \A j, k \in Slot : M[j].ch # Nobody /\ M[j].ch = M[k].ch => j = k
  BY <1>1, <1>3, <1>7 DEF GoodTable
<1>9. GoodTable(M)
  BY <1>3, <1>5, <1>6, <1>8 DEF GoodTable
<1> QED BY <1>9 DEF M, e

LEMMA AddLeaseGood ==
  ASSUME NEW L, GoodTable(L), NEW c \in Client, NEW a \in Ip, NEW exp \in Time
  PROVE  GoodTable(AddLease(L, c, a, exp))
<1> DEFINE i == SlotFor(L, c)
<1>1. CASE i = 0
  BY <1>1 DEF AddLease
<1>2. CASE i # 0
  <2>1. i \in Slot /\ (L[i].ch = c \/ \A j \in Slot : L[j].ch # c)
    BY <1>2, SlotForIs
  <2> DEFINE flag == IF L[i].ch = c THEN L[i].flag ELSE {}
  <2>2. flag \in SUBSET Flag
    BY <2>1 DEF GoodTable, Entry
  <2>3. AddLease(L, c, a, exp) =
          [L EXCEPT ![i] = [ch |-> c, ip |-> a, exp |-> exp, flag |-> flag]]
    BY <1>2 DEF AddLease
  <2> HIDE DEF flag, i
  <2>4. GoodTable([L EXCEPT ![i] = [ch |-> c, ip |-> a, exp |-> exp, flag |-> flag]])
    BY <2>1, <2>2, PutGood
  <2> QED BY <2>3, <2>4
<1> QED BY <1>1, <1>2

LEMMA FindAndSetGood ==
  ASSUME NEW L, GoodTable(L), NEW c \in Client, NEW a \in Ip, NEW flag \in SUBSET Flag
  PROVE  GoodTable(FindAndSetLease(L, c, a, flag))
<1> DEFINE i == SlotFor(L, c)
<1>1. CASE i = 0
  BY <1>1 DEF FindAndSetLease
<1>2. CASE i # 0
  <2>1. i \in Slot /\ (L[i].ch = c \/ \A j \in Slot : L[j].ch # c)
    BY <1>2, SlotForIs
  <2> DEFINE exp == IF L[i].ch = c /\ L[i].ip = a THEN L[i].exp ELSE 0
  <2>2. exp \in Time
    BY <2>1, TimeAssumption DEF GoodTable, Entry, Time
  <2>3. FindAndSetLease(L, c, a, flag) =
          [L EXCEPT ![i] = [ch |-> c, ip |-> a, exp |-> exp, flag |-> flag]]
    BY <1>2, <2>1 DEF FindAndSetLease, GoodTable
  <2> HIDE DEF exp, i
  <2>4. GoodTable([L EXCEPT ![i] = [ch |-> c, ip |-> a, exp |-> exp, flag |-> flag]])
    BY <2>1, <2>2, PutGood
  <2> QED BY <2>3, <2>4
<1> QED BY <1>1, <1>2

LEMMA FlushGood ==
  ASSUME NEW L, GoodTable(L), NEW i \in Slot
  PROVE  GoodTable(FlushEntry(L, i))
<1>1. Empty \in Entry /\ Empty.ch = Nobody
  BY TimeAssumption DEF Empty, Entry, Time
<1> DEFINE M == FlushEntry(L, i)
<1>2. M \in [Slot -> Entry] /\ M[i] = Empty /\ \A j \in Slot : j # i => M[j] = L[j]
  BY <1>1 DEF FlushEntry, GoodTable
<1> HIDE DEF M
<1>3. GoodTable(M)
  BY <1>1, <1>2 DEF GoodTable
<1> QED BY <1>3 DEF M

(* Entries keep their place when only time or flags of one change.         *)
LEMMA TouchGood ==
  ASSUME NEW L, GoodTable(L), NEW i \in Slot, L[i].ch # Nobody, NEW M \in [Slot -> Entry],
         \A j \in Slot : M[j].ch = L[j].ch /\ M[j].ip = L[j].ip /\ (j # i => M[j] = L[j])
  PROVE  GoodTable(M)
BY DEF GoodTable

LEMMA BlankGood == GoodTable(Blank.table)
<1>1. Empty \in Entry /\ Empty.ch = Nobody
  BY TimeAssumption DEF Empty, Entry, Time
<1>2. Blank.table = [i \in Slot |-> Empty]
  BY DEF Blank
<1> QED BY <1>1, <1>2 DEF GoodTable

(***************************************************************************)
(* Static leases.  The table has the first n of them, and nothing else in  *)
(* it belongs to a client or has an address of a static lease: else the    *)
(* server could find the wrong entry for either.                           *)
(***************************************************************************)
StaticCh == {StaticOf[k].ch : k \in DOMAIN StaticOf}
StaticIp == {StaticOf[k].ip : k \in DOMAIN StaticOf}
IsStatic(k, c, a) == StaticOf[k].ch = c /\ StaticOf[k].ip = a

StaticIn(L, n) ==
  /\ \A k \in 1 .. n : \E i \in Slot : IsStatic(k, L[i].ch, L[i].ip) /\ Static(L[i])
  /\ \A i \in Slot : Static(L[i]) \/ L[i].ch \in StaticCh \/ L[i].ip \in StaticIp =>
       Static(L[i]) /\ \E k \in 1 .. n : IsStatic(k, L[i].ch, L[i].ip)

(* An address c may have when the first n static leases are known.         *)
FitsIn(n, c, a) ==
  \/ c \notin StaticCh /\ a \notin StaticIp
  \/ \E k \in 1 .. n : IsStatic(k, c, a)

LEMMA StaticDomain ==
  /\ Len(StaticOf) \in Nat /\ DOMAIN StaticOf = 1 .. Len(StaticOf)
  /\ \A k \in DOMAIN StaticOf : StaticOf[k].ch \in Client /\ StaticOf[k].ip \in Ip
<1> DEFINE R == [ch : Client, ip : Nat \ {0}]
<1>1. StaticOf \in Seq(R)
  BY ClientAssumption
<1>2. Len(StaticOf) \in Nat /\ DOMAIN StaticOf = 1 .. Len(StaticOf)
      /\ \A k \in DOMAIN StaticOf : StaticOf[k] \in R
  <2> HIDE DEF R
  <2> QED BY <1>1, LenProperties
<1> QED BY <1>2 DEF Ip

LEMMA PutKeeps ==
  ASSUME NEW L, GoodTable(L), NEW n, StaticIn(L, n), NEW i \in Slot, NEW e,
         \/ e.ch \notin StaticCh /\ e.ip \notin StaticIp /\ ~Static(e) /\ ~Static(L[i])
         \/ \E k \in 1 .. n : /\ IsStatic(k, e.ch, e.ip) /\ IsStatic(k, L[i].ch, L[i].ip)
                              /\ Static(e)
  PROVE  StaticIn([L EXCEPT ![i] = e], n)
<1> DEFINE M == [L EXCEPT ![i] = e]
<1>1. M[i] = e /\ \A j \in Slot : j # i => M[j] = L[j]
  BY DEF GoodTable
<1> HIDE DEF M
<1>2. ASSUME NEW k \in 1 .. n
      PROVE  \E j \in Slot : IsStatic(k, M[j].ch, M[j].ip) /\ Static(M[j])
  <2>1. PICK j \in Slot : IsStatic(k, L[j].ch, L[j].ip) /\ Static(L[j])
    BY DEF StaticIn
  <2>2. CASE j # i
    BY <1>1, <2>1, <2>2
  <2>3. CASE j = i
    <3>1. PICK m \in 1 .. n : IsStatic(m, e.ch, e.ip) /\ IsStatic(m, L[i].ch, L[i].ip)
                             /\ Static(e)
      BY <2>1, <2>3
    <3>2. IsStatic(k, e.ch, e.ip)
      BY <2>1, <2>3, <3>1 DEF IsStatic
    <3> QED BY <1>1, <3>1, <3>2
  <2> QED BY <2>2, <2>3
<1>3. ASSUME NEW j \in Slot, Static(M[j]) \/ M[j].ch \in StaticCh \/ M[j].ip \in StaticIp
      PROVE  Static(M[j]) /\ \E k \in 1 .. n : IsStatic(k, M[j].ch, M[j].ip)
  <2>1. CASE j # i
    BY <1>1, <1>3, <2>1 DEF StaticIn
  <2>2. CASE j = i
    BY <1>1, <1>3, <2>2
  <2> QED BY <2>1, <2>2
<1>4. StaticIn(M, n)
  BY <1>2, <1>3 DEF StaticIn
<1> QED BY <1>4 DEF M

(* The entry of a client that has no static lease is not static.           *)
LEMMA OthersNotStatic ==
  ASSUME NEW L, NEW n, n <= Len(StaticOf), n \in Nat, StaticIn(L, n), NEW i \in Slot,
         L[i].ch \notin StaticCh \/ L[i].ip \notin StaticIp
  PROVE  ~Static(L[i])
<1> SUFFICES ASSUME Static(L[i]) PROVE FALSE
  OBVIOUS
<1>1. PICK k \in 1 .. n : IsStatic(k, L[i].ch, L[i].ip)
  BY DEF StaticIn
<1>2. k \in DOMAIN StaticOf
  BY StaticDomain
<1> QED BY <1>1, <1>2 DEF IsStatic, StaticCh, StaticIp

LEMMA AddLeaseKeeps ==
  ASSUME NEW L, GoodTable(L), NEW n \in Nat, n <= Len(StaticOf), StaticIn(L, n),
         NEW c \in Client, NEW a \in Ip, NEW exp \in Time, FitsIn(n, c, a)
  PROVE  StaticIn(AddLease(L, c, a, exp), n)
<1> DEFINE i == SlotFor(L, c)
<1>1. CASE i = 0
  BY <1>1 DEF AddLease
<1>2. CASE i # 0
  <2>1. /\ i \in Slot
        /\ \/ L[i].ch = c
           \/ (\A j \in Slot : L[j].ch # c) /\ ~Static(L[i])
    <3>1. SlotFor(L, c) # 0
      BY <1>2
    <3> QED BY <3>1, SlotForIs
  <2> DEFINE e == [ch |-> c, ip |-> a, exp |-> exp,
                   flag |-> IF L[i].ch = c THEN L[i].flag ELSE {}]
  <2>2. AddLease(L, c, a, exp) = [L EXCEPT ![i] = e]
    BY <1>2 DEF AddLease
  <2>3. /\ e.ch = c /\ e.ip = a
        /\ Static(e) <=> L[i].ch = c /\ Static(L[i])
    BY DEF Static
  <2> HIDE DEF e, i
  <2>4. CASE c \notin StaticCh /\ a \notin StaticIp
    <3>1. ~Static(L[i])
      BY <2>1, <2>4, OthersNotStatic
    <3>2. StaticIn([L EXCEPT ![i] = e], n)
      BY <2>1, <2>3, <2>4, <3>1, PutKeeps
    <3> QED BY <2>2, <3>2
  <2>5. CASE \E k \in 1 .. n : IsStatic(k, c, a)
    <3>1. PICK k \in 1 .. n : IsStatic(k, c, a)
      BY <2>5
    <3>2. PICK j \in Slot : IsStatic(k, L[j].ch, L[j].ip) /\ Static(L[j])
      BY DEF StaticIn
    <3>3. L[j].ch = c /\ c # Nobody
      BY <3>1, <3>2, Bounds DEF IsStatic
    <3>4. i = j
      BY <2>1, <3>3 DEF GoodTable
    <3>5. Static(e) /\ IsStatic(k, e.ch, e.ip) /\ IsStatic(k, L[i].ch, L[i].ip)
      BY <2>3, <3>1, <3>2, <3>3, <3>4
    <3>6. StaticIn([L EXCEPT ![i] = e], n)
      BY <2>1, <3>5, PutKeeps
    <3> QED BY <2>2, <3>6
  <2> QED BY <2>4, <2>5 DEF FitsIn
<1> QED BY <1>1, <1>2

LEMMA FindAndSetKeeps ==
  ASSUME NEW L, GoodTable(L), NEW n \in Nat, n <= Len(StaticOf), StaticIn(L, n),
         NEW c \in Client, NEW a \in Ip, c \notin StaticCh, a \notin StaticIp,
         NEW flag, "STATICL" \notin flag
  PROVE  StaticIn(FindAndSetLease(L, c, a, flag), n)
<1> DEFINE i == SlotFor(L, c)
<1>1. CASE i = 0
  BY <1>1 DEF FindAndSetLease
<1>2. CASE i # 0
  <2>1. /\ i \in Slot
        /\ \/ L[i].ch = c
           \/ (\A j \in Slot : L[j].ch # c) /\ ~Static(L[i])
    <3>1. SlotFor(L, c) # 0
      BY <1>2
    <3> QED BY <3>1, SlotForIs
  <2> DEFINE e == [ch |-> c, ip |-> a, flag |-> flag,
                   exp |-> IF L[i].ch = c /\ L[i].ip = a THEN L[i].exp ELSE 0]
  <2>2. FindAndSetLease(L, c, a, flag) = [L EXCEPT ![i] = e]
    BY <1>2, <2>1 DEF FindAndSetLease, GoodTable
  <2>3. e.ch = c /\ e.ip = a /\ ~Static(e)
    BY DEF Static
  <2> HIDE DEF e, i
  <2>4. ~Static(L[i])
    BY <2>1, OthersNotStatic
  <2>5. StaticIn([L EXCEPT ![i] = e], n)
    BY <2>1, <2>3, <2>4, PutKeeps
  <2> QED BY <2>2, <2>5
<1> QED BY <1>1, <1>2

-----------------------------------------------------------------------------
(* Probes and the search for an address.                                   *)
ClientsFit ==
  \A c \in Client : conf[c].ip # None => FitsIn(Len(StaticOf), c, conf[c].ip)

LEMMA Times ==
  ASSUME now \in 1 .. MaxTime
  PROVE  /\ now \in Time /\ now + Lease \in Time /\ now + Offer \in Time
         /\ now + Conflict \in Time /\ 0 \in Time
<1>1. MaxTime \in Nat /\ Lease \in Nat /\ Offer \in Nat /\ Conflict \in Nat
  BY TimeAssumption
<1> QED BY <1>1 DEF Time

LEMMA ReserveGood ==
  ASSUME NEW L, GoodTable(L), now \in 1 .. MaxTime, NEW a \in Ip, NEW w \in Client
  PROVE  GoodTable(Reserve(L, a, w))
<1>1. GoodTable(AddLease(L, w, a, now + Conflict))
  BY Times, AddLeaseGood
<1>2. {"RESERVED"} \in SUBSET Flag
  BY DEF Flag
<1> QED BY <1>1, <1>2, FindAndSetGood DEF Reserve

LEMMA ReserveKeeps ==
  ASSUME NEW L, GoodTable(L), now \in 1 .. MaxTime, NEW a \in Ip, NEW w \in Client,
         NEW n \in Nat, n <= Len(StaticOf), StaticIn(L, n),
         w \notin StaticCh, a \notin StaticIp
  PROVE  StaticIn(Reserve(L, a, w), n)
<1> DEFINE M == AddLease(L, w, a, now + Conflict)
<1>1. now + Conflict \in Time
  BY Times
<1>2. GoodTable(M)
  BY <1>1, AddLeaseGood
<1>3. FitsIn(n, w, a)
  BY DEF FitsIn
<1>4. StaticIn(M, n)
  BY <1>1, <1>3, AddLeaseKeeps
<1>5. "STATICL" \notin {"RESERVED"}
  OBVIOUS
<1>6. Reserve(L, a, w) = FindAndSetLease(M, w, a, {"RESERVED"})
  BY DEF Reserve
<1> HIDE DEF M
<1>7. StaticIn(FindAndSetLease(M, w, a, {"RESERVED"}), n)
  BY <1>2, <1>4, <1>5, FindAndSetKeeps
<1> QED BY <1>6, <1>7

LEMMA TakenBy ==
  ASSUME NEW a, NEW c, Taken(a, c)
  PROVE  LET w == CHOOSE w \in Answers(a) \ {c} : TRUE
         IN  w \in Client /\ w # c /\ conf[w].ip = a
BY DEF Taken, Answers

LEMMA CheckIpGood ==
  ASSUME NEW L, GoodTable(L), now \in 1 .. MaxTime, NEW a \in Ip, NEW c
  PROVE  GoodTable(CheckIp(L, a, c))
<1>1. CASE ~Taken(a, c)
  BY <1>1 DEF CheckIp
<1>2. CASE Taken(a, c)
  <2> DEFINE w == CHOOSE w \in Answers(a) \ {c} : TRUE
  <2>1. w \in Client
    BY <1>2, TakenBy
  <2>2. CheckIp(L, a, c) = Reserve(L, a, w)
    BY <1>2 DEF CheckIp
  <2> HIDE DEF w
  <2> QED BY <2>1, <2>2, ReserveGood
<1> QED BY <1>1, <1>2

(* A host that answers is entered under an address it may have: its own    *)
(* static one would not have been probed for.                              *)
LEMMA CheckIpKeeps ==
  ASSUME NEW L, GoodTable(L), now \in 1 .. MaxTime, NEW a \in Ip, a \notin StaticIp, NEW c,
         StaticIn(L, Len(StaticOf)), ClientsFit
  PROVE  StaticIn(CheckIp(L, a, c), Len(StaticOf))
<1>1. CASE ~Taken(a, c)
  BY <1>1 DEF CheckIp
<1>2. CASE Taken(a, c)
  <2> DEFINE w == CHOOSE w \in Answers(a) \ {c} : TRUE
  <2>1. w \in Client /\ conf[w].ip = a
    BY <1>2, TakenBy
  <2>2. CheckIp(L, a, c) = Reserve(L, a, w)
    BY <1>2 DEF CheckIp
  <2> HIDE DEF w
  <2>3. FitsIn(Len(StaticOf), w, a)
    BY <2>1, Bounds DEF ClientsFit
  <2>4. w \notin StaticCh
    <3> SUFFICES ASSUME w \in StaticCh PROVE FALSE
      OBVIOUS
    <3>1. PICK k \in 1 .. Len(StaticOf) : IsStatic(k, w, a)
      BY <2>3 DEF FitsIn
    <3> QED BY <3>1, StaticDomain DEF IsStatic, StaticIp
  <2>5. StaticIn(Reserve(L, a, w), Len(StaticOf))
    BY <2>1, <2>4, StaticDomain, ReserveKeeps
  <2> QED BY <2>2, <2>5
<1> QED BY <1>1, <1>2

(* What every step of the search keeps holds of what it finds.             *)
LEMMA SearchStays ==
  ASSUME NEW L, NEW expired, NEW X, [table |-> L, ip |-> None] \in X,
         \A s \in X, a \in Pool : Try(s, a, expired) \in X
  PROVE  FindAddress(L, expired) \in X
<1> DEFINE b == [table |-> L, ip |-> None]
           Scan(f) == f = [a \in start - 1 .. end |->
                            IF a < start THEN b ELSE Try(f[a - 1], a, expired)]
           F == [a \in (start - 1) + 1 .. end |-> [s \in X |-> Try(s, a, expired)]]
           scan == CHOOSE f : Scan(f)
<1>1. start - 1 \in Int /\ end \in Int /\ start - 1 <= end /\ start \in Int
  BY Bounds
<1>2. \A a \in (start - 1) + 1 .. end : a \in Pool /\ ~(a < start) /\ a # start - 1
  BY <1>1 DEF Pool
<1>3. F \in [(start - 1) + 1 .. end -> [X -> X]]
  BY <1>2
<1>4. \E f \in [start - 1 .. end -> X] :
        /\ f[start - 1] = b
        /\ \A k \in (start - 1) + 1 .. end : f[k] = F[k][f[k - 1]]
  <2> DEFINE m == start - 1
  <2>1. /\ m \in Int /\ end \in Int /\ m <= end /\ b \in X
        /\ F \in Steps(m, end, X)
    BY <1>1, <1>3 DEF Steps
  <2> HIDE DEF F, b, m
  <2>2. \E f \in [m .. end -> X] : Loops(f, m, end, b, F)
    BY <2>1, LoopIsDefined
  <2> QED BY <2>2 DEF m, Loops
<1>5. PICK f \in [start - 1 .. end -> X] :
        /\ f[start - 1] = b
        /\ \A k \in (start - 1) + 1 .. end : f[k] = F[k][f[k - 1]]
  BY <1>4
<1>6. \A k \in start - 1 .. end :
        f[k] = IF k < start THEN b ELSE Try(f[k - 1], k, expired)
  <2> TAKE k \in start - 1 .. end
  <2>1. CASE k = start - 1
    BY <1>1, <1>5, <2>1
  <2>2. CASE k # start - 1
    <3>1. k \in (start - 1) + 1 .. end /\ ~(k < start) /\ k - 1 \in start - 1 .. end
      BY <1>1, <2>2
    <3>2. f[k] = F[k][f[k - 1]]
      <4> HIDE DEF F, b
      <4> QED BY <1>5, <3>1
    <3>3. f[k - 1] \in X
      BY <3>1
    <3>4. F[k][f[k - 1]] = Try(f[k - 1], k, expired)
      BY <3>1, <3>3
    <3> QED BY <3>1, <3>2, <3>4
  <2> QED BY <2>1, <2>2
<1>7. Scan(f)
  <2>1. f = [k \in start - 1 .. end |-> f[k]]
    OBVIOUS
  <2> HIDE DEF b
  <2> QED BY <1>6, <2>1
<1>8. Scan(scan)
  <2> HIDE DEF Scan
  <2> QED BY <1>7
<1>9. FindAddress(L, expired) = scan[end]
  BY DEF FindAddress
<1>10. \A k \in start - 1 .. end :
         scan[k] = IF k < start THEN b ELSE Try(scan[k - 1], k, expired)
  <2> HIDE DEF scan, b
  <2> QED BY <1>8
<1> HIDE DEF scan, b, F, Scan
<1> DEFINE T == {k \in start - 1 .. end : scan[k] \in X}
<1>11. start - 1 \in T
  BY <1>1, <1>10 DEF b
<1>12. \A k \in (start - 1) + 1 .. end : k - 1 \in T => k \in T
  BY <1>1, <1>2, <1>10
<1>13. start - 1 .. end \subseteq T
  <2> HIDE DEF T
  <2> QED BY <1>1, <1>11, <1>12, IntervalInduction
<1>14. end \in start - 1 .. end
  BY <1>1
<1>15. end \in T
  <2> HIDE DEF T
  <2> QED BY <1>13, <1>14
<1> QED BY <1>9, <1>15

(* The search finds an address nobody answers for, and leaves the table as *)
(* it should be.                                                           *)
LEMMA SearchGood ==
  ASSUME NEW L, GoodTable(L), now \in 1 .. MaxTime, NEW expired
  PROVE  LET found == FindAddress(L, expired)
         IN  /\ GoodTable(found.table) /\ found.ip \in Pool \cup {None}
             /\ found.ip # None => ~Taken(found.ip, Nobody)
<1> DEFINE X == {s \in [table : [Slot -> Entry], ip : Pool \cup {None}] :
                   GoodTable(s.table) /\ (s.ip # None => ~Taken(s.ip, Nobody))}
<1>1. [table |-> L, ip |-> None] \in X
  BY DEF GoodTable
<1>2. ASSUME NEW s \in X, NEW a \in Pool PROVE Try(s, a, expired) \in X
  <2>1. CASE s.ip # None \/ a \in Skipped \/ ~Offerable(s.table, a, expired)
    BY <2>1 DEF Try
  <2>2. CASE ~(s.ip # None \/ a \in Skipped \/ ~Offerable(s.table, a, expired))
    <3> DEFINE M == CheckIp(s.table, a, Nobody)
               found == IF Taken(a, Nobody) THEN None ELSE a
    <3>1. GoodTable(M)
      BY Bounds, CheckIpGood
    <3>2. Try(s, a, expired) = [table |-> M, ip |-> found]
      BY <2>2 DEF Try
    <3>3. found \in Pool \cup {None} /\ (found # None => ~Taken(found, Nobody))
      OBVIOUS
    <3>4. M \in [Slot -> Entry]
      BY <3>1 DEF GoodTable
    <3> HIDE DEF M, found
    <3> QED BY <3>1, <3>2, <3>3, <3>4
  <2> QED BY <2>1, <2>2
<1>3. FindAddress(L, expired) \in X
  <2> HIDE DEF X
  <2> QED BY <1>1, <1>2, SearchStays
<1> QED BY <1>3

(* It does not find a static address: the entry that has it is not expired. *)
LEMMA StaticNotFree ==
  ASSUME NEW L, StaticIn(L, Len(StaticOf)), NEW a \in StaticIp
  PROVE  /\ FindLeaseByYiaddr(L, a) # 0
         /\ ~LeaseExpired(L[FindLeaseByYiaddr(L, a)])
<1>1. PICK k \in 1 .. Len(StaticOf) : StaticOf[k].ip = a
  BY StaticDomain DEF StaticIp
<1>2. PICK i \in Slot : L[i].ip = a
  BY <1>1 DEF StaticIn, IsStatic
<1>3. FindLeaseByYiaddr(L, a) # 0
  BY <1>2, ByYiaddr
<1>4. FindLeaseByYiaddr(L, a) \in Slot /\ L[FindLeaseByYiaddr(L, a)].ip = a
  BY <1>3, ByYiaddr
<1>5. Static(L[FindLeaseByYiaddr(L, a)])
  BY <1>4 DEF StaticIn
<1> QED BY <1>3, <1>5 DEF LeaseExpired

LEMMA SearchKeeps ==
  ASSUME NEW L, GoodTable(L), now \in 1 .. MaxTime, NEW expired,
         StaticIn(L, Len(StaticOf)), ClientsFit
  PROVE  LET found == FindAddress(L, expired)
         IN  StaticIn(found.table, Len(StaticOf)) /\ found.ip \notin StaticIp
<1> DEFINE X == {s \in [table : [Slot -> Entry], ip : Pool \cup {None}] :
                   /\ GoodTable(s.table) /\ StaticIn(s.table, Len(StaticOf))
                   /\ s.ip \notin StaticIp}
<1>0. None \notin StaticIp
  BY StaticDomain, Bounds DEF StaticIp
<1>1. [table |-> L, ip |-> None] \in X
  BY <1>0 DEF GoodTable
<1>2. ASSUME NEW s \in X, NEW a \in Pool PROVE Try(s, a, expired) \in X
  <2>1. CASE s.ip # None \/ a \in Skipped \/ ~Offerable(s.table, a, expired)
    BY <2>1 DEF Try
  <2>2. CASE ~(s.ip # None \/ a \in Skipped \/ ~Offerable(s.table, a, expired))
    <3> DEFINE M == CheckIp(s.table, a, Nobody)
               found == IF Taken(a, Nobody) THEN None ELSE a
    <3>1. GoodTable(M)
      BY Bounds, CheckIpGood
    <3>2. Try(s, a, expired) = [table |-> M, ip |-> found]
      BY <2>2 DEF Try
    <3>3. a \notin StaticIp
      BY <2>2, StaticNotFree DEF Offerable
    <3>4. found \in Pool \cup {None} /\ found \notin StaticIp
      BY <1>0, <3>3
    <3>5. StaticIn(M, Len(StaticOf))
      BY <3>3, Bounds, CheckIpKeeps
    <3>6. M \in [Slot -> Entry]
      BY <3>1 DEF GoodTable
    <3> HIDE DEF M, found
    <3> QED BY <3>1, <3>2, <3>4, <3>5, <3>6
  <2> QED BY <2>1, <2>2
<1>3. FindAddress(L, expired) \in X
  <2> HIDE DEF X
  <2> QED BY <1>1, <1>2, SearchStays
<1> QED BY <1>3

-----------------------------------------------------------------------------
(* Loading a table.                                                        *)
Stored == [ch : Client, ip : Ip, exp : Time]
LoadState == {s \in [table : [Slot -> Entry], full : BOOLEAN] : GoodTable(s.table)}

LEMMA LoadDynamicGood ==
  ASSUME NEW s \in LoadState, NEW e \in Stored
  PROVE  LoadDynamic(s, e) \in LoadState
<1>1. CASE s.full \/ SlotFor(s.table, e.ch) = 0
  BY <1>1 DEF LoadDynamic, LoadState
<1>2. CASE ~(s.full \/ SlotFor(s.table, e.ch) = 0)
  <2> DEFINE M == AddLease(s.table, e.ch, e.ip, e.exp)
  <2>1. GoodTable(M)
    BY AddLeaseGood DEF LoadState, Stored
  <2>2. LoadDynamic(s, e) = [s EXCEPT !.table = M]
    BY <1>2 DEF LoadDynamic, LoadState
  <2>3. M \in [Slot -> Entry]
    BY <2>1 DEF GoodTable
  <2> HIDE DEF M
  <2> QED BY <2>1, <2>2, <2>3 DEF LoadState
<1> QED BY <1>1, <1>2

LEMMA LoadStaticGood ==
  ASSUME NEW s \in LoadState, NEW k \in DOMAIN StaticOf
  PROVE  LoadStatic(s, StaticOf[k]) \in LoadState
<1> DEFINE e == StaticOf[k]
           i == FindLeaseByYiaddr(s.table, e.ip)
           M == IF i # 0 THEN FlushEntry(s.table, i) ELSE s.table
           N == FindAndSetLease(AddLease(M, e.ch, e.ip, 0), e.ch, e.ip, {"STATICL"})
<1>1. CASE s.full \/ (i # 0 /\ Static(s.table[i]))
  BY <1>1 DEF LoadStatic
<1>2. CASE ~(s.full \/ (i # 0 /\ Static(s.table[i])))
  <2>1. GoodTable(M)
    BY ByYiaddr, FlushGood DEF LoadState
  <2>2. e.ch \in Client /\ e.ip \in Ip /\ 0 \in Time /\ {"STATICL"} \in SUBSET Flag
    BY StaticDomain, TimeAssumption DEF Time, Flag
  <2>3. GoodTable(N)
    <3> HIDE DEF M, e
    <3>1. GoodTable(AddLease(M, e.ch, e.ip, 0))
      BY <2>1, <2>2, AddLeaseGood
    <3> QED BY <2>2, <3>1, FindAndSetGood
  <2>4. LoadStatic(s, e) = [table |-> N, full |-> SlotFor(M, e.ch) = 0]
    BY <1>2 DEF LoadStatic
  <2>5. N \in [Slot -> Entry]
    BY <2>3 DEF GoodTable
  <2> HIDE DEF N, M, e
  <2> QED BY <2>3, <2>4, <2>5 DEF LoadState, e
<1> QED BY <1>1, <1>2

(* The loops that load run, and keep the table good.                       *)
LEMMA DynamicLoop ==
  ASSUME NEW store \in Seq(Stored)
  PROVE  \E f \in [0 .. Len(store) -> LoadState] :
           /\ f[0] = Blank
           /\ \A k \in 1 .. Len(store) : f[k] = LoadDynamic(f[k - 1], store[k])
           /\ LoadDynLeases(store) = f[Len(store)]
<1> DEFINE n == Len(store)
           b == Blank
           Is(f) == f = [k \in 0 .. n |-> IF k = 0 THEN b ELSE LoadDynamic(f[k - 1], store[k])]
           F == [k \in 0 + 1 .. n |-> [s \in LoadState |-> LoadDynamic(s, store[k])]]
           load == CHOOSE f : Is(f)
<1>1. n \in Nat /\ 0 + 1 = 1
  BY LenProperties
<1>2. \A s \in LoadState, k \in 1 .. n : LoadDynamic(s, store[k]) \in LoadState
  BY LenProperties, LoadDynamicGood
<1>3. F \in Steps(0, n, LoadState)
  BY <1>1, <1>2 DEF Steps
<1>4. b \in LoadState
  BY BlankGood DEF LoadState, Blank, GoodTable
<1>5. PICK f \in [0 .. n -> LoadState] : Loops(f, 0, n, b, F)
  <2> HIDE DEF F, n, b
  <2>1. 0 \in Int /\ n \in Int /\ 0 <= n
    BY <1>1
  <2> QED BY <1>3, <1>4, <2>1, LoopIsDefined
<1>6. f[0] = b
  BY <1>5 DEF Loops
<1>7. \A k \in 1 .. n : k - 1 \in 0 .. n /\ k # 0
  BY <1>1
<1>8. \A k \in 1 .. n : f[k] = LoadDynamic(f[k - 1], store[k])
  <2> TAKE k \in 1 .. n
  <2>1. f[k] = F[k][f[k - 1]]
    <3> HIDE DEF F, n, b
    <3> QED BY <1>1, <1>5 DEF Loops
  <2>2. f[k - 1] \in LoadState /\ k \in 0 + 1 .. n
    BY <1>1, <1>7
  <2>3. F[k][f[k - 1]] = LoadDynamic(f[k - 1], store[k])
    BY <2>2
  <2> QED BY <2>1, <2>3
<1>9. Is(f)
  <2>1. f = [k \in 0 .. n |-> f[k]]
    OBVIOUS
  <2>2. \A k \in 0 .. n : f[k] = IF k = 0 THEN b ELSE LoadDynamic(f[k - 1], store[k])
    <3> TAKE k \in 0 .. n
    <3>1. k = 0 \/ k \in 1 .. n
      BY <1>1
    <3> HIDE DEF F, n, b
    <3> QED BY <1>6, <1>7, <1>8, <3>1
  <2> HIDE DEF b, n
  <2> QED BY <2>1, <2>2
<1>10. Is(load)
  <2> HIDE DEF Is
  <2> QED BY <1>9
<1>11. LoadDynLeases(store) = load[n]
  BY DEF LoadDynLeases
<1> HIDE DEF load
<1>12. load[0] = b /\ \A k \in 1 .. n : load[k] = LoadDynamic(load[k - 1], store[k])
  <2> HIDE DEF b
  <2> QED BY <1>1, <1>7, <1>10
<1> HIDE DEF Is, F
<1> DEFINE T == {k \in 0 .. n : load[k] \in LoadState}
<1>13. 0 \in T /\ \A k \in 0 + 1 .. n : k - 1 \in T => k \in T
  <2> HIDE DEF b
  <2> QED BY <1>1, <1>2, <1>4, <1>7, <1>12
<1>14. 0 .. n \subseteq T
  <2> HIDE DEF T, n
  <2>1. 0 \in Int /\ n \in Int
    BY <1>1
  <2> QED BY <1>13, <2>1, IntervalInduction
<1>15. load \in [0 .. n -> LoadState]
  <2>1. load = [k \in 0 .. n |-> load[k]]
    <3> HIDE DEF b, n
    <3> QED BY <1>10 DEF Is
  <2> HIDE DEF n
  <2> QED BY <1>14, <2>1
<1> QED BY <1>11, <1>12, <1>15

LEMMA StaticLoop ==
  ASSUME NEW first \in LoadState
  PROVE  \E f \in [0 .. Len(StaticOf) -> LoadState] :
           /\ f[0] = first
           /\ \A k \in 1 .. Len(StaticOf) : f[k] = LoadStatic(f[k - 1], StaticOf[k])
           /\ LoadStaticLeases(first) = f[Len(StaticOf)]
<1> DEFINE n == Len(StaticOf)
           b == first
           Is(f) == f = [k \in 0 .. n |-> IF k = 0 THEN b ELSE LoadStatic(f[k - 1], StaticOf[k])]
           F == [k \in 0 + 1 .. n |-> [s \in LoadState |-> LoadStatic(s, StaticOf[k])]]
           load == CHOOSE f : Is(f)
<1>1. n \in Nat /\ 0 + 1 = 1
  BY StaticDomain
<1>2. \A s \in LoadState, k \in 1 .. n : LoadStatic(s, StaticOf[k]) \in LoadState
  BY StaticDomain, LoadStaticGood
<1>3. F \in Steps(0, n, LoadState)
  BY <1>1, <1>2 DEF Steps
<1>4. b \in LoadState
  OBVIOUS
<1>5. PICK f \in [0 .. n -> LoadState] : Loops(f, 0, n, b, F)
  <2> HIDE DEF F, n, b
  <2>1. 0 \in Int /\ n \in Int /\ 0 <= n
    BY <1>1
  <2> QED BY <1>3, <1>4, <2>1, LoopIsDefined
<1>6. f[0] = b
  BY <1>5 DEF Loops
<1>7. \A k \in 1 .. n : k - 1 \in 0 .. n /\ k # 0
  BY <1>1
<1>8. \A k \in 1 .. n : f[k] = LoadStatic(f[k - 1], StaticOf[k])
  <2> TAKE k \in 1 .. n
  <2>1. f[k] = F[k][f[k - 1]]
    <3> HIDE DEF F, n, b
    <3> QED BY <1>1, <1>5 DEF Loops
  <2>2. f[k - 1] \in LoadState /\ k \in 0 + 1 .. n
    BY <1>1, <1>7
  <2>3. F[k][f[k - 1]] = LoadStatic(f[k - 1], StaticOf[k])
    BY <2>2
  <2> QED BY <2>1, <2>3
<1>9. Is(f)
  <2>1. f = [k \in 0 .. n |-> f[k]]
    OBVIOUS
  <2>2. \A k \in 0 .. n : f[k] = IF k = 0 THEN b ELSE LoadStatic(f[k - 1], StaticOf[k])
    <3> TAKE k \in 0 .. n
    <3>1. k = 0 \/ k \in 1 .. n
      BY <1>1
    <3> HIDE DEF F, n, b
    <3> QED BY <1>6, <1>7, <1>8, <3>1
  <2> HIDE DEF b, n
  <2> QED BY <2>1, <2>2
<1>10. Is(load)
  <2> HIDE DEF Is
  <2> QED BY <1>9
<1>11. LoadStaticLeases(first) = load[n]
  BY DEF LoadStaticLeases
<1> HIDE DEF load
<1>12. load[0] = b /\ \A k \in 1 .. n : load[k] = LoadStatic(load[k - 1], StaticOf[k])
  <2> HIDE DEF b
  <2> QED BY <1>1, <1>7, <1>10
<1> HIDE DEF Is, F
<1> DEFINE T == {k \in 0 .. n : load[k] \in LoadState}
<1>13. 0 \in T /\ \A k \in 0 + 1 .. n : k - 1 \in T => k \in T
  <2> HIDE DEF b
  <2> QED BY <1>1, <1>2, <1>4, <1>7, <1>12
<1>14. 0 .. n \subseteq T
  <2> HIDE DEF T, n
  <2>1. 0 \in Int /\ n \in Int
    BY <1>1
  <2> QED BY <1>13, <2>1, IntervalInduction
<1>15. load \in [0 .. n -> LoadState]
  <2>1. load = [k \in 0 .. n |-> load[k]]
    <3> HIDE DEF b, n
    <3> QED BY <1>10 DEF Is
  <2> HIDE DEF n
  <2> QED BY <1>14, <2>1
<1> QED BY <1>11, <1>12, <1>15

LEMMA LoadedGood ==
  ASSUME NEW store \in Seq(Stored)
  PROVE  GoodTable(Loaded(store))
<1> DEFINE d == LoadDynLeases(store)
<1>1. Len(store) \in 0 .. Len(store) /\ Len(StaticOf) \in 0 .. Len(StaticOf)
  BY LenProperties, StaticDomain
<1>2. d \in LoadState
  BY <1>1, DynamicLoop
<1> HIDE DEF d
<1>3. [d EXCEPT !.full = FALSE] \in LoadState
  BY <1>2 DEF LoadState
<1>4. LoadStaticLeases([d EXCEPT !.full = FALSE]) \in LoadState
  BY <1>1, <1>3, StaticLoop
<1> QED BY <1>4 DEF Loaded, LoadState, d

(***************************************************************************)
(* The static leases find room.  Their settings do not contradict each     *)
(* other and are not more than the table has slots; and what is saved      *)
(* leaves room for them.                                                   *)
(***************************************************************************)
StaticSettings ==
  /\ Len(StaticOf) <= Slots
  /\ \A j, k \in DOMAIN StaticOf :
       StaticOf[j].ch = StaticOf[k].ch \/ StaticOf[j].ip = StaticOf[k].ip => j = k

SavedLease == [ch : Client \ StaticCh, ip : Ip \ StaticIp, exp : Time]

Used(L) == {i \in Slot : L[i].ch # Nobody}

LEMMA SlotsFinite == IsFiniteSet(Slot) /\ Cardinality(Slot) = Slots
<1>1. Slots \in Nat
  BY TimeAssumption
<1>2. /\ IsFiniteSet(1 .. Slots)
      /\ Cardinality(1 .. Slots) = IF 1 > Slots THEN 0 ELSE Slots - 1 + 1
  BY <1>1, FS_Interval
<1> QED BY <1>1, <1>2 DEF Slot

LEMMA UsedFinite ==
  ASSUME NEW L
  PROVE  IsFiniteSet(Used(L)) /\ Cardinality(Used(L)) \in Nat
<1>1. Used(L) \in SUBSET Slot
  BY DEF Used
<1>2. IsFiniteSet(Used(L))
  BY <1>1, SlotsFinite, FS_Subset
<1> QED BY <1>2, FS_CardinalityType

LEMMA UsedPut ==
  ASSUME NEW L, NEW M, NEW i, Used(M) \subseteq Used(L) \cup {i}
  PROVE  Cardinality(Used(M)) <= Cardinality(Used(L)) + 1
<1> DEFINE S == Used(L) \cup {i}
<1>1. IsFiniteSet(S) /\ Cardinality(S) <= Cardinality(Used(L)) + 1
  BY UsedFinite, FS_AddElement
<1>2. Used(M) \in SUBSET S
  OBVIOUS
<1>3. Cardinality(Used(M)) <= Cardinality(S)
  <2> HIDE DEF S
  <2> QED BY <1>1, <1>2, FS_Subset
<1>4. Cardinality(S) \in Nat /\ Cardinality(Used(M)) \in Nat /\ Cardinality(Used(L)) \in Nat
  BY <1>1, UsedFinite, FS_CardinalityType
<1> HIDE DEF S
<1> QED BY <1>1, <1>3, <1>4

LEMMA AddLeaseUses ==
  ASSUME NEW L, GoodTable(L), NEW c \in Client, NEW a, NEW exp
  PROVE  Cardinality(Used(AddLease(L, c, a, exp))) <= Cardinality(Used(L)) + 1
<1> DEFINE i == SlotFor(L, c)
           M == AddLease(L, c, a, exp)
<1>1. \A j \in Slot : j # i => M[j] = L[j]
  BY DEF AddLease, GoodTable
<1> HIDE DEF M, i
<1>2. Used(M) \subseteq Used(L) \cup {i}
  BY <1>1 DEF Used
<1>3. Cardinality(Used(M)) <= Cardinality(Used(L)) + 1
  BY <1>2, UsedPut
<1> QED BY <1>3 DEF M

LEMMA RoomLeft ==
  ASSUME NEW L, GoodTable(L), Cardinality(Used(L)) < Slots, now \in 1 .. MaxTime,
         NEW c \in Client
  PROVE  SlotFor(L, c) # 0
<1>1. Used(L) # Slot
  BY SlotsFinite, TimeAssumption
<1>2. PICK i \in Slot : L[i].ch = Nobody
  BY <1>1 DEF Used
<1>3. L[i] = Empty
  BY <1>2 DEF GoodTable
<1>4. L[i].exp < now /\ ~Static(L[i])
  BY <1>3, TimeAssumption DEF Empty, Static
<1> QED BY <1>4, SlotForIs

LEMMA LoadStaticAdds ==
  ASSUME StaticSettings, now \in 1 .. MaxTime, NEW s \in LoadState, ~s.full,
         NEW k \in DOMAIN StaticOf, StaticIn(s.table, k - 1), Cardinality(Used(s.table)) < Slots
  PROVE  LET r == LoadStatic(s, StaticOf[k])
         IN  /\ ~r.full /\ StaticIn(r.table, k)
             /\ Cardinality(Used(r.table)) <= Cardinality(Used(s.table)) + 1
<1> DEFINE L == s.table
           c == StaticOf[k].ch
           a == StaticOf[k].ip
           i == SlotFor(L, c)
           A == AddLease(L, c, a, 0)
           N == FindAndSetLease(A, c, a, {"STATICL"})
<1>1. /\ GoodTable(L) /\ c \in Client /\ a \in Ip /\ c # Nobody /\ 0 \in Time
      /\ k \in 1 .. Len(StaticOf) /\ k \in Int
      /\ \A m \in 1 .. k - 1 : m \in DOMAIN StaticOf /\ m # k
  BY StaticDomain, TimeAssumption, Bounds DEF LoadState, Time
<1>2. \A j \in Slot : L[j].ip # a /\ L[j].ch # c
  <2> SUFFICES ASSUME NEW j \in Slot, L[j].ip = a \/ L[j].ch = c PROVE FALSE
    OBVIOUS
  <2>1. L[j].ch \in StaticCh \/ L[j].ip \in StaticIp
    BY DEF StaticCh, StaticIp
  <2>2. PICK m \in 1 .. k - 1 : IsStatic(m, L[j].ch, L[j].ip)
    BY <2>1 DEF StaticIn
  <2> QED BY <1>1, <2>2 DEF IsStatic, StaticSettings
<1>3. FindLeaseByYiaddr(L, a) = 0
  BY <1>2, ByYiaddr
<1>4. i # 0
  BY <1>1, RoomLeft
<1>5. i \in Slot /\ ~Static(L[i])
  BY <1>1, <1>2, <1>4, SlotForIs
<1>6. GoodTable(A)
  BY <1>1, AddLeaseGood
<1>7. A = [L EXCEPT ![i] = [ch |-> c, ip |-> a, exp |-> 0, flag |-> {}]]
  BY <1>2, <1>4, <1>5 DEF AddLease
<1>8. LoadStatic(s, StaticOf[k]) = [table |-> N, full |-> FALSE]
  BY <1>3, <1>4 DEF LoadStatic
<1>9. L \in [Slot -> Entry]
  BY <1>1 DEF GoodTable
<1> HIDE DEF A, i, L, c, a
<1>10. /\ A[i].ch = c /\ A[i].ip = a
       /\ \A j \in Slot : j # i => A[j] = L[j]
  BY <1>5, <1>7, <1>9
<1>11. SlotFor(A, c) # 0 /\ SlotFor(A, c) \in Slot
  <2>1. FindLeaseByChaddr(A, c) # 0
    BY <1>5, <1>10, ByChaddr
  <2> QED BY <2>1, ByChaddr DEF SlotFor
<1>12. SlotFor(A, c) = i
  <2>1. A[SlotFor(A, c)].ch = c
    BY <1>1, <1>5, <1>6, <1>10, <1>11, SlotForIs
  <2> QED BY <1>1, <1>5, <1>6, <1>10, <1>11, <2>1 DEF GoodTable
<1>13. /\ N[i].ch = c /\ N[i].ip = a /\ Static(N[i])
       /\ \A j \in Slot : j # i => N[j] = L[j]
  BY <1>5, <1>6, <1>10, <1>11, <1>12 DEF FindAndSetLease, GoodTable, Static
<1> HIDE DEF N
<1>14. IsStatic(k, N[i].ch, N[i].ip)
  BY <1>13 DEF IsStatic, a, c
<1>15. ASSUME NEW m \in 1 .. k
       PROVE  \E j \in Slot : IsStatic(m, N[j].ch, N[j].ip) /\ Static(N[j])
  <2>1. CASE m = k
    BY <1>5, <1>13, <1>14, <2>1
  <2>2. CASE m # k
    <3>1. m \in 1 .. k - 1
      BY <1>1, <2>2
    <3>2. PICK j \in Slot : IsStatic(m, L[j].ch, L[j].ip) /\ Static(L[j])
      BY <3>1 DEF StaticIn, L
    <3> QED BY <1>5, <1>13, <3>2
  <2> QED BY <2>1, <2>2
<1>16. ASSUME NEW j \in Slot, Static(N[j]) \/ N[j].ch \in StaticCh \/ N[j].ip \in StaticIp
       PROVE  Static(N[j]) /\ \E m \in 1 .. k : IsStatic(m, N[j].ch, N[j].ip)
  <2>1. CASE j = i
    BY <1>1, <1>13, <1>14, <2>1
  <2>2. CASE j # i
    <3>1. Static(L[j]) /\ \E m \in 1 .. k - 1 : IsStatic(m, L[j].ch, L[j].ip)
      BY <1>13, <1>16, <2>2 DEF StaticIn, L
    <3>2. \A m \in 1 .. k - 1 : m \in 1 .. k
      BY <1>1
    <3> QED BY <1>13, <2>2, <3>1, <3>2
  <2> QED BY <2>1, <2>2
<1>17. StaticIn(N, k)
  BY <1>15, <1>16 DEF StaticIn
<1>18. Used(N) \subseteq Used(L) \cup {i}
  BY <1>13 DEF Used
<1>19. Cardinality(Used(N)) <= Cardinality(Used(L)) + 1
  BY <1>18, UsedPut
<1> QED BY <1>8, <1>17, <1>19 DEF L

(* A new table with saved leases that leave room for the static ones.      *)
LEMMA DynamicClean ==
  ASSUME NEW store \in Seq(SavedLease)
  PROVE  LET d == LoadDynLeases(store)
         IN  /\ d \in LoadState /\ StaticIn(d.table, 0)
             /\ Cardinality(Used(d.table)) <= Len(store)
<1>1. SavedLease \subseteq Stored /\ Len(store) \in Nat
  BY LenProperties DEF SavedLease, Stored
<1>2. store \in Seq(Stored)
  BY <1>1, SeqMonotonic
<1>3. PICK f \in [0 .. Len(store) -> LoadState] :
        /\ f[0] = Blank
        /\ \A k \in 1 .. Len(store) : f[k] = LoadDynamic(f[k - 1], store[k])
        /\ LoadDynLeases(store) = f[Len(store)]
  BY <1>2, DynamicLoop
<1> DEFINE n == Len(store)
           Clean(k) == StaticIn(f[k].table, 0) /\ Cardinality(Used(f[k].table)) <= k
           T == {k \in 0 .. n : Clean(k)}
<1>4. Clean(0)
  <2>1. f[0].table = [i \in Slot |-> Empty]
    BY <1>3 DEF Blank
  <2>2. Nobody \notin StaticCh /\ None \notin StaticIp
    BY StaticDomain, Bounds DEF StaticCh, StaticIp
  <2>3. StaticIn(f[0].table, 0)
    BY <2>1, <2>2 DEF StaticIn, Empty, Static
  <2>4. Used(f[0].table) = {}
    BY <2>1 DEF Used, Empty
  <2> QED BY <2>3, <2>4, FS_EmptySet
<1>5. ASSUME NEW k \in 0 + 1 .. n, k - 1 \in T PROVE k \in T
  <2> DEFINE s == f[k - 1]
             e == store[k]
  <2>1. k \in 1 .. n /\ k - 1 \in 0 .. n /\ k \in 0 .. n /\ k \in Int /\ k - 1 <= k
    BY <1>1
  <2>2. s \in LoadState /\ f[k] = LoadDynamic(s, e)
    BY <1>3, <2>1
  <2>3. e \in SavedLease
    BY <2>1, ElementOfSeq
  <2>4. GoodTable(s.table) /\ StaticIn(s.table, 0) /\ Cardinality(Used(s.table)) <= k - 1
    BY <1>5, <2>2 DEF LoadState
  <2>5. CASE s.full \/ SlotFor(s.table, e.ch) = 0
    <3>1. f[k].table = s.table
      BY <2>2, <2>5 DEF LoadDynamic, LoadState
    <3>2. Cardinality(Used(s.table)) <= k
      BY <2>1, <2>4, UsedFinite
    <3> QED BY <2>1, <2>4, <3>1, <3>2
  <2>6. CASE ~(s.full \/ SlotFor(s.table, e.ch) = 0)
    <3> DEFINE M == AddLease(s.table, e.ch, e.ip, e.exp)
    <3>1. f[k].table = M
      BY <2>2, <2>6 DEF LoadDynamic, LoadState
    <3>2. e.ch \in Client /\ e.ip \in Ip /\ e.exp \in Time /\ FitsIn(0, e.ch, e.ip)
      BY <2>3 DEF SavedLease, FitsIn
    <3>3. 0 \in Nat /\ 0 <= Len(StaticOf)
      BY StaticDomain
    <3>4. StaticIn(M, 0)
      <4> HIDE DEF s, e
      <4> QED BY <2>4, <3>2, <3>3, AddLeaseKeeps
    <3>5. Cardinality(Used(M)) <= Cardinality(Used(s.table)) + 1
      <4> HIDE DEF s, e
      <4> QED BY <2>4, <3>2, AddLeaseUses
    <3>6. Cardinality(Used(M)) \in Nat /\ Cardinality(Used(s.table)) \in Nat
      BY UsedFinite
    <3> HIDE DEF M, s
    <3>7. Cardinality(Used(M)) <= k
      BY <2>1, <2>4, <3>5, <3>6
    <3> QED BY <2>1, <3>1, <3>4, <3>7
  <2> QED BY <2>5, <2>6
<1>6. 0 .. n \subseteq T
  <2>1. 0 \in T /\ 0 \in Int /\ n \in Int
    BY <1>1, <1>4
  <2> HIDE DEF T, n
  <2> QED BY <1>5, <2>1, IntervalInduction
<1>7. n \in 0 .. n
  BY <1>1
<1>8. n \in T
  <2> HIDE DEF T, n
  <2> QED BY <1>6, <1>7
<1> QED BY <1>3, <1>7, <1>8

LEMMA LoadedKeeps ==
  ASSUME StaticSettings, now \in 1 .. MaxTime, NEW store \in Seq(SavedLease),
         Len(store) + Len(StaticOf) <= Slots
  PROVE  StaticIn(Loaded(store), Len(StaticOf))
<1> DEFINE d == LoadDynLeases(store)
           first == [d EXCEPT !.full = FALSE]
           n == Len(StaticOf)
           m == Len(store)
<1>1. d \in LoadState /\ StaticIn(d.table, 0) /\ Cardinality(Used(d.table)) <= m
  BY DynamicClean
<1>2. m \in Nat /\ n \in Nat /\ m + n <= Slots /\ Slots \in Nat /\ DOMAIN StaticOf = 1 .. n
  BY LenProperties, StaticDomain, TimeAssumption
<1>3. first \in LoadState /\ first.table = d.table /\ ~first.full
  <2> HIDE DEF d
  <2> QED BY <1>1 DEF LoadState
<1>4. Loaded(store) = LoadStaticLeases(first).table
  BY DEF Loaded
<1> HIDE DEF first, d, m
<1>5. PICK f \in [0 .. n -> LoadState] :
        /\ f[0] = first
        /\ \A k \in 1 .. n : f[k] = LoadStatic(f[k - 1], StaticOf[k])
        /\ LoadStaticLeases(first) = f[n]
  BY <1>3, StaticLoop
<1> DEFINE Has(k) == /\ ~f[k].full /\ StaticIn(f[k].table, k)
                     /\ Cardinality(Used(f[k].table)) <= m + k
           T == {k \in 0 .. n : Has(k)}
<1> HIDE DEF n
<1>6. Has(0)
  <2>1. m + 0 = m
    BY <1>2
  <2> QED BY <1>1, <1>3, <1>5, <2>1
<1>7. ASSUME NEW k \in 0 + 1 .. n, k - 1 \in T PROVE k \in T
  <2> DEFINE s == f[k - 1]
             r == LoadStatic(s, StaticOf[k])
  <2>1. /\ k \in 1 .. n /\ k - 1 \in 0 .. n /\ k \in 0 .. n /\ k \in Int
        /\ m + (k - 1) < Slots /\ m + (k - 1) + 1 = m + k /\ k \in DOMAIN StaticOf
    BY <1>2
  <2>2. s \in LoadState /\ f[k] = r
    BY <1>5, <2>1
  <2>3. ~s.full /\ StaticIn(s.table, k - 1) /\ Cardinality(Used(s.table)) <= m + (k - 1)
    BY <1>7
  <2>4. Cardinality(Used(s.table)) \in Nat /\ Cardinality(Used(r.table)) \in Nat
    BY UsedFinite
  <2> HIDE DEF s
  <2>5. Cardinality(Used(s.table)) < Slots
    BY <1>2, <2>1, <2>3, <2>4
  <2>6. /\ ~r.full /\ StaticIn(r.table, k)
        /\ Cardinality(Used(r.table)) <= Cardinality(Used(s.table)) + 1
    BY <2>1, <2>2, <2>3, <2>5, LoadStaticAdds
  <2> HIDE DEF r
  <2>7. Cardinality(Used(r.table)) <= m + k
    BY <1>2, <2>1, <2>3, <2>4, <2>6
  <2> QED BY <2>1, <2>2, <2>6, <2>7
<1>8. 0 .. n \subseteq T
  <2>1. 0 \in T /\ 0 \in Int /\ n \in Int
    BY <1>2, <1>6
  <2> HIDE DEF T
  <2> QED BY <1>7, <2>1, IntervalInduction
<1>9. n \in 0 .. n
  BY <1>2
<1>10. n \in T
  <2> HIDE DEF T
  <2> QED BY <1>8, <1>9
<1> QED BY <1>4, <1>5, <1>10 DEF n

-----------------------------------------------------------------------------
(* Saving a table.                                                         *)
Record(e) == [ch |-> e.ch, ip |-> e.ip, exp |-> e.exp]

LEMMA DumpLoop ==
  ASSUME NEW R, \A i \in Slot : Worth(leases[i]) => Record(leases[i]) \in R
  PROVE  \E f \in [0 .. Slots -> Seq(R)] :
           /\ f[0] = <<>>
           /\ \A k \in 1 .. Slots : f[k] = Dump(f[k - 1], leases[k])
           /\ Snapshot = f[Slots]
<1> DEFINE n == Slots
           b == <<>>
           Is(f) == f = [k \in 0 .. n |-> IF k = 0 THEN b ELSE Dump(f[k - 1], leases[k])]
           F == [k \in 0 + 1 .. n |-> [s \in Seq(R) |-> Dump(s, leases[k])]]
           load == CHOOSE f : Is(f)
<1>1. n \in Nat /\ 0 + 1 = 1
  BY TimeAssumption
<1>2. \A s \in Seq(R), k \in 1 .. n : Dump(s, leases[k]) \in Seq(R)
  BY AppendProperties DEF Slot, Dump, Record
<1>3. F \in Steps(0, n, Seq(R))
  BY <1>1, <1>2 DEF Steps
<1>4. b \in Seq(R)
  BY EmptySeq
<1>5. PICK f \in [0 .. n -> Seq(R)] : Loops(f, 0, n, b, F)
  <2> HIDE DEF F, n, b
  <2>1. 0 \in Int /\ n \in Int /\ 0 <= n
    BY <1>1
  <2> QED BY <1>3, <1>4, <2>1, LoopIsDefined
<1>6. f[0] = b
  BY <1>5 DEF Loops
<1>7. \A k \in 1 .. n : k - 1 \in 0 .. n /\ k # 0
  BY <1>1
<1>8. \A k \in 1 .. n : f[k] = Dump(f[k - 1], leases[k])
  <2> TAKE k \in 1 .. n
  <2>1. f[k] = F[k][f[k - 1]]
    <3> HIDE DEF F, n, b
    <3> QED BY <1>1, <1>5 DEF Loops
  <2>2. f[k - 1] \in Seq(R) /\ k \in 0 + 1 .. n
    BY <1>1, <1>7
  <2>3. F[k][f[k - 1]] = Dump(f[k - 1], leases[k])
    BY <2>2
  <2> QED BY <2>1, <2>3
<1>9. Is(f)
  <2>1. f = [k \in 0 .. n |-> f[k]]
    OBVIOUS
  <2>2. \A k \in 0 .. n : f[k] = IF k = 0 THEN b ELSE Dump(f[k - 1], leases[k])
    <3> TAKE k \in 0 .. n
    <3>1. k = 0 \/ k \in 1 .. n
      BY <1>1
    <3> HIDE DEF F, n, b
    <3> QED BY <1>6, <1>7, <1>8, <3>1
  <2> HIDE DEF b, n
  <2> QED BY <2>1, <2>2
<1>10. Is(load)
  <2> HIDE DEF Is
  <2> QED BY <1>9
<1>11. Snapshot = load[n]
  BY DEF Snapshot
<1> HIDE DEF load
<1>12. load[0] = b /\ \A k \in 1 .. n : load[k] = Dump(load[k - 1], leases[k])
  <2> HIDE DEF b
  <2> QED BY <1>1, <1>7, <1>10
<1> HIDE DEF Is, F
<1> DEFINE T == {k \in 0 .. n : load[k] \in Seq(R)}
<1>13. 0 \in T /\ \A k \in 0 + 1 .. n : k - 1 \in T => k \in T
  <2>1. 0 \in 0 .. n
    BY <1>1
  <2>2. load[0] \in Seq(R)
    BY <1>4, <1>12
  <2>3. ASSUME NEW k \in 1 .. n, load[k - 1] \in Seq(R) PROVE k \in 0 .. n /\ load[k] \in Seq(R)
    <3>1. Dump(load[k - 1], leases[k]) \in Seq(R)
      BY <1>2, <2>3
    <3> QED BY <1>1, <1>12, <3>1
  <2> QED BY <1>1, <2>1, <2>2, <2>3
<1>14. 0 .. n \subseteq T
  <2> HIDE DEF T, n
  <2>1. 0 \in Int /\ n \in Int
    BY <1>1
  <2> QED BY <1>13, <2>1, IntervalInduction
<1>15. load \in [0 .. n -> Seq(R)]
  <2>1. load = [k \in 0 .. n |-> load[k]]
    <3> HIDE DEF b, n
    <3> QED BY <1>10 DEF Is
  <2> HIDE DEF n
  <2> QED BY <1>14, <2>1
<1> QED BY <1>11, <1>12, <1>15

LEMMA SnapshotStored ==
  ASSUME GoodTable(leases)
  PROVE  Snapshot \in Seq(Stored)
<1>1. \A i \in Slot : Worth(leases[i]) => Record(leases[i]) \in Stored
  BY DEF Worth, Record, Stored, GoodTable, Entry
<1>2. Slots \in 0 .. Slots
  BY TimeAssumption
<1> QED BY <1>1, <1>2, DumpLoop

(* Enough slots have static leases.                                        *)
Statics(k) == {i \in 1 .. k : Static(leases[i])}

LEMMA StaticsFinite ==
  ASSUME NEW k \in Int
  PROVE  IsFiniteSet(Statics(k)) /\ Cardinality(Statics(k)) \in Nat
<1>1. IsFiniteSet(1 .. k)
  BY FS_Interval
<1>2. Statics(k) \in SUBSET (1 .. k)
  BY DEF Statics
<1>3. IsFiniteSet(Statics(k))
  BY <1>1, <1>2, FS_Subset
<1> QED BY <1>3, FS_CardinalityType

LEMMA StaticSlots ==
  ASSUME StaticSettings, StaticIn(leases, Len(StaticOf))
  PROVE  Len(StaticOf) <= Cardinality(Statics(Slots))
<1> DEFINE n == Len(StaticOf)
           Is(k, i) == IsStatic(k, leases[i].ch, leases[i].ip) /\ Static(leases[i])
           g == [k \in 1 .. n |-> CHOOSE i \in Slot : Is(k, i)]
<1>1. n \in Nat /\ Slots \in Int /\ DOMAIN StaticOf = 1 .. n
  BY StaticDomain, TimeAssumption
<1>2. ASSUME NEW k \in 1 .. n
      PROVE  g[k] \in Slot /\ Is(k, g[k])
  <2>1. \E i \in Slot : Is(k, i)
    BY DEF StaticIn
  <2> HIDE DEF Is
  <2> QED BY <2>1
<1>3. \A k \in 1 .. n : g[k] \in Statics(Slots)
  BY <1>2 DEF Statics, Slot
<1>4. \A j, k \in 1 .. n : g[j] = g[k] => j = k
  <2> SUFFICES ASSUME NEW j \in 1 .. n, NEW k \in 1 .. n, g[j] = g[k]
               PROVE  j = k
    OBVIOUS
  <2> HIDE DEF g
  <2>1. Is(j, g[j]) /\ Is(k, g[j])
    BY <1>2
  <2>2. StaticOf[j].ch = StaticOf[k].ch
    BY <2>1 DEF IsStatic
  <2> QED BY <1>1, <2>2 DEF StaticSettings
<1>5. g \in [1 .. n -> Statics(Slots)]
  BY <1>3
<1>6. g \in Injection(1 .. n, Statics(Slots))
  <2> HIDE DEF g
  <2> QED BY <1>4, <1>5 DEF Injection, IsInjective
<1>7. Cardinality(1 .. n) <= Cardinality(Statics(Slots))
  <2> HIDE DEF g
  <2> QED BY <1>1, <1>6, StaticsFinite, FS_Injection
<1>8. Cardinality(1 .. n) = n
  <2>1. 1 \in Int /\ n \in Int
    BY <1>1
  <2>2. Cardinality(1 .. n) = IF 1 > n THEN 0 ELSE n - 1 + 1
    BY <2>1, FS_Interval
  <2> QED BY <1>1, <2>2
<1> QED BY <1>7, <1>8

(* What is saved leaves room for the static leases.                        *)
LEMMA SnapshotClean ==
  ASSUME GoodTable(leases), StaticSettings, StaticIn(leases, Len(StaticOf))
  PROVE  Snapshot \in Seq(SavedLease) /\ Len(Snapshot) + Len(StaticOf) <= Slots
<1>1. \A i \in Slot : Worth(leases[i]) => Record(leases[i]) \in SavedLease /\ ~Static(leases[i])
  <2> SUFFICES ASSUME NEW i \in Slot, Worth(leases[i])
               PROVE  Record(leases[i]) \in SavedLease /\ ~Static(leases[i])
    OBVIOUS
  <2> DEFINE e == leases[i]
  <2>1. e \in Entry /\ e.ch # Nobody /\ e.ip \in Ip /\ e.flag = {}
    BY DEF GoodTable, Worth
  <2>2. ~Static(e)
    BY <2>1 DEF Static
  <2>3. e.ch \notin StaticCh /\ e.ip \notin StaticIp
    BY <2>2 DEF StaticIn
  <2> HIDE DEF e
  <2>4. Record(e) \in SavedLease
    BY <2>1, <2>3 DEF Record, SavedLease, Entry
  <2> QED BY <2>2, <2>4 DEF e
<1>2. PICK f \in [0 .. Slots -> Seq(SavedLease)] :
        /\ f[0] = <<>>
        /\ \A k \in 1 .. Slots : f[k] = Dump(f[k - 1], leases[k])
        /\ Snapshot = f[Slots]
  BY <1>1, DumpLoop
<1> DEFINE n == Slots
           Fits(k) == Len(f[k]) + Cardinality(Statics(k)) <= k
           T == {k \in 0 .. n : Fits(k)}
<1>3. n \in Nat /\ n \in Int /\ 0 \in Int /\ 0 \in 0 .. n /\ n \in 0 .. n
  BY TimeAssumption
<1>4. Fits(0)
  <2>1. Statics(0) = {}
    BY DEF Statics
  <2>2. Cardinality(Statics(0)) = 0
    BY <2>1, FS_EmptySet
  <2> QED BY <1>2, <2>2, EmptySeq
<1>5. ASSUME NEW k \in 0 + 1 .. n, k - 1 \in T PROVE k \in T
  <2> DEFINE s == f[k - 1]
  <2>1. k \in 1 .. n /\ k - 1 \in 0 .. n /\ k \in 0 .. n /\ k \in Int /\ k - 1 \in Int /\ k \in Slot
    BY <1>3 DEF Slot
  <2>2. s \in Seq(SavedLease) /\ f[k] = Dump(s, leases[k])
    BY <1>2, <2>1
  <2>3. Len(s) \in Nat /\ Len(s) + Cardinality(Statics(k - 1)) <= k - 1
    BY <1>5, <2>2, LenProperties
  <2>4. Cardinality(Statics(k - 1)) \in Nat /\ Cardinality(Statics(k)) \in Nat
    BY <2>1, StaticsFinite
  <2>5. CASE Worth(leases[k])
    <3>1. Record(leases[k]) \in SavedLease /\ ~Static(leases[k])
      BY <1>1, <2>1, <2>5
    <3>2. \A i \in 1 .. k : i # k => i \in 1 .. k - 1
      BY <2>1
    <3>3. \A i \in 1 .. k - 1 : i \in 1 .. k
      BY <2>1
    <3>4. Statics(k) = Statics(k - 1)
      BY <3>1, <3>2, <3>3 DEF Statics
    <3>5. f[k] = Append(s, Record(leases[k]))
      BY <2>2, <2>5 DEF Dump, Record
    <3>6. Len(f[k]) = Len(s) + 1
      <4> HIDE DEF s
      <4> QED BY <2>2, <3>1, <3>5, AppendProperties
    <3> HIDE DEF s
    <3>7. Len(f[k]) + Cardinality(Statics(k)) <= k
      BY <2>1, <2>3, <2>4, <3>4, <3>6
    <3> QED BY <2>1, <3>7
  <2>6. CASE ~Worth(leases[k])
    <3>1. f[k] = s
      BY <2>2, <2>6 DEF Dump
    <3>2. IsFiniteSet(Statics(k - 1))
      BY <2>1, StaticsFinite
    <3> DEFINE S == Statics(k - 1) \cup {k}
    <3>3. IsFiniteSet(S) /\ Cardinality(S) <= Cardinality(Statics(k - 1)) + 1
      <4>1. IsFiniteSet(S) /\ Cardinality(S) \in {Cardinality(Statics(k - 1)), Cardinality(Statics(k - 1)) + 1}
        BY <3>2, FS_AddElement
      <4> HIDE DEF S
      <4> QED BY <2>4, <4>1
    <3>4. \A i \in 1 .. k : i # k => i \in 1 .. k - 1
      BY <2>1
    <3>5. Statics(k) \in SUBSET S
      BY <3>4 DEF Statics
    <3>6. Cardinality(Statics(k)) <= Cardinality(S) /\ Cardinality(S) \in Nat
      <4> HIDE DEF S
      <4> QED BY <3>3, <3>5, FS_Subset, FS_CardinalityType
    <3> HIDE DEF s, S
    <3>7. Len(f[k]) + Cardinality(Statics(k)) <= k
      BY <2>1, <2>3, <2>4, <3>1, <3>3, <3>6
    <3> QED BY <2>1, <3>7
  <2> QED BY <2>5, <2>6
<1>6. 0 \in T
  BY <1>3, <1>4
<1>7. 0 .. n \subseteq T
  <2> HIDE DEF T, n
  <2> QED BY <1>3, <1>5, <1>6, IntervalInduction
<1>8. n \in T
  <2> HIDE DEF T, n
  <2> QED BY <1>3, <1>7
<1>9. Len(Snapshot) + Cardinality(Statics(n)) <= n
  BY <1>2, <1>8
<1>10. Snapshot \in Seq(SavedLease)
  BY <1>2, <1>3
<1>11. Len(Snapshot) \in Nat /\ Cardinality(Statics(n)) \in Nat /\ Len(StaticOf) \in Nat
  BY <1>3, <1>10, LenProperties, StaticsFinite, StaticDomain
<1>12. Len(StaticOf) <= Cardinality(Statics(n))
  BY StaticSlots
<1>13. Len(Snapshot) + Len(StaticOf) <= n
  <2> HIDE DEF n
  <2> QED BY <1>3, <1>9, <1>11, <1>12
<1> QED BY <1>10, <1>13

(* What another thread commits is of what was saved and of what is.        *)
LEMMA MixtureOf ==
  ASSUME NEW R, Snapshot \in Seq(R), saved \in Seq(R), CommitByOther
  PROVE  saved' \in Seq(R) /\ (Len(saved') <= Len(Snapshot) \/ Len(saved') <= Len(saved))
<1> DEFINE a == Len(Snapshot)
           b == Len(saved)
<1>1. a \in Nat /\ b \in Nat
  BY LenProperties
<1>2. \A i \in 1 .. a : Snapshot[i] \in R
  BY LenProperties
<1>3. \A i \in 1 .. b : saved[i] \in R
  BY LenProperties
<1>4. ASSUME NEW k \in 0 .. a,
             saved' = SubSeq(Snapshot, 1, k) \o SubSeq(saved, k + 1, b)
      PROVE  saved' \in Seq(R) /\ (Len(saved') <= a \/ Len(saved') <= b)
  <2> DEFINE s == SubSeq(Snapshot, 1, k)
             t == SubSeq(saved, k + 1, b)
  <2>1. k \in Int /\ k + 1 \in Int /\ b \in Int /\ 1 \in Int /\ 0 <= k /\ k <= a
    BY <1>1
  <2>2. (\A i \in 1 .. k : i \in 1 .. a) /\ (\A i \in k + 1 .. b : i \in 1 .. b)
    BY <1>1
  <2>3. s \in Seq(R) /\ Len(s) = (IF 1 <= k THEN k - 1 + 1 ELSE 0)
    <3>1. \A i \in 1 .. k : Snapshot[i] \in R
      BY <1>2, <2>2
    <3> QED BY <2>1, <3>1, SubSeqProperties
  <2>4. t \in Seq(R) /\ Len(t) = (IF k + 1 <= b THEN b - (k + 1) + 1 ELSE 0)
    <3>1. \A i \in k + 1 .. b : saved[i] \in R
      BY <1>3, <2>2
    <3> HIDE DEF b
    <3> QED BY <2>1, <3>1, SubSeqProperties
  <2>5. saved' = s \o t
    BY <1>4
  <2> HIDE DEF s, t
  <2>6. saved' \in Seq(R) /\ Len(saved') = Len(s) + Len(t)
    BY <2>3, <2>4, <2>5, ConcatProperties
  <2> HIDE DEF a, b
  <2>7. Len(saved') <= a \/ Len(saved') <= b
    BY <1>1, <2>1, <2>3, <2>4, <2>6
  <2> QED BY <2>6, <2>7
<1>5. ASSUME NEW m \in a .. b, saved' = Snapshot \o SubSeq(saved, a + 1, m)
      PROVE  saved' \in Seq(R) /\ Len(saved') <= b
  <2> DEFINE t == SubSeq(saved, a + 1, m)
  <2>1. m \in Int /\ a + 1 \in Int /\ a <= m /\ m <= b
    BY <1>1
  <2>2. \A i \in a + 1 .. m : i \in 1 .. b
    BY <1>1
  <2>3. t \in Seq(R) /\ Len(t) = (IF a + 1 <= m THEN m - (a + 1) + 1 ELSE 0)
    <3>1. \A i \in a + 1 .. m : saved[i] \in R
      BY <1>3, <2>2
    <3> HIDE DEF a
    <3> QED BY <2>1, <3>1, SubSeqProperties
  <2>4. saved' = Snapshot \o t
    BY <1>5
  <2> HIDE DEF t
  <2>5. saved' \in Seq(R) /\ Len(saved') = a + Len(t)
    BY <2>3, <2>4, ConcatProperties
  <2> HIDE DEF a, b
  <2>6. Len(saved') <= b
    BY <1>1, <2>1, <2>3, <2>5
  <2> QED BY <2>5, <2>6
<1>6. \/ \E k \in 0 .. a : saved' = SubSeq(Snapshot, 1, k) \o SubSeq(saved, k + 1, b)
      \/ \E m \in a .. b : saved' = Snapshot \o SubSeq(saved, a + 1, m)
  BY DEF CommitByOther
<1> QED BY <1>4, <1>5, <1>6

-----------------------------------------------------------------------------
(* The handlers.                                                           *)
Cleared(i) == [leases EXCEPT ![i].flag = @ \ {"RESERVED"}]
Released(i) == [leases EXCEPT ![i].exp = now]
Searched ==
  LET free == FindAddress(leases, FALSE)
  IN  IF free.ip # None THEN free ELSE FindAddress(free.table, TRUE)

Mine(c) == Own(c) # 0 /\ (Static(leases[Own(c)]) \/ leases[Own(c)].ip \in Pool)
Asked(req) ==
  /\ req \in Pool
  /\ \/ FindLeaseByYiaddr(leases, req) = 0
     \/ LeaseExpired(leases[FindLeaseByYiaddr(leases, req)])

LEMMA OwnIs ==
  ASSUME GoodTable(leases), NEW c \in Client, Own(c) # 0
  PROVE  /\ Own(c) \in Slot /\ leases[Own(c)].ch = c
         /\ leases[Own(c)].ip \in Ip /\ leases[Own(c)].ch # Nobody
<1>1. Own(c) \in Slot /\ leases[Own(c)].ch = c
  BY ByChaddr DEF Own
<1> QED BY <1>1, Bounds DEF GoodTable

(* The ways a DISCOVER goes                                                *)
LEMMA DiscoverIs ==
  ASSUME NEW c, NEW req, discover(c, req)
  PROVE  /\ UNCHANGED <<now, saved, dirty, conf>>
         /\ \/ leases' = leases /\ offered' = offered
            \/ /\ Mine(c) /\ ~Static(leases[Own(c)]) /\ offered' = offered
               /\ leases' = CheckIp(leases, leases[Own(c)].ip, c)
            \/ /\ ~Mine(c) /\ Asked(req) /\ offered' = offered
               /\ leases' = CheckIp(leases, req, c)
            \/ /\ Mine(c) /\ ~Taken(leases[Own(c)].ip, c)
               /\ SendOffer(c, leases[Own(c)].ip, Cleared(Own(c)))
            \/ /\ ~Mine(c) /\ Asked(req) /\ ~Taken(req, c)
               /\ SendOffer(c, req, leases)
            \/ /\ ~Mine(c) /\ Searched.ip # None
               /\ SendOffer(c, Searched.ip, Searched.table)
            \/ /\ leases' = Searched.table /\ offered' = offered
<1>1. CASE Mine(c) /\ Taken(leases[Own(c)].ip, c)
  BY <1>1 DEF discover, Mine
<1>2. CASE Mine(c) /\ ~Taken(leases[Own(c)].ip, c)
  BY <1>2 DEF discover, Mine, Cleared
<1>3. CASE ~Mine(c) /\ Asked(req) /\ Taken(req, c)
  BY <1>3 DEF discover, Mine, Asked
<1>4. CASE ~Mine(c) /\ Asked(req) /\ ~Taken(req, c)
  BY <1>4 DEF discover, Mine, Asked
<1>5. CASE ~Mine(c) /\ ~Asked(req)
  BY <1>5 DEF discover, Mine, Asked, Searched
<1> QED BY <1>1, <1>2, <1>3, <1>4, <1>5

LEMMA SearchedGood ==
  ASSUME GoodTable(leases), now \in 1 .. MaxTime
  PROVE  /\ GoodTable(Searched.table) /\ Searched.ip \in Pool \cup {None}
         /\ Searched.ip # None => ~Taken(Searched.ip, Nobody)
<1> DEFINE free == FindAddress(leases, FALSE)
<1>1. /\ GoodTable(free.table) /\ free.ip \in Pool \cup {None}
      /\ free.ip # None => ~Taken(free.ip, Nobody)
  BY SearchGood
<1> DEFINE any == FindAddress(free.table, TRUE)
<1>2. /\ GoodTable(any.table) /\ any.ip \in Pool \cup {None}
      /\ any.ip # None => ~Taken(any.ip, Nobody)
  <2> HIDE DEF free
  <2> QED BY <1>1, SearchGood
<1>3. Searched = IF free.ip # None THEN free ELSE any
  BY DEF Searched
<1> HIDE DEF free, any
<1> QED BY <1>1, <1>2, <1>3

LEMMA ClearedGood ==
  ASSUME GoodTable(leases), NEW i \in Slot, leases[i].ch # Nobody
  PROVE  /\ GoodTable(Cleared(i))
         /\ \A j \in Slot : /\ Cleared(i)[j].ch = leases[j].ch
                            /\ Cleared(i)[j].ip = leases[j].ip
                            /\ Static(Cleared(i)[j]) <=> Static(leases[j])
<1> DEFINE M == Cleared(i)
<1>1. leases \in [Slot -> Entry]
  BY DEF GoodTable
<1>2. M \in [Slot -> Entry]
  BY <1>1 DEF Cleared, Entry
<1>3. /\ \A j \in Slot : j # i => M[j] = leases[j]
      /\ M[i].ch = leases[i].ch /\ M[i].ip = leases[i].ip
      /\ M[i].flag = leases[i].flag \ {"RESERVED"}
  BY <1>1 DEF Cleared, Entry
<1> HIDE DEF M
<1>4. GoodTable(M)
  BY <1>2, <1>3, TouchGood
<1> QED BY <1>3, <1>4 DEF M, Static

LEMMA ReleasedGood ==
  ASSUME GoodTable(leases), now \in 1 .. MaxTime, NEW i \in Slot, leases[i].ch # Nobody
  PROVE  /\ GoodTable(Released(i))
         /\ \A j \in Slot : /\ Released(i)[j].ch = leases[j].ch
                            /\ Released(i)[j].ip = leases[j].ip
                            /\ Static(Released(i)[j]) <=> Static(leases[j])
<1> DEFINE M == Released(i)
<1>1. leases \in [Slot -> Entry] /\ now \in Time
  BY Times DEF GoodTable
<1>2. M \in [Slot -> Entry]
  BY <1>1 DEF Released, Entry
<1>3. /\ \A j \in Slot : j # i => M[j] = leases[j]
      /\ M[i].ch = leases[i].ch /\ M[i].ip = leases[i].ip
      /\ M[i].flag = leases[i].flag
  BY <1>1 DEF Released, Entry
<1> HIDE DEF M
<1>4. GoodTable(M)
  BY <1>2, <1>3, TouchGood
<1> QED BY <1>3, <1>4 DEF M, Static

-----------------------------------------------------------------------------
(* Types, and the table that the look-ups rely on.                         *)
Promises == [Client -> [ip : Ip \cup {None}, until : Time]]
TypeInv == TypeOK /\ GoodTable(leases)

LEMMA NoGrantTyped == NoGrant \in [ip : Ip \cup {None}, until : Time] /\ NoGrant.ip = None
BY TimeAssumption DEF NoGrant, Time

LEMMA SendOfferGood ==
  ASSUME NEW L, GoodTable(L), now \in 1 .. MaxTime, NEW c \in Client, NEW a \in Ip,
         offered \in Promises, SendOffer(c, a, L)
  PROVE  GoodTable(leases') /\ offered' \in Promises
<1>1. now + Offer \in Time
  BY Times
<1>2. GoodTable(leases')
  BY <1>1, AddLeaseGood DEF SendOffer
<1>3. offered' \in Promises
  BY <1>1 DEF SendOffer, Promises
<1> QED BY <1>2, <1>3

LEMMA DiscoverTyped ==
  ASSUME TypeInv, NEW c \in Client, NEW req \in Pool \cup {None}, discover(c, req)
  PROVE  TypeInv'
<1>1. GoodTable(leases) /\ now \in 1 .. MaxTime /\ offered \in Promises /\ Pool \subseteq Ip
  BY Bounds DEF TypeInv, TypeOK, Promises
<1>2. Mine(c) => Own(c) \in Slot /\ leases[Own(c)].ip \in Ip /\ leases[Own(c)].ch # Nobody
  BY <1>1, OwnIs DEF Mine
<1>3. Asked(req) => req \in Ip
  BY <1>1 DEF Asked
<1>4. GoodTable(leases') /\ offered' \in Promises
  <2>1. CASE leases' = leases /\ offered' = offered
    BY <1>1, <2>1
  <2>2. CASE /\ Mine(c) /\ offered' = offered
             /\ leases' = CheckIp(leases, leases[Own(c)].ip, c)
    BY <1>1, <1>2, <2>2, CheckIpGood
  <2>3. CASE Asked(req) /\ offered' = offered /\ leases' = CheckIp(leases, req, c)
    BY <1>1, <1>3, <2>3, CheckIpGood
  <2>4. CASE Mine(c) /\ SendOffer(c, leases[Own(c)].ip, Cleared(Own(c)))
    <3>1. GoodTable(Cleared(Own(c)))
      BY <1>1, <1>2, <2>4, ClearedGood
    <3> QED BY <1>1, <1>2, <2>4, <3>1, SendOfferGood
  <2>5. CASE Asked(req) /\ SendOffer(c, req, leases)
    BY <1>1, <1>3, <2>5, SendOfferGood
  <2>6. CASE Searched.ip # None /\ SendOffer(c, Searched.ip, Searched.table)
    <3>1. GoodTable(Searched.table) /\ Searched.ip \in Ip
      BY <1>1, <2>6, SearchedGood
    <3> QED BY <1>1, <2>6, <3>1, SendOfferGood
  <2>7. CASE leases' = Searched.table /\ offered' = offered
    BY <1>1, <2>7, SearchedGood
  <2> QED BY <2>1, <2>2, <2>3, <2>4, <2>5, <2>6, <2>7, DiscoverIs
<1>5. UNCHANGED <<now, saved, dirty, conf>>
  BY DiscoverIs
<1> QED BY <1>4, <1>5 DEF TypeInv, TypeOK, Promises, GoodTable

LEMMA RequestTyped ==
  ASSUME TypeInv, NEW c \in Client, NEW a \in Ip, request(c, a)
  PROVE  TypeInv'
<1>1. GoodTable(leases) /\ now \in 1 .. MaxTime /\ offered \in Promises /\ conf \in Promises
  BY DEF TypeInv, TypeOK, Promises
<1>2. now + Lease \in Time
  BY <1>1, Times
<1>3. GoodTable(leases')
  BY <1>1, <1>2, AddLeaseGood DEF request
<1>4. offered' \in Promises /\ conf' \in Promises
  <2> DEFINE P == [ip : Ip \cup {None}, until : Time]
             g == [ip |-> a, until |-> now + Lease]
  <2>1. g \in P /\ NoGrant \in P
    BY <1>2, NoGrantTyped
  <2>2. \/ conf' = conf /\ offered' = offered
        \/ conf' \in {[conf EXCEPT ![c] = g], [conf EXCEPT ![c] = NoGrant]}
           /\ offered' = [offered EXCEPT ![c] = NoGrant]
    BY DEF request
  <2>3. conf \in [Client -> P] /\ offered \in [Client -> P]
    BY <1>1 DEF Promises
  <2> HIDE DEF P, g
  <2>4. conf' \in [Client -> P] /\ offered' \in [Client -> P]
    BY <2>1, <2>2, <2>3
  <2> QED BY <2>4 DEF Promises, P
<1>5. UNCHANGED <<now, saved>> /\ dirty' \in BOOLEAN
  BY DEF request, TypeInv, TypeOK
<1> QED BY <1>3, <1>4, <1>5 DEF TypeInv, TypeOK, Promises, GoodTable

LEMMA DeclineTyped ==
  ASSUME TypeInv, NEW c \in Client, decline(c)
  PROVE  TypeInv'
<1>1. GoodTable(leases) /\ conf \in Promises
  BY DEF TypeInv, TypeOK, Promises
<1>2. GoodTable(leases')
  BY <1>1, OwnIs, FlushGood DEF decline
<1>3. conf' \in Promises
  BY <1>1, NoGrantTyped DEF decline, Promises
<1>4. UNCHANGED <<now, saved, offered>> /\ dirty' \in BOOLEAN
  BY DEF decline, TypeInv, TypeOK
<1> QED BY <1>2, <1>3, <1>4 DEF TypeInv, TypeOK, Promises, GoodTable

LEMMA ReleaseTyped ==
  ASSUME TypeInv, NEW c \in Client, release(c)
  PROVE  TypeInv'
<1>1. GoodTable(leases) /\ conf \in Promises /\ now \in 1 .. MaxTime
  BY DEF TypeInv, TypeOK, Promises
<1>2. Own(c) # 0 => GoodTable(Released(Own(c)))
  BY <1>1, OwnIs, ReleasedGood
<1>3. GoodTable(leases')
  BY <1>1, <1>2 DEF release, Released
<1>4. conf' \in Promises
  BY <1>1, NoGrantTyped DEF release, Promises
<1>5. UNCHANGED <<now, saved, offered>> /\ dirty' \in BOOLEAN
  BY DEF release, TypeInv, TypeOK
<1> QED BY <1>3, <1>4, <1>5 DEF TypeInv, TypeOK, Promises, GoodTable

LEMMA SavingTyped ==
  ASSUME TypeInv, WriteDynLeases \/ CommitByOther \/ Restart
  PROVE  TypeInv'
<1>1. Snapshot \in Seq(Stored)
  BY SnapshotStored DEF TypeInv
<1>2. saved \in Seq(Stored) /\ GoodTable(leases)
  BY DEF TypeInv, TypeOK, Stored
<1>3. CASE WriteDynLeases
  BY <1>1, <1>3 DEF WriteDynLeases, TypeInv, TypeOK, Stored, GoodTable
<1>4. CASE CommitByOther
  <2>1. saved' \in Seq(Stored)
    BY <1>1, <1>2, <1>4, MixtureOf
  <2> QED BY <1>4, <2>1 DEF CommitByOther, TypeInv, TypeOK, Stored, GoodTable
<1>5. CASE Restart
  <2>1. GoodTable(leases')
    BY <1>2, <1>5, LoadedGood DEF Restart
  <2> QED BY <1>5, <2>1 DEF Restart, TypeInv, TypeOK, GoodTable
<1> QED BY <1>3, <1>4, <1>5

LEMMA SecondTyped ==
  ASSUME TypeInv, Second
  PROVE  TypeInv'
<1>1. conf \in Promises /\ offered \in Promises /\ now \in 1 .. MaxTime
  BY DEF TypeInv, TypeOK, Promises
<1>2. conf' \in Promises /\ offered' \in Promises
  BY <1>1, NoGrantTyped DEF Second, Promises
<1>3. now' \in 1 .. MaxTime
  BY <1>1, TimeAssumption DEF Second
<1>4. UNCHANGED <<leases, saved, dirty>>
  BY DEF Second
<1> QED BY <1>2, <1>3, <1>4 DEF TypeInv, TypeOK, Promises, GoodTable

LEMMA TypeInit == Init => TypeInv
<1> SUFFICES ASSUME Init PROVE TypeInv
  OBVIOUS
<1>1. <<>> \in Seq(Stored)
  BY EmptySeq
<1>2. GoodTable(leases)
  BY <1>1, LoadedGood DEF Init
<1>3. now \in 1 .. MaxTime
  BY TimeAssumption DEF Init
<1>4. offered \in Promises /\ conf \in Promises
  BY NoGrantTyped DEF Init, Promises
<1> QED BY <1>1, <1>2, <1>3, <1>4 DEF Init, TypeInv, TypeOK, Promises, Stored, GoodTable

LEMMA TypeStep == TypeInv /\ [Next]_vars => TypeInv'
<1> SUFFICES ASSUME TypeInv, [Next]_vars PROVE TypeInv'
  OBVIOUS
<1>1. CASE UNCHANGED vars
  BY <1>1 DEF vars, TypeInv, TypeOK, GoodTable
<1>2. ASSUME NEW c \in Client, NEW req \in Pool \cup {None}, discover(c, req) PROVE TypeInv'
  BY <1>2, DiscoverTyped
<1>3. ASSUME NEW c \in Client, NEW a \in Ip, request(c, a) PROVE TypeInv'
  BY <1>3, RequestTyped
<1>4. ASSUME NEW c \in Client, decline(c) \/ release(c) PROVE TypeInv'
  BY <1>4, DeclineTyped, ReleaseTyped
<1>5. CASE WriteDynLeases \/ CommitByOther \/ Restart
  BY <1>5, SavingTyped
<1>6. CASE Second
  BY <1>6, SecondTyped
<1> QED BY <1>1, <1>2, <1>3, <1>4, <1>5, <1>6 DEF Next

LEMMA TypeAlways == Spec => []TypeInv
BY TypeInit, TypeStep, PTL DEF Spec

(* Every entry is of a client that is known and of an address the server   *)
(* gives out, and the saved leases are such entries; no step mistypes them *)
(* (leases.c).                                                             *)
THEOREM LeasesAreTyped == Spec => []TypeOK
<1>1. TypeInv => TypeOK
  BY DEF TypeInv
<1> QED BY <1>1, TypeAlways, PTL

(* A client never has two entries, though add_lease() takes any old slot:  *)
(* every handler looks for the client's own entry before, and a restart    *)
(* enters one saved lease after the other the same way (leases.c:122-164). *)
THEOREM ClientHasOneEntry == Spec => []OneEntryPerClient
<1>1. TypeInv => OneEntryPerClient
  BY DEF TypeInv, GoodTable, OneEntryPerClient
<1> QED BY <1>1, TypeAlways, PTL

-----------------------------------------------------------------------------
(* Static leases.                                                          *)
StaticInv ==
  /\ StaticIn(leases, Len(StaticOf))
  /\ ClientsFit
  /\ saved \in Seq(SavedLease)
  /\ Len(saved) + Len(StaticOf) <= Slots

(* An entry fits, and a client without one has no static lease.            *)
LEMMA OwnFits ==
  ASSUME GoodTable(leases), StaticIn(leases, Len(StaticOf)), NEW c \in Client
  PROVE  /\ Own(c) # 0 => FitsIn(Len(StaticOf), c, leases[Own(c)].ip)
         /\ ~Mine(c) => c \notin StaticCh
<1>1. CASE Own(c) # 0
  <2>1. Own(c) \in Slot /\ leases[Own(c)].ch = c
    BY <1>1, OwnIs
  <2>2. CASE Static(leases[Own(c)])
    <3>1. Mine(c)
      BY <1>1, <2>2 DEF Mine
    <3>2. \E k \in 1 .. Len(StaticOf) : IsStatic(k, leases[Own(c)].ch, leases[Own(c)].ip)
      BY <2>1, <2>2 DEF StaticIn
    <3> QED BY <2>1, <3>1, <3>2 DEF FitsIn
  <2>3. CASE ~Static(leases[Own(c)])
    BY <2>1, <2>3 DEF StaticIn, FitsIn
  <2> QED BY <1>1, <2>2, <2>3 DEF Mine
<1>2. CASE Own(c) = 0
  <2>1. \A i \in Slot : leases[i].ch # c
    BY <1>2, ByChaddr DEF Own
  <2>2. ASSUME NEW k \in DOMAIN StaticOf PROVE StaticOf[k].ch # c
    <3>1. PICK i \in Slot : IsStatic(k, leases[i].ch, leases[i].ip)
      BY StaticDomain DEF StaticIn
    <3> QED BY <2>1, <3>1 DEF IsStatic
  <2>3. c \notin StaticCh
    BY <2>2 DEF StaticCh
  <2> QED BY <1>2, <2>3
<1> QED BY <1>1, <1>2

LEMMA AskedFits ==
  ASSUME StaticIn(leases, Len(StaticOf)), NEW req, Asked(req)
  PROVE  req \notin StaticIp
BY StaticNotFree DEF Asked

LEMMA SameEntriesKeep ==
  ASSUME NEW M, NEW n, StaticIn(leases, n),
         \A j \in Slot : /\ M[j].ch = leases[j].ch /\ M[j].ip = leases[j].ip
                         /\ Static(M[j]) <=> Static(leases[j])
  PROVE  StaticIn(M, n)
<1>1. \A k \in 1 .. n : \E i \in Slot : IsStatic(k, M[i].ch, M[i].ip) /\ Static(M[i])
  BY DEF StaticIn
<1>2. \A i \in Slot : Static(M[i]) \/ M[i].ch \in StaticCh \/ M[i].ip \in StaticIp =>
        Static(M[i]) /\ \E k \in 1 .. n : IsStatic(k, M[i].ch, M[i].ip)
  BY DEF StaticIn
<1> QED BY <1>1, <1>2 DEF StaticIn

LEMMA SearchedKeeps ==
  ASSUME GoodTable(leases), now \in 1 .. MaxTime, StaticIn(leases, Len(StaticOf)), ClientsFit
  PROVE  StaticIn(Searched.table, Len(StaticOf)) /\ Searched.ip \notin StaticIp
<1> DEFINE free == FindAddress(leases, FALSE)
           any == FindAddress(free.table, TRUE)
<1>1. /\ GoodTable(free.table) /\ StaticIn(free.table, Len(StaticOf))
      /\ free.ip \notin StaticIp
  BY SearchGood, SearchKeeps
<1>2. StaticIn(any.table, Len(StaticOf)) /\ any.ip \notin StaticIp
  <2> HIDE DEF free
  <2> QED BY <1>1, SearchKeeps
<1>3. Searched = IF free.ip # None THEN free ELSE any
  BY DEF Searched
<1> HIDE DEF free, any
<1> QED BY <1>1, <1>2, <1>3

LEMMA SendOfferKeeps ==
  ASSUME NEW L, GoodTable(L), now \in 1 .. MaxTime, NEW c \in Client, NEW a \in Ip,
         StaticIn(L, Len(StaticOf)), FitsIn(Len(StaticOf), c, a), SendOffer(c, a, L)
  PROVE  StaticIn(leases', Len(StaticOf))
<1>1. now + Offer \in Time /\ Len(StaticOf) \in Nat /\ Len(StaticOf) <= Len(StaticOf)
  BY Times, StaticDomain
<1> QED BY <1>1, AddLeaseKeeps DEF SendOffer

LEMMA DiscoverKeeps ==
  ASSUME TypeInv, StaticInv, NEW c \in Client, NEW req \in Pool \cup {None}, discover(c, req)
  PROVE  StaticInv'
<1> DEFINE n == Len(StaticOf)
<1>1. /\ GoodTable(leases) /\ now \in 1 .. MaxTime /\ Pool \subseteq Ip
      /\ StaticIn(leases, n) /\ ClientsFit
  BY Bounds DEF TypeInv, TypeOK, StaticInv
<1>2. Mine(c) => /\ Own(c) # 0 /\ Own(c) \in Slot /\ leases[Own(c)].ip \in Ip
                 /\ leases[Own(c)].ch # Nobody /\ FitsIn(n, c, leases[Own(c)].ip)
  BY <1>1, OwnIs, OwnFits DEF Mine
<1>3. Asked(req) => req \in Ip /\ req \notin StaticIp
  BY <1>1, AskedFits DEF Asked
<1>4. ~Mine(c) => c \notin StaticCh
  BY <1>1, OwnFits
<1>5. StaticIn(leases', n)
  <2>1. CASE leases' = leases
    BY <1>1, <2>1
  <2>2. CASE /\ Mine(c) /\ ~Static(leases[Own(c)])
             /\ leases' = CheckIp(leases, leases[Own(c)].ip, c)
    <3>1. leases[Own(c)].ip \notin StaticIp
      BY <1>1, <1>2, <2>2 DEF StaticIn
    <3> QED BY <1>1, <1>2, <2>2, <3>1, CheckIpKeeps
  <2>3. CASE Asked(req) /\ leases' = CheckIp(leases, req, c)
    BY <1>1, <1>3, <2>3, CheckIpKeeps
  <2>4. CASE Mine(c) /\ SendOffer(c, leases[Own(c)].ip, Cleared(Own(c)))
    <3>1. GoodTable(Cleared(Own(c))) /\ StaticIn(Cleared(Own(c)), n)
      BY <1>1, <1>2, <2>4, ClearedGood, SameEntriesKeep
    <3> QED BY <1>1, <1>2, <2>4, <3>1, SendOfferKeeps
  <2>5. CASE ~Mine(c) /\ Asked(req) /\ SendOffer(c, req, leases)
    <3>1. FitsIn(n, c, req)
      BY <1>3, <1>4, <2>5 DEF FitsIn
    <3> QED BY <1>1, <1>3, <2>5, <3>1, SendOfferKeeps
  <2>6. CASE ~Mine(c) /\ Searched.ip # None /\ SendOffer(c, Searched.ip, Searched.table)
    <3>1. GoodTable(Searched.table) /\ Searched.ip \in Ip
      BY <1>1, <2>6, SearchedGood
    <3>2. StaticIn(Searched.table, n) /\ Searched.ip \notin StaticIp
      BY <1>1, SearchedKeeps
    <3>3. FitsIn(n, c, Searched.ip)
      BY <1>4, <2>6, <3>2 DEF FitsIn
    <3> QED BY <1>1, <2>6, <3>1, <3>2, <3>3, SendOfferKeeps
  <2>7. CASE leases' = Searched.table
    BY <1>1, <2>7, SearchedKeeps
  <2> QED BY <2>1, <2>2, <2>3, <2>4, <2>5, <2>6, <2>7, DiscoverIs
<1>6. UNCHANGED <<now, saved, dirty, conf>>
  BY DiscoverIs
<1>7. ClientsFit'
  BY <1>1, <1>6 DEF ClientsFit, FitsIn, IsStatic
<1> QED BY <1>5, <1>6, <1>7 DEF StaticInv, StaticIn, IsStatic, Static

LEMMA RequestKeeps ==
  ASSUME TypeInv, StaticInv, NEW c \in Client, NEW a \in Ip, request(c, a)
  PROVE  StaticInv'
<1> DEFINE n == Len(StaticOf)
<1>1. /\ GoodTable(leases) /\ now \in 1 .. MaxTime /\ conf \in Promises
      /\ StaticIn(leases, n) /\ ClientsFit /\ n \in Nat /\ n <= n /\ now + Lease \in Time
  BY Times, StaticDomain DEF TypeInv, TypeOK, StaticInv, Promises
<1>2. CASE Granted(c, a)
  <2>1. FitsIn(n, c, a)
    <3>1. CASE Own(c) # 0
      BY <1>1, <1>2, <3>1, OwnFits DEF Granted
    <3>2. CASE Own(c) = 0
      <4>1. Asked(a) /\ ~Mine(c)
        BY <1>2, <3>2 DEF Granted, Asked, Mine
      <4> QED BY <1>1, <4>1, AskedFits, OwnFits DEF FitsIn
    <3> QED BY <3>1, <3>2
  <2>2. StaticIn(leases', n)
    BY <1>1, <1>2, <2>1, AddLeaseKeeps DEF request
  <2>3. conf' \in {conf, [conf EXCEPT ![c] = [ip |-> a, until |-> now + Lease]]}
    BY <1>2 DEF request
  <2>4. \A d \in Client : conf'[d].ip = conf[d].ip \/ (d = c /\ conf'[d].ip = a)
    BY <1>1, <2>3 DEF Promises
  <2>5. ClientsFit'
    BY <1>1, <2>1, <2>4 DEF ClientsFit, FitsIn, IsStatic
  <2>6. UNCHANGED <<now, saved>>
    BY DEF request
  <2> QED BY <2>2, <2>5, <2>6 DEF StaticInv, StaticIn, IsStatic, Static
<1>3. CASE ~Granted(c, a)
  <2>1. conf' \in {conf, [conf EXCEPT ![c] = NoGrant]}
    BY <1>3 DEF request
  <2>2. \A d \in Client : conf'[d].ip = conf[d].ip \/ conf'[d].ip = None
    BY <1>1, <2>1, NoGrantTyped DEF Promises
  <2>3. ClientsFit'
    BY <1>1, <2>2 DEF ClientsFit, FitsIn, IsStatic
  <2>4. UNCHANGED <<leases, saved>>
    BY <1>3 DEF request
  <2> QED BY <2>3, <2>4 DEF StaticInv, StaticIn, IsStatic, Static
<1> QED BY <1>2, <1>3

LEMMA LeavingKeeps ==
  ASSUME TypeInv, StaticInv, NEW c \in Client, decline(c) \/ release(c)
  PROVE  StaticInv'
<1> DEFINE n == Len(StaticOf)
           i == Own(c)
<1>1. /\ GoodTable(leases) /\ now \in 1 .. MaxTime /\ conf \in Promises
      /\ StaticIn(leases, n) /\ ClientsFit
  BY DEF TypeInv, TypeOK, StaticInv, Promises
<1>2. conf' = [conf EXCEPT ![c] = NoGrant] /\ UNCHANGED <<now, saved, offered>>
  BY DEF decline, release
<1>3. \A d \in Client : conf'[d].ip = conf[d].ip \/ conf'[d].ip = None
  BY <1>1, <1>2, NoGrantTyped DEF Promises
<1>4. ClientsFit'
  BY <1>1, <1>3 DEF ClientsFit, FitsIn, IsStatic
<1>5. i # 0 => i \in Slot /\ leases[i].ch # Nobody
  BY <1>1, OwnIs
<1>6. CASE leases' = leases
  BY <1>1, <1>2, <1>4, <1>6 DEF StaticInv, StaticIn, IsStatic, Static
<1>7. CASE i # 0 /\ ~Static(leases[i]) /\ leases' = FlushEntry(leases, i)
  <2>1. Empty.ch \notin StaticCh /\ Empty.ip \notin StaticIp /\ ~Static(Empty)
    BY StaticDomain, Bounds DEF Empty, Static, StaticCh, StaticIp
  <2>2. StaticIn([leases EXCEPT ![i] = Empty], n)
    <3> HIDE DEF i, n
    <3> QED BY <1>1, <1>5, <1>7, <2>1, PutKeeps
  <2>3. StaticIn(leases', n)
    BY <1>7, <2>2 DEF FlushEntry
  <2> QED BY <1>2, <1>4, <2>3 DEF StaticInv, StaticIn, IsStatic, Static
<1>8. CASE i # 0 /\ leases' = Released(i)
  <2>1. StaticIn(Released(i), n)
    BY <1>1, <1>5, <1>8, ReleasedGood, SameEntriesKeep
  <2> QED BY <1>2, <1>4, <1>8, <2>1 DEF StaticInv, StaticIn, IsStatic, Static
<1> QED BY <1>6, <1>7, <1>8 DEF decline, release, Released

LEMMA SavingKeeps ==
  ASSUME StaticSettings, TypeInv, StaticInv, WriteDynLeases \/ CommitByOther \/ Restart
  PROVE  StaticInv'
<1> DEFINE n == Len(StaticOf)
<1>1. /\ GoodTable(leases) /\ now \in 1 .. MaxTime
      /\ StaticIn(leases, n) /\ ClientsFit /\ saved \in Seq(SavedLease)
      /\ Len(saved) + n <= Slots
  BY DEF TypeInv, TypeOK, StaticInv
<1>2. Snapshot \in Seq(SavedLease) /\ Len(Snapshot) + n <= Slots
  BY <1>1, SnapshotClean
<1>3. Len(Snapshot) \in Nat /\ Len(saved) \in Nat /\ n \in Nat /\ Slots \in Nat
  BY <1>1, <1>2, LenProperties, StaticDomain, TimeAssumption
<1>4. conf' = conf
  BY DEF WriteDynLeases, CommitByOther, Restart
<1>5. ClientsFit'
  BY <1>1, <1>4 DEF ClientsFit, FitsIn, IsStatic
<1>6. CASE WriteDynLeases
  BY <1>1, <1>2, <1>5, <1>6 DEF WriteDynLeases, StaticInv, StaticIn, IsStatic, Static
<1>7. CASE CommitByOther
  <2>1. saved' \in Seq(SavedLease)
        /\ (Len(saved') <= Len(Snapshot) \/ Len(saved') <= Len(saved))
    BY <1>1, <1>2, <1>7, MixtureOf
  <2>2. Len(saved') \in Nat
    BY <2>1, LenProperties
  <2>3. Len(saved') + n <= Slots
    BY <1>1, <1>2, <1>3, <2>1, <2>2
  <2>4. leases' = leases
    BY <1>7 DEF CommitByOther
  <2> QED BY <1>1, <1>5, <2>1, <2>3, <2>4 DEF StaticInv, StaticIn, IsStatic, Static
<1>8. CASE Restart
  <2>1. StaticIn(leases', n) /\ saved' = saved
    BY <1>1, <1>8, LoadedKeeps DEF Restart
  <2> QED BY <1>1, <1>5, <2>1 DEF StaticInv, StaticIn, IsStatic, Static
<1> QED BY <1>6, <1>7, <1>8

LEMMA SecondKeeps ==
  ASSUME TypeInv, StaticInv, Second
  PROVE  StaticInv'
<1>1. \A c \in Client : conf'[c].ip = conf[c].ip \/ conf'[c].ip = None
  BY NoGrantTyped DEF Second
<1>2. ClientsFit'
  BY <1>1 DEF StaticInv, ClientsFit, FitsIn, IsStatic
<1> QED BY <1>2 DEF Second, StaticInv, StaticIn, IsStatic, Static

LEMMA StaticInit ==
  ASSUME StaticSettings
  PROVE  Init => StaticInv
<1> SUFFICES ASSUME Init PROVE StaticInv
  OBVIOUS
<1>1. <<>> \in Seq(SavedLease) /\ Len(<<>>) = 0
  BY EmptySeq
<1>2. Len(<<>>) + Len(StaticOf) <= Slots
  BY <1>1, StaticDomain DEF StaticSettings
<1>3. now \in 1 .. MaxTime /\ saved = <<>> /\ leases = Loaded(<<>>)
  BY TimeAssumption DEF Init
<1>4. StaticIn(leases, Len(StaticOf))
  BY <1>1, <1>2, <1>3, LoadedKeeps
<1>5. ClientsFit
  BY NoGrantTyped DEF Init, ClientsFit
<1> QED BY <1>1, <1>2, <1>3, <1>4, <1>5 DEF StaticInv

LEMMA StaticStep ==
  ASSUME StaticSettings
  PROVE  TypeInv /\ StaticInv /\ [Next]_vars => StaticInv'
<1> SUFFICES ASSUME TypeInv, StaticInv, [Next]_vars PROVE StaticInv'
  OBVIOUS
<1>1. CASE UNCHANGED vars
  BY <1>1 DEF vars, StaticInv, StaticIn, ClientsFit, FitsIn, IsStatic, Static
<1>2. ASSUME NEW c \in Client, NEW req \in Pool \cup {None}, discover(c, req) PROVE StaticInv'
  BY <1>2, DiscoverKeeps
<1>3. ASSUME NEW c \in Client, NEW a \in Ip, request(c, a) PROVE StaticInv'
  BY <1>3, RequestKeeps
<1>4. ASSUME NEW c \in Client, decline(c) \/ release(c) PROVE StaticInv'
  BY <1>4, LeavingKeeps
<1>5. CASE WriteDynLeases \/ CommitByOther \/ Restart
  BY <1>5, SavingKeeps
<1>6. CASE Second
  BY <1>6, SecondKeeps
<1> QED BY <1>1, <1>2, <1>3, <1>4, <1>5, <1>6 DEF Next

(* The static leases are always in the table and no other client gets one  *)
(* of their addresses, when the settings do not contradict each other and  *)
(* the table has a slot for each (leases.c, dhcpd.c:128-182): whatever is  *)
(* saved, by whom and how much of it, leaves them room after a restart.    *)
THEOREM StaticLeasesStay ==
  ASSUME StaticSettings
  PROVE  Spec => []StaticKept
<1>1. StaticInv => StaticKept
  <2> SUFFICES ASSUME StaticInv, NEW k \in DOMAIN StaticOf
               PROVE  /\ \E i \in Slot : /\ leases[i].ch = StaticOf[k].ch
                                         /\ leases[i].ip = StaticOf[k].ip
                                         /\ Static(leases[i])
                      /\ \A c \in Client : conf[c].ip = StaticOf[k].ip => c = StaticOf[k].ch
    BY DEF StaticKept
  <2>1. k \in 1 .. Len(StaticOf)
    BY StaticDomain
  <2>2. \E i \in Slot : IsStatic(k, leases[i].ch, leases[i].ip) /\ Static(leases[i])
    BY <2>1 DEF StaticInv, StaticIn
  <2>3. ASSUME NEW c \in Client, conf[c].ip = StaticOf[k].ip PROVE c = StaticOf[k].ch
    <3>1. conf[c].ip \in StaticIp /\ conf[c].ip # None
      BY <2>3, StaticDomain, Bounds DEF StaticIp
    <3>2. PICK j \in 1 .. Len(StaticOf) : IsStatic(j, c, conf[c].ip)
      BY <3>1 DEF StaticInv, ClientsFit, FitsIn
    <3>3. j \in DOMAIN StaticOf
      BY StaticDomain
    <3> QED BY <2>3, <3>2, <3>3 DEF IsStatic, StaticSettings
  <2> QED BY <2>2, <2>3 DEF IsStatic
<1> QED BY <1>1, TypeAlways, StaticInit, StaticStep, PTL DEF Spec

-----------------------------------------------------------------------------
(* What the probe is worth.                                                *)
LEMMA OfferIsFree ==
  ASSUME TypeInv, Silent = {}, NEW c \in Client, NEW d \in Client, c # d, conf[c].ip # None,
         offered'[d] # offered[d], NEW b \in Client, NEW req, discover(b, req)
  PROVE  offered'[d].ip # conf[c].ip
<1>1. GoodTable(leases) /\ now \in 1 .. MaxTime /\ offered \in Promises
  BY DEF TypeInv, TypeOK, Promises
<1>2. ASSUME NEW a, NEW w, ~Taken(a, w), w # c PROVE a # conf[c].ip
  BY <1>2 DEF Taken, Answers
<1>3. ASSUME NEW a, NEW L, SendOffer(b, a, L), ~Taken(a, b) \/ ~Taken(a, Nobody)
      PROVE  offered'[d].ip # conf[c].ip
  <2>1. d = b /\ offered'[d].ip = a
    BY <1>1, <1>3 DEF SendOffer, Promises
  <2> QED BY <1>2, <1>3, <2>1, Bounds
<1>4. Searched.ip # None => ~Taken(Searched.ip, Nobody)
  BY <1>1, SearchedGood
<1> QED BY <1>3, <1>4, DiscoverIs

LEMMA OfferStep ==
  ASSUME Silent = {}
  PROVE  TypeInv /\ [Next]_vars =>
           [\A c \in Client, d \in Client :
              /\ c # d /\ conf[c].ip # None /\ conf'[c].ip = conf[c].ip
              /\ offered'[d] # offered[d]
              => offered'[d].ip # conf[c].ip]_vars
<1> SUFFICES ASSUME TypeInv, Next, NEW c \in Client, NEW d \in Client, c # d,
                    conf[c].ip # None, offered'[d] # offered[d]
             PROVE  offered'[d].ip # conf[c].ip
  OBVIOUS
<1>1. ASSUME NEW b \in Client, NEW req \in Pool \cup {None}, discover(b, req)
      PROVE  offered'[d].ip # conf[c].ip
  BY <1>1, OfferIsFree
<1>2. ASSUME NEW b \in Client, NEW a \in Ip, request(b, a)
      PROVE  offered'[d].ip # conf[c].ip
  <2>1. offered' = [offered EXCEPT ![b] = NoGrant] \/ offered' = offered
    BY <1>2 DEF request
  <2>2. offered'[d] = NoGrant
    BY <2>1 DEF TypeInv, TypeOK
  <2> QED BY <2>2, NoGrantTyped
<1>3. CASE Second
  <2>1. offered'[d] = NoGrant
    BY <1>3 DEF Second
  <2> QED BY <2>1, NoGrantTyped
<1>4. CASE \/ \E b \in Client : decline(b) \/ release(b)
           \/ WriteDynLeases \/ CommitByOther \/ Restart
  BY <1>4 DEF decline, release, WriteDynLeases, CommitByOther, Restart
<1> QED BY <1>1, <1>2, <1>3, <1>4 DEF Next

(* No client is offered the address that another one is using, whatever    *)
(* the table has lost, provided that every client answers the probe of its *)
(* address (leases.c:311-340, 358-395).                                    *)
THEOREM OffersAreFree ==
  ASSUME Silent = {}
  PROVE  Spec => NotOffered
BY OfferStep, TypeAlways, PTL DEF Spec, NotOffered
=============================================================================
