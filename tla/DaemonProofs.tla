---------------------------- MODULE DaemonProofs ----------------------------
(* Two services of the router, without state in common: the event log and  *)
(* the DNS proxy.                                                          *)
(*                                                                         *)
(* The ring of the event log holds the latest entries, whole and in their  *)
(* order, for any lengths of entries and of the buffer, through any number *)
(* of laps.  An answer of a DNS server finds the query it belongs to, for  *)
(* any number of hosts, names, servers and entries, whatever is lost, late *)
(* or repeated.                                                            *)
EXTENDS EventRing, DnsForward, SequenceTheorems, FiniteSetTheorems,
        WellFoundedInduction, TLAPS

(***************************************************************************)
(* Least elements, and induction over an interval.                         *)
(***************************************************************************)
LEMMA MinIs ==
  ASSUME NEW T \in SUBSET Nat, T # {}
  PROVE  Min(T) \in T /\ \A j \in T : Min(T) <= j
<1> DEFINE R == OpToRel(<, Nat)
<1>1. IsWellFoundedOn(R, Nat)
  BY NatLessThanWellFounded
<1>2. \A x, y \in Nat : x < y => <<x, y>> \in R
  BY DEF OpToRel
<1> HIDE DEF R
<1>3. PICK i \in T : \A j \in T : ~(<<j, i>> \in R)
  BY <1>1, WFMin
<1>4. \A j \in T : j \in Nat /\ ~(j < i)
  BY <1>2, <1>3
<1>5. \A j \in T : i <= j
  BY <1>4
<1> QED BY <1>5 DEF Min

LEMMA IntervalInduction ==
  ASSUME NEW m \in Int, NEW n \in Int, NEW T, m \in T,
         \A k \in m + 1 .. n : k - 1 \in T => k \in T
  PROVE  \A k \in m .. n : k \in T
<1> DEFINE U == {d \in Nat : m + d <= n /\ m + d \notin T}
<1>1. CASE U = {}
  <2> SUFFICES ASSUME NEW k \in m .. n PROVE k \in T
    OBVIOUS
  <2>1. k - m \in Nat /\ m + (k - m) = k /\ m + (k - m) <= n
    OBVIOUS
  <2>2. k - m \notin U
    BY <1>1
  <2> QED BY <2>1, <2>2
<1>2. ASSUME U # {} PROVE FALSE
  <2>1. U \in SUBSET Nat
    OBVIOUS
  <2>2. PICK d \in U : \A e \in U : d <= e
    <3> HIDE DEF U
    <3> QED BY <1>2, <2>1, MinIs
  <2>3. d \in Nat /\ m + d <= n /\ m + d \notin T
    BY <2>2
  <2>4. d # 0
    BY <2>3
  <2>5. d - 1 \in Nat /\ ~(d <= d - 1) /\ m + (d - 1) <= n
    BY <2>3, <2>4
  <2>6. m + (d - 1) \in T
    BY <2>2, <2>5
  <2>7. m + d \in m + 1 .. n /\ (m + d) - 1 = m + (d - 1)
    BY <2>3, <2>4
  <2> QED BY <2>3, <2>6, <2>7
<1> QED BY <1>1, <1>2

(***************************************************************************)
(* The inductive invariant.  Entry e lies in the ring s from P[e] up to    *)
(* Q[e]; entries from b on have been written since the end went to the     *)
(* beginning, the ones before b in the lap before, and lie behind the end. *)
(* Of the entries up to w those from f on are whole.                       *)
(***************************************************************************)
RingType(w) ==
  [buf : [0 .. log_buf_len - 1 -> Unit],
   start : Offset, end : Offset, bottom : Offset, num : Nat,
   mail_start : Offset, num_to_mail : Nat,
   tried : SUBSET (1 .. w), skipped : SUBSET (1 .. w)]

EntryLies(s, e, w, P, Q, b) ==
  /\ Q[e] - P[e] \in Size
  /\ \A o \in P[e] .. Q[e] - 1 : s.buf[o] = [id |-> e, len |-> Q[e] - P[e]]
  /\ e >= b => Q[e] <= s.end
  /\ e < b => s.end <= P[e] /\ Q[e] <= s.bottom
  /\ e + 1 = b => Q[e] = s.bottom
  /\ e # w => P[e + 1] = IF e + 1 = b THEN 0 ELSE Q[e]
  /\ e = w /\ b <= w => Q[e] = s.end

Lies(s, f, w, P, Q, b) ==
  /\ w \in Nat /\ f \in 1 .. w + 1 /\ b \in 1 .. w + 1 /\ f <= b
  /\ P \in [Nat -> Nat] /\ Q \in [Nat -> Nat]
  /\ s.end <= s.bottom
  /\ s.bottom > log_buf_len - Max(Size)
  /\ b = w + 1 => s.end = 0
  /\ \A e \in f .. w : EntryLies(s, e, w, P, Q, b)

(* A cursor at x with n entries behind it, all of them whole.              *)
Trails(s, x, n, f, w, P) ==
  /\ n <= w + 1 - f
  /\ n # 0 => x = P[w + 1 - n]
  /\ n = 0 => x = 0 /\ s.end = 0

(* The cursor of the mails when they are sent: what is older has been in a *)
(* mail, and a walk down does not stop at it too soon.                     *)
Mails(s, w, P) ==
  /\ s.num_to_mail <= w
  /\ \A e \in w + 1 - s.num .. w :
       /\ P[e] = s.mail_start => e <= w + 1 - s.num_to_mail
       /\ e <= w - s.num_to_mail => e \in s.tried \cup s.skipped

Good(s, f, w, P, Q, b) ==
  /\ s \in RingType(w)
  /\ Lies(s, f, w, P, Q, b)
  /\ Trails(s, s.start, s.num, f, w, P)
  /\ ~doRemoteMail => Trails(s, s.mail_start, s.num_to_mail, f, w, P)
  /\ doRemoteMail => Mails(s, w, P)

RingInv ==
  /\ doRemoteMail \in BOOLEAN /\ written \in 0 .. MaxEvents
  /\ \E f, P, Q, b : Good(lc, f, written, P, Q, b)
  /\ lc.end = 0 => lc.num = 0
  /\ lc.num <= log_count_max

-----------------------------------------------------------------------------
(* What the constants and the types give.                                  *)
LEMMA Lengths ==
  /\ log_buf_len \in Nat \ {0} /\ log_count_max \in Nat \ {0} /\ MaxEvents \in Nat
  /\ Max(Size) \in Size
  /\ \A n \in Size : n \in Nat \ {0} /\ n <= Max(Size) /\ 2 * n <= log_buf_len
<1> DEFINE T == {log_buf_len - n : n \in Size}
<1>1. \A n \in Size : n \in Nat \ {0} /\ n <= log_buf_len
  BY SizeAssumption
<1>2. T \in SUBSET Nat /\ T # {}
  BY <1>1, SizeAssumption
<1>3. \E x \in Size : \A y \in Size : x >= y
  <2>1. Min(T) \in T /\ \A j \in T : Min(T) <= j
    <3> HIDE DEF T
    <3> QED BY <1>2, MinIs
  <2>2. PICK x \in Size : Min(T) = log_buf_len - x
    BY <2>1
  <2>3. \A y \in Size : log_buf_len - x <= log_buf_len - y
    BY <2>1, <2>2
  <2> QED BY <1>1, <2>3, SizeAssumption
<1>4. Max(Size) \in Size /\ \A y \in Size : Max(Size) >= y
  BY <1>3 DEF Max
<1> QED BY <1>1, <1>4, SizeAssumption

LEMMA RingFields ==
  ASSUME NEW w, NEW s \in RingType(w)
  PROVE  /\ s.buf \in [0 .. log_buf_len - 1 -> Unit]
         /\ \A o \in 0 .. log_buf_len - 1 : s.buf[o].len \in Nat \ {0}
         /\ {s.start, s.end, s.bottom, s.mail_start} \subseteq 0 .. log_buf_len
         /\ s.num \in Nat /\ s.num_to_mail \in Nat
         /\ s.tried \subseteq 1 .. w /\ s.skipped \subseteq 1 .. w
<1>1. \A u \in Unit : u.len \in Nat \ {0}
  BY Lengths DEF Unit
<1>2. s.buf \in [0 .. log_buf_len - 1 -> Unit]
  BY DEF RingType
<1>3. \A o \in 0 .. log_buf_len - 1 : s.buf[o] \in Unit
  BY <1>2
<1> QED BY <1>1, <1>2, <1>3 DEF RingType, Offset

LEMMA LiesFacts ==
  ASSUME NEW s, NEW f, NEW w, NEW P, NEW Q, NEW b, s \in RingType(w), Lies(s, f, w, P, Q, b)
  PROVE  /\ w \in Nat /\ f \in Nat \ {0} /\ f <= w + 1 /\ b \in Nat \ {0} /\ b <= w + 1
         /\ b \in 1 .. w + 1 /\ f \in 1 .. w + 1 /\ f <= b
         /\ s.end \in Nat /\ s.bottom \in Nat /\ s.end <= s.bottom /\ s.bottom <= log_buf_len
         /\ (b = w + 1 => s.end = 0) /\ log_buf_len \in Nat \ {0}
         /\ s.start \in Nat /\ s.mail_start \in Nat /\ s.num \in Nat /\ s.num_to_mail \in Nat
         /\ s.bottom > log_buf_len - Max(Size) /\ s.bottom # 0
         /\ P \in [Nat -> Nat] /\ Q \in [Nat -> Nat]
<1>1. {s.start, s.end, s.bottom, s.mail_start} \subseteq 0 .. log_buf_len
      /\ s.num \in Nat /\ s.num_to_mail \in Nat
  BY RingFields
<1>2. log_buf_len \in Nat \ {0} /\ Max(Size) \in Nat \ {0} /\ Max(Size) < log_buf_len
  BY Lengths
<1>3. s.bottom # 0 /\ s.end <= s.bottom /\ (b = w + 1 => s.end = 0) /\ s.bottom > log_buf_len - Max(Size)
  BY <1>1, <1>2 DEF Lies
<1>4. w \in Nat /\ f \in 1 .. w + 1 /\ b \in 1 .. w + 1 /\ f <= b /\ P \in [Nat -> Nat] /\ Q \in [Nat -> Nat]
  BY DEF Lies
<1> QED BY <1>1, <1>2, <1>3, <1>4

(* Where a whole entry lies, and what is read there.                       *)
LEMMA EntryFacts ==
  ASSUME NEW s, NEW f, NEW w, NEW P, NEW Q, NEW b, s \in RingType(w), Lies(s, f, w, P, Q, b),
         NEW e \in f .. w
  PROVE  /\ e \in Nat \ {0} /\ P[e] \in Nat /\ Q[e] \in Nat /\ P[e] < Q[e]
         /\ Q[e] <= s.bottom /\ P[e] \in 0 .. log_buf_len - 1
         /\ s.buf[P[e]].id = e /\ P[e] + s.buf[P[e]].len = Q[e]
         /\ Q[e] - s.buf[Q[e] - 1].len = P[e]
         /\ e < b <=> s.end <= P[e]
         /\ EntryLies(s, e, w, P, Q, b)
<1>1. EntryLies(s, e, w, P, Q, b) /\ e \in Nat \ {0} /\ b \in Nat
      /\ s.end <= s.bottom /\ s.bottom <= log_buf_len /\ s.end \in Nat /\ s.bottom \in Nat
  <2>1. s.end \in 0 .. log_buf_len /\ s.bottom \in 0 .. log_buf_len
    BY RingFields
  <2>2. e \in Nat \ {0} /\ b \in Nat /\ s.end <= s.bottom
    BY DEF Lies
  <2>3. EntryLies(s, e, w, P, Q, b)
    BY DEF Lies
  <2> QED BY <2>1, <2>2, <2>3, Lengths
<1>2. P[e] \in Nat /\ Q[e] \in Nat
  BY <1>1 DEF Lies
<1>3. Q[e] - P[e] \in Nat \ {0}
  BY <1>1, Lengths DEF EntryLies
<1>4. P[e] \in P[e] .. Q[e] - 1 /\ Q[e] - 1 \in P[e] .. Q[e] - 1
  BY <1>2, <1>3
<1>5. s.buf[P[e]] = [id |-> e, len |-> Q[e] - P[e]] /\ s.buf[Q[e] - 1] = [id |-> e, len |-> Q[e] - P[e]]
  BY <1>1, <1>4 DEF EntryLies
<1>6. s.buf[P[e]].id = e /\ P[e] + s.buf[P[e]].len = Q[e] /\ Q[e] - s.buf[Q[e] - 1].len = P[e]
  BY <1>2, <1>5
<1>7. (e >= b => Q[e] <= s.end) /\ (e < b => s.end <= P[e] /\ Q[e] <= s.bottom)
  BY <1>1 DEF EntryLies
<1>8. Q[e] <= s.bottom /\ (e < b <=> s.end <= P[e])
  BY <1>1, <1>2, <1>3, <1>7
<1>9. P[e] < Q[e] /\ P[e] \in 0 .. log_buf_len - 1
  BY <1>1, <1>2, <1>3, <1>8, Lengths
<1> QED BY <1>1, <1>2, <1>6, <1>8, <1>9

LEMMA Apart ==
  ASSUME NEW s, NEW f, NEW w, NEW P, NEW Q, NEW b, s \in RingType(w), Lies(s, f, w, P, Q, b),
         NEW e \in f .. w, NEW g \in f .. w, P[e] = P[g]
  PROVE  e = g
BY EntryFacts

(* There are no more entries than units.                                   *)
LEMMA FewEntries ==
  ASSUME NEW s, NEW f, NEW w, NEW P, NEW Q, NEW b, s \in RingType(w), Lies(s, f, w, P, Q, b)
  PROVE  w + 1 - f <= log_buf_len
<1> DEFINE S == f .. w
           T == 0 .. log_buf_len - 1
           h == [e \in S |-> P[e]]
<1>1. w \in Nat /\ f \in Nat /\ f <= w + 1 /\ log_buf_len \in Nat
  BY Lengths DEF Lies
<1>2. IsFiniteSet(S) /\ Cardinality(S) = w + 1 - f
  <2>1. f \in Int /\ w \in Int
    BY <1>1
  <2>2. IsFiniteSet(S) /\ Cardinality(S) = IF f > w THEN 0 ELSE w - f + 1
    BY <2>1, FS_Interval
  <2> QED BY <1>1, <2>2
<1>3. IsFiniteSet(T) /\ Cardinality(T) = log_buf_len
  <2>1. 0 \in Int /\ log_buf_len - 1 \in Int
    BY <1>1
  <2>2. IsFiniteSet(T) /\ Cardinality(T) = IF 0 > log_buf_len - 1 THEN 0 ELSE (log_buf_len - 1) - 0 + 1
    BY <2>1, FS_Interval
  <2> QED BY <1>1, <2>2
<1>4. h \in [S -> T]
  BY EntryFacts
<1>5. \A x, y \in S : h[x] = h[y] => x = y
  BY Apart
<1>6. ~(Cardinality(T) < Cardinality(S))
  <2> HIDE DEF h, S, T
  <2> SUFFICES ASSUME Cardinality(T) < Cardinality(S) PROVE FALSE
    OBVIOUS
  <2>1. \E x, y \in S : x # y /\ h[x] = h[y]
    BY <1>2, <1>3, <1>4, FS_PigeonHole
  <2> QED BY <1>5, <2>1
<1> QED BY <1>1, <1>2, <1>3, <1>6

-----------------------------------------------------------------------------
(* The walks, each in terms of the places of the entries.                  *)

(* A cursor with entries behind it stands on the oldest of them.           *)
LEMMA CursorFacts ==
  ASSUME NEW s, NEW f, NEW w, NEW P, NEW Q, NEW b, s \in RingType(w), Lies(s, f, w, P, Q, b),
         NEW x, NEW n \in Nat \ {0}, Trails(s, x, n, f, w, P)
  PROVE  /\ w + 1 - n \in f .. w /\ x = P[w + 1 - n] /\ n <= log_buf_len
         /\ w \in Nat /\ f \in Nat \ {0} /\ b \in 1 .. w + 1
         /\ w + 1 - n < b <=> s.end <= x
<1>1. w \in Nat /\ f \in 1 .. w + 1 /\ b \in 1 .. w + 1
  BY DEF Lies
<1>2. n <= w + 1 - f /\ x = P[w + 1 - n]
  BY DEF Trails
<1>3. w + 1 - n \in f .. w
  BY <1>1, <1>2
<1>4. w + 1 - f <= log_buf_len
  BY FewEntries
<1>5. n <= log_buf_len
  BY <1>1, <1>2, <1>4, Lengths
<1> QED BY <1>1, <1>2, <1>3, <1>5, EntryFacts

LEMMA IdsAre ==
  ASSUME NEW s, NEW f, NEW w, NEW P, NEW Q, NEW b, s \in RingType(w), Lies(s, f, w, P, Q, b),
         NEW x, NEW n \in Nat, Trails(s, x, n, f, w, P)
  PROVE  Ids(s, x, n) = [k \in 1 .. n |-> w - n + k]
<1> DEFINE step(y) == Wrapped(s, y + s.buf[y].len)
           Is(g) == g = [k \in 0 .. n |-> IF k = 0 THEN Wrapped(s, x) ELSE step(g[k - 1])]
           at == CHOOSE g : Is(g)
           first == w + 1 - n
           last == IF n = 0 THEN Wrapped(s, x) ELSE step(P[w])
           place == [k \in 0 .. n |-> IF k < n THEN P[first + k] ELSE last]
<1>1. w \in Nat /\ f \in Nat \ {0}
  BY DEF Lies
<1>2. ASSUME n # 0
      PROVE  /\ first \in f .. w /\ x = P[first]
             /\ \A e \in first .. w : e \in f .. w
  <2>1. first \in f .. w /\ x = P[first]
    BY <1>2, CursorFacts
  <2> QED BY <1>1, <2>1
<1>3. \A e \in f .. w : P[e] # s.bottom
  <2> TAKE e \in f .. w
  <2>1. P[e] \in Nat /\ Q[e] \in Nat /\ P[e] < Q[e] /\ Q[e] <= s.bottom
    BY EntryFacts
  <2>2. s.bottom \in Nat
    BY RingFields, Lengths
  <2> QED BY <2>1, <2>2
<1>4. ASSUME NEW e \in f .. w, e # w PROVE step(P[e]) = P[e + 1]
  <2>1. EntryLies(s, e, w, P, Q, b) /\ P[e] + s.buf[P[e]].len = Q[e]
    BY EntryFacts
  <2>2. P[e + 1] = IF e + 1 = b THEN 0 ELSE Q[e]
    BY <1>4, <2>1 DEF EntryLies
  <2>3. e + 1 \in f .. w
    BY <1>1, <1>4
  <2>4. CASE e + 1 = b
    <3>1. Q[e] = s.bottom
      BY <2>1, <2>4 DEF EntryLies
    <3> QED BY <2>1, <2>2, <2>4, <3>1 DEF Wrapped
  <2>5. CASE e + 1 # b
    BY <1>3, <2>1, <2>2, <2>3, <2>5 DEF Wrapped
  <2> QED BY <2>4, <2>5
<1>5. Is(place)
  <2> SUFFICES ASSUME NEW k \in 0 .. n
               PROVE  place[k] = IF k = 0 THEN Wrapped(s, x) ELSE step(place[k - 1])
    OBVIOUS
  <2>1. CASE n = 0
    BY <2>1
  <2>2. CASE n # 0 /\ k = 0
    <3>1. place[0] = P[first]
      BY <1>1, <2>2
    <3> QED BY <1>2, <1>3, <2>2, <3>1 DEF Wrapped
  <2>3. CASE n # 0 /\ k # 0
    <3>1. k - 1 \in 0 .. n /\ k - 1 < n /\ place[k - 1] = P[first + (k - 1)]
      BY <2>3
    <3>2. first + (k - 1) \in f .. w
      BY <1>1, <1>2, <2>3, <3>1
    <3>3. CASE k = n
      <4>1. first + (k - 1) = w
        BY <1>1, <3>3
      <4>2. place[k] = last
        BY <3>3
      <4> QED BY <2>3, <3>1, <4>1, <4>2
    <3>4. CASE k # n
      <4> DEFINE e == first + (k - 1)
      <4>1. place[k] = P[first + k] /\ first + k = e + 1 /\ e # w
        BY <1>1, <3>4
      <4>2. place[k - 1] = P[e] /\ e \in f .. w
        BY <3>1, <3>2
      <4> HIDE DEF place, step, e
      <4>3. step(P[e]) = P[e + 1]
        BY <1>4, <4>1, <4>2
      <4> QED BY <2>3, <4>1, <4>2, <4>3
    <3> QED BY <3>3, <3>4
  <2> QED BY <2>1, <2>2, <2>3
<1>6. Is(at)
  <2> HIDE DEF Is, place
  <2> QED BY <1>5
<1>7. \A k \in 0 .. n : at[k] = place[k]
  <2> DEFINE T == {k \in 0 .. n : at[k] = place[k]}
  <2> HIDE DEF place, at, step
  <2>1. 0 \in T
    BY <1>5, <1>6
  <2>2. \A k \in 0 + 1 .. n : k - 1 \in T => k \in T
    BY <1>5, <1>6
  <2>3. \A k \in 0 .. n : k \in T
    <3> HIDE DEF T
    <3> QED BY <2>1, <2>2, IntervalInduction
  <2> QED BY <2>3
<1>8. \A k \in 1 .. n : s.buf[at[k - 1]].id = w - n + k
  <2> TAKE k \in 1 .. n
  <2>1. k - 1 \in 0 .. n /\ k - 1 < n /\ n # 0
    OBVIOUS
  <2>2. at[k - 1] = P[first + (k - 1)]
    BY <1>7, <2>1
  <2>3. first + (k - 1) \in f .. w /\ first + (k - 1) = w - n + k
    BY <1>1, <1>2, <2>1
  <2> HIDE DEF at, first
  <2> QED BY <2>2, <2>3, EntryFacts
<1>9. Ids(s, x, n) = [k \in 1 .. n |-> s.buf[at[k - 1]].id]
  BY DEF Ids
<1> HIDE DEF at
<1> QED BY <1>8, <1>9

(* A cursor behind the end that gives way goes on to the first entry of    *)
(* its lap that reaches limit, or to the bottom.                           *)
LEMMA PassedIs ==
  ASSUME NEW s, NEW f, NEW w, NEW P, NEW Q, NEW b, s \in RingType(w), Lies(s, f, w, P, Q, b),
         NEW x, NEW n \in Nat \ {0}, Trails(s, x, n, f, w, P), s.end <= x, NEW limit \in Nat
  PROVE  \E g \in w + 1 - n .. b :
           /\ Passed(s, x, limit) = [at |-> IF g = b THEN s.bottom ELSE P[g],
                                     count |-> g - (w + 1 - n)]
           /\ g # b => limit <= P[g]
           /\ \A e \in w + 1 - n .. g - 1 : P[e] < limit
<1> DEFINE over(y) == y >= limit \/ y >= s.bottom
           step(y) == IF over(y) THEN y ELSE y + s.buf[y].len
           Is(h) == h = [k \in 0 .. log_buf_len |-> IF k = 0 THEN x ELSE step(h[k - 1])]
           at == CHOOSE h : Is(h)
           first == w + 1 - n
           Pos(e) == IF e = b THEN s.bottom ELSE P[e]
           T == {e \in first .. b : e = b \/ limit <= P[e]}
           g == Min(T)
           place == [k \in 0 .. log_buf_len |-> IF k <= g - first THEN Pos(first + k) ELSE Pos(g)]
<1>1. /\ first \in f .. w /\ first \in Nat /\ x = P[first] /\ n <= log_buf_len
      /\ w \in Nat /\ f \in Nat \ {0} /\ b \in 1 .. w + 1 /\ first < b
      /\ log_buf_len \in Nat /\ s.bottom \in Nat
  <2>1. /\ first \in f .. w /\ x = P[first] /\ n <= log_buf_len
        /\ w \in Nat /\ f \in Nat \ {0} /\ b \in 1 .. w + 1 /\ first < b
    BY CursorFacts
  <2>2. first \in Nat
    BY <2>1
  <2>3. log_buf_len \in Nat /\ s.bottom \in Nat
    BY RingFields, Lengths
  <2> QED BY <2>1, <2>2, <2>3
<1>2. g \in T /\ \A e \in T : g <= e
  <2>1. T \in SUBSET Nat /\ b \in T
    BY <1>1
  <2> HIDE DEF T
  <2> QED BY <2>1, MinIs
<1>3. g \in first .. b /\ (g # b => limit <= P[g]) /\ g \in Nat
  BY <1>1, <1>2
<1>4. \A e \in first .. g - 1 :
        /\ e \in f .. w /\ e \in first .. b /\ e # b /\ P[e] \in Nat /\ P[e] < limit /\ P[e] < s.bottom
        /\ ~over(P[e]) /\ e < b /\ e \in Nat
  <2> TAKE e \in first .. g - 1
  <2>1. e \in f .. w /\ e \in first .. b /\ e # b /\ e < b /\ e \in Nat /\ ~(g <= e)
    BY <1>1, <1>3
  <2>2. P[e] \in Nat /\ P[e] < Q[e] /\ Q[e] \in Nat /\ Q[e] <= s.bottom
    BY <2>1, EntryFacts
  <2>3. e \notin T
    BY <1>2, <2>1
  <2>4. ~(limit <= P[e])
    BY <2>1, <2>3
  <2> HIDE DEF g, first
  <2> QED BY <1>1, <2>1, <2>2, <2>4
<1>5. ASSUME NEW e \in first .. g - 1 PROVE step(Pos(e)) = Pos(e + 1)
  <2>1. e \in f .. w /\ e # b /\ ~over(P[e]) /\ e < b
    BY <1>4
  <2>2. step(Pos(e)) = Q[e]
    BY <2>1, EntryFacts
  <2>3. EntryLies(s, e, w, P, Q, b)
    BY <2>1, EntryFacts
  <2>4. CASE e + 1 = b
    BY <2>2, <2>3, <2>4 DEF EntryLies
  <2>5. CASE e + 1 # b
    <3>1. e # w
      BY <1>1, <2>1, <2>5
    <3> QED BY <2>2, <2>3, <2>5, <3>1 DEF EntryLies
  <2> QED BY <2>4, <2>5
<1>6. over(Pos(g))
  <2>1. CASE g = b
    BY <1>1, <2>1
  <2>2. CASE g # b
    <3>1. g \in f .. w
      BY <1>1, <1>3, <2>2
    <3>2. P[g] \in Nat /\ limit <= P[g]
      BY <1>3, <2>2, <3>1, EntryFacts
    <3> QED BY <2>2, <3>2
  <2> QED BY <2>1, <2>2
<1>7. g - first \in 0 .. log_buf_len
  <2> HIDE DEF g
  <2> QED BY <1>1, <1>3
<1>8. Is(place)
  <2> SUFFICES ASSUME NEW k \in 0 .. log_buf_len
               PROVE  place[k] = IF k = 0 THEN x ELSE step(place[k - 1])
    OBVIOUS
  <2>1. CASE k = 0
    <3>1. first + 0 = first /\ 0 <= g - first
      BY <1>1, <1>7
    <3>2. place[0] = Pos(first)
      <4> HIDE DEF g, first
      <4> QED BY <1>1, <3>1
    <3> QED BY <1>1, <2>1, <3>2
  <2>2. CASE k # 0 /\ k <= g - first
    <3> DEFINE e == first + (k - 1)
    <3>1. e \in first .. g - 1 /\ e + 1 = first + k /\ k - 1 \in 0 .. log_buf_len /\ k - 1 <= g - first
      <4> HIDE DEF g
      <4> QED BY <1>1, <1>3, <2>2
    <3>2. place[k - 1] = Pos(e) /\ place[k] = Pos(e + 1)
      <4> HIDE DEF g, Pos, first
      <4> QED BY <2>2, <3>1
    <3> HIDE DEF g, Pos, place, step, e, first
    <3> QED BY <1>5, <2>2, <3>1, <3>2
  <2>3. CASE ~(k <= g - first)
    <3>1. k # 0 /\ k - 1 \in 0 .. log_buf_len /\ (k - 1 <= g - first => first + (k - 1) = g)
      <4> HIDE DEF g
      <4> QED BY <1>1, <1>3, <2>3
    <3>2. place[k - 1] = Pos(g) /\ place[k] = Pos(g)
      <4> HIDE DEF g, Pos, first
      <4> QED BY <2>3, <3>1
    <3>3. step(Pos(g)) = Pos(g)
      <4> HIDE DEF g, Pos
      <4> QED BY <1>6
    <3> HIDE DEF g, Pos, place, step, first
    <3> QED BY <3>1, <3>2, <3>3
  <2> QED BY <2>1, <2>2, <2>3
<1>9. Is(at)
  <2> HIDE DEF Is, place
  <2> QED BY <1>8
<1>10. \A k \in 0 .. log_buf_len : at[k] = place[k]
  <2> DEFINE U == {k \in 0 .. log_buf_len : at[k] = place[k]}
  <2> HIDE DEF place, at, step
  <2>1. 0 \in U
    BY <1>1, <1>8, <1>9
  <2>2. \A k \in 0 + 1 .. log_buf_len : k - 1 \in U => k \in U
    BY <1>1, <1>8, <1>9
  <2>3. \A k \in 0 .. log_buf_len : k \in U
    <3> HIDE DEF U
    <3> QED BY <1>1, <2>1, <2>2, IntervalInduction
  <2> QED BY <2>3
<1> DEFINE V == {k \in 0 .. log_buf_len : over(at[k])}
<1>11. Min(V) = g - first
  <2>1. at[g - first] = Pos(g)
    <3>1. first + (g - first) = g /\ g - first <= g - first
      BY <1>1, <1>3
    <3>2. place[g - first] = Pos(g)
      <4> HIDE DEF g, Pos, first
      <4> QED BY <1>7, <3>1
    <3> HIDE DEF g, Pos, first, place, at
    <3> QED BY <1>7, <1>10, <3>2
  <2>2. g - first \in V
    <3> HIDE DEF g, Pos, first, at
    <3> QED BY <1>6, <1>7, <2>1
  <2>3. ASSUME NEW k \in V, k < g - first PROVE FALSE
    <3>1. k \in 0 .. log_buf_len /\ over(at[k])
      OBVIOUS
    <3>2. first + k \in first .. g - 1 /\ k <= g - first
      <4> HIDE DEF g, V
      <4> QED BY <1>1, <1>3, <2>3, <3>1
    <3>3. at[k] = Pos(first + k)
      <4> HIDE DEF g, Pos, first, at, over, V
      <4> QED BY <1>10, <3>1, <3>2
    <3>4. Pos(first + k) = P[first + k] /\ ~over(P[first + k])
      <4> HIDE DEF g, first, at, over, V
      <4> QED BY <1>4, <3>2
    <3> HIDE DEF g, Pos, first, at, over, V
    <3> QED BY <3>1, <3>3, <3>4
  <2>4. V \in SUBSET Nat
    OBVIOUS
  <2>5. Min(V) \in V /\ \A j \in V : Min(V) <= j
    <3> HIDE DEF V, g, first
    <3> QED BY <2>2, <2>4, MinIs
  <2>6. V \subseteq Nat /\ g - first \in Nat
    <3>1. \A k \in 0 .. log_buf_len : k \in Nat
      OBVIOUS
    <3> HIDE DEF V, g, first
    <3> QED BY <1>7, <2>4, <3>1
  <2> HIDE DEF V, g, first
  <2>7. Min(V) \in Nat
    BY <2>5, <2>6
  <2>8. Min(V) <= g - first
    BY <2>2, <2>5
  <2>9. ~(Min(V) < g - first)
    BY <2>3, <2>5
  <2> QED BY <2>6, <2>7, <2>8, <2>9
<1>12. Passed(s, x, limit) = [at |-> at[Min(V)], count |-> Min(V)]
  BY DEF Passed
<1>13. at[g - first] = Pos(g)
  <2>1. first + (g - first) = g /\ g - first <= g - first
    BY <1>1, <1>3
  <2>2. place[g - first] = Pos(g)
    <3> HIDE DEF g, Pos, first
    <3> QED BY <1>7, <2>1
  <2> HIDE DEF g, Pos, first, place, at
  <2> QED BY <1>7, <1>10, <2>2
<1>14. Passed(s, x, limit) = [at |-> Pos(g), count |-> g - first]
  <2> HIDE DEF at, Pos, V, g, first
  <2> QED BY <1>11, <1>12, <1>13
<1>15. \A e \in first .. g - 1 : P[e] < limit
  <2> HIDE DEF g, first
  <2> QED BY <1>4
<1> HIDE DEF g
<1> QED BY <1>3, <1>14, <1>15

(* A step of the walks, from an entry and from the end.                    *)
LEMMA NextIs ==
  ASSUME NEW s, NEW f, NEW w, NEW P, NEW Q, NEW b, s \in RingType(w), Lies(s, f, w, P, Q, b),
         s.end # 0, s.end # s.bottom, NEW e \in f .. w
  PROVE  NextEvent(s, P[e]) = IF e = w THEN NULL ELSE P[e + 1]
<1>1. /\ w \in Nat /\ f \in Nat \ {0} /\ b \in 1 .. w + 1 /\ s.bottom \in Nat /\ s.end \in Nat
      /\ (b = w + 1 => s.end = 0)
  BY LiesFacts
<1>2. EntryLies(s, e, w, P, Q, b) /\ P[e] \in Nat /\ Q[e] \in Nat /\ P[e] < Q[e]
      /\ P[e] + s.buf[P[e]].len = Q[e] /\ Q[e] <= s.bottom /\ (e < b <=> s.end <= P[e])
  BY EntryFacts
<1>3. CASE e = w
  <2>1. b <= w
    BY <1>1
  <2>2. Q[e] = s.end
    BY <1>2, <1>3, <2>1 DEF EntryLies
  <2>3. NextEvent(s, P[e]) = IF (IF Q[e] = s.bottom THEN 0 ELSE Q[e]) = s.end
                             THEN NULL ELSE IF Q[e] = s.bottom THEN 0 ELSE Q[e]
    BY <1>2 DEF NextEvent
  <2> QED BY <1>3, <2>2, <2>3
<1>4. CASE e # w
  <2>1. e + 1 \in f .. w
    BY <1>1, <1>4
  <2>2. P[e + 1] \in Nat /\ Q[e + 1] \in Nat /\ P[e + 1] < Q[e + 1] /\ Q[e + 1] <= s.bottom
        /\ (e + 1 < b <=> s.end <= P[e + 1])
    BY <2>1, EntryFacts
  <2>3. P[e + 1] = IF e + 1 = b THEN 0 ELSE Q[e]
    BY <1>2, <1>4 DEF EntryLies
  <2>4. CASE e + 1 = b
    <3>1. Q[e] = s.bottom
      BY <1>2, <2>4 DEF EntryLies
    <3> QED BY <1>2, <1>4, <2>3, <2>4, <3>1 DEF NextEvent
  <2>5. CASE e + 1 # b
    <3>1. Q[e] = P[e + 1] /\ Q[e] # s.bottom
      BY <1>1, <1>2, <2>2, <2>3, <2>5
    <3>2. P[e + 1] # s.end
      BY <1>1, <1>2, <2>2, <2>5, <3>1
    <3> QED BY <1>2, <1>4, <3>1, <3>2 DEF NextEvent
  <2> QED BY <2>4, <2>5
<1> QED BY <1>3, <1>4

LEMMA UpwardsAre ==
  ASSUME NEW s, NEW f, NEW w, NEW P, NEW Q, NEW b, s \in RingType(w), Lies(s, f, w, P, Q, b),
         s.end # 0, s.end # s.bottom, NEW x, NEW n \in Nat \ {0}, Trails(s, x, n, f, w, P)
  PROVE  Upwards(s, x) = [k \in 1 .. n |-> w - n + k]
<1> DEFINE step(y) == IF y = NULL THEN NULL ELSE NextEvent(s, y)
           Is(h) == h = [k \in 0 .. log_buf_len |-> IF k = 0 THEN x ELSE step(h[k - 1])]
           at == CHOOSE h : Is(h)
           first == w + 1 - n
           place == [k \in 0 .. log_buf_len |-> IF k < n THEN P[first + k] ELSE NULL]
           V == {log_buf_len} \cup {k \in 0 .. log_buf_len : at[k] = NULL}
<1>1. /\ first \in f .. w /\ x = P[first] /\ n <= log_buf_len /\ log_buf_len \in Nat
      /\ w \in Nat /\ f \in Nat \ {0} /\ first \in Nat
  BY CursorFacts, Lengths
<1>2. \A k \in 0 .. n - 1 : first + k \in f .. w /\ (first + k = w <=> k = n - 1)
  BY <1>1
<1>3. \A e \in f .. w : P[e] # NULL /\ P[e] \in Nat
  BY EntryFacts DEF NULL
<1>4. Is(place)
  <2> SUFFICES ASSUME NEW k \in 0 .. log_buf_len
               PROVE  place[k] = IF k = 0 THEN x ELSE step(place[k - 1])
    OBVIOUS
  <2>1. CASE k = 0
    BY <1>1, <2>1
  <2>2. CASE k # 0 /\ k - 1 < n
    <3> DEFINE e == first + (k - 1)
    <3>1. k - 1 \in 0 .. log_buf_len /\ k - 1 \in 0 .. n - 1 /\ e + 1 = first + k
      BY <1>1, <2>2
    <3>2. e \in f .. w /\ (e = w <=> k = n)
      BY <1>2, <3>1
    <3>3. place[k - 1] = P[e]
      BY <2>2, <3>1
    <3>4. place[k] = IF e = w THEN NULL ELSE P[e + 1]
      <4>1. CASE k = n
        BY <3>2, <4>1
      <4>2. CASE k # n
        BY <3>1, <3>2, <4>2
      <4> QED BY <4>1, <4>2
    <3>5. step(P[e]) = IF e = w THEN NULL ELSE P[e + 1]
      <4> HIDE DEF e
      <4> QED BY <1>3, <3>2, NextIs
    <3> HIDE DEF place, step, e
    <3> QED BY <2>2, <3>3, <3>4, <3>5
  <2>3. CASE k # 0 /\ ~(k - 1 < n)
    <3>1. k - 1 \in 0 .. log_buf_len /\ ~(k < n)
      BY <1>1, <2>3
    <3>2. place[k - 1] = NULL /\ place[k] = NULL
      BY <2>3, <3>1
    <3> HIDE DEF place
    <3> QED BY <2>3, <3>2
  <2> QED BY <2>1, <2>2, <2>3
<1>5. Is(at)
  <2> HIDE DEF Is, place
  <2> QED BY <1>4
<1>6. \A k \in 0 .. log_buf_len : at[k] = place[k]
  <2> DEFINE U == {k \in 0 .. log_buf_len : at[k] = place[k]}
  <2> HIDE DEF place, at, step
  <2>1. 0 \in U
    BY <1>1, <1>4, <1>5
  <2>2. \A k \in 0 + 1 .. log_buf_len : k - 1 \in U => k \in U
    BY <1>1, <1>4, <1>5
  <2>3. \A k \in 0 .. log_buf_len : k \in U
    <3> HIDE DEF U
    <3> QED BY <1>1, <2>1, <2>2, IntervalInduction
  <2> QED BY <2>3
<1>7. Min(V) = n
  <2>1. V \in SUBSET Nat
    BY <1>1
  <2>2. n \in V
    <3> HIDE DEF at
    <3> QED BY <1>1, <1>6
  <2>3. ASSUME NEW k \in V PROVE n <= k
    <3>1. CASE k = log_buf_len
      BY <1>1, <3>1
    <3>2. CASE k \in 0 .. log_buf_len /\ at[k] = NULL
      <4>1. place[k] = NULL
        <5> HIDE DEF at, place
        <5> QED BY <1>6, <3>2
      <4>2. k < n => P[first + k] # NULL
        BY <1>2, <1>3, <3>2
      <4> QED BY <3>2, <4>1, <4>2
    <3> QED BY <3>1, <3>2
  <2> HIDE DEF V
  <2>4. Min(V) \in V /\ \A j \in V : Min(V) <= j
    BY <2>1, <2>2, MinIs
  <2>5. Min(V) \in Nat
    BY <2>1, <2>4
  <2>6. Min(V) <= n
    BY <2>2, <2>4
  <2>7. n <= Min(V)
    BY <2>3, <2>4
  <2> QED BY <2>5, <2>6, <2>7
<1>8. Upwards(s, x) = [k \in 1 .. Min(V) |-> s.buf[at[k - 1]].id]
  BY DEF Upwards
<1>9. \A k \in 1 .. n : s.buf[at[k - 1]].id = w - n + k
  <2> TAKE k \in 1 .. n
  <2>1. k - 1 \in 0 .. log_buf_len /\ k - 1 \in 0 .. n - 1 /\ first + (k - 1) = w - n + k
    BY <1>1
  <2>2. place[k - 1] = P[first + (k - 1)]
    BY <2>1
  <2>3. first + (k - 1) \in f .. w
    BY <1>2, <2>1
  <2> HIDE DEF at, first, place
  <2> QED BY <1>6, <2>1, <2>2, <2>3, EntryFacts
<1> HIDE DEF at, V
<1> QED BY <1>7, <1>8, <1>9

LEMMA PrevIs ==
  ASSUME NEW s, NEW f, NEW w, NEW P, NEW Q, NEW b, s \in RingType(w), Lies(s, f, w, P, Q, b),
         s.num # 0, Trails(s, s.start, s.num, f, w, P)
  PROVE  /\ \A e \in w + 1 - s.num .. w :
              PrevEvent(s, P[e]) = IF e = w + 1 - s.num THEN NULL ELSE P[e - 1]
         /\ EndEvent(s) # s.start => PrevEvent(s, EndEvent(s)) = P[w]
         /\ EndEvent(s) = s.start => PrevEvent(s, EndEvent(s)) = NULL /\ s.end = s.start
         /\ EndEvent(s) \in Nat
<1> DEFINE first == w + 1 - s.num
<1>1. /\ s.num \in Nat \ {0} /\ w \in Nat /\ f \in Nat \ {0} /\ b \in 1 .. w + 1
      /\ s.end \in Nat /\ s.bottom \in Nat /\ (b = w + 1 => s.end = 0) /\ s.bottom # 0
  BY LiesFacts
<1>2. first \in f .. w /\ s.start = P[first] /\ first \in Nat /\ (first < b <=> s.end <= s.start)
  <2>1. w + 1 - s.num \in f .. w /\ s.start = P[w + 1 - s.num]
        /\ (w + 1 - s.num < b <=> s.end <= s.start)
    BY <1>1, CursorFacts
  <2> QED BY <1>1, <2>1
<1>3. ASSUME NEW e \in first .. w
      PROVE  PrevEvent(s, P[e]) = IF e = first THEN NULL ELSE P[e - 1]
  <2>1. e \in f .. w /\ e \in Nat
    BY <1>1, <1>2
  <2>2. CASE e = first
    BY <1>2, <2>2 DEF PrevEvent
  <2>3. CASE e # first
    <3> DEFINE d == e - 1
    <3>1. d \in f .. w /\ d + 1 = e /\ d # w
      BY <1>1, <1>2, <2>1, <2>3
    <3>2. P[e] # s.start
      BY <1>2, <2>1, <2>3, Apart
    <3> HIDE DEF d
    <3>3. EntryLies(s, d, w, P, Q, b) /\ Q[d] - s.buf[Q[d] - 1].len = P[d] /\ Q[d] \in Nat
          /\ P[d] < Q[d] /\ P[d] \in Nat
      BY <3>1, EntryFacts
    <3>4. P[e] = (IF e = b THEN 0 ELSE Q[d]) /\ (e = b => Q[d] = s.bottom)
      BY <3>1, <3>3 DEF EntryLies
    <3>5. (IF P[e] = 0 THEN s.bottom ELSE P[e]) = Q[d]
      BY <3>3, <3>4
    <3>6. PrevEvent(s, P[e]) = P[d]
      BY <3>2, <3>3, <3>5 DEF PrevEvent
    <3> QED BY <2>3, <3>6 DEF d
  <2> QED BY <2>2, <2>3
<1>4. w \in f .. w
  BY <1>1, <1>2
<1>5. EntryLies(s, w, w, P, Q, b) /\ Q[w] - s.buf[Q[w] - 1].len = P[w] /\ Q[w] \in Nat
      /\ P[w] < Q[w] /\ P[w] \in Nat /\ Q[w] <= s.bottom
  BY <1>4, EntryFacts
<1>6. EndEvent(s) = Q[w] /\ (s.end # 0 => EndEvent(s) = s.end) /\ (s.end = 0 => EndEvent(s) = s.bottom)
  <2>1. CASE b = w + 1
    <3>1. Q[w] = s.bottom
      BY <1>5, <2>1 DEF EntryLies
    <3> QED BY <1>1, <2>1, <3>1 DEF EndEvent
  <2>2. CASE b # w + 1
    <3>1. b <= w
      BY <1>1, <2>2
    <3>2. Q[w] = s.end
      BY <1>5, <3>1 DEF EntryLies
    <3> QED BY <1>1, <1>5, <3>2 DEF EndEvent
  <2> QED BY <2>1, <2>2
<1>7. EndEvent(s) # 0 /\ EndEvent(s) \in Nat
  BY <1>5, <1>6
<1>8. EndEvent(s) # s.start => PrevEvent(s, EndEvent(s)) = P[w]
  BY <1>5, <1>6, <1>7 DEF PrevEvent
<1>9. EndEvent(s) = s.start => PrevEvent(s, EndEvent(s)) = NULL
  BY DEF PrevEvent
<1>10. s.start < s.bottom /\ s.start \in Nat
  <2>1. P[first] < Q[first] /\ Q[first] <= s.bottom /\ P[first] \in Nat /\ Q[first] \in Nat
    BY <1>2, EntryFacts
  <2> HIDE DEF first
  <2> QED BY <1>1, <1>2, <2>1
<1>11. EndEvent(s) = s.start => s.end = s.start
  BY <1>1, <1>6, <1>10
<1> QED BY <1>3, <1>7, <1>8, <1>9, <1>11

LEMMA DownwardsAre ==
  ASSUME NEW s, NEW f, NEW w, NEW P, NEW Q, NEW b, s \in RingType(w), Lies(s, f, w, P, Q, b),
         s.num # 0, Trails(s, s.start, s.num, f, w, P), NEW stop, stop # NULL
  PROVE  \E m \in 0 .. s.num :
           /\ Downwards(s, stop) = [k \in 1 .. m |-> w + 1 - k]
           /\ s.end # s.start => m # 0
           /\ m # 0 /\ m # s.num => stop = P[w + 1 - m]
<1> DEFINE step(y) == IF y = NULL THEN NULL ELSE PrevEvent(s, y)
           Is(h) == h = [k \in 0 .. log_buf_len |-> IF k = 0 THEN EndEvent(s) ELSE step(h[k - 1])]
           at == CHOOSE h : Is(h)
           met == IF EndEvent(s) = s.start THEN 0 ELSE s.num
           place == [k \in 0 .. log_buf_len |->
                       IF k = 0 THEN EndEvent(s) ELSE IF k <= met THEN P[w + 1 - k] ELSE NULL]
           V == {log_buf_len} \cup {k \in 0 .. log_buf_len - 1 :
                                     at[k + 1] = NULL \/ (k > 0 /\ at[k] = stop)}
<1>1. /\ s.num \in Nat \ {0} /\ s.num <= log_buf_len /\ log_buf_len \in Nat \ {0}
      /\ w \in Nat /\ f \in Nat \ {0} /\ w + 1 - s.num \in f .. w
  <2>1. s.num \in Nat \ {0} /\ log_buf_len \in Nat \ {0} /\ w \in Nat /\ f \in Nat \ {0}
    BY LiesFacts
  <2>2. w + 1 - s.num \in f .. w /\ s.num <= log_buf_len
    BY <2>1, CursorFacts
  <2> QED BY <2>1, <2>2
<1>2. \A k \in 1 .. s.num : w + 1 - k \in f .. w /\ w + 1 - k \in w + 1 - s.num .. w
  BY <1>1
<1>3. \A e \in f .. w : P[e] # NULL /\ P[e] \in Nat
  BY EntryFacts DEF NULL
<1>4. met \in 0 .. s.num /\ met \in 0 .. log_buf_len /\ EndEvent(s) # NULL
      /\ (s.end # s.start => met # 0) /\ (met # 0 => met = s.num /\ EndEvent(s) # s.start)
      /\ (met = 0 => EndEvent(s) = s.start)
  BY <1>1, PrevIs DEF NULL
<1>5. ASSUME NEW e \in w + 1 - s.num .. w
      PROVE  PrevEvent(s, P[e]) = IF e = w + 1 - s.num THEN NULL ELSE P[e - 1]
  BY PrevIs
<1>6. (EndEvent(s) # s.start => PrevEvent(s, EndEvent(s)) = P[w])
      /\ (EndEvent(s) = s.start => PrevEvent(s, EndEvent(s)) = NULL)
  BY PrevIs
<1> HIDE DEF met
<1>7. Is(place)
  <2> SUFFICES ASSUME NEW k \in 0 .. log_buf_len
               PROVE  place[k] = IF k = 0 THEN EndEvent(s) ELSE step(place[k - 1])
    OBVIOUS
  <2>1. CASE k = 0
    BY <2>1
  <2>2. CASE k = 1
    <3>1. place[0] = EndEvent(s)
      BY <1>1
    <3>2. place[1] = IF 1 <= met THEN P[w + 1 - 1] ELSE NULL
      BY <1>1
    <3>3. w + 1 - 1 = w /\ (1 <= met <=> met # 0)
      BY <1>1, <1>4
    <3>4. place[1] = step(EndEvent(s))
      <4> HIDE DEF place
      <4> QED BY <1>4, <1>6, <3>2, <3>3
    <3> HIDE DEF place
    <3> QED BY <2>2, <3>1, <3>4
  <2>3. CASE k > 1 /\ k - 1 <= met
    <3> DEFINE e == w + 1 - (k - 1)
    <3>1. k - 1 \in 0 .. log_buf_len /\ k - 1 \in 1 .. s.num /\ e - 1 = w + 1 - k
          /\ k # 0 /\ k - 1 # 0 /\ met = s.num
      BY <1>1, <1>4, <2>3
    <3>2. e \in f .. w /\ e \in w + 1 - s.num .. w
      BY <1>2, <3>1
    <3>3. e = w + 1 - s.num <=> k = s.num + 1
      BY <1>1
    <3>4. place[k - 1] = P[e]
      BY <2>3, <3>1
    <3>5. place[k] = IF e = w + 1 - s.num THEN NULL ELSE P[e - 1]
      <4>1. k <= met <=> k # s.num + 1
        BY <1>1, <2>3, <3>1
      <4>2. place[k] = IF k <= met THEN P[w + 1 - k] ELSE NULL
        BY <3>1
      <4> HIDE DEF place, e
      <4> QED BY <3>1, <3>3, <4>1, <4>2
    <3> HIDE DEF place, e
    <3>6. step(P[e]) = IF e = w + 1 - s.num THEN NULL ELSE P[e - 1]
      BY <1>3, <1>5, <3>2
    <3> HIDE DEF step
    <3> QED BY <3>1, <3>4, <3>5, <3>6
  <2>4. CASE k > 1 /\ ~(k - 1 <= met)
    <3>1. k - 1 \in 0 .. log_buf_len /\ ~(k <= met) /\ k # 0 /\ k - 1 # 0
      BY <1>1, <1>4, <2>4
    <3>2. place[k - 1] = NULL /\ place[k] = NULL
      BY <2>4, <3>1
    <3> HIDE DEF place
    <3> QED BY <3>1, <3>2
  <2>5. k = 0 \/ k = 1 \/ k > 1
    BY <1>1
  <2> QED BY <2>1, <2>2, <2>3, <2>4, <2>5
<1>8. Is(at)
  <2> HIDE DEF Is, place
  <2> QED BY <1>7
<1>9. \A k \in 0 .. log_buf_len : at[k] = place[k]
  <2> DEFINE U == {k \in 0 .. log_buf_len : at[k] = place[k]}
  <2> HIDE DEF place, at, step
  <2>1. 0 \in U
    BY <1>1, <1>7, <1>8
  <2>2. \A k \in 0 + 1 .. log_buf_len : k - 1 \in U => k \in U
    BY <1>1, <1>7, <1>8
  <2>3. \A k \in 0 .. log_buf_len : k \in U
    <3> HIDE DEF U
    <3> QED BY <1>1, <2>1, <2>2, IntervalInduction
  <2> QED BY <2>3
<1> DEFINE m == Min(V)
<1>10. m \in V /\ (\A j \in V : m <= j) /\ V \subseteq Nat
  <2>1. V \in SUBSET Nat /\ log_buf_len \in V
    BY <1>1
  <2> HIDE DEF V
  <2> QED BY <2>1, MinIs
<1>11. m \in Nat
  <2> HIDE DEF m
  <2> QED BY <1>10
<1>12. m <= met
  <2>1. CASE met = log_buf_len
    <3>1. log_buf_len \in V
      OBVIOUS
    <3> HIDE DEF V, m
    <3> QED BY <1>10, <2>1, <3>1
  <2>2. CASE met # log_buf_len
    <3>1. met + 1 \in 0 .. log_buf_len /\ met \in 0 .. log_buf_len - 1 /\ met + 1 # 0 /\ ~(met + 1 <= met)
      BY <1>1, <1>4, <2>2
    <3>2. place[met + 1] = NULL
      BY <3>1
    <3>3. at[met + 1] = NULL
      <4> HIDE DEF at, place
      <4> QED BY <1>9, <3>1, <3>2
    <3>4. met \in V
      BY <3>1, <3>3
    <3> HIDE DEF V, m
    <3> QED BY <1>10, <3>4
  <2> QED BY <2>1, <2>2
<1>13. ASSUME met # 0 PROVE m # 0 /\ (m # s.num => stop = P[w + 1 - m])
  <2>1. m \in 0 .. met /\ met = s.num
    <3> HIDE DEF m
    <3> QED BY <1>4, <1>11, <1>12, <1>13
  <2>2. CASE m = s.num
    <3> HIDE DEF m
    <3> QED BY <1>1, <2>2
  <2>3. CASE m # s.num
    <3>0. m \in 0 .. s.num - 1 /\ m \in Nat /\ m + 1 \in 1 .. s.num /\ m + 1 \in 0 .. log_buf_len
          /\ m \in 0 .. log_buf_len /\ m # log_buf_len /\ m + 1 # 0
      <4> HIDE DEF m
      <4> QED BY <1>1, <1>11, <2>1, <2>3
    <3>1. place[m + 1] = P[w + 1 - (m + 1)] /\ (m # 0 => place[m] = P[w + 1 - m])
      <4> HIDE DEF m
      <4> QED BY <2>1, <3>0
    <3>2. at[m + 1] # NULL /\ (m # 0 => at[m] = P[w + 1 - m])
      <4> HIDE DEF m, at, place
      <4> QED BY <1>2, <1>3, <1>9, <3>0, <3>1
    <3>3. at[m + 1] = NULL \/ (m > 0 /\ at[m] = stop)
      <4>1. \A j \in V : j # log_buf_len => at[j + 1] = NULL \/ (j > 0 /\ at[j] = stop)
        <5> HIDE DEF at
        <5> QED OBVIOUS
      <4> HIDE DEF V, m, at
      <4> QED BY <1>10, <3>0, <4>1
    <3> HIDE DEF m, at
    <3> QED BY <3>0, <3>2, <3>3
  <2> QED BY <2>2, <2>3
<1>14. EndEvent(s) # NULL /\ Downwards(s, stop) = [k \in 1 .. m |-> s.buf[at[k]].id]
  <2>1. EndEvent(s) # NULL
    BY <1>4
  <2> QED BY <2>1 DEF Downwards
<1>15. \A k \in 1 .. m : s.buf[at[k]].id = w + 1 - k
  <2> TAKE k \in 1 .. m
  <2>1. k \in 1 .. met /\ k \in 1 .. s.num /\ k \in 0 .. log_buf_len /\ k # 0 /\ k <= met
    <3> HIDE DEF m
    <3> QED BY <1>1, <1>4, <1>11, <1>12
  <2>2. place[k] = P[w + 1 - k]
    BY <2>1
  <2>3. w + 1 - k \in f .. w
    BY <1>2, <2>1
  <2> HIDE DEF at, m, place
  <2> QED BY <1>9, <2>1, <2>2, <2>3, EntryFacts
<1>16. m \in 0 .. s.num /\ (s.end # s.start => m # 0) /\ (m # 0 /\ m # s.num => stop = P[w + 1 - m])
  <2> HIDE DEF m
  <2> QED BY <1>1, <1>4, <1>11, <1>12, <1>13
<1>17. Downwards(s, stop) = [k \in 1 .. m |-> w + 1 - k]
  <2> HIDE DEF m, at
  <2> QED BY <1>14, <1>15
<1> HIDE DEF m
<1> QED BY <1>16, <1>17

-----------------------------------------------------------------------------
(* What a step of writing an entry does.                                   *)
LEMMA LiesSame ==
  ASSUME NEW s, NEW t, NEW f, NEW w, NEW P, NEW Q, NEW b, Lies(s, f, w, P, Q, b),
         t.buf = s.buf, t.end = s.end, t.bottom = s.bottom
  PROVE  Lies(t, f, w, P, Q, b)
<1>1. \A e : EntryLies(s, e, w, P, Q, b) => EntryLies(t, e, w, P, Q, b)
  BY DEF EntryLies
<1> QED BY <1>1 DEF Lies

(* The entry after e begins where e ends, or at the beginning.             *)
LEMMA PlaceStep ==
  ASSUME NEW s, NEW f, NEW w, NEW P, NEW Q, NEW b, s \in RingType(w), Lies(s, f, w, P, Q, b),
         NEW e \in f .. w
  PROVE  /\ e # w => Wrapped(s, P[e] + s.buf[P[e]].len) = P[e + 1]
         /\ Wrapped(s, P[e]) = P[e]
<1>1. \A d \in f .. w : P[d] # s.bottom
  <2> TAKE d \in f .. w
  <2>1. P[d] \in Nat /\ Q[d] \in Nat /\ P[d] < Q[d] /\ Q[d] <= s.bottom
    BY EntryFacts
  <2> QED BY <2>1, LiesFacts
<1>2. ASSUME e # w PROVE Wrapped(s, P[e] + s.buf[P[e]].len) = P[e + 1]
  <2>1. EntryLies(s, e, w, P, Q, b) /\ P[e] + s.buf[P[e]].len = Q[e]
    BY EntryFacts
  <2>2. P[e + 1] = IF e + 1 = b THEN 0 ELSE Q[e]
    BY <1>2, <2>1 DEF EntryLies
  <2>3. e + 1 \in f .. w
    BY <1>2, LiesFacts
  <2>4. CASE e + 1 = b
    <3>1. Q[e] = s.bottom
      BY <2>1, <2>4 DEF EntryLies
    <3> QED BY <2>1, <2>2, <2>4, <3>1 DEF Wrapped
  <2>5. CASE e + 1 # b
    BY <1>1, <2>1, <2>2, <2>3, <2>5 DEF Wrapped
  <2> QED BY <2>4, <2>5
<1> QED BY <1>1, <1>2 DEF Wrapped

(* Within a lap entries lie in their order.                                *)
LEMMA Rising ==
  ASSUME NEW s, NEW f, NEW w, NEW P, NEW Q, NEW b, s \in RingType(w), Lies(s, f, w, P, Q, b),
         NEW e \in f .. w, NEW h \in e + 1 .. w, h < b \/ b <= e
  PROVE  Q[e] <= P[h]
<1> DEFINE T == {g \in e + 1 .. h : Q[e] <= P[g]}
<1>1. w \in Nat /\ f \in Nat \ {0} /\ b \in Nat /\ e \in Nat /\ h \in Nat
  BY LiesFacts
<1>2. ASSUME NEW d \in e .. h - 1 PROVE P[d + 1] = Q[d] /\ d \in f .. w /\ d + 1 \in f .. w
  <2>1. d \in f .. w /\ d # w /\ d + 1 # b /\ d + 1 \in f .. w
    BY <1>1
  <2>2. EntryLies(s, d, w, P, Q, b)
    BY <2>1, EntryFacts
  <2> QED BY <2>1, <2>2 DEF EntryLies
<1>3. e + 1 \in T
  <2>1. e \in e .. h - 1 /\ e + 1 \in e + 1 .. h
    BY <1>1
  <2>2. P[e + 1] = Q[e] /\ Q[e] \in Nat
    BY <1>2, <2>1, EntryFacts
  <2> QED BY <2>1, <2>2
<1>4. \A k \in (e + 1) + 1 .. h : k - 1 \in T => k \in T
  <2> SUFFICES ASSUME NEW k \in (e + 1) + 1 .. h, k - 1 \in T PROVE k \in T
    OBVIOUS
  <2>1. k - 1 \in e .. h - 1 /\ (k - 1) + 1 = k /\ k \in e + 1 .. h
    BY <1>1
  <2>2. P[k] = Q[k - 1] /\ k - 1 \in f .. w
    BY <1>2, <2>1
  <2>3. P[k - 1] < Q[k - 1] /\ P[k - 1] \in Nat /\ Q[k - 1] \in Nat /\ Q[e] \in Nat
    BY <2>2, EntryFacts
  <2>4. Q[e] <= P[k - 1]
    OBVIOUS
  <2> QED BY <2>1, <2>2, <2>3, <2>4
<1>5. \A k \in e + 1 .. h : k \in T
  <2>1. e + 1 \in Int /\ h \in Int
    BY <1>1
  <2> HIDE DEF T
  <2> QED BY <1>3, <1>4, <2>1, IntervalInduction
<1> QED BY <1>1, <1>5

(* A cursor that gives way stands on the first entry of its lap that       *)
(* reaches limit, or on the first of the next lap.                         *)
LEMMA CursorGives ==
  ASSUME NEW s, NEW f, NEW w, NEW P, NEW Q, NEW b, s \in RingType(w), Lies(s, f, w, P, Q, b),
         NEW x, NEW n \in Nat \ {0}, Trails(s, x, n, f, w, P), s.end <= x, NEW limit \in Nat
  PROVE  LET y == Wrapped(s, Passed(s, x, limit).at)
             m == n - Passed(s, x, limit).count
         IN  /\ y \in Offset /\ m \in 0 .. n /\ Trails(s, y, m, f, w, P)
             /\ w + 1 - m <= b
             /\ w + 1 - m # b => limit <= P[w + 1 - m]
             /\ \A e \in w + 1 - n .. w - m : P[e] < limit /\ e < b
<1>1. PICK g \in w + 1 - n .. b :
        /\ Passed(s, x, limit) = [at |-> IF g = b THEN s.bottom ELSE P[g],
                                  count |-> g - (w + 1 - n)]
        /\ g # b => limit <= P[g]
        /\ \A e \in w + 1 - n .. g - 1 : P[e] < limit
  BY PassedIs
<1> DEFINE y == Wrapped(s, Passed(s, x, limit).at)
           m == n - Passed(s, x, limit).count
<1>2. w \in Nat /\ f \in Nat \ {0} /\ b \in Nat /\ b <= w + 1 /\ (b = w + 1 => s.end = 0)
      /\ log_buf_len \in Nat
  BY LiesFacts
<1>3. w + 1 - n \in f .. w /\ w + 1 - n < b /\ n <= w + 1 - f
  <2>1. w + 1 - n \in f .. w /\ (w + 1 - n < b <=> s.end <= x)
    BY CursorFacts
  <2> QED BY <1>2, <2>1
<1>4. Passed(s, x, limit).count = g - (w + 1 - n)
      /\ Passed(s, x, limit).at = IF g = b THEN s.bottom ELSE P[g]
  BY <1>1
<1>5. m = w + 1 - g /\ g \in Nat /\ g <= b /\ g >= w + 1 - n
  BY <1>2, <1>3, <1>4
<1>6. m \in 0 .. n /\ w + 1 - m = g /\ w - m = g - 1 /\ m <= w + 1 - f
  <2> HIDE DEF m
  <2> QED BY <1>2, <1>3, <1>5
<1>7. y \in Offset /\ Trails(s, y, m, f, w, P)
  <2>1. CASE g = b
    <3>1. y = 0
      BY <1>4, <2>1 DEF Wrapped
    <3>2. m # 0 => P[g] = 0
      <4> SUFFICES ASSUME m # 0 PROVE P[g] = 0
        OBVIOUS
      <4> DEFINE e == g - 1
      <4>1. e \in f .. w /\ e # w /\ e + 1 = b /\ e + 1 = g
        <5> HIDE DEF m
        <5> QED BY <1>2, <1>3, <1>5, <2>1
      <4> HIDE DEF e
      <4>2. EntryLies(s, e, w, P, Q, b)
        BY <4>1, EntryFacts
      <4> QED BY <4>1, <4>2 DEF EntryLies
    <3>3. m = 0 => s.end = 0
      <4> HIDE DEF m
      <4> QED BY <1>2, <1>5, <2>1
    <3> HIDE DEF m, y
    <3> QED BY <1>2, <1>6, <3>1, <3>2, <3>3 DEF Trails, Offset
  <2>2. CASE g # b
    <3>1. g \in f .. w /\ m # 0
      <4> HIDE DEF m
      <4> QED BY <1>2, <1>3, <1>5, <2>2
    <3>2. y = P[g] /\ P[g] \in 0 .. log_buf_len - 1
      BY <1>4, <2>2, <3>1, PlaceStep, EntryFacts
    <3> HIDE DEF m, y
    <3> QED BY <1>2, <1>6, <3>1, <3>2 DEF Trails, Offset
  <2> QED BY <2>1, <2>2
<1>8. \A e \in w + 1 - n .. g - 1 : P[e] < limit /\ e < b
  BY <1>1, <1>2, <1>3, <1>5
<1> HIDE DEF m, y
<1>9. \A e \in w + 1 - n .. w - m : P[e] < limit /\ e < b
  BY <1>6, <1>8
<1>10. w + 1 - m <= b /\ (w + 1 - m # b => limit <= P[w + 1 - m])
  BY <1>1, <1>5, <1>6
<1> QED BY <1>6, <1>7, <1>9, <1>10 DEF y, m

(* The next mail, walked down from the end, meets what no mail has held    *)
(* yet.                                                                    *)
LEMMA MailMeets ==
  ASSUME NEW s, NEW f, NEW w, NEW P, NEW Q, NEW b, s \in RingType(w), Lies(s, f, w, P, Q, b),
         Trails(s, s.start, s.num, f, w, P)
  PROVE  /\ ToSet(Log(s)) = w + 1 - s.num .. w
         /\ \A stop : ToSet(Downwards(s, stop)) \subseteq w + 1 - s.num .. w
         /\ Mails(s, w, P) /\ s.end # s.start =>
              w + 1 - s.num .. w \subseteq
                s.tried \cup s.skipped \cup ToSet(Downwards(s, FindMailEvent(s)))
<1>1. s.num \in Nat /\ w \in Nat /\ f \in Nat \ {0} /\ s.num_to_mail \in Nat /\ s.mail_start \in Nat
  BY LiesFacts
<1>2. Log(s) = [k \in 1 .. s.num |-> w - s.num + k]
  BY <1>1, IdsAre DEF Log
<1>3. ToSet(Log(s)) = w + 1 - s.num .. w
  <2>1. ToSet(Log(s)) = {w - s.num + k : k \in 1 .. s.num}
    BY <1>2 DEF ToSet
  <2>2. \A e \in w + 1 - s.num .. w : e - (w - s.num) \in 1 .. s.num
                                      /\ e = w - s.num + (e - (w - s.num))
    BY <1>1
  <2>3. \A k \in 1 .. s.num : w - s.num + k \in w + 1 - s.num .. w
    BY <1>1
  <2> QED BY <2>1, <2>2, <2>3
<1>4. \A stop : s.num = 0 \/ stop = NULL => Downwards(s, stop) = << >>
  BY DEF Downwards, EndEvent
<1>5. \A m \in 0 .. s.num : ToSet([k \in 1 .. m |-> w + 1 - k]) = w + 1 - m .. w
  <2> TAKE m \in 0 .. s.num
  <2>1. ToSet([k \in 1 .. m |-> w + 1 - k]) = {w + 1 - k : k \in 1 .. m}
    BY DEF ToSet
  <2>2. \A e \in w + 1 - m .. w : w + 1 - e \in 1 .. m /\ e = w + 1 - (w + 1 - e)
    BY <1>1
  <2>3. \A k \in 1 .. m : w + 1 - k \in w + 1 - m .. w
    BY <1>1
  <2> QED BY <2>1, <2>2, <2>3
<1>6. ToSet(<< >>) = {}
  BY DEF ToSet
<1>7. ASSUME NEW stop PROVE ToSet(Downwards(s, stop)) \subseteq w + 1 - s.num .. w
  <2>1. CASE s.num = 0 \/ stop = NULL
    BY <1>4, <1>6, <2>1
  <2>2. CASE s.num # 0 /\ stop # NULL
    <3>1. PICK m \in 0 .. s.num : Downwards(s, stop) = [k \in 1 .. m |-> w + 1 - k]
      BY <2>2, DownwardsAre
    <3>2. ToSet(Downwards(s, stop)) = w + 1 - m .. w
      BY <1>5, <3>1
    <3> QED BY <1>1, <3>2
  <2> QED BY <2>1, <2>2
<1>8. ASSUME Mails(s, w, P), s.end # s.start, NEW e \in w + 1 - s.num .. w
      PROVE  e \in s.tried \cup s.skipped \cup ToSet(Downwards(s, FindMailEvent(s)))
  <2>1. s.num # 0 /\ e \in Nat
    <3>1. s.num # 0
      BY <1>1
    <3>2. w + 1 - s.num \in f .. w
      BY <1>1, <3>1, CursorFacts
    <3> QED BY <1>1, <3>1, <3>2
  <2>2. /\ s.num_to_mail <= w
        /\ \A d \in w + 1 - s.num .. w :
             /\ P[d] = s.mail_start => d <= w + 1 - s.num_to_mail
             /\ d <= w - s.num_to_mail => d \in s.tried \cup s.skipped
    BY <1>8 DEF Mails
  <2>3. CASE s.num_to_mail = 0
    <3>1. e <= w - s.num_to_mail
      BY <1>1, <2>3
    <3> QED BY <2>2, <3>1
  <2>4. CASE s.num_to_mail # 0
    <3>1. FindMailEvent(s) = s.mail_start /\ s.mail_start # NULL
      BY <1>1, <2>4 DEF FindMailEvent, NULL
    <3>2. PICK m \in 0 .. s.num :
            /\ Downwards(s, s.mail_start) = [k \in 1 .. m |-> w + 1 - k]
            /\ s.end # s.start => m # 0
            /\ m # 0 /\ m # s.num => s.mail_start = P[w + 1 - m]
      <4> DEFINE stop == s.mail_start
      <4>1. stop # NULL
        BY <3>1
      <4> HIDE DEF stop
      <4>2. \E m \in 0 .. s.num :
              /\ Downwards(s, stop) = [k \in 1 .. m |-> w + 1 - k]
              /\ s.end # s.start => m # 0
              /\ m # 0 /\ m # s.num => stop = P[w + 1 - m]
        BY <2>1, <4>1, DownwardsAre
      <4> QED BY <4>2 DEF stop
    <3>3. ToSet(Downwards(s, FindMailEvent(s))) = w + 1 - m .. w
      BY <1>5, <3>1, <3>2
    <3>4. CASE m = s.num
      <4>1. e \in w + 1 - m .. w
        BY <3>4
      <4> QED BY <3>3, <4>1
    <3>5. CASE m # s.num
      <4>0. m # 0
        BY <1>8, <3>2
      <4>1. w + 1 - m \in w + 1 - s.num .. w
        BY <1>1, <3>5, <4>0
      <4>2. w + 1 - m <= w + 1 - s.num_to_mail
        BY <1>8, <2>2, <3>2, <3>5, <4>1
      <4>3. e >= w + 1 - m \/ e <= w - s.num_to_mail
        BY <1>1, <2>1, <4>2
      <4>4. e >= w + 1 - m => e \in w + 1 - m .. w
        BY <1>1, <3>2
      <4> QED BY <2>2, <3>3, <4>3, <4>4
    <3> QED BY <3>4, <3>5
  <2> QED BY <2>3, <2>4
<1> QED BY <1>3, <1>7, <1>8

(* Sending a mail touches only what is kept of the mails; after it         *)
(* nothing in the log remains to be mailed.                                *)
LEMMA SendIs ==
  ASSUME NEW s, NEW f, NEW w, NEW P, NEW Q, NEW b, Good(s, f, w, P, Q, b), NEW from
  PROVE  LET t == EventSendMail(s, from)
         IN  /\ Good(t, f, w, P, Q, b)
             /\ t.buf = s.buf /\ t.end = s.end /\ t.bottom = s.bottom
             /\ t.start = s.start /\ t.num = s.num
             /\ t.mail_start = s.mail_start /\ t.num_to_mail = s.num_to_mail
             /\ from = FindMailEvent(s) /\ doRemoteMail =>
                  \A e \in w + 1 - s.num .. w : e \in t.tried \cup t.skipped
<1> DEFINE t == EventSendMail(s, from)
           sent == ToSet(Downwards(s, from))
           held == w + 1 - s.num .. w
<1>1. s \in RingType(w) /\ Lies(s, f, w, P, Q, b) /\ Trails(s, s.start, s.num, f, w, P)
      /\ (~doRemoteMail => Trails(s, s.mail_start, s.num_to_mail, f, w, P))
      /\ (doRemoteMail => Mails(s, w, P))
  BY DEF Good
<1>2. ToSet(Log(s)) = held /\ sent \subseteq held
  BY <1>1, MailMeets
<1>3. held \subseteq 1 .. w
  <2>1. w \in Nat /\ s.num \in Nat /\ f \in Nat \ {0}
    BY <1>1, LiesFacts
  <2>2. s.num <= w + 1 - f
    BY <1>1 DEF Trails
  <2> QED BY <2>1, <2>2
<1>4. t = [s EXCEPT !.tried = s.tried \cup sent,
                    !.skipped = IF s.end = s.start THEN s.skipped \cup (held \ sent) ELSE s.skipped]
  BY <1>1, <1>2 DEF EventSendMail, RingType
<1>5. /\ t \in RingType(w)
      /\ t.buf = s.buf /\ t.end = s.end /\ t.bottom = s.bottom
      /\ t.start = s.start /\ t.num = s.num
      /\ t.mail_start = s.mail_start /\ t.num_to_mail = s.num_to_mail
      /\ t.tried = s.tried \cup sent /\ s.skipped \subseteq t.skipped
      /\ (s.end = s.start => t.skipped = s.skipped \cup (held \ sent))
  <2> HIDE DEF t, sent, held
  <2> QED BY <1>1, <1>2, <1>3, <1>4 DEF RingType
<1> HIDE DEF t
<1>6. Lies(t, f, w, P, Q, b)
  BY <1>1, <1>5, LiesSame
<1>7. Trails(t, t.start, t.num, f, w, P)
      /\ (~doRemoteMail => Trails(t, t.mail_start, t.num_to_mail, f, w, P))
  BY <1>1, <1>5 DEF Trails
<1>8. doRemoteMail => Mails(t, w, P)
  BY <1>1, <1>5 DEF Mails
<1>9. ASSUME from = FindMailEvent(s), doRemoteMail, NEW e \in held PROVE e \in t.tried \cup t.skipped
  <2>1. CASE s.end = s.start
    <3> HIDE DEF sent, held
    <3> QED BY <1>5, <1>9, <2>1
  <2>2. CASE s.end # s.start
    <3>1. held \subseteq s.tried \cup s.skipped \cup sent
      BY <1>1, <1>9, <2>2, MailMeets
    <3> HIDE DEF sent, held
    <3> QED BY <1>5, <1>9, <3>1
  <2> QED BY <2>1, <2>2
<1>10. Good(t, f, w, P, Q, b)
  BY <1>5, <1>6, <1>7, <1>8 DEF Good
<1> QED BY <1>5, <1>9, <1>10 DEF t

LEMMA LogGives ==
  ASSUME NEW s, NEW f, NEW w, NEW P, NEW Q, NEW b, Good(s, f, w, P, Q, b),
         s.num # 0, s.end <= s.start, NEW limit \in Nat
  PROVE  LET t == LogGivesWay(s, limit)
         IN  /\ Good(t, f, w, P, Q, b)
             /\ t.buf = s.buf /\ t.end = s.end /\ t.bottom = s.bottom
             /\ t.mail_start = s.mail_start /\ t.num_to_mail = s.num_to_mail
             /\ t.num \in 0 .. s.num /\ w + 1 - t.num <= b
             /\ w + 1 - t.num # b => limit <= P[w + 1 - t.num]
             /\ \A e \in w + 1 - s.num .. w - t.num : P[e] < limit /\ e < b
<1> DEFINE t == LogGivesWay(s, limit)
           x == s.start
           n == s.num
           y == Wrapped(s, Passed(s, x, limit).at)
           m == n - Passed(s, x, limit).count
<1>1. s \in RingType(w) /\ Lies(s, f, w, P, Q, b) /\ Trails(s, x, n, f, w, P)
      /\ (~doRemoteMail => Trails(s, s.mail_start, s.num_to_mail, f, w, P))
      /\ (doRemoteMail => Mails(s, w, P))
  BY DEF Good
<1>2. n \in Nat \ {0} /\ s.end <= x /\ w \in Nat
  BY <1>1, LiesFacts
<1> HIDE DEF x, n
<1>3. /\ y \in Offset /\ m \in 0 .. n /\ Trails(s, y, m, f, w, P)
      /\ w + 1 - m <= b
      /\ w + 1 - m # b => limit <= P[w + 1 - m]
      /\ \A e \in w + 1 - n .. w - m : P[e] < limit /\ e < b
  BY <1>1, <1>2, CursorGives
<1>4. t = [s EXCEPT !.start = y, !.num = m]
  BY <1>1 DEF LogGivesWay, RingType, x, n
<1> HIDE DEF y, m, t
<1>5. m \in Nat
  BY <1>2, <1>3
<1>6. /\ t \in RingType(w)
      /\ t.buf = s.buf /\ t.end = s.end /\ t.bottom = s.bottom
      /\ t.mail_start = s.mail_start /\ t.num_to_mail = s.num_to_mail
      /\ t.tried = s.tried /\ t.skipped = s.skipped /\ t.start = y /\ t.num = m
  BY <1>1, <1>3, <1>4, <1>5 DEF RingType
<1>7. Lies(t, f, w, P, Q, b)
  BY <1>1, <1>6, LiesSame
<1>8. Trails(t, t.start, t.num, f, w, P)
      /\ (~doRemoteMail => Trails(t, t.mail_start, t.num_to_mail, f, w, P))
  BY <1>1, <1>3, <1>6 DEF Trails
<1>9. doRemoteMail => Mails(t, w, P)
  <2>1. w + 1 - t.num .. w \subseteq w + 1 - s.num .. w
    BY <1>2, <1>3, <1>6 DEF n
  <2> QED BY <1>1, <1>6, <2>1 DEF Mails
<1>10. Good(t, f, w, P, Q, b)
  BY <1>6, <1>7, <1>8, <1>9 DEF Good
<1> QED BY <1>3, <1>6, <1>10 DEF n, t

LEMMA MailGives ==
  ASSUME NEW s, NEW f, NEW w, NEW P, NEW Q, NEW b, Good(s, f, w, P, Q, b),
         s.num_to_mail # 0, s.end <= s.mail_start, NEW limit \in Nat
  PROVE  LET t == MailGivesWay(s, limit)
         IN  /\ Good(t, f, w, P, Q, b)
             /\ t.buf = s.buf /\ t.end = s.end /\ t.bottom = s.bottom
             /\ t.start = s.start /\ t.num = s.num
             /\ doRemoteMail => t.num_to_mail = 0
             /\ ~doRemoteMail =>
                  /\ w + 1 - t.num_to_mail <= b
                  /\ w + 1 - t.num_to_mail # b => limit <= P[w + 1 - t.num_to_mail]
<1> DEFINE t == MailGivesWay(s, limit)
<1>1. s \in RingType(w) /\ Lies(s, f, w, P, Q, b) /\ Trails(s, s.start, s.num, f, w, P)
      /\ (~doRemoteMail => Trails(s, s.mail_start, s.num_to_mail, f, w, P))
      /\ (doRemoteMail => Mails(s, w, P))
  BY DEF Good
<1>2. w \in Nat /\ s.num \in Nat /\ s.num_to_mail \in Nat \ {0} /\ s.end \in Offset
  BY <1>1, LiesFacts DEF Offset
<1>3. CASE doRemoteMail
  <2> DEFINE u == EventSendMail(s, FindMailEvent(s))
  <2>1. /\ Good(u, f, w, P, Q, b)
        /\ u.buf = s.buf /\ u.end = s.end /\ u.bottom = s.bottom
        /\ u.start = s.start /\ u.num = s.num
        /\ \A e \in w + 1 - s.num .. w : e \in u.tried \cup u.skipped
    BY <1>3, SendIs
  <2>2. t = [u EXCEPT !.mail_start = u.end, !.num_to_mail = 0]
    BY <1>3 DEF MailGivesWay, ResetMailEvent
  <2> HIDE DEF t, u
  <2>3. u \in RingType(w) /\ Lies(u, f, w, P, Q, b) /\ Trails(u, u.start, u.num, f, w, P)
    BY <2>1 DEF Good
  <2>4. /\ t \in RingType(w)
        /\ t.buf = s.buf /\ t.end = s.end /\ t.bottom = s.bottom
        /\ t.start = s.start /\ t.num = s.num /\ t.num_to_mail = 0
        /\ t.tried = u.tried /\ t.skipped = u.skipped
    BY <1>2, <2>1, <2>2, <2>3 DEF RingType
  <2>5. Lies(t, f, w, P, Q, b)
    BY <1>1, <2>4, LiesSame
  <2>6. Trails(t, t.start, t.num, f, w, P)
    BY <1>1, <2>4 DEF Trails
  <2>7. Mails(t, w, P)
    <3>1. \A e \in w + 1 - s.num .. w : e <= w + 1 - 0
      BY <1>2
    <3> QED BY <1>2, <2>1, <2>4, <3>1 DEF Mails
  <2>8. Good(t, f, w, P, Q, b)
    BY <1>3, <2>4, <2>5, <2>6, <2>7 DEF Good
  <2> QED BY <1>3, <2>4, <2>8 DEF t
<1>4. CASE ~doRemoteMail
  <2> DEFINE x == s.mail_start
             n == s.num_to_mail
             y == Wrapped(s, Passed(s, x, limit).at)
             m == n - Passed(s, x, limit).count
  <2>1. n \in Nat \ {0} /\ s.end <= x /\ Trails(s, x, n, f, w, P)
    BY <1>1, <1>2, <1>4
  <2> HIDE DEF x, n
  <2>2. /\ y \in Offset /\ m \in 0 .. n /\ Trails(s, y, m, f, w, P)
        /\ w + 1 - m <= b
        /\ w + 1 - m # b => limit <= P[w + 1 - m]
    BY <1>1, <2>1, CursorGives
  <2>3. t = [s EXCEPT !.mail_start = y, !.num_to_mail = m]
    BY <1>1, <1>4 DEF MailGivesWay, RingType, x, n
  <2> HIDE DEF y, m, t
  <2>4. m \in Nat
    BY <2>1, <2>2
  <2>5. /\ t \in RingType(w)
        /\ t.buf = s.buf /\ t.end = s.end /\ t.bottom = s.bottom
        /\ t.start = s.start /\ t.num = s.num /\ t.mail_start = y /\ t.num_to_mail = m
    BY <1>1, <2>2, <2>3, <2>4 DEF RingType
  <2>6. Lies(t, f, w, P, Q, b)
    BY <1>1, <2>5, LiesSame
  <2>7. Trails(t, t.start, t.num, f, w, P) /\ Trails(t, t.mail_start, t.num_to_mail, f, w, P)
    BY <1>1, <2>2, <2>5 DEF Trails
  <2>8. Good(t, f, w, P, Q, b)
    BY <1>4, <2>5, <2>6, <2>7 DEF Good
  <2> QED BY <1>4, <2>2, <2>5, <2>8 DEF t
<1> QED BY <1>3, <1>4

(* The n entries behind a cursor lie clear of what is before limit, as far *)
(* as they lie behind the end.                                             *)
Clear(n, limit, w, P, b) == w + 1 - n >= b \/ limit <= P[w + 1 - n]

LEMMA ClearFacts ==
  ASSUME NEW s, NEW f, NEW w, NEW P, NEW Q, NEW b, s \in RingType(w), Lies(s, f, w, P, Q, b),
         NEW x, NEW n \in Nat, Trails(s, x, n, f, w, P), NEW limit \in Nat
  PROVE  /\ ~(s.end <= x /\ limit > x /\ n # 0) => Clear(n, limit, w, P, b)
         /\ Clear(n, s.bottom, w, P, b) => w + 1 - n >= b
         /\ w + 1 - n >= b => Clear(n, limit, w, P, b)
<1>1. w \in Nat /\ f \in Nat \ {0} /\ b \in Nat /\ b <= w + 1 /\ s.bottom \in Nat
  BY LiesFacts
<1>2. CASE n = 0
  BY <1>1, <1>2 DEF Clear
<1>3. CASE n # 0
  <2>1. w + 1 - n \in f .. w /\ x = P[w + 1 - n] /\ (w + 1 - n < b <=> s.end <= x)
    BY <1>3, CursorFacts
  <2> DEFINE e == w + 1 - n
  <2> HIDE DEF e
  <2>2. e \in f .. w /\ x = P[e] /\ (e < b <=> s.end <= x)
    BY <2>1 DEF e
  <2>3. P[e] \in Nat /\ P[e] < s.bottom /\ e \in Nat
    <3>1. P[e] \in Nat /\ Q[e] \in Nat /\ P[e] < Q[e] /\ Q[e] <= s.bottom /\ e \in Nat
      BY <2>2, EntryFacts
    <3> QED BY <1>1, <3>1
  <2> QED BY <1>1, <1>3, <2>2, <2>3 DEF Clear, e
<1> QED BY <1>2, <1>3

(* After the end has gone to the beginning all entries lie behind it.      *)
LEMMA Wrap ==
  ASSUME NEW s, NEW f, NEW w, NEW P, NEW Q, NEW b, Good(s, f, w, P, Q, b), s.end # 0,
         NEW n \in Size, s.end + n > log_buf_len,
         w + 1 - s.num >= b, ~doRemoteMail => w + 1 - s.num_to_mail >= b
  PROVE  LET t == [s EXCEPT !.bottom = s.end, !.end = 0] IN Good(t, b, w, P, Q, w + 1)
<1> DEFINE t == [s EXCEPT !.bottom = s.end, !.end = 0]
<1>1. s \in RingType(w) /\ Lies(s, f, w, P, Q, b) /\ Trails(s, s.start, s.num, f, w, P)
      /\ (~doRemoteMail => Trails(s, s.mail_start, s.num_to_mail, f, w, P))
      /\ (doRemoteMail => Mails(s, w, P))
  BY DEF Good
<1>2. /\ w \in Nat /\ f \in Nat \ {0} /\ b \in Nat \ {0} /\ b <= w + 1 /\ b <= w
      /\ s.end \in Nat /\ s.end <= s.bottom /\ s.bottom <= log_buf_len /\ s.bottom \in Nat
      /\ s.num \in Nat /\ s.num_to_mail \in Nat /\ P \in [Nat -> Nat] /\ Q \in [Nat -> Nat]
      /\ f \in 1 .. w + 1 /\ b \in 1 .. w + 1 /\ log_buf_len \in Nat /\ f <= b
  BY <1>1, LiesFacts
<1>3. n \in Nat /\ n <= Max(Size) /\ Max(Size) \in Nat
  BY Lengths
<1> DEFINE end == s.end
<1>0. t = [s EXCEPT !.bottom = end, !.end = 0] /\ end \in Offset /\ 0 \in Offset /\ end = s.end
  BY <1>2 DEF Offset
<1> HIDE DEF t, end
<1>4. /\ t \in RingType(w)
      /\ t.buf = s.buf /\ t.end = 0 /\ t.bottom = s.end
      /\ t.mail_start = s.mail_start /\ t.num_to_mail = s.num_to_mail
      /\ t.tried = s.tried /\ t.skipped = s.skipped /\ t.start = s.start /\ t.num = s.num
  BY <1>0, <1>1 DEF RingType
<1>5. \A e \in b .. w : e \in f .. w
  BY <1>2
<1>6. ASSUME NEW e \in b .. w PROVE EntryLies(t, e, w, P, Q, w + 1)
  <2>1. e \in f .. w /\ e \in Nat /\ e < w + 1 /\ e + 1 # b /\ e >= b /\ ~(e >= w + 1)
    BY <1>2, <1>5
  <2>2. EntryLies(s, e, w, P, Q, b) /\ P[e] \in Nat
    BY <1>1, <2>1, EntryFacts
  <2>3. Q[e] - P[e] \in Size /\ \A o \in P[e] .. Q[e] - 1 : t.buf[o] = [id |-> e, len |-> Q[e] - P[e]]
    BY <1>4, <2>2 DEF EntryLies
  <2>4. t.end <= P[e] /\ Q[e] <= t.bottom
    BY <1>4, <2>1, <2>2 DEF EntryLies
  <2>5. e + 1 = w + 1 => Q[e] = t.bottom
    BY <1>2, <1>4, <2>1, <2>2 DEF EntryLies
  <2>6. e # w => P[e + 1] = IF e + 1 = w + 1 THEN 0 ELSE Q[e]
    <3>1. e # w => P[e + 1] = Q[e]
      BY <2>1, <2>2 DEF EntryLies
    <3>2. e # w => e + 1 # w + 1
      BY <1>2, <2>1
    <3> QED BY <3>1, <3>2
  <2> QED BY <1>2, <2>1, <2>3, <2>4, <2>5, <2>6 DEF EntryLies
<1>7. Lies(t, b, w, P, Q, w + 1)
  <2>1. t.bottom > log_buf_len - Max(Size) /\ t.end <= t.bottom
    BY <1>2, <1>3, <1>4
  <2>2. w + 1 \in 1 .. w + 1 /\ b <= w + 1
    BY <1>2
  <2> QED BY <1>2, <1>4, <1>6, <2>1, <2>2 DEF Lies
<1>8. Trails(t, t.start, t.num, b, w, P)
      /\ (~doRemoteMail => Trails(t, t.mail_start, t.num_to_mail, b, w, P))
  <2>1. s.num <= w + 1 - b /\ (~doRemoteMail => s.num_to_mail <= w + 1 - b)
    BY <1>2
  <2> QED BY <1>1, <1>4, <2>1 DEF Trails
<1>9. doRemoteMail => Mails(t, w, P)
  BY <1>1, <1>4 DEF Mails
<1>10. Good(t, b, w, P, Q, w + 1)
  BY <1>4, <1>7, <1>8, <1>9 DEF Good
<1> QED BY <1>10 DEF t

LEMMA ToBeginningIs ==
  ASSUME NEW s, NEW f, NEW w, NEW P, NEW Q, NEW b, Good(s, f, w, P, Q, b), NEW n \in Size
  PROVE  LET t == ToBeginning(s, n)
         IN  /\ t.end + n <= log_buf_len /\ t.buf = s.buf /\ t.num \in 0 .. s.num
             /\ \/ t = s
                \/ /\ s.end + n > log_buf_len /\ b <= w
                   /\ t.end = 0 /\ t.bottom = s.end /\ w + 1 - t.num >= b
                   /\ Good(t, b, w, P, Q, w + 1)
                   /\ \A e \in w + 1 - s.num .. w - t.num : e < b
<1> DEFINE t == ToBeginning(s, n)
           l == IF s.end <= s.start /\ s.num # 0 THEN LogGivesWay(s, s.bottom) ELSE s
           m == IF l.end <= l.mail_start /\ l.num_to_mail # 0 THEN MailGivesWay(l, l.bottom) ELSE l
<1>1. s \in RingType(w) /\ Lies(s, f, w, P, Q, b) /\ Trails(s, s.start, s.num, f, w, P)
  BY DEF Good
<1>2. /\ w \in Nat /\ f \in Nat \ {0} /\ b \in Nat \ {0} /\ b <= w + 1
      /\ s.end \in Nat /\ s.bottom \in Nat /\ s.start \in Nat /\ s.bottom <= log_buf_len
      /\ s.num \in Nat /\ log_buf_len \in Nat /\ (b = w + 1 => s.end = 0)
  BY <1>1, LiesFacts
<1>3. n \in Nat \ {0} /\ n <= log_buf_len
  <2>1. n \in Nat \ {0} /\ 2 * n <= log_buf_len
    BY Lengths
  <2> QED BY <1>2, <2>1
<1>4. CASE s.end + n <= log_buf_len
  <2>1. t = s
    BY <1>4 DEF ToBeginning
  <2> HIDE DEF t
  <2> QED BY <1>2, <1>4, <2>1 DEF t
<1>5. CASE s.end + n > log_buf_len
  <2>1. s.end # 0 /\ b <= w
    BY <1>2, <1>3, <1>5
  <2>2. t = [m EXCEPT !.bottom = m.end, !.end = 0]
    BY <1>2, <1>3, <1>5 DEF ToBeginning
  <2>3. /\ Good(l, f, w, P, Q, b) /\ l.buf = s.buf /\ l.end = s.end /\ l.bottom = s.bottom
        /\ l.num \in 0 .. s.num /\ w + 1 - l.num >= b
        /\ \A e \in w + 1 - s.num .. w - l.num : e < b
    <3>1. CASE s.end <= s.start /\ s.num # 0
      <4>1. l = LogGivesWay(s, s.bottom)
        BY <3>1
      <4> HIDE DEF l
      <4>2. /\ Good(l, f, w, P, Q, b) /\ l.buf = s.buf /\ l.end = s.end /\ l.bottom = s.bottom
            /\ l.num \in 0 .. s.num /\ w + 1 - l.num <= b
            /\ w + 1 - l.num # b => s.bottom <= P[w + 1 - l.num]
            /\ \A e \in w + 1 - s.num .. w - l.num : e < b
        BY <1>2, <3>1, <4>1, LogGives
      <4>3. Clear(l.num, l.bottom, w, P, b)
        BY <1>2, <4>2 DEF Clear
      <4>4. l \in RingType(w) /\ Lies(l, f, w, P, Q, b) /\ Trails(l, l.start, l.num, f, w, P)
            /\ l.num \in Nat
        BY <1>2, <4>2 DEF Good
      <4>5. w + 1 - l.num >= b
        BY <1>2, <4>2, <4>3, <4>4, ClearFacts
      <4> QED BY <4>2, <4>5
    <3>2. CASE ~(s.end <= s.start /\ s.num # 0)
      <4>1. l = s
        BY <3>2
      <4>2. Clear(s.num, s.bottom, w, P, b)
        BY <1>1, <1>2, <3>2, ClearFacts
      <4>3. w + 1 - s.num >= b
        BY <1>1, <1>2, <4>2, ClearFacts
      <4>4. \A e \in w + 1 - s.num .. w - s.num : FALSE
        BY <1>2
      <4> HIDE DEF l
      <4> QED BY <1>2, <4>1, <4>3, <4>4
    <3> QED BY <3>1, <3>2
  <2> HIDE DEF l
  <2>4. l \in RingType(w) /\ Lies(l, f, w, P, Q, b) /\ l.num_to_mail \in Nat /\ l.mail_start \in Nat
        /\ (~doRemoteMail => Trails(l, l.mail_start, l.num_to_mail, f, w, P))
    <3>1. l \in RingType(w) /\ Lies(l, f, w, P, Q, b)
          /\ (~doRemoteMail => Trails(l, l.mail_start, l.num_to_mail, f, w, P))
      BY <2>3 DEF Good
    <3> QED BY <3>1, LiesFacts
  <2>5. /\ Good(m, f, w, P, Q, b) /\ m.buf = s.buf /\ m.end = s.end /\ m.bottom = s.bottom
        /\ m.num = l.num /\ (~doRemoteMail => w + 1 - m.num_to_mail >= b)
    <3>1. CASE l.end <= l.mail_start /\ l.num_to_mail # 0
      <4>1. m = MailGivesWay(l, l.bottom)
        BY <3>1
      <4> HIDE DEF m
      <4>2. /\ Good(m, f, w, P, Q, b) /\ m.buf = s.buf /\ m.end = s.end /\ m.bottom = s.bottom
            /\ m.num = l.num
            /\ ~doRemoteMail =>
                 /\ w + 1 - m.num_to_mail <= b
                 /\ w + 1 - m.num_to_mail # b => l.bottom <= P[w + 1 - m.num_to_mail]
        <5>1. l.bottom \in Nat
          BY <1>2, <2>3
        <5> QED BY <2>3, <3>1, <4>1, <5>1, MailGives
      <4>3. m \in RingType(w) /\ Lies(m, f, w, P, Q, b) /\ m.num_to_mail \in Nat
            /\ (~doRemoteMail => Trails(m, m.mail_start, m.num_to_mail, f, w, P))
        <5>1. m \in RingType(w) /\ Lies(m, f, w, P, Q, b)
              /\ (~doRemoteMail => Trails(m, m.mail_start, m.num_to_mail, f, w, P))
          BY <4>2 DEF Good
        <5> QED BY <5>1, LiesFacts
      <4>4. ASSUME ~doRemoteMail PROVE w + 1 - m.num_to_mail >= b
        <5>1. Clear(m.num_to_mail, m.bottom, w, P, b)
          BY <1>2, <2>3, <4>2, <4>3, <4>4 DEF Clear
        <5> QED BY <1>2, <4>2, <4>3, <4>4, <5>1, ClearFacts
      <4> QED BY <4>2, <4>4
    <3>2. CASE ~(l.end <= l.mail_start /\ l.num_to_mail # 0)
      <4>1. m = l
        BY <3>2
      <4>2. ASSUME ~doRemoteMail PROVE w + 1 - l.num_to_mail >= b
        <5>1. l.bottom \in Nat
          BY <1>2, <2>3
        <5>2. Clear(l.num_to_mail, l.bottom, w, P, b)
          BY <2>4, <3>2, <4>2, <5>1, ClearFacts
        <5> QED BY <2>4, <4>2, <5>1, <5>2, ClearFacts
      <4> HIDE DEF m
      <4> QED BY <2>3, <4>1, <4>2
    <3> QED BY <3>1, <3>2
  <2> HIDE DEF m, t
  <2>6. Good(t, b, w, P, Q, w + 1)
    <3>1. m.end # 0 /\ m.end + n > log_buf_len /\ w + 1 - m.num >= b
      BY <1>5, <2>1, <2>3, <2>5
    <3> QED BY <2>2, <2>5, <3>1, Wrap
  <2>7. t.end = 0 /\ t.bottom = s.end /\ t.buf = s.buf /\ t.num = l.num
    <3>1. m \in RingType(w)
      BY <2>5 DEF Good
    <3> QED BY <2>2, <2>5, <3>1 DEF RingType
  <2> QED BY <1>2, <1>3, <1>5, <2>1, <2>3, <2>6, <2>7 DEF t
<1> QED BY <1>2, <1>3, <1>4, <1>5

LEMMA ClearedIs ==
  ASSUME NEW s, NEW f, NEW w, NEW P, NEW Q, NEW b, Good(s, f, w, P, Q, b), NEW n \in Size
  PROVE  LET t == Cleared(s, n)
         IN  /\ Good(t, f, w, P, Q, b)
             /\ t.buf = s.buf /\ t.end = s.end /\ t.bottom = s.bottom /\ t.num \in 0 .. s.num
             /\ Clear(t.num, s.end + n, w, P, b)
             /\ ~doRemoteMail => Clear(t.num_to_mail, s.end + n, w, P, b)
             /\ doRemoteMail /\ t.mail_start = t.end => t.num_to_mail = 0
             /\ \A e \in w + 1 - s.num .. w - t.num : e < b /\ P[e] < s.end + n
<1> DEFINE t == Cleared(s, n)
           Meets(cursor) == s.end <= cursor /\ s.end + n > cursor
           l == IF Meets(s.start) /\ s.num # 0 THEN LogGivesWay(s, s.end + n) ELSE s
           limit == s.end + n
<1>1. s \in RingType(w) /\ Lies(s, f, w, P, Q, b) /\ Trails(s, s.start, s.num, f, w, P)
  BY DEF Good
<1>2. /\ w \in Nat /\ b \in Nat \ {0} /\ s.end \in Nat /\ s.start \in Nat
      /\ s.num \in Nat /\ n \in Nat \ {0} /\ limit \in Nat
  <2>1. w \in Nat /\ b \in Nat \ {0} /\ s.end \in Nat /\ s.start \in Nat /\ s.num \in Nat
    BY <1>1, LiesFacts
  <2>2. n \in Nat \ {0}
    BY Lengths
  <2> QED BY <2>1, <2>2
<1>3. t = IF Meets(l.mail_start) /\ l.num_to_mail # 0 THEN MailGivesWay(l, l.end + n) ELSE l
  BY DEF Cleared
<1>4. /\ Good(l, f, w, P, Q, b) /\ l.buf = s.buf /\ l.end = s.end /\ l.bottom = s.bottom
      /\ l.num \in 0 .. s.num /\ Clear(l.num, limit, w, P, b)
      /\ \A e \in w + 1 - s.num .. w - l.num : e < b /\ P[e] < limit
  <2>1. CASE Meets(s.start) /\ s.num # 0
    <3>1. l = LogGivesWay(s, limit)
      BY <2>1
    <3> HIDE DEF l, limit
    <3>2. /\ Good(l, f, w, P, Q, b) /\ l.buf = s.buf /\ l.end = s.end /\ l.bottom = s.bottom
          /\ l.num \in 0 .. s.num /\ w + 1 - l.num <= b
          /\ w + 1 - l.num # b => limit <= P[w + 1 - l.num]
          /\ \A e \in w + 1 - s.num .. w - l.num : P[e] < limit /\ e < b
      BY <1>2, <2>1, <3>1, LogGives
    <3>3. Clear(l.num, limit, w, P, b)
      BY <1>2, <3>2 DEF Clear
    <3> QED BY <3>2, <3>3
  <2>2. CASE ~(Meets(s.start) /\ s.num # 0)
    <3>1. l = s
      BY <2>2
    <3>2. Clear(s.num, limit, w, P, b)
      <4>1. ~(s.end <= s.start /\ limit > s.start /\ s.num # 0)
        BY <2>2
      <4> HIDE DEF limit
      <4> QED BY <1>1, <1>2, <4>1, ClearFacts
    <3>3. \A e \in w + 1 - s.num .. w - s.num : FALSE
      BY <1>2
    <3> HIDE DEF l, limit
    <3> QED BY <1>2, <3>1, <3>2, <3>3
  <2> QED BY <2>1, <2>2
<1> HIDE DEF l
<1>5. l \in RingType(w) /\ Lies(l, f, w, P, Q, b) /\ l.num_to_mail \in Nat /\ l.mail_start \in Nat
      /\ (~doRemoteMail => Trails(l, l.mail_start, l.num_to_mail, f, w, P))
  <2>1. l \in RingType(w) /\ Lies(l, f, w, P, Q, b)
        /\ (~doRemoteMail => Trails(l, l.mail_start, l.num_to_mail, f, w, P))
    BY <1>4 DEF Good
  <2> QED BY <2>1, LiesFacts
<1>6. /\ Good(t, f, w, P, Q, b) /\ t.buf = s.buf /\ t.end = s.end /\ t.bottom = s.bottom
      /\ t.num = l.num /\ (~doRemoteMail => Clear(t.num_to_mail, limit, w, P, b))
      /\ (doRemoteMail /\ t.mail_start = t.end => t.num_to_mail = 0)
  <2>1. CASE Meets(l.mail_start) /\ l.num_to_mail # 0
    <3>1. t = MailGivesWay(l, limit)
      BY <1>3, <1>4, <2>1
    <3>0. l.end <= l.mail_start
      BY <1>4, <2>1
    <3> HIDE DEF t, limit
    <3>2. /\ Good(t, f, w, P, Q, b) /\ t.buf = s.buf /\ t.end = s.end /\ t.bottom = s.bottom
          /\ t.num = l.num
          /\ doRemoteMail => t.num_to_mail = 0
          /\ ~doRemoteMail =>
               /\ w + 1 - t.num_to_mail <= b
               /\ w + 1 - t.num_to_mail # b => limit <= P[w + 1 - t.num_to_mail]
      BY <1>2, <1>4, <2>1, <3>0, <3>1, MailGives
    <3>3. t.num_to_mail \in Nat
      <4>1. t \in RingType(w) /\ Lies(t, f, w, P, Q, b)
        BY <3>2 DEF Good
      <4> QED BY <4>1, LiesFacts
    <3>4. ~doRemoteMail => Clear(t.num_to_mail, limit, w, P, b)
      BY <1>2, <3>2, <3>3 DEF Clear
    <3> QED BY <3>2, <3>4
  <2>2. CASE ~(Meets(l.mail_start) /\ l.num_to_mail # 0)
    <3>1. t = l
      BY <1>3, <2>2
    <3>2. ~(l.end <= l.mail_start /\ limit > l.mail_start /\ l.num_to_mail # 0)
      BY <1>4, <2>2
    <3> HIDE DEF t
    <3>3. ASSUME ~doRemoteMail PROVE Clear(l.num_to_mail, limit, w, P, b)
      <4> HIDE DEF limit
      <4> QED BY <1>2, <1>5, <3>2, <3>3, ClearFacts
    <3>4. l.mail_start = l.end => l.num_to_mail = 0
      BY <1>2, <1>4, <3>2
    <3> QED BY <1>4, <3>1, <3>3, <3>4
  <2> QED BY <2>1, <2>2
<1> HIDE DEF t
<1> QED BY <1>4, <1>6 DEF t

LEMMA FilledIs ==
  ASSUME NEW s, NEW f, NEW w, NEW P, NEW Q, NEW b, Good(s, f, w, P, Q, b), NEW n \in Size,
         s.end + n <= log_buf_len, w + 1 <= MaxEvents,
         Clear(s.num, s.end + n, w, P, b),
         ~doRemoteMail => Clear(s.num_to_mail, s.end + n, w, P, b),
         doRemoteMail /\ s.mail_start = s.end => s.num_to_mail = 0
  PROVE  LET t == Filled(s, n, w + 1)
         IN  /\ \E g, P2, Q2 : Good(t, g, w + 1, P2, Q2, b)
             /\ t.num = s.num + 1 /\ t.end # 0 /\ t.end \in Nat
<1> DEFINE t == Filled(s, n, w + 1)
           limit == s.end + n
           T == {e \in f .. b : e >= b \/ limit <= P[e]}
           g == Min(T)
           P2 == [P EXCEPT ![w + 1] = s.end]
           Q2 == [Q EXCEPT ![w + 1] = limit]
<1>1. s \in RingType(w) /\ Lies(s, f, w, P, Q, b) /\ Trails(s, s.start, s.num, f, w, P)
      /\ (~doRemoteMail => Trails(s, s.mail_start, s.num_to_mail, f, w, P))
      /\ (doRemoteMail => Mails(s, w, P))
  BY DEF Good
<1>2. /\ w \in Nat /\ f \in Nat \ {0} /\ b \in Nat \ {0} /\ b <= w + 1 /\ f <= b
      /\ s.end \in Nat /\ s.bottom \in Nat /\ s.end <= s.bottom /\ s.bottom <= log_buf_len
      /\ s.num \in Nat /\ s.num_to_mail \in Nat /\ s.bottom > log_buf_len - Max(Size)
      /\ (b = w + 1 => s.end = 0) /\ P \in [Nat -> Nat] /\ Q \in [Nat -> Nat]
      /\ log_buf_len \in Nat
  BY <1>1, LiesFacts
<1>3. n \in Nat \ {0} /\ n \in Size /\ MaxEvents \in Nat /\ Max(Size) \in Nat
      /\ s.buf \in [0 .. log_buf_len - 1 -> Unit]
  BY <1>1, Lengths, RingFields
<1>4. limit \in Nat /\ limit # 0 /\ limit <= log_buf_len /\ s.end < limit /\ limit - s.end = n
      /\ s.end + n - 1 = limit - 1
  <2>1. n \in Nat /\ n # 0 /\ s.end \in Nat /\ log_buf_len \in Nat
    BY <1>2, <1>3
  <2> QED BY <2>1
<1>0. /\ limit = s.end + n /\ Clear(s.num, limit, w, P, b)
      /\ (~doRemoteMail => Clear(s.num_to_mail, limit, w, P, b))
  OBVIOUS
<1> HIDE DEF limit
<1>9. /\ P2 \in [Nat -> Nat] /\ Q2 \in [Nat -> Nat] /\ P2[w + 1] = s.end /\ Q2[w + 1] = limit
      /\ \A e \in Nat : e # w + 1 => P2[e] = P[e] /\ Q2[e] = Q[e]
  BY <1>2, <1>4
<1> HIDE DEF P2, Q2
<1>5. g \in T /\ \A e \in T : g <= e
  <2>1. T \in SUBSET Nat /\ b \in T
    BY <1>2
  <2> HIDE DEF T
  <2> QED BY <2>1, MinIs
<1>6. g \in f .. b /\ (g # b => limit <= P[g]) /\ g \in Nat /\ g <= b /\ f <= g
  <2>1. \A e \in T : e \in f .. b /\ (e # b => limit <= P[e]) /\ e \in Nat /\ e <= b /\ f <= e
    BY <1>2
  <2> HIDE DEF g, T
  <2> QED BY <1>5, <2>1
<1> HIDE DEF g
<1>7. ASSUME NEW e \in g .. w
      PROVE  e \in f .. w /\ (e < b => limit <= P[e]) /\ P2[e] = P[e] /\ Q2[e] = Q[e] /\ e \in Nat
  <2>1. e \in f .. w /\ e \in Nat /\ e # w + 1 /\ e >= g
    <3> QED BY <1>2, <1>6
  <2>2. ASSUME e < b PROVE limit <= P[e]
    <3>1. CASE e = g
      <4> QED BY <1>2, <1>6, <2>2, <3>1
    <3>2. CASE e # g
      <4>1. g \in f .. w /\ e \in g + 1 .. w /\ g # b
        <5> QED BY <1>2, <1>6, <2>1, <2>2, <3>2
      <4>2. Q[g] <= P[e] /\ P[g] < Q[g]
        BY <1>1, <2>2, <4>1, Rising, EntryFacts
      <4>3. P[g] \in Nat /\ P[e] \in Nat /\ Q[g] \in Nat
        BY <1>2, <1>6, <2>1
      <4> QED BY <1>4, <1>6, <4>1, <4>2, <4>3
    <3> QED BY <3>1, <3>2
  <2> QED BY <1>2, <1>9, <2>1, <2>2
<1> DEFINE buf == [o \in DOMAIN s.buf |->
                    IF o \in s.end .. s.end + n - 1 THEN [id |-> w + 1, len |-> n] ELSE s.buf[o]]
<1>8. /\ t.buf = buf
      /\ t.end = limit /\ t.bottom = (IF limit > s.bottom THEN limit ELSE s.bottom)
      /\ t.num = s.num + 1 /\ t.num_to_mail = s.num_to_mail + 1
      /\ t.start = s.start /\ t.mail_start = s.mail_start
      /\ t.tried = s.tried /\ t.skipped = s.skipped
      /\ t \in RingType(w + 1)
  <2> DEFINE bottom == IF limit > s.bottom THEN limit ELSE s.bottom
  <2>1. t = [s EXCEPT !.buf = buf, !.end = limit, !.bottom = bottom,
                      !.num = s.num + 1, !.num_to_mail = s.num_to_mail + 1]
    <3>1. t = [s EXCEPT !.buf = buf, !.end = s.end + n, !.bottom = IF s.end + n > s.bottom THEN s.end + n ELSE s.bottom,
                        !.num = s.num + 1, !.num_to_mail = s.num_to_mail + 1]
      BY <1>1 DEF Filled, RingType
    <3>2. bottom = IF s.end + n > s.bottom THEN s.end + n ELSE s.bottom
      BY <1>0
    <3> HIDE DEF buf, bottom, t
    <3> QED BY <1>0, <3>1, <3>2
  <2>2. buf \in [0 .. log_buf_len - 1 -> Unit]
    <3>1. [id |-> w + 1, len |-> n] \in Unit
      BY <1>2, <1>3 DEF Unit
    <3>2. DOMAIN s.buf = 0 .. log_buf_len - 1 /\ \A o \in DOMAIN s.buf : buf[o] \in Unit
      BY <1>3, <3>1
    <3>3. buf \in [DOMAIN s.buf -> Unit]
      BY <3>2
    <3> HIDE DEF buf
    <3> QED BY <3>2, <3>3
  <2>3. limit \in Offset /\ bottom \in Offset /\ s.num + 1 \in Nat /\ s.num_to_mail + 1 \in Nat
    <3>1. limit \in Offset /\ s.bottom \in Offset
      BY <1>2, <1>4 DEF Offset
    <3> QED BY <1>2, <3>1
  <2>4. 1 .. w \subseteq 1 .. w + 1
    BY <1>2
  <2> HIDE DEF buf, bottom, t
  <2>5. /\ t.buf = buf /\ t.end = limit /\ t.bottom = bottom
        /\ t.num = s.num + 1 /\ t.num_to_mail = s.num_to_mail + 1
        /\ t.start = s.start /\ t.mail_start = s.mail_start
        /\ t.tried = s.tried /\ t.skipped = s.skipped
        /\ t \in RingType(w + 1)
    BY <1>1, <2>1, <2>2, <2>3, <2>4 DEF RingType
  <2> QED BY <2>5 DEF bottom
<1>18. \A o \in 0 .. log_buf_len - 1 :
         t.buf[o] = IF o \in s.end .. limit - 1 THEN [id |-> w + 1, len |-> n] ELSE s.buf[o]
  <2>1. DOMAIN s.buf = 0 .. log_buf_len - 1
    BY <1>3
  <2>2. \A o \in DOMAIN s.buf :
          buf[o] = IF o \in s.end .. limit - 1 THEN [id |-> w + 1, len |-> n] ELSE s.buf[o]
    BY <1>4
  <2> HIDE DEF t, buf
  <2> QED BY <1>8, <2>1, <2>2
<1> HIDE DEF buf
<1> HIDE DEF t
<1>10. ASSUME NEW e \in g .. w PROVE EntryLies(t, e, w + 1, P2, Q2, b)
  <2>1. EntryLies(s, e, w, P, Q, b) /\ P[e] \in Nat /\ Q[e] \in Nat /\ P[e] < Q[e] /\ Q[e] <= s.bottom
        /\ P[e] \in 0 .. log_buf_len - 1 /\ (e < b <=> s.end <= P[e])
    BY <1>1, <1>7, EntryFacts
  <2>2. e \in Nat /\ P2[e] = P[e] /\ Q2[e] = Q[e] /\ (e < b => limit <= P[e]) /\ e <= w /\ e # w + 1
    BY <1>2, <1>7
  <2>3. Q2[e] - P2[e] \in Size
    BY <2>1, <2>2 DEF EntryLies
  <2>4. ASSUME NEW o \in P2[e] .. Q2[e] - 1 PROVE t.buf[o] = [id |-> e, len |-> Q2[e] - P2[e]]
    <3>1. o \in P[e] .. Q[e] - 1 /\ o \in 0 .. log_buf_len - 1
      BY <1>2, <2>1, <2>2
    <3>2. s.buf[o] = [id |-> e, len |-> Q[e] - P[e]]
      BY <2>1, <3>1 DEF EntryLies
    <3>3. o \notin s.end .. limit - 1
      <4>1. CASE e < b
        BY <1>2, <1>4, <2>1, <2>2, <3>1, <4>1
      <4>2. CASE ~(e < b)
        <5>1. Q[e] <= s.end
          BY <1>2, <2>1, <2>2, <4>2 DEF EntryLies
        <5> QED BY <1>2, <1>4, <2>1, <3>1, <5>1
      <4> QED BY <4>1, <4>2
    <3> QED BY <1>18, <2>2, <3>1, <3>2, <3>3
  <2>5. e >= b => Q2[e] <= t.end
    <3> SUFFICES ASSUME e >= b PROVE Q[e] <= t.end
      BY <2>2
    <3>1. Q[e] <= s.end
      BY <2>1 DEF EntryLies
    <3> QED BY <1>2, <1>4, <1>8, <2>1, <3>1
  <2>6. e < b => t.end <= P2[e] /\ Q2[e] <= t.bottom
    BY <1>2, <1>4, <1>8, <2>1, <2>2
  <2>7. e + 1 = b => Q2[e] = t.bottom
    <3> SUFFICES ASSUME e + 1 = b PROVE Q[e] = t.bottom
      BY <2>2
    <3>1. Q[e] = s.bottom /\ e < b
      BY <1>2, <2>1, <2>2 DEF EntryLies
    <3>2. limit <= s.bottom
      BY <1>2, <1>4, <2>1, <2>2, <3>1
    <3> QED BY <1>2, <1>4, <1>8, <3>1, <3>2
  <2>8. P2[e + 1] = IF e + 1 = b THEN 0 ELSE Q2[e]
    <3>1. CASE e # w
      <4>1. e + 1 \in g .. w
        BY <1>2, <1>6, <3>1
      <4>2. P2[e + 1] = P[e + 1]
        BY <1>7, <4>1
      <4>3. P[e + 1] = IF e + 1 = b THEN 0 ELSE Q[e]
        BY <2>1, <3>1 DEF EntryLies
      <4> QED BY <2>2, <4>2, <4>3
    <3>2. CASE e = w
      <4>1. e + 1 # b => b <= w
        BY <1>2, <3>2
      <4>2. e + 1 # b => Q[e] = s.end
        BY <2>1, <3>2, <4>1 DEF EntryLies
      <4> QED BY <1>2, <1>9, <2>2, <3>2, <4>2
    <3> QED BY <3>1, <3>2
  <2> QED BY <2>2, <2>3, <2>4, <2>5, <2>6, <2>7, <2>8 DEF EntryLies
<1>11. EntryLies(t, w + 1, w + 1, P2, Q2, b)
  <2>1. Q2[w + 1] - P2[w + 1] = n
    BY <1>4, <1>9
  <2>2. ASSUME NEW o \in P2[w + 1] .. Q2[w + 1] - 1
        PROVE  t.buf[o] = [id |-> w + 1, len |-> Q2[w + 1] - P2[w + 1]]
    <3>1. o \in s.end .. limit - 1 /\ o \in 0 .. log_buf_len - 1
      <4> QED BY <1>2, <1>4, <1>9
    <3> QED BY <1>18, <2>1, <3>1
  <2>3. Q2[w + 1] = t.end /\ Q2[w + 1] <= t.end /\ ~(w + 1 < b) /\ (w + 1) + 1 # b
    BY <1>2, <1>4, <1>8, <1>9
  <2> QED BY <1>3, <2>1, <2>2, <2>3 DEF EntryLies
<1>12. Lies(t, g, w + 1, P2, Q2, b)
  <2>1. \A e \in g .. w + 1 : e \in g .. w \/ e = w + 1
    BY <1>2, <1>6
  <2>2. \A e \in g .. w + 1 : EntryLies(t, e, w + 1, P2, Q2, b)
    BY <1>10, <1>11, <2>1
  <2>3. w + 1 \in Nat /\ g \in 1 .. (w + 1) + 1 /\ b \in 1 .. (w + 1) + 1 /\ g <= b
        /\ b # (w + 1) + 1
    BY <1>2, <1>6
  <2>4. t.end <= t.bottom /\ t.bottom > log_buf_len - Max(Size)
    <3>1. t.end = limit /\ t.bottom = (IF limit > s.bottom THEN limit ELSE s.bottom)
      BY <1>8
    <3>2. Max(Size) \in Nat
      BY <1>3
    <3> QED BY <1>2, <1>4, <3>1, <3>2
  <2> QED BY <1>9, <2>2, <2>3, <2>4 DEF Lies
<1>13. ASSUME NEW x, NEW k \in Nat, Trails(s, x, k, f, w, P), Clear(k, limit, w, P, b)
       PROVE  Trails(t, x, k + 1, g, w + 1, P2)
  <2>1. k <= w + 1 - f /\ (k # 0 => x = P[w + 1 - k]) /\ (k = 0 => x = 0 /\ s.end = 0)
    BY <1>13 DEF Trails
  <2>2. w + 1 - k >= g
    <3>1. CASE w + 1 - k >= b
      BY <1>2, <1>6, <3>1
    <3>2. CASE ~(w + 1 - k >= b)
      <4> DEFINE e == w + 1 - k
      <4>1. limit <= P[e]
        BY <1>13, <3>2 DEF Clear
      <4>2. e \in f .. b
        BY <1>2, <2>1, <3>2
      <4> HIDE DEF e
      <4>3. e \in T
        BY <4>1, <4>2
      <4>4. g <= e
        BY <1>5, <4>3
      <4> QED BY <1>2, <1>6, <4>2, <4>4 DEF e
    <3> QED BY <3>1, <3>2
  <2>3. k + 1 <= (w + 1) + 1 - g /\ (w + 1) + 1 - (k + 1) = w + 1 - k /\ k + 1 # 0
    BY <1>2, <1>6, <2>2
  <2>4. x = P2[w + 1 - k]
    <3>1. CASE k = 0
      BY <1>2, <1>9, <2>1, <3>1
    <3>2. CASE k # 0
      <4>1. w + 1 - k \in g .. w
        BY <1>2, <1>6, <2>2, <3>2
      <4> QED BY <1>7, <2>1, <3>2, <4>1
    <3> QED BY <3>1, <3>2
  <2> QED BY <2>3, <2>4 DEF Trails
<1>14. Trails(t, t.start, t.num, g, w + 1, P2)
       /\ (~doRemoteMail => Trails(t, t.mail_start, t.num_to_mail, g, w + 1, P2))
  <2>1. Trails(t, s.start, s.num + 1, g, w + 1, P2)
    BY <1>0, <1>1, <1>2, <1>13
  <2>2. ~doRemoteMail => Trails(t, s.mail_start, s.num_to_mail + 1, g, w + 1, P2)
    BY <1>0, <1>1, <1>2, <1>13
  <2> QED BY <1>8, <2>1, <2>2
<1>15. doRemoteMail => Mails(t, w + 1, P2)
  <2> SUFFICES ASSUME doRemoteMail PROVE Mails(t, w + 1, P2)
    OBVIOUS
  <2>1. s.num_to_mail <= w /\ \A e \in w + 1 - s.num .. w :
          /\ P[e] = s.mail_start => e <= w + 1 - s.num_to_mail
          /\ e <= w - s.num_to_mail => e \in s.tried \cup s.skipped
    BY <1>1 DEF Mails
  <2>2. ASSUME NEW e \in (w + 1) + 1 - (s.num + 1) .. w + 1
        PROVE  /\ P2[e] = s.mail_start => e <= (w + 1) + 1 - (s.num_to_mail + 1)
               /\ e <= (w + 1) - (s.num_to_mail + 1) => e \in s.tried \cup s.skipped
    <3>1. CASE e = w + 1
      BY <1>2, <1>9, <3>1
    <3>2. CASE e # w + 1
      <4>1. e \in w + 1 - s.num .. w
        BY <1>2, <3>2
      <4>2. w + 1 - s.num >= g
        <5>1. t.num <= (w + 1) + 1 - g
          BY <1>14 DEF Trails
        <5> QED BY <1>2, <1>6, <1>8, <5>1
      <4>3. e \in g .. w
        BY <1>2, <1>6, <4>1, <4>2
      <4>4. P2[e] = P[e] /\ e \in Nat
        BY <1>7, <4>3
      <4> QED BY <1>2, <2>1, <4>1, <4>4
    <3> QED BY <3>1, <3>2
  <2>3. s.num_to_mail + 1 <= w + 1
    BY <1>2, <2>1
  <2> QED BY <1>8, <2>2, <2>3 DEF Mails
<1>16. Good(t, g, w + 1, P2, Q2, b)
  BY <1>8, <1>12, <1>14, <1>15 DEF Good
<1>17. \E g2, P3, Q3 : Good(t, g2, w + 1, P3, Q3, b)
  BY <1>16
<1> QED BY <1>4, <1>8, <1>17 DEF t

LEMMA CountedIs ==
  ASSUME NEW s, NEW f, NEW w, NEW P, NEW Q, NEW b, Good(s, f, w, P, Q, b)
  PROVE  LET t == Counted(s)
         IN  /\ Good(t, f, w, P, Q, b)
             /\ t.buf = s.buf /\ t.end = s.end /\ t.bottom = s.bottom
             /\ t.num = IF s.num > log_count_max THEN s.num - 1 ELSE s.num
<1> DEFINE t == Counted(s)
<1>1. s \in RingType(w) /\ Lies(s, f, w, P, Q, b) /\ Trails(s, s.start, s.num, f, w, P)
      /\ (~doRemoteMail => Trails(s, s.mail_start, s.num_to_mail, f, w, P))
      /\ (doRemoteMail => Mails(s, w, P))
  BY DEF Good
<1>2. w \in Nat /\ f \in Nat \ {0} /\ s.num \in Nat /\ log_count_max \in Nat \ {0}
  BY <1>1, LiesFacts, Lengths
<1>3. CASE ~(s.num > log_count_max)
  BY <1>3 DEF Counted
<1>4. CASE s.num > log_count_max
  <2> DEFINE e == w + 1 - s.num
             y == Wrapped(s, s.start + s.buf[s.start].len)
  <2>1. e \in f .. w /\ s.start = P[e] /\ e # w /\ e + 1 = w + 1 - (s.num - 1) /\ s.num - 1 \in Nat \ {0}
    BY <1>1, <1>2, <1>4, CursorFacts
  <2>2. e + 1 \in f .. w
    BY <1>2, <2>1
  <2> HIDE DEF e
  <2>3. y = P[e + 1]
    BY <1>1, <2>1, PlaceStep
  <2>4. y \in Offset
    BY <1>1, <2>2, <2>3, EntryFacts, LiesFacts DEF Offset
  <2>5. t = [s EXCEPT !.start = y, !.num = s.num - 1]
    BY <1>1, <1>4 DEF Counted, RingType
  <2> HIDE DEF t, y
  <2>6. /\ t \in RingType(w)
        /\ t.buf = s.buf /\ t.end = s.end /\ t.bottom = s.bottom
        /\ t.mail_start = s.mail_start /\ t.num_to_mail = s.num_to_mail
        /\ t.tried = s.tried /\ t.skipped = s.skipped /\ t.start = y /\ t.num = s.num - 1
    BY <1>1, <2>1, <2>4, <2>5 DEF RingType
  <2>7. Lies(t, f, w, P, Q, b)
    BY <1>1, <2>6, LiesSame
  <2>8. Trails(t, t.start, t.num, f, w, P)
    <3>1. s.num - 1 <= w + 1 - f /\ y = P[w + 1 - (s.num - 1)] /\ s.num - 1 # 0
      <4>1. s.num <= w + 1 - f
        BY <1>1 DEF Trails
      <4> QED BY <1>2, <2>1, <2>3, <4>1
    <3> QED BY <2>6, <3>1 DEF Trails
  <2>9. ~doRemoteMail => Trails(t, t.mail_start, t.num_to_mail, f, w, P)
    BY <1>1, <2>6 DEF Trails
  <2>10. doRemoteMail => Mails(t, w, P)
    <3>1. w + 1 - t.num .. w \subseteq w + 1 - s.num .. w
      BY <1>2, <2>6
    <3> QED BY <1>1, <2>6, <3>1 DEF Mails
  <2>11. Good(t, f, w, P, Q, b)
    BY <2>6, <2>7, <2>8, <2>9, <2>10 DEF Good
  <2> QED BY <1>4, <2>6, <2>11 DEF t
<1> QED BY <1>3, <1>4

(* A mail of what has not been mailed, after which nothing remains.        *)
LEMMA AfterMail ==
  ASSUME NEW s, NEW f, NEW w, NEW P, NEW Q, NEW b, Good(s, f, w, P, Q, b), doRemoteMail
  PROVE  LET t == ResetMailEvent(EventSendMail(s, FindMailEvent(s)))
         IN  /\ Good(t, f, w, P, Q, b)
             /\ t.buf = s.buf /\ t.end = s.end /\ t.bottom = s.bottom
             /\ t.start = s.start /\ t.num = s.num /\ t.num_to_mail = 0
<1> DEFINE t == ResetMailEvent(EventSendMail(s, FindMailEvent(s)))
           u == EventSendMail(s, FindMailEvent(s))
<1>1. s \in RingType(w) /\ Lies(s, f, w, P, Q, b) /\ Trails(s, s.start, s.num, f, w, P)
  BY DEF Good
<1>2. w \in Nat /\ s.num \in Nat /\ s.end \in Offset
  BY <1>1, LiesFacts DEF Offset
<1>3. /\ Good(u, f, w, P, Q, b)
      /\ u.buf = s.buf /\ u.end = s.end /\ u.bottom = s.bottom
      /\ u.start = s.start /\ u.num = s.num
      /\ \A e \in w + 1 - s.num .. w : e \in u.tried \cup u.skipped
  BY SendIs
<1>4. t = [u EXCEPT !.mail_start = u.end, !.num_to_mail = 0]
  BY DEF ResetMailEvent
<1> HIDE DEF t, u
<1>5. u \in RingType(w)
  BY <1>3 DEF Good
<1>6. /\ t \in RingType(w)
      /\ t.buf = s.buf /\ t.end = s.end /\ t.bottom = s.bottom
      /\ t.start = s.start /\ t.num = s.num /\ t.num_to_mail = 0
      /\ t.tried = u.tried /\ t.skipped = u.skipped
  BY <1>2, <1>3, <1>4, <1>5 DEF RingType
<1>7. Lies(t, f, w, P, Q, b)
  BY <1>1, <1>6, LiesSame
<1>8. Trails(t, t.start, t.num, f, w, P)
  BY <1>1, <1>6 DEF Trails
<1>9. Mails(t, w, P)
  <2>1. \A e \in w + 1 - s.num .. w : e <= w + 1 - 0
    BY <1>2
  <2> QED BY <1>2, <1>3, <1>6, <2>1 DEF Mails
<1>10. Good(t, f, w, P, Q, b)
  BY <1>6, <1>7, <1>8, <1>9 DEF Good
<1> QED BY <1>6, <1>10 DEF t

LEMMA MailedIs ==
  ASSUME NEW s, NEW f, NEW w, NEW P, NEW Q, NEW b, Good(s, f, w, P, Q, b)
  PROVE  LET t == Mailed(s)
         IN  Good(t, f, w, P, Q, b) /\ t.buf = s.buf /\ t.end = s.end /\ t.num = s.num
<1>1. CASE doRemoteMail /\ s.num_to_mail >= log_mail_thresh
  BY <1>1, AfterMail DEF Mailed
<1>2. CASE ~(doRemoteMail /\ s.num_to_mail >= log_mail_thresh)
  BY <1>2 DEF Mailed
<1> QED BY <1>1, <1>2

-----------------------------------------------------------------------------
(* The inductive invariant.                                                *)
LEMMA RingInit == Init => RingInv
<1> SUFFICES ASSUME Init PROVE RingInv
  OBVIOUS
<1> DEFINE P == [e \in Nat |-> 0]
           Q == [e \in Nat |-> 0]
<1>1. log_buf_len \in Nat \ {0} /\ Max(Size) \in Nat \ {0} /\ MaxEvents \in Nat /\ log_count_max \in Nat
  BY Lengths
<1>2. lc = [buf |-> [o \in 0 .. log_buf_len - 1 |-> [id |-> 0, len |-> 1]],
            start |-> 0, end |-> 0, bottom |-> log_buf_len, num |-> 0,
            mail_start |-> 0, num_to_mail |-> 0, tried |-> {}, skipped |-> {}]
      /\ written = 0 /\ doRemoteMail \in BOOLEAN
  BY DEF Init, ResetEvent
<1>3. lc \in RingType(0)
  <2>1. [id |-> 0, len |-> 1] \in Unit
    BY <1>1 DEF Unit
  <2>2. [o \in 0 .. log_buf_len - 1 |-> [id |-> 0, len |-> 1]] \in [0 .. log_buf_len - 1 -> Unit]
    BY <2>1
  <2>3. 0 \in Offset /\ log_buf_len \in Offset
    BY <1>1 DEF Offset
  <2> QED BY <1>2, <2>2, <2>3 DEF RingType
<1>4. Lies(lc, 1, 0, P, Q, 1)
  <2>1. \A e \in 1 .. 0 : EntryLies(lc, e, 0, P, Q, 1)
    OBVIOUS
  <2>2. P \in [Nat -> Nat] /\ Q \in [Nat -> Nat]
    OBVIOUS
  <2> HIDE DEF P, Q
  <2>3. lc.end = 0 /\ lc.bottom = log_buf_len
    BY <1>2
  <2>4. 0 <= log_buf_len /\ log_buf_len > log_buf_len - Max(Size) /\ 0 \in Nat /\ 1 \in 1 .. 0 + 1
    BY <1>1
  <2> QED BY <2>1, <2>2, <2>3, <2>4 DEF Lies
<1> HIDE DEF P, Q
<1>5. Trails(lc, lc.start, lc.num, 1, 0, P) /\ Trails(lc, lc.mail_start, lc.num_to_mail, 1, 0, P)
  BY <1>2 DEF Trails
<1>6. Mails(lc, 0, P)
  <2>1. lc.num = 0 /\ lc.num_to_mail = 0
    BY <1>2
  <2>2. \A e \in 0 + 1 - 0 .. 0 : FALSE
    OBVIOUS
  <2> QED BY <2>1, <2>2 DEF Mails
<1>7. Good(lc, 1, 0, P, Q, 1)
  BY <1>3, <1>4, <1>5, <1>6 DEF Good
<1>8. lc.num = 0 /\ 0 \in 0 .. MaxEvents /\ 0 <= log_count_max
  BY <1>1, <1>2
<1> QED BY <1>2, <1>7, <1>8 DEF RingInv

LEMMA RingPrimed ==
  ASSUME doRemoteMail' = doRemoteMail, doRemoteMail \in BOOLEAN, written' \in 0 .. MaxEvents,
         \E f, P, Q, b : Good(lc', f, written', P, Q, b),
         lc'.end = 0 => lc'.num = 0, lc'.num <= log_count_max
  PROVE  RingInv'
<1>1. PICK f, P, Q, b : Good(lc', f, written', P, Q, b)
  OBVIOUS
<1>2. Good(lc, f, written, P, Q, b)'
  BY <1>1 DEF Good
<1> QED BY <1>2 DEF RingInv

LEMMA ClearStep == RingInv /\ ClearLog => RingInv'
<1> SUFFICES ASSUME RingInv, ClearLog PROVE RingInv'
  OBVIOUS
<1> DEFINE w == written
           P == [e \in Nat |-> 0]
           Q == [e \in Nat |-> 0]
<1>1. log_buf_len \in Nat \ {0} /\ Max(Size) \in Nat \ {0} /\ MaxEvents \in Nat /\ log_count_max \in Nat
  BY Lengths
<1>2. w \in 0 .. MaxEvents /\ lc \in RingType(w) /\ doRemoteMail \in BOOLEAN /\ w \in Nat
  BY DEF RingInv, Good, Lies
<1>3. doRemoteMail' = doRemoteMail /\ written' = w /\ lc' = ResetEvent(lc)
  BY DEF ClearLog
<1>4. /\ lc' \in RingType(w) /\ lc'.start = 0 /\ lc'.end = 0 /\ lc'.bottom = log_buf_len /\ lc'.num = 0
      /\ lc'.mail_start = 0 /\ lc'.num_to_mail = 0
  <2>1. [id |-> 0, len |-> 1] \in Unit
    BY <1>1 DEF Unit
  <2> DEFINE buf == [o \in 0 .. log_buf_len - 1 |-> [id |-> 0, len |-> 1]]
  <2>2. buf \in [0 .. log_buf_len - 1 -> Unit]
    BY <2>1
  <2>3. 0 \in Offset /\ log_buf_len \in Offset
    BY <1>1 DEF Offset
  <2>4. lc' = [lc EXCEPT !.buf = buf, !.start = 0, !.end = 0, !.bottom = log_buf_len, !.num = 0,
                         !.mail_start = 0, !.num_to_mail = 0]
    BY <1>3 DEF ResetEvent
  <2> HIDE DEF buf, w
  <2> QED BY <1>2, <2>2, <2>3, <2>4 DEF RingType
<1>5. Lies(lc', w + 1, w, P, Q, w + 1)
  <2>1. \A e \in w + 1 .. w : EntryLies(lc', e, w, P, Q, w + 1)
    BY <1>2
  <2>2. P \in [Nat -> Nat] /\ Q \in [Nat -> Nat]
    OBVIOUS
  <2> HIDE DEF P, Q, w
  <2>3. w + 1 \in 1 .. w + 1 /\ log_buf_len > log_buf_len - Max(Size) /\ 0 <= log_buf_len
    BY <1>1, <1>2
  <2> QED BY <1>2, <1>4, <2>1, <2>2, <2>3 DEF Lies
<1> HIDE DEF P, Q, w
<1>6. /\ Trails(lc', lc'.start, lc'.num, w + 1, w, P)
      /\ Trails(lc', lc'.mail_start, lc'.num_to_mail, w + 1, w, P)
  <2>1. 0 <= w + 1 - (w + 1)
    BY <1>2
  <2> QED BY <1>4, <2>1 DEF Trails
<1>7. Mails(lc', w, P)
  <2>1. \A e \in w + 1 - 0 .. w : FALSE
    BY <1>2
  <2> QED BY <1>2, <1>4, <2>1 DEF Mails
<1>8. Good(lc', w + 1, w, P, Q, w + 1)
  BY <1>4, <1>5, <1>6, <1>7 DEF Good
<1>9. \E f, P2, Q2, b : Good(lc', f, w, P2, Q2, b)
  BY <1>8
<1> QED BY <1>1, <1>2, <1>3, <1>4, <1>9, RingPrimed DEF w

(* What writing an entry of length n does; the entries it gives up lie     *)
(* where the new one is written.                                           *)
LEMMA WriteIs ==
  ASSUME NEW f, NEW P, NEW Q, NEW b, Good(lc, f, written, P, Q, b),
         lc.num <= log_count_max, NEW n \in Size, WriteEvent(n)
  PROVE  /\ \E g, P2, Q2, c : Good(lc', g, written + 1, P2, Q2, c)
         /\ lc'.end # 0 /\ lc'.num \in Nat /\ lc'.num <= log_count_max
         /\ lc'.num # log_count_max =>
              \A e \in written + 1 - lc.num .. written + 1 - lc'.num :
                \/ e < b /\ P[e] < lc.end + n
                \/ lc.end + n > log_buf_len /\ b <= e /\ P[e] < n
<1> DEFINE w == written
           r1 == ToBeginning(lc, n)
           r2 == Cleared(r1, n)
           r3 == Filled(r2, n, w + 1)
           r4 == Counted(r3)
<1>1. w + 1 <= MaxEvents /\ lc' = Mailed(r4) /\ w \in Nat
  <2>1. w \in Nat
    BY DEF Good, Lies
  <2>2. written < MaxEvents /\ written' = written + 1
        /\ lc' = Mailed(Counted(Filled(Cleared(ToBeginning(lc, n), n), n, written')))
    BY DEF WriteEvent
  <2>3. MaxEvents \in Nat
    BY Lengths
  <2> QED BY <2>1, <2>2, <2>3
<1> HIDE DEF w
<1>2. /\ lc \in RingType(w) /\ Lies(lc, f, w, P, Q, b) /\ lc.num \in Nat /\ lc.end \in Nat
      /\ b \in Nat /\ log_buf_len \in Nat /\ b <= w + 1 /\ w \in Nat /\ f \in Nat \ {0}
      /\ lc.num <= w + 1 - f
  <2>1. lc \in RingType(w) /\ Lies(lc, f, w, P, Q, b) /\ Trails(lc, lc.start, lc.num, f, w, P)
    BY DEF Good, w
  <2> QED BY <2>1, LiesFacts DEF Trails
<1>3. n \in Nat /\ log_count_max \in Nat \ {0}
  BY Lengths
<1>4. r1.end + n <= log_buf_len /\ r1.buf = lc.buf /\ r1.num \in 0 .. lc.num
      /\ \/ r1 = lc
         \/ /\ lc.end + n > log_buf_len /\ b <= w
            /\ r1.end = 0 /\ r1.bottom = lc.end /\ w + 1 - r1.num >= b
            /\ Good(r1, b, w, P, Q, w + 1)
            /\ \A e \in w + 1 - lc.num .. w - r1.num : e < b
  BY ToBeginningIs DEF w
<1> HIDE DEF r1
<1> DEFINE f1 == IF r1 = lc THEN f ELSE b
           b1 == IF r1 = lc THEN b ELSE w + 1
<1>5. Good(r1, f1, w, P, Q, b1)
  <2>1. CASE r1 = lc
    BY <2>1 DEF w
  <2>2. CASE r1 # lc
    BY <1>4, <2>2
  <2> QED BY <2>1, <2>2
<1> HIDE DEF f1
<1>6. /\ Good(r2, f1, w, P, Q, b1)
      /\ r2.end = r1.end /\ r2.num \in 0 .. r1.num
      /\ Clear(r2.num, r1.end + n, w, P, b1)
      /\ ~doRemoteMail => Clear(r2.num_to_mail, r1.end + n, w, P, b1)
      /\ doRemoteMail /\ r2.mail_start = r2.end => r2.num_to_mail = 0
      /\ \A e \in w + 1 - r1.num .. w - r2.num : e < b1 /\ P[e] < r1.end + n
  <2> HIDE DEF b1
  <2> QED BY <1>5, ClearedIs
<1> HIDE DEF r2
<1>7. /\ \E g, P2, Q2 : Good(r3, g, w + 1, P2, Q2, b1)
      /\ r3.num = r2.num + 1 /\ r3.end # 0 /\ r3.end \in Nat
  <2> HIDE DEF b1
  <2>1. r2.end + n <= log_buf_len /\ Clear(r2.num, r2.end + n, w, P, b1)
        /\ (~doRemoteMail => Clear(r2.num_to_mail, r2.end + n, w, P, b1))
    BY <1>4, <1>6
  <2> QED BY <1>1, <1>6, <2>1, FilledIs
<1> HIDE DEF r3
<1>8. PICK g, P2, Q2 : Good(r3, g, w + 1, P2, Q2, b1)
  BY <1>7
<1>9. /\ Good(r4, g, w + 1, P2, Q2, b1) /\ r4.end = r3.end
      /\ r4.num = IF r3.num > log_count_max THEN r3.num - 1 ELSE r3.num
  <2> HIDE DEF b1
  <2> QED BY <1>8, CountedIs
<1> HIDE DEF r4
<1>10. Good(lc', g, w + 1, P2, Q2, b1) /\ lc'.end = r4.end /\ lc'.num = r4.num
  <2> HIDE DEF b1
  <2> QED BY <1>1, <1>9, MailedIs
<1>11. r1.num \in Nat /\ r2.num \in Nat /\ r1.num <= lc.num /\ r2.num <= r1.num /\ lc.num <= log_count_max
  BY <1>2, <1>4, <1>6
<1>12. lc'.num \in Nat /\ lc'.num <= log_count_max
       /\ (lc'.num # log_count_max => lc'.num = r2.num + 1)
  <2>1. lc'.num = IF r2.num + 1 > log_count_max THEN (r2.num + 1) - 1 ELSE r2.num + 1
    BY <1>7, <1>9, <1>10
  <2>2. r2.num \in Nat /\ r2.num <= log_count_max
    BY <1>2, <1>3, <1>11
  <2> QED BY <1>3, <2>1, <2>2
<1>13. ASSUME lc'.num # log_count_max, NEW e \in w + 1 - lc.num .. w + 1 - lc'.num
       PROVE  \/ e < b /\ P[e] < lc.end + n
              \/ lc.end + n > log_buf_len /\ b <= e /\ P[e] < n
  <2>1. e \in Nat /\ e \in f .. w /\ e <= w - r2.num
    BY <1>2, <1>11, <1>12, <1>13
  <2>2. P[e] \in Nat /\ P[e] < log_buf_len
    BY <1>2, <2>1, EntryFacts
  <2>3. CASE e <= w - r1.num
    <3>1. e \in w + 1 - lc.num .. w - r1.num
      BY <1>2, <1>11, <2>1, <2>3
    <3>2. r1 # lc
      BY <1>2, <3>1
    <3>3. e < b /\ lc.end + n > log_buf_len
      BY <1>4, <3>1, <3>2
    <3> QED BY <1>2, <1>3, <2>2, <3>3
  <2>4. CASE ~(e <= w - r1.num)
    <3>1. e \in w + 1 - r1.num .. w - r2.num
      BY <1>2, <1>11, <2>1, <2>4
    <3>2. e < b1 /\ P[e] < r1.end + n
      <4> HIDE DEF b1
      <4> QED BY <1>6, <3>1
    <3>3. CASE r1 = lc
      BY <3>2, <3>3
    <3>4. CASE r1 # lc
      <4>1. w + 1 - r1.num >= b /\ r1.end = 0 /\ lc.end + n > log_buf_len
        BY <1>4, <3>4
      <4>2. b <= e
        BY <1>2, <1>11, <2>1, <3>1, <4>1
      <4>3. P[e] < n
        BY <1>3, <3>2, <4>1
      <4> QED BY <4>1, <4>2, <4>3
    <3> QED BY <3>3, <3>4
  <2> QED BY <2>3, <2>4
<1>14. \E g2, P3, Q3, c : Good(lc', g2, w + 1, P3, Q3, c)
  <2> HIDE DEF b1
  <2> QED BY <1>10
<1>15. lc'.end # 0
  BY <1>7, <1>9, <1>10
<1> QED BY <1>12, <1>13, <1>14, <1>15 DEF w

LEMMA RingStep == RingInv /\ [Next]_vars => RingInv'
<1> SUFFICES ASSUME RingInv, [Next]_vars PROVE RingInv'
  OBVIOUS
<1>1. PICK f, P, Q, b : Good(lc, f, written, P, Q, b)
  BY DEF RingInv
<1>2. /\ doRemoteMail \in BOOLEAN /\ written \in 0 .. MaxEvents /\ (lc.end = 0 => lc.num = 0)
      /\ lc.num <= log_count_max
  BY DEF RingInv
<1>3. CASE SendMail
  <2>1. lc' = EventSendMail(lc, FindEvent(lc)) /\ doRemoteMail' = doRemoteMail /\ written' = written
    BY <1>3 DEF SendMail
  <2>2. Good(lc', f, written, P, Q, b) /\ lc'.end = lc.end /\ lc'.num = lc.num
    BY <1>1, <2>1, SendIs
  <2>3. \E f2, P2, Q2, b2 : Good(lc', f2, written, P2, Q2, b2)
    BY <2>2
  <2> QED BY <1>2, <2>1, <2>2, <2>3, RingPrimed
<1>4. CASE ClearLog
  BY <1>4, ClearStep
<1>5. CASE \E n \in Size : WriteEvent(n)
  <2>1. PICK n \in Size : WriteEvent(n)
    BY <1>5
  <2>2. doRemoteMail' = doRemoteMail /\ written' = written + 1 /\ written' \in 0 .. MaxEvents
    <3>1. MaxEvents \in Nat
      BY Lengths
    <3> QED BY <1>2, <2>1, <3>1 DEF WriteEvent
  <2>3. /\ \E g, P2, Q2, c : Good(lc', g, written + 1, P2, Q2, c)
        /\ lc'.end # 0 /\ lc'.num <= log_count_max
    BY <1>1, <1>2, <2>1, WriteIs
  <2> QED BY <1>2, <2>2, <2>3, RingPrimed
<1>6. CASE UNCHANGED vars
  <2>1. lc' = lc /\ doRemoteMail' = doRemoteMail /\ written' = written
    BY <1>6 DEF vars
  <2>2. \E g, P2, Q2, c : Good(lc', g, written', P2, Q2, c)
    BY <1>1, <2>1
  <2> QED BY <1>2, <2>1, <2>2, RingPrimed
<1> QED BY <1>3, <1>4, <1>5, <1>6 DEF Next

LEMMA RingAlways == Spec => []RingInv
BY RingInit, RingStep, PTL DEF Spec

(* What the invariant says of the log.                                     *)
LEMMA RingLog ==
  ASSUME NEW f, NEW P, NEW Q, NEW b, Good(lc, f, written, P, Q, b)
  PROVE  /\ lc \in RingType(written) /\ Lies(lc, f, written, P, Q, b)
         /\ Trails(lc, lc.start, lc.num, f, written, P)
         /\ lc.num \in Nat /\ lc.num_to_mail \in Nat /\ written \in Nat /\ f \in Nat \ {0}
         /\ Log(lc) = [k \in 1 .. lc.num |-> written - lc.num + k]
         /\ ToSet(Log(lc)) = written + 1 - lc.num .. written
<1>1. lc \in RingType(written) /\ Lies(lc, f, written, P, Q, b)
      /\ Trails(lc, lc.start, lc.num, f, written, P)
  BY DEF Good
<1>2. lc.num \in Nat /\ lc.num_to_mail \in Nat /\ written \in Nat /\ f \in Nat \ {0}
  BY <1>1, LiesFacts
<1>3. Log(lc) = [k \in 1 .. lc.num |-> written - lc.num + k]
  BY <1>1, <1>2, IdsAre DEF Log
<1>4. ToSet(Log(lc)) = written + 1 - lc.num .. written
  BY <1>1, MailMeets
<1> QED BY <1>1, <1>2, <1>3, <1>4

LEMMA EmptyWalks ==
  ASSUME NEW s, s.num = 0
  PROVE  Upwards(s, FindEvent(s)) = << >> /\ Downwards(s, FindEvent(s)) = << >>
<1> DEFINE step(y) == IF y = NULL THEN NULL ELSE NextEvent(s, y)
           Is(h) == h = [k \in 0 .. log_buf_len |-> IF k = 0 THEN NULL ELSE step(h[k - 1])]
           at == CHOOSE h : Is(h)
           place == [k \in 0 .. log_buf_len |-> NULL]
           V == {log_buf_len} \cup {k \in 0 .. log_buf_len : at[k] = NULL}
<1>1. FindEvent(s) = NULL /\ log_buf_len \in Nat
  BY Lengths DEF FindEvent
<1>2. Is(place)
  <2>1. \A k \in 0 .. log_buf_len : k # 0 => k - 1 \in 0 .. log_buf_len
    BY <1>1
  <2>2. \A k \in 0 .. log_buf_len : NULL = IF k = 0 THEN NULL ELSE step(place[k - 1])
    BY <2>1
  <2> QED BY <2>2
<1>3. Is(at)
  <2> HIDE DEF Is, place
  <2> QED BY <1>2
<1>4. at[0] = NULL
  <2> HIDE DEF at, step
  <2> QED BY <1>1, <1>3
<1>5. Min(V) = 0
  <2>1. V \in SUBSET Nat /\ 0 \in V
    <3> HIDE DEF at
    <3> QED BY <1>1, <1>4
  <2> HIDE DEF V
  <2>2. Min(V) \in V /\ \A j \in V : Min(V) <= j
    BY <2>1, MinIs
  <2>3. Min(V) \in Nat
    BY <2>1, <2>2
  <2>4. Min(V) <= 0
    BY <2>1, <2>2
  <2> QED BY <2>3, <2>4
<1>6. Upwards(s, NULL) = [k \in 1 .. Min(V) |-> s.buf[at[k - 1]].id]
  BY DEF Upwards
<1>7. Upwards(s, NULL) = << >>
  <2> HIDE DEF V, at
  <2> QED BY <1>5, <1>6
<1>8. Downwards(s, NULL) = << >>
  BY DEF Downwards
<1> QED BY <1>1, <1>7, <1>8

LEMMA WalksMeet == RingInv => WalksMeetAll
<1> SUFFICES ASSUME RingInv PROVE WalksMeetAll
  OBVIOUS
<1>1. PICK f, P, Q, b : Good(lc, f, written, P, Q, b)
  BY DEF RingInv
<1> DEFINE n == lc.num
           w == written
<1>2. /\ lc \in RingType(w) /\ Lies(lc, f, w, P, Q, b) /\ Trails(lc, lc.start, n, f, w, P)
      /\ n \in Nat /\ w \in Nat /\ f \in Nat \ {0}
      /\ Log(lc) = [k \in 1 .. n |-> w - n + k]
  BY <1>1, RingLog
<1>3. lc.end = 0 => n = 0
  BY DEF RingInv
<1>4. Reverse(Log(lc)) = [k \in 1 .. n |-> w + 1 - k] /\ (n = 0 => Log(lc) = << >>)
  <2> DEFINE log == [k \in 1 .. n |-> w - n + k]
  <2>1. log \in Seq(Int) /\ Len(log) = n
    BY <1>2
  <2>2. Reverse(log) = [k \in 1 .. Len(log) |-> log[(Len(log) - k) + 1]]
    BY DEF Reverse
  <2>3. \A k \in 1 .. n : (n - k) + 1 \in 1 .. n /\ log[(n - k) + 1] = w + 1 - k
    BY <1>2
  <2>4. Reverse(log) = [k \in 1 .. n |-> w + 1 - k]
    <3> HIDE DEF log, n, w
    <3> QED BY <2>1, <2>2, <2>3
  <2>5. n = 0 => log = << >>
    OBVIOUS
  <2> QED BY <1>2, <2>4, <2>5
<1>5. CASE n = 0
  <2>1. Upwards(lc, FindEvent(lc)) = << >> /\ Downwards(lc, FindEvent(lc)) = << >>
    BY <1>5, EmptyWalks
  <2>2. Reverse(Log(lc)) = << >> /\ Log(lc) = << >>
    BY <1>4, <1>5
  <2> QED BY <2>1, <2>2 DEF WalksMeetAll, WalkEnds
<1>6. CASE n # 0
  <2>1. FindEvent(lc) = lc.start /\ lc.start # NULL
    <3>1. lc.start \in Nat
      BY <1>2, LiesFacts
    <3> QED BY <1>6, <3>1 DEF FindEvent, NULL
  <2>2. lc.end # lc.bottom => Upwards(lc, lc.start) = Log(lc)
    <3> HIDE DEF n, w
    <3> QED BY <1>2, <1>3, <1>6, UpwardsAre
  <2>3. ASSUME lc.end # lc.start PROVE Downwards(lc, lc.start) = Reverse(Log(lc))
    <3> DEFINE stop == lc.start
    <3>1. stop # NULL
      BY <2>1
    <3> HIDE DEF stop
    <3>2. \E m \in 0 .. lc.num :
            /\ Downwards(lc, stop) = [k \in 1 .. m |-> w + 1 - k]
            /\ lc.end # lc.start => m # 0
            /\ m # 0 /\ m # lc.num => stop = P[w + 1 - m]
      BY <1>2, <1>6, <3>1, DownwardsAre
    <3>3. PICK m \in 0 .. lc.num :
            /\ Downwards(lc, lc.start) = [k \in 1 .. m |-> w + 1 - k]
            /\ m # 0
            /\ m # n => lc.start = P[w + 1 - m]
      BY <2>3, <3>2 DEF stop
    <3>4. m = n
      <4> SUFFICES ASSUME m # n PROVE FALSE
        OBVIOUS
      <4>1. w + 1 - n \in f .. w /\ lc.start = P[w + 1 - n]
        BY <1>2, <1>6, CursorFacts
      <4>2. w + 1 - m \in f .. w /\ w + 1 - m # w + 1 - n
        BY <1>2, <3>3, <4>1
      <4>3. P[w + 1 - m] = P[w + 1 - n]
        BY <3>3, <4>1
      <4> DEFINE d == w + 1 - m
                 e == w + 1 - n
      <4> HIDE DEF d, e
      <4>4. d \in f .. w /\ e \in f .. w /\ d # e /\ P[d] = P[e]
        BY <4>1, <4>2, <4>3 DEF d, e
      <4> QED BY <1>2, <4>4, Apart
    <3> QED BY <1>4, <3>3, <3>4
  <2> QED BY <2>1, <2>2, <2>3 DEF WalksMeetAll, WalkEnds
<1> QED BY <1>5, <1>6

(* The entries of one lap cover what is between the first and the last.    *)
LEMMA Covers ==
  ASSUME NEW s, NEW f, NEW w, NEW P, NEW Q, NEW b, s \in RingType(w), Lies(s, f, w, P, Q, b),
         NEW e \in f .. w, NEW h \in e .. w, h < b \/ b <= e
  PROVE  \A o \in P[e] .. Q[h] - 1 : \E d \in e .. h : s.buf[o].id = d
<1> DEFINE T == {g \in e .. h : \A o \in P[e] .. Q[g] - 1 : \E d \in e .. g : s.buf[o].id = d}
<1>1. w \in Nat /\ f \in Nat \ {0} /\ b \in Nat /\ e \in Nat /\ h \in Nat
  BY LiesFacts
<1>2. ASSUME NEW d \in e .. h
      PROVE  /\ d \in f .. w /\ P[d] \in Nat /\ Q[d] \in Nat
             /\ \A o \in P[d] .. Q[d] - 1 : s.buf[o].id = d
  <2>1. d \in f .. w
    BY <1>1
  <2>2. EntryLies(s, d, w, P, Q, b) /\ P[d] \in Nat /\ Q[d] \in Nat
    BY <2>1, EntryFacts
  <2> QED BY <2>1, <2>2 DEF EntryLies
<1>3. ASSUME NEW d \in e .. h - 1 PROVE P[d + 1] = Q[d]
  <2>1. d \in f .. w /\ d # w /\ d + 1 # b
    BY <1>1
  <2>2. EntryLies(s, d, w, P, Q, b)
    BY <2>1, EntryFacts
  <2> QED BY <2>1, <2>2 DEF EntryLies
<1>4. e \in T
  <2>1. e \in e .. h /\ e \in e .. e
    BY <1>1
  <2> QED BY <1>2, <2>1
<1>5. \A k \in e + 1 .. h : k - 1 \in T => k \in T
  <2> SUFFICES ASSUME NEW k \in e + 1 .. h, k - 1 \in T PROVE k \in T
    OBVIOUS
  <2>1. k - 1 \in e .. h - 1 /\ (k - 1) + 1 = k /\ k \in e .. h /\ k \in e .. k /\ k - 1 \in e .. h
        /\ e .. k - 1 \subseteq e .. k
    BY <1>1
  <2>2. P[k] = Q[k - 1] /\ P[k] \in Nat /\ Q[k] \in Nat /\ P[e] \in Nat
    <3>1. e \in e .. h
      BY <1>1
    <3> QED BY <1>2, <1>3, <2>1, <3>1
  <2>3. \A o \in P[e] .. Q[k - 1] - 1 : \E d \in e .. k - 1 : s.buf[o].id = d
    OBVIOUS
  <2>4. ASSUME NEW o \in P[e] .. Q[k] - 1 PROVE \E d \in e .. k : s.buf[o].id = d
    <3>1. CASE o < P[k]
      <4>1. o \in P[e] .. Q[k - 1] - 1
        BY <2>2, <3>1
      <4> QED BY <2>1, <2>3, <4>1
    <3>2. CASE ~(o < P[k])
      <4>1. o \in P[k] .. Q[k] - 1
        BY <2>2, <3>2
      <4>2. s.buf[o].id = k
        BY <1>2, <2>1, <4>1
      <4> QED BY <2>1, <4>2
    <3> QED BY <3>1, <3>2
  <2> QED BY <2>1, <2>4
<1>6. \A k \in e .. h : k \in T
  <2>1. e \in Int /\ h \in Int
    BY <1>1
  <2> HIDE DEF T
  <2> QED BY <1>4, <1>5, <2>1, IntervalInduction
<1>7. h \in e .. h
  BY <1>1
<1> QED BY <1>6, <1>7

LEMMA HeldAtLeast ==
  ASSUME NEW f, NEW P, NEW Q, NEW b, Good(lc, f, written, P, Q, b),
         NEW e \in written + 1 - lc.num .. written
  PROVE  /\ HeldFrom(lc, e) \in Nat
         /\ b <= e => HeldFrom(lc, e) >= lc.end - P[e]
         /\ e < b => HeldFrom(lc, e) >= lc.bottom - P[e] + lc.end
<1> DEFINE w == written
           S == {o \in DOMAIN lc.buf : lc.buf[o].id \in ToSet(Log(lc)) /\ lc.buf[o].id >= e}
           A == P[e] .. lc.bottom - 1
           B == 0 .. lc.end - 1
           C == P[e] .. lc.end - 1
<1>1. /\ lc \in RingType(w) /\ Lies(lc, f, w, P, Q, b)
      /\ ToSet(Log(lc)) = w + 1 - lc.num .. w
      /\ lc.num \in Nat /\ lc.num <= w + 1 - f /\ w \in Nat /\ f \in Nat \ {0}
  BY RingLog DEF Trails
<1>2. /\ b \in Nat \ {0} /\ b <= w + 1 /\ (b = w + 1 => lc.end = 0)
      /\ lc.end \in Nat /\ lc.bottom \in Nat /\ lc.bottom <= log_buf_len /\ lc.end <= lc.bottom
      /\ log_buf_len \in Nat
  BY <1>1, LiesFacts
<1>3. lc.buf \in [0 .. log_buf_len - 1 -> Unit]
  BY <1>1, RingFields
<1>4. e \in w + 1 - lc.num .. w /\ e \in f .. w /\ e \in Nat
  BY <1>1
<1>5. IsFiniteSet(S) /\ Cardinality(S) \in Nat /\ S \subseteq 0 .. log_buf_len - 1
  <2>1. S \subseteq 0 .. log_buf_len - 1
    BY <1>3
  <2>2. 0 \in Int /\ log_buf_len - 1 \in Int
    BY <1>2
  <2>3. IsFiniteSet(0 .. log_buf_len - 1)
    BY <2>2, FS_Interval
  <2> HIDE DEF S
  <2> QED BY <2>1, <2>3, FS_Subset, FS_CardinalityType
<1>6. ASSUME NEW o \in 0 .. log_buf_len - 1, NEW d \in e .. w, lc.buf[o].id = d PROVE o \in S
  <2>1. d \in w + 1 - lc.num .. w /\ d >= e
    BY <1>1, <1>4
  <2> QED BY <1>1, <1>3, <1>6, <2>1
<1>7. /\ P[e] \in Nat /\ Q[w] \in Nat /\ w \in f .. w /\ w \in e .. w
      /\ EntryLies(lc, w, w, P, Q, b) /\ (e < b <=> lc.end <= P[e]) /\ P[e] < lc.bottom
  <2>1. w \in f .. w /\ w \in e .. w
    BY <1>1, <1>4
  <2>2. EntryLies(lc, w, w, P, Q, b) /\ Q[w] \in Nat
    BY <1>1, <2>1, EntryFacts
  <2>3. P[e] \in Nat /\ (e < b <=> lc.end <= P[e]) /\ P[e] < Q[e] /\ Q[e] <= lc.bottom /\ Q[e] \in Nat
    BY <1>1, <1>4, EntryFacts
  <2> QED BY <1>2, <2>1, <2>2, <2>3
<1> HIDE DEF S
<1>8. ASSUME NEW i \in Int, NEW j \in Int, i <= j
      PROVE  IsFiniteSet(i .. j - 1) /\ Cardinality(i .. j - 1) = j - i
  <2>1. j - 1 \in Int
    OBVIOUS
  <2>2. IsFiniteSet(i .. j - 1) /\ Cardinality(i .. j - 1) = IF i > j - 1 THEN 0 ELSE (j - 1) - i + 1
    BY <2>1, FS_Interval
  <2> QED BY <1>8, <2>2
<1>9. ASSUME b <= e PROVE Cardinality(S) >= lc.end - P[e]
  <2>1. Q[w] = lc.end /\ P[e] < lc.end
    <3>0. b <= w
      BY <1>1, <1>2, <1>4, <1>9
    <3>1. Q[w] = lc.end
      BY <1>7, <3>0 DEF EntryLies
    <3> QED BY <1>2, <1>4, <1>7, <1>9, <3>1
  <2>2. \A o \in C : \E d \in e .. w : lc.buf[o].id = d
    <3> HIDE DEF w
    <3>1. \A o \in P[e] .. Q[w] - 1 : \E d \in e .. w : lc.buf[o].id = d
      BY <1>1, <1>4, <1>7, <1>9, Covers
    <3> QED BY <2>1, <3>1
  <2>3. C \subseteq 0 .. log_buf_len - 1
    BY <1>2, <1>7
  <2>4. C \subseteq S
    <3> HIDE DEF C
    <3> QED BY <1>6, <2>2, <2>3
  <2>5. IsFiniteSet(C) /\ Cardinality(C) = lc.end - P[e]
    BY <1>2, <1>7, <1>8, <2>1
  <2> HIDE DEF C
  <2>6. Cardinality(C) <= Cardinality(S)
    BY <1>5, <2>4, FS_Subset
  <2> QED BY <1>2, <1>5, <1>7, <2>5, <2>6
<1>10. ASSUME e < b PROVE Cardinality(S) >= lc.bottom - P[e] + lc.end
  <2> DEFINE h == b - 1
  <2>1. h \in e .. w /\ h < b /\ h + 1 = b /\ h \in f .. w
    BY <1>1, <1>2, <1>4, <1>10
  <2> HIDE DEF h
  <2>2. EntryLies(lc, h, w, P, Q, b)
    BY <1>1, <2>1, EntryFacts
  <2>3. Q[h] = lc.bottom
    BY <2>1, <2>2 DEF EntryLies
  <2>4. A \subseteq S
    <3>1. \A o \in P[e] .. Q[h] - 1 : \E d \in e .. h : lc.buf[o].id = d
      BY <1>1, <1>4, <2>1, Covers
    <3>2. \A o \in A : \E d \in e .. w : lc.buf[o].id = d
      <4>1. e .. h \subseteq e .. w
        BY <1>1, <1>4, <2>1
      <4> QED BY <2>3, <3>1, <4>1
    <3>3. A \subseteq 0 .. log_buf_len - 1
      BY <1>2, <1>7
    <3> HIDE DEF A
    <3> QED BY <1>6, <3>2, <3>3
  <2>5. B \subseteq S
    <3>1. CASE b = w + 1
      <4>1. B = {}
        BY <1>2, <3>1
      <4> QED BY <4>1
    <3>2. CASE b # w + 1
      <4>1. b <= w /\ b \in f .. w /\ w \in b .. w /\ h # w
        BY <1>1, <1>2, <1>4, <1>10, <2>1, <3>2
      <4>2. P[b] = 0
        BY <2>1, <2>2, <4>1 DEF EntryLies
      <4>3. Q[w] = lc.end
        BY <1>7, <4>1 DEF EntryLies
      <4>4. \A o \in P[b] .. Q[w] - 1 : \E d \in b .. w : lc.buf[o].id = d
        <5>1. b <= b
          BY <1>2
        <5> QED BY <1>1, <4>1, <5>1, Covers
      <4>5. b .. w \subseteq e .. w
        BY <1>1, <1>2, <1>4, <1>10
      <4>6. \A o \in B : \E d \in e .. w : lc.buf[o].id = d
        BY <4>2, <4>3, <4>4, <4>5
      <4>7. B \subseteq 0 .. log_buf_len - 1
        BY <1>2
      <4> HIDE DEF B
      <4> QED BY <1>6, <4>6, <4>7
    <3> QED BY <3>1, <3>2
  <2>6. IsFiniteSet(A) /\ Cardinality(A) = lc.bottom - P[e]
    <3>1. P[e] \in Int /\ lc.bottom \in Int /\ P[e] <= lc.bottom
      BY <1>2, <1>7
    <3> QED BY <1>8, <3>1
  <2>7. IsFiniteSet(B) /\ Cardinality(B) = lc.end
    <3>0. 0 \in Int /\ lc.end \in Int /\ 0 <= lc.end
      BY <1>2
    <3>1. IsFiniteSet(B) /\ Cardinality(B) = lc.end - 0
      BY <1>8, <3>0
    <3> QED BY <1>2, <3>1
  <2>8. A \cap B = {}
    BY <1>2, <1>7, <1>10
  <2> HIDE DEF A, B
  <2>9. IsFiniteSet(A \cup B) /\ Cardinality(A \cup B) = Cardinality(A) + Cardinality(B) - Cardinality(A \cap B)
    BY <2>6, <2>7, FS_Union
  <2>10. Cardinality(A \cap B) = 0
    BY <2>8, FS_EmptySet
  <2>11. Cardinality(A \cup B) <= Cardinality(S)
    <3>1. A \cup B \subseteq S
      BY <2>4, <2>5
    <3> QED BY <1>5, <3>1, FS_Subset
  <2> QED BY <1>2, <1>5, <1>7, <2>6, <2>7, <2>9, <2>10, <2>11
<1>11. HeldFrom(lc, e) = Cardinality(S)
  BY DEF HeldFrom, S
<1> QED BY <1>5, <1>9, <1>10, <1>11

-----------------------------------------------------------------------------
(* The theorems.                                                           *)

(* The buffer, the cursors and the counts keep their types: no cursor      *)
(* leaves the buffer, and no count goes below zero.                        *)
THEOREM RingTypeCorrect == Spec => []TypeOK
<1>1. RingInv => TypeOK
  <2> SUFFICES ASSUME RingInv PROVE TypeOK
    OBVIOUS
  <2>1. doRemoteMail \in BOOLEAN /\ written \in 0 .. MaxEvents /\ lc \in RingType(written)
    BY DEF RingInv, Good
  <2> QED BY <2>1 DEF TypeOK, RingType
<1> QED BY <1>1, RingAlways, PTL

(* For entries and buffers of any length, through any number of laps, the  *)
(* ring holds the latest entries, whole and in their order, and both       *)
(* cursors stand on an entry (eventlog.c:510, 556).                        *)
THEOREM RingHoldsLatest == Spec => []LatestInOrder
<1>1. RingInv => LatestInOrder
  <2> SUFFICES ASSUME RingInv PROVE LatestInOrder
    OBVIOUS
  <2>1. PICK f, P, Q, b : Good(lc, f, written, P, Q, b)
    BY DEF RingInv
  <2>2. Log(lc) = Latest(lc.num)
    BY <2>1, RingLog DEF Latest
  <2>3. ASSUME ~doRemoteMail
        PROVE  Ids(lc, lc.mail_start, lc.num_to_mail) = Latest(lc.num_to_mail)
    <3>1. Trails(lc, lc.mail_start, lc.num_to_mail, f, written, P)
      BY <2>1, <2>3 DEF Good
    <3> QED BY <2>1, <3>1, RingLog, IdsAre DEF Latest
  <2> QED BY <2>2, <2>3 DEF LatestInOrder
<1> QED BY <1>1, RingAlways, PTL

(* Both walks meet every entry, but for the two cases the property names   *)
(* (eventlog.c:398, 428).                                                  *)
THEOREM RingWalks == Spec => []WalksMeetAll
BY WalksMeet, RingAlways, PTL

(* Nothing in the log escapes the mails, whichever cursor and limit is met *)
(* first (eventlog.c:515, 566, 624).                                       *)
THEOREM RingMailed == Spec => []AllMailed
<1>1. RingInv => AllMailed
  <2> SUFFICES ASSUME RingInv, doRemoteMail, lc.end # lc.start
               PROVE  ToSet(Log(lc)) \subseteq
                        lc.tried \cup lc.skipped \cup ToSet(Downwards(lc, FindMailEvent(lc)))
    BY DEF AllMailed
  <2>1. PICK f, P, Q, b : Good(lc, f, written, P, Q, b)
    BY DEF RingInv
  <2>2. Mails(lc, written, P)
    BY <2>1 DEF Good
  <2> QED BY <2>1, <2>2, RingLog, MailMeets
<1> QED BY <1>1, RingAlways, PTL

(* An entry is given up for the number of entries, or because what is      *)
(* younger than it and the new entry fill the buffer, but for what a wrap  *)
(* leaves unused (eventlog.c:548).                                         *)
THEOREM RingGivesUpForRoom == Spec => GivenUpForRoom
<1>1. ASSUME RingInv, NEW n \in Size, WriteEvent(n), NEW e \in ToSet(Log(lc)) \ ToSet(Log(lc')),
             lc'.num # log_count_max
      PROVE  HeldFrom(lc, e) + n > log_buf_len - Max(Size)
  <2>1. PICK f, P, Q, b : Good(lc, f, written, P, Q, b)
    BY <1>1 DEF RingInv
  <2>2. lc.num <= log_count_max
    BY <1>1 DEF RingInv
  <2>3. /\ lc \in RingType(written) /\ Lies(lc, f, written, P, Q, b)
        /\ Trails(lc, lc.start, lc.num, f, written, P)
        /\ lc.num \in Nat /\ written \in Nat /\ f \in Nat \ {0}
        /\ ToSet(Log(lc)) = written + 1 - lc.num .. written
    BY <2>1, RingLog
  <2>4. /\ \E g, P2, Q2, c : Good(lc', g, written + 1, P2, Q2, c)
        /\ lc'.num \in Nat
        /\ \A d \in written + 1 - lc.num .. written + 1 - lc'.num :
             \/ d < b /\ P[d] < lc.end + n
             \/ lc.end + n > log_buf_len /\ b <= d /\ P[d] < n
    BY <1>1, <2>1, <2>2, WriteIs
  <2>5. ToSet(Log(lc')) = (written + 1) + 1 - lc'.num .. written + 1
    <3>1. PICK g, P2, Q2, c : Good(lc', g, written + 1, P2, Q2, c)
      BY <2>4
    <3>2. lc' \in RingType(written + 1) /\ Lies(lc', g, written + 1, P2, Q2, c)
          /\ Trails(lc', lc'.start, lc'.num, g, written + 1, P2)
      BY <3>1 DEF Good
    <3> QED BY <3>2, MailMeets
  <2>6. e \in written + 1 - lc.num .. written /\ e \in written + 1 - lc.num .. written + 1 - lc'.num
    BY <2>3, <2>4, <2>5
  <2>7. \/ e < b /\ P[e] < lc.end + n
        \/ lc.end + n > log_buf_len /\ b <= e /\ P[e] < n
    BY <2>4, <2>6
  <2>8. /\ HeldFrom(lc, e) \in Nat
        /\ b <= e => HeldFrom(lc, e) >= lc.end - P[e]
        /\ e < b => HeldFrom(lc, e) >= lc.bottom - P[e] + lc.end
    BY <2>1, <2>6, HeldAtLeast
  <2>9. /\ lc.end \in Nat /\ lc.bottom \in Nat /\ log_buf_len \in Nat
        /\ lc.bottom > log_buf_len - Max(Size)
    BY <2>3, LiesFacts
  <2>10. n \in Nat /\ Max(Size) \in Nat /\ n <= Max(Size)
    BY Lengths
  <2>11. P[e] \in Nat
    <3>1. e \in f .. written
      BY <2>3, <2>6 DEF Trails
    <3> QED BY <2>3, <3>1, EntryFacts
  <2> QED BY <2>7, <2>8, <2>9, <2>10, <2>11
<1>2. RingInv => [\A n \in Size : WriteEvent(n) =>
                    \A e \in ToSet(Log(lc)) \ ToSet(Log(lc')) :
                      lc'.num = log_count_max \/ HeldFrom(lc, e) + n > log_buf_len - Max(Size)]_vars
  BY <1>1
<1> QED BY <1>2, RingAlways, PTL DEF GivenUpForRoom

(***************************************************************************)
(* The DNS proxy.  The inductive invariant: the daemon sends for an entry  *)
(* that is in use.                                                         *)
(***************************************************************************)
SendsForQuery ==
  ~Idle => sending.entry \in 1 .. Len(forward_list) /\ forward_list[sending.entry] \in Entry

DnsInv == DnsTypeOK /\ SendsForQuery /\ AnswerFits

-----------------------------------------------------------------------------
(* Places in the list.                                                     *)

(* A nonempty set of places has a first one.                               *)
LEMMA FirstPlace ==
  ASSUME NEW n \in Nat, NEW T \in SUBSET (1 .. n), T # {}
  PROVE  Min(T) \in T
<1>1. T \in SUBSET Nat
  OBVIOUS
<1> QED BY <1>1, MinIs

(* An entry that is overwritten leaves the others as they are.             *)
LEMMA Overwritten ==
  ASSUME NEW S, NEW q \in Seq(S), NEW i \in DOMAIN q, NEW e \in S
  PROVE  /\ [q EXCEPT ![i] = e] \in Seq(S)
         /\ Len([q EXCEPT ![i] = e]) = Len(q)
         /\ DOMAIN [q EXCEPT ![i] = e] = DOMAIN q
         /\ \A j \in DOMAIN q : [q EXCEPT ![i] = e][j] = IF j = i THEN e ELSE q[j]
<1>1. /\ DOMAIN q = 1 .. Len(q) /\ Len(q) \in Nat
  OBVIOUS
<1>2. [q EXCEPT ![i] = e] \in [1 .. Len(q) -> S]
  BY <1>1
<1>3. [q EXCEPT ![i] = e] \in Seq(S) /\ Len([q EXCEPT ![i] = e]) = Len(q)
  BY <1>1, <1>2
<1> QED BY <1>1, <1>3

(* A new entry at the head moves the others by one.                        *)
LEMMA Headed ==
  ASSUME NEW S, NEW q \in Seq(S), NEW e \in S
  PROVE  /\ <<e>> \o q \in Seq(S)
         /\ Len(<<e>> \o q) = Len(q) + 1
         /\ (<<e>> \o q)[1] = e
         /\ \A j \in 2 .. Len(q) + 1 : j - 1 \in DOMAIN q /\ (<<e>> \o q)[j] = q[j - 1]
<1>1. <<e>> \in Seq(S) /\ Len(<<e>>) = 1 /\ Len(q) \in Nat /\ DOMAIN q = 1 .. Len(q)
  OBVIOUS
<1>2. /\ <<e>> \o q \in Seq(S) /\ Len(<<e>> \o q) = Len(q) + 1
      /\ \A j \in 1 .. Len(q) + 1 : (<<e>> \o q)[j] = IF j <= 1 THEN <<e>>[j] ELSE q[j - 1]
  BY <1>1, ConcatProperties
<1> QED BY <1>1, <1>2

(* AnswerFits in terms of places.                                          *)
LEMMA FitsByPlace ==
  AnswerFits <=>
    /\ \A i, j \in DOMAIN forward_list :
         forward_list[i].nid = forward_list[j].nid /\ i # j => forward_list[i].nid = 0
    /\ \A p \in wire : \A i \in DOMAIN forward_list :
         forward_list[i].nid = p.nid =>
           forward_list[i].host = p.host /\ forward_list[i].dnsname = p.dnsname
BY DEF AnswerFits, ToSet

LEMMA FitsByPlaceNext ==
  AnswerFits' <=>
    /\ \A i, j \in DOMAIN forward_list' :
         forward_list'[i].nid = forward_list'[j].nid /\ i # j => forward_list'[i].nid = 0
    /\ \A p \in wire' : \A i \in DOMAIN forward_list' :
         forward_list'[i].nid = p.nid =>
           forward_list'[i].host = p.host /\ forward_list'[i].dnsname = p.dnsname
BY DEF AnswerFits, ToSet

(* The next server is in the table, and what the code keeps has a type.    *)
LEMMA NextServer ==
  ASSUME DnsTypeOK, NEW s \in Server
  PROVE  serverFindnextforwardto(s) \in Server
BY BoundAssumption DEF DnsTypeOK, Server, serverFindnextforwardto

LEMMA Places ==
  ASSUME DnsTypeOK
  PROVE  /\ Len(forward_list) \in Nat /\ DOMAIN forward_list = 1 .. Len(forward_list)
         /\ \A i \in DOMAIN forward_list : forward_list[i] \in Entry \cup {Free}
         /\ Free.nid = 0
         /\ \A e \in Entry : /\ e.nid \in Nid /\ e.host \in Host /\ e.dnsname \in Name
                             /\ e.forwardto \in Server /\ e.time \in 0 .. MaxTime /\ e.nid # 0
BY IdAssumption DEF DnsTypeOK, Entry, Free

-----------------------------------------------------------------------------
(* Each step keeps the invariant.                                          *)
LEMMA RetryKeeps ==
  ASSUME DnsInv, NEW h \in Host, NEW name \in Name, Retry(h, name)
  PROVE  DnsInv'
<1> DEFINE L == forward_list
           i == Min(forwardEntryfind(h, name))
           next == serverFindnextforwardto(L[i].forwardto)
           e == [L[i] EXCEPT !.forwardto = next, !.host = h]
<1>1. i \in forwardEntryfind(h, name)
  <2>1. Len(L) \in Nat /\ forwardEntryfind(h, name) \in SUBSET (1 .. Len(L))
    BY Places DEF forwardEntryfind, DnsInv
  <2> QED BY <2>1, FirstPlace DEF Retry
<1>2. /\ i \in DOMAIN L /\ L[i].nid # 0 /\ L[i].host = h /\ L[i] \in Entry
  BY <1>1, Places DEF forwardEntryfind, DnsInv
<1>3. next \in Server
  BY <1>2, NextServer, Places DEF DnsInv
<1>4. e \in Entry /\ e.nid = L[i].nid /\ e.host = L[i].host /\ e.dnsname = L[i].dnsname
  BY <1>2, <1>3 DEF Entry
<1>5. /\ forward_list' = [L EXCEPT ![i] = e] /\ sending' = [entry |-> i, first |-> next]
      /\ UNCHANGED <<servers, daemon, now, wire>>
  BY DEF Retry
<1> HIDE DEF i, next, e
<1>6. /\ forward_list' \in Seq(Entry \cup {Free}) /\ Len(forward_list') = Len(L)
      /\ DOMAIN forward_list' = DOMAIN L
      /\ \A j \in DOMAIN L : forward_list'[j] = IF j = i THEN e ELSE L[j]
  BY <1>2, <1>4, <1>5, Overwritten DEF DnsInv, DnsTypeOK
<1>7. DnsTypeOK'
  BY <1>2, <1>3, <1>5, <1>6, Places DEF DnsInv, DnsTypeOK, servers, daemon
<1>8. SendsForQuery'
  BY <1>2, <1>4, <1>5, <1>6, Places DEF DnsInv, SendsForQuery
<1>9. AnswerFits'
  BY <1>2, <1>4, <1>5, <1>6, FitsByPlace, FitsByPlaceNext DEF DnsInv
<1> QED BY <1>7, <1>8, <1>9 DEF DnsInv

LEMMA QueryKeeps ==
  ASSUME DnsInv, NEW h \in Host, NEW name \in Name, Query(h, name)
  PROVE  DnsInv'
<1> DEFINE L == forward_list
           E(n) == [nid |-> n, host |-> h, dnsname |-> name, forwardto |-> activeserver, time |-> now]
<1>1. PICK i \in Place, n \in getnid :
        /\ forward_list' = IF i = 0 THEN <<E(n)>> \o L ELSE [L EXCEPT ![i] = E(n)]
        /\ sending' = [entry |-> IF i = 0 THEN 1 ELSE i, first |-> activeserver]
  BY DEF Query
<1> DEFINE e == E(n)
<1>2. UNCHANGED <<servers, daemon, now, wire>>
  BY DEF Query
<1>3. n \in Nid /\ (\A j \in DOMAIN L : L[j].nid # n) /\ (\A p \in wire : p.nid # n)
  BY DEF getnid, ToSet
<1>4. e \in Entry /\ e.nid = n
  BY <1>3 DEF Entry, DnsInv, DnsTypeOK
<1> HIDE DEF E, e
<1>5. activeserver \in Server
  BY DEF DnsInv, DnsTypeOK
<1>6. CASE i = 0
  <2>1. /\ forward_list' = <<e>> \o L /\ sending' = [entry |-> 1, first |-> activeserver]
    BY <1>1, <1>6 DEF e
  <2>2. Len(L) <= FTABSIZ
    <3>1. Unused \subseteq DOMAIN L /\ Oldest \subseteq DOMAIN L /\ 0 \notin DOMAIN L
      BY Places DEF Unused, Oldest, DnsInv
    <3>2. Unused # {} => Min(Unused) \in Unused
      BY <3>1, Places, FirstPlace DEF DnsInv
    <3>3. i \in Place
      OBVIOUS
    <3> QED BY <1>6, <3>1, <3>2, <3>3, Places, BoundAssumption DEF Place, DnsInv
  <2>3. /\ forward_list' \in Seq(Entry \cup {Free}) /\ Len(forward_list') = Len(L) + 1
        /\ forward_list'[1] = e
        /\ \A j \in 2 .. Len(L) + 1 : j - 1 \in DOMAIN L /\ forward_list'[j] = L[j - 1]
    BY <1>4, <2>1, Headed DEF DnsInv, DnsTypeOK
  <2>4. Len(L) \in Nat /\ DOMAIN forward_list' = 1 .. Len(L) + 1
    BY <2>3, Places DEF DnsInv
  <2>5. DnsTypeOK'
    BY <1>2, <1>5, <2>1, <2>2, <2>3, <2>4, BoundAssumption DEF DnsInv, DnsTypeOK, servers, daemon
  <2>6. SendsForQuery'
    BY <1>4, <2>1, <2>3, <2>4 DEF SendsForQuery
  <2>7. \A j \in DOMAIN forward_list' :
          (j = 1 /\ forward_list'[j] = e)
          \/ (j # 1 /\ j - 1 \in DOMAIN L /\ forward_list'[j] = L[j - 1])
    BY <2>3, <2>4
  <2>8. DOMAIN forward_list' \subseteq Int
    BY <2>4
  <2>9. AnswerFits'
    <3>1. ASSUME NEW j \in DOMAIN forward_list', NEW k \in DOMAIN forward_list',
                 forward_list'[j].nid = forward_list'[k].nid, j # k
          PROVE  forward_list'[j].nid = 0
      <4>1. j # 1 /\ k # 1
        BY <1>3, <1>4, <2>7, <3>1
      <4>2. /\ j - 1 \in DOMAIN L /\ k - 1 \in DOMAIN L /\ j - 1 # k - 1
            /\ forward_list'[j] = L[j - 1] /\ forward_list'[k] = L[k - 1]
        BY <2>7, <2>8, <3>1, <4>1
      <4> QED BY <3>1, <4>2, FitsByPlace DEF DnsInv
    <3>2. ASSUME NEW p \in wire', NEW j \in DOMAIN forward_list',
                 forward_list'[j].nid = p.nid
          PROVE  forward_list'[j].host = p.host /\ forward_list'[j].dnsname = p.dnsname
      BY <1>2, <1>3, <1>4, <2>7, <3>2, FitsByPlace DEF DnsInv
    <3> QED BY <3>1, <3>2, FitsByPlaceNext
  <2> QED BY <2>5, <2>6, <2>9 DEF DnsInv
<1>7. CASE i # 0
  <2>1. /\ forward_list' = [L EXCEPT ![i] = e] /\ sending' = [entry |-> i, first |-> activeserver]
    BY <1>1, <1>7 DEF e
  <2>2. i \in DOMAIN L
    <3>1. Unused \in SUBSET (1 .. Len(L)) /\ Len(L) \in Nat /\ Oldest \subseteq DOMAIN L
      BY Places DEF Unused, Oldest, DnsInv
    <3>2. Unused # {} => Min(Unused) \in DOMAIN L
      BY <3>1, FirstPlace, Places DEF DnsInv
    <3>3. i \in Place
      OBVIOUS
    <3> QED BY <1>7, <3>1, <3>2, <3>3 DEF Place
  <2>3. /\ forward_list' \in Seq(Entry \cup {Free}) /\ Len(forward_list') = Len(L)
        /\ DOMAIN forward_list' = DOMAIN L
        /\ \A j \in DOMAIN L : forward_list'[j] = IF j = i THEN e ELSE L[j]
    BY <1>4, <2>1, <2>2, Overwritten DEF DnsInv, DnsTypeOK
  <2>4. DnsTypeOK'
    BY <1>2, <1>5, <2>1, <2>2, <2>3, Places DEF DnsInv, DnsTypeOK, servers, daemon
  <2>5. SendsForQuery'
    BY <1>4, <2>1, <2>2, <2>3, Places DEF SendsForQuery, DnsInv
  <2>6. AnswerFits'
    BY <1>2, <1>3, <1>4, <2>2, <2>3, FitsByPlace, FitsByPlaceNext DEF DnsInv
  <2> QED BY <2>4, <2>5, <2>6 DEF DnsInv
<1> QED BY <1>6, <1>7

LEMMA TakesKeeps ==
  ASSUME DnsInv, Takes
  PROVE  DnsInv'
<1> DEFINE i == sending.entry
<1>1. i \in DOMAIN forward_list /\ Cur = forward_list[i] /\ Cur \in Entry
  BY Places DEF Takes, Cur, DnsInv, SendsForQuery
<1>2. /\ wire' = wire \cup {[nid |-> Cur.nid, host |-> Cur.host, dnsname |-> Cur.dnsname]}
      /\ activeserver' = serverFindnextforwardto(Cur.forwardto) /\ sending' = Nobody
      /\ UNCHANGED <<forward_list, open, dns_servers_num, daemon, now>>
  BY DEF Takes
<1>3. activeserver' \in Server
  BY <1>1, <1>2, NextServer, Places DEF DnsInv
<1>4. DnsTypeOK'
  BY <1>1, <1>2, <1>3, Places DEF DnsInv, DnsTypeOK, daemon, Nobody
<1>5. SendsForQuery'
  BY <1>2 DEF SendsForQuery, Idle
<1>6. AnswerFits'
  <2>1. Cur.nid # 0
    BY <1>1, Places DEF DnsInv
  <2>2. ASSUME NEW p \in wire', NEW j \in DOMAIN forward_list, forward_list[j].nid = p.nid
        PROVE  forward_list[j].host = p.host /\ forward_list[j].dnsname = p.dnsname
    <3>1. CASE p \in wire
      BY <2>2, <3>1, FitsByPlace DEF DnsInv
    <3>2. CASE p \notin wire
      <4>1. p.nid = Cur.nid /\ p.host = Cur.host /\ p.dnsname = Cur.dnsname
        BY <1>2, <3>2
      <4>2. j = i
        BY <1>1, <2>1, <2>2, <4>1, FitsByPlace DEF DnsInv
      <4> QED BY <1>1, <4>1, <4>2
    <3> QED BY <3>1, <3>2
  <2> QED BY <1>2, <2>2, FitsByPlace, FitsByPlaceNext DEF DnsInv
<1> QED BY <1>4, <1>5, <1>6 DEF DnsInv

LEMMA FailsKeeps ==
  ASSUME DnsInv, Fails
  PROVE  DnsInv'
<1> DEFINE L == forward_list
           i == sending.entry
           next == serverFindnextforwardto(L[i].forwardto)
           e == IF LastTried THEN Free ELSE [L[i] EXCEPT !.forwardto = next]
<1>1. i \in DOMAIN L /\ L[i] \in Entry
  BY Places DEF Fails, DnsInv, SendsForQuery
<1>2. next \in Server
  BY <1>1, NextServer, Places DEF DnsInv
<1>3. /\ e \in Entry \cup {Free}
      /\ e.nid = 0 \/ (e.nid = L[i].nid /\ e.host = L[i].host /\ e.dnsname = L[i].dnsname)
      /\ ~LastTried => e \in Entry
  BY <1>1, <1>2, Places DEF Entry, Free
<1>4. /\ forward_list' = [L EXCEPT ![i] = e]
      /\ sending' = IF LastTried THEN Nobody ELSE sending
      /\ UNCHANGED <<servers, daemon, now, wire>>
  BY <1>1 DEF Fails
<1> HIDE DEF i, next, e
<1>5. /\ forward_list' \in Seq(Entry \cup {Free}) /\ Len(forward_list') = Len(L)
      /\ DOMAIN forward_list' = DOMAIN L
      /\ \A j \in DOMAIN L : forward_list'[j] = IF j = i THEN e ELSE L[j]
  BY <1>1, <1>3, <1>4, Overwritten DEF DnsInv, DnsTypeOK
<1>6. DnsTypeOK'
  BY <1>1, <1>4, <1>5, Places DEF DnsInv, DnsTypeOK, servers, daemon, Nobody
<1>7. SendsForQuery'
  BY <1>1, <1>3, <1>4, <1>5, Places DEF DnsInv, SendsForQuery, Idle, i
<1>8. AnswerFits'
  <2>1. \A p \in wire : p.nid # 0
    BY IdAssumption DEF DnsInv, DnsTypeOK
  <2> QED BY <1>1, <1>3, <1>4, <1>5, <2>1, FitsByPlace, FitsByPlaceNext DEF DnsInv
<1> QED BY <1>6, <1>7, <1>8 DEF DnsInv

LEMMA ReplyKeeps ==
  ASSUME DnsInv, NEW p \in wire, Reply(p)
  PROVE  DnsInv'
<1> DEFINE L == forward_list
           found == {i \in DOMAIN L : L[i].nid = p.nid}
           k == Min(found)
<1>1. /\ wire' \subseteq wire /\ UNCHANGED <<open, dns_servers_num, daemon, sending, now>> /\ Idle
      /\ \/ found = {} /\ UNCHANGED <<forward_list, activeserver>>
         \/ /\ found # {} /\ forward_list' = [L EXCEPT ![k] = Free]
            /\ activeserver' = L[k].forwardto \/ UNCHANGED activeserver
  BY DEF Reply, Awake
<1>2. \A q \in wire : q.nid # 0
  BY IdAssumption DEF DnsInv, DnsTypeOK
<1>3. SendsForQuery'
  BY <1>1 DEF SendsForQuery, Idle
<1>4. CASE found = {}
  <2>1. DnsTypeOK'
    BY <1>1, <1>4 DEF DnsInv, DnsTypeOK, daemon
  <2>2. AnswerFits'
    BY <1>1, <1>4, FitsByPlace, FitsByPlaceNext DEF DnsInv
  <2> QED BY <1>3, <2>1, <2>2 DEF DnsInv
<1>5. CASE found # {}
  <2>1. k \in found
    BY <1>5, FirstPlace, Places DEF DnsInv
  <2>2. k \in DOMAIN L /\ L[k] \in Entry
    BY <1>2, <2>1, Places DEF DnsInv
  <2>3. activeserver' \in Server
    BY <1>1, <1>5, <2>2, Places DEF DnsInv, DnsTypeOK
  <2>4. forward_list' = [L EXCEPT ![k] = Free]
    BY <1>1, <1>5
  <2> HIDE DEF k
  <2>5. /\ forward_list' \in Seq(Entry \cup {Free}) /\ Len(forward_list') = Len(L)
        /\ DOMAIN forward_list' = DOMAIN L
        /\ \A j \in DOMAIN L : forward_list'[j] = IF j = k THEN Free ELSE L[j]
    BY <2>2, <2>4, Overwritten DEF DnsInv, DnsTypeOK
  <2>6. DnsTypeOK'
    BY <1>1, <2>3, <2>5 DEF DnsInv, DnsTypeOK, daemon
  <2>7. AnswerFits'
    BY <1>1, <1>2, <2>5, Places, FitsByPlace, FitsByPlaceNext DEF DnsInv
  <2> QED BY <1>3, <2>6, <2>7 DEF DnsInv
<1> QED BY <1>4, <1>5

(* What does not touch the list but may take answers away.                 *)
LEMMA OthersKeep ==
  ASSUME DnsInv, (\E p \in wire : Lost(p)) \/ Monitor \/ Second \/ UNCHANGED dnsVars
  PROVE  DnsInv'
<1>1. /\ UNCHANGED <<forward_list, servers, sending, dns_sleep>> /\ wire' \subseteq wire
      /\ now' = now \/ (now < MaxTime /\ now' = now + 1)
      /\ box' = box \/ box' = <<"shutdown", "sighup">>
  BY DEF Lost, Monitor, Second, dnsVars, servers, daemon
<1>2. <<"shutdown", "sighup">> \in Seq({"sighup", "shutdown"})
  OBVIOUS
<1>3. /\ UNCHANGED <<forward_list, servers, sending, dns_sleep>> /\ wire' \subseteq wire
      /\ now' \in 0 .. MaxTime /\ box' \in Seq({"sighup", "shutdown"})
  <2>1. now' \in 0 .. MaxTime
    BY <1>1, BoundAssumption DEF DnsInv, DnsTypeOK
  <2>2. box' \in Seq({"sighup", "shutdown"})
    BY <1>1, <1>2 DEF DnsInv, DnsTypeOK
  <2> QED BY <1>1, <2>1, <2>2
<1>4. DnsTypeOK'
  BY <1>3 DEF DnsInv, DnsTypeOK, servers
<1>5. SendsForQuery'
  BY <1>3 DEF DnsInv, SendsForQuery, Idle
<1>6. AnswerFits'
  BY <1>3, FitsByPlace, FitsByPlaceNext DEF DnsInv
<1> QED BY <1>4, <1>5, <1>6 DEF DnsInv

LEMMA ShutdownKeeps ==
  ASSUME DnsInv, Shutdown
  PROVE  DnsInv'
<1>1. /\ forward_list' = <<>> /\ Idle /\ UNCHANGED <<servers, sending, now, wire>>
      /\ dns_sleep' \in BOOLEAN
  BY DEF Shutdown
<1>2. box' \in Seq({"sighup", "shutdown"})
  BY HeadTailProperties DEF Shutdown, DnsInv, DnsTypeOK
<1>3. <<>> \in Seq(Entry \cup {Free}) /\ Len(<<>>) = 0 /\ DOMAIN <<>> = {}
  OBVIOUS
<1>4. DnsTypeOK'
  BY <1>1, <1>2, <1>3, BoundAssumption DEF DnsInv, DnsTypeOK, servers, Idle, Nobody
<1>5. SendsForQuery'
  BY <1>1 DEF SendsForQuery, Idle
<1>6. AnswerFits'
  BY <1>1, <1>3, FitsByPlaceNext
<1> QED BY <1>4, <1>5, <1>6 DEF DnsInv

LEMMA SighupKeeps ==
  ASSUME DnsInv, Sighup
  PROVE  DnsInv'
<1> DEFINE L == forward_list
<1>1. /\ forward_list' = [i \in DOMAIN L |-> Free] /\ Idle /\ wire' = {} /\ dns_sleep' \in BOOLEAN
      /\ UNCHANGED <<activeserver, sending, now>>
  BY DEF Sighup
<1>2. box' \in Seq({"sighup", "shutdown"})
  BY HeadTailProperties DEF Sighup, DnsInv, DnsTypeOK
<1>3. open' \subseteq Server /\ dns_servers_num' \in Server
  BY BoundAssumption DEF Sighup, serverInit, Server
<1>4. forward_list' \in [1 .. Len(L) -> Entry \cup {Free}]
  BY <1>1, Places DEF DnsInv
<1>5. forward_list' \in Seq(Entry \cup {Free}) /\ Len(forward_list') = Len(L)
  BY <1>4, Places DEF DnsInv
<1>6. DnsTypeOK'
  BY <1>1, <1>2, <1>3, <1>5 DEF DnsInv, DnsTypeOK
<1>7. SendsForQuery'
  BY <1>1 DEF SendsForQuery, Idle
<1>8. AnswerFits'
  BY <1>1, FitsByPlaceNext, Places DEF DnsInv
<1> QED BY <1>6, <1>7, <1>8 DEF DnsInv

-----------------------------------------------------------------------------
LEMMA DnsStarts == DnsInit => DnsInv
<1> SUFFICES ASSUME DnsInit PROVE DnsInv
  OBVIOUS
<1>1. /\ <<>> \in Seq(Entry \cup {Free}) /\ Len(<<>>) = 0 /\ DOMAIN <<>> = {}
      /\ <<>> \in Seq({"sighup", "shutdown"})
  OBVIOUS
<1>2. 1 \in Server /\ open \subseteq Server /\ dns_servers_num \in Server
  BY BoundAssumption DEF DnsInit, Server
<1>3. DnsTypeOK
  <2>1. sending = [entry |-> 0, first |-> 0] /\ forward_list = <<>> /\ now = 0 /\ wire = {}
    BY DEF DnsInit, Nobody
  <2>2. Len(forward_list) <= FTABSIZ + 1 /\ now \in 0 .. MaxTime
    BY <1>1, <2>1, BoundAssumption
  <2>3. sending \in [entry : 0 .. Len(forward_list), first : Server \cup {0}]
    BY <1>1, <2>1
  <2> QED BY <1>1, <1>2, <2>1, <2>2, <2>3 DEF DnsInit, DnsTypeOK
<1>4. SendsForQuery
  BY DEF DnsInit, SendsForQuery, Idle
<1>5. AnswerFits
  BY <1>1, FitsByPlace DEF DnsInit
<1> QED BY <1>3, <1>4, <1>5 DEF DnsInv

LEMMA DnsStep == DnsInv /\ [DnsNext]_dnsVars => DnsInv'
<1> SUFFICES ASSUME DnsInv, [DnsNext]_dnsVars PROVE DnsInv'
  OBVIOUS
<1>1. ASSUME NEW h \in Host, NEW name \in Name, Retry(h, name) \/ Query(h, name)
      PROVE  DnsInv'
  BY <1>1, RetryKeeps, QueryKeeps
<1>2. ASSUME NEW p \in wire, Reply(p) \/ Lost(p)
      PROVE  DnsInv'
  BY <1>2, ReplyKeeps, OthersKeep
<1> QED
  BY <1>1, <1>2, TakesKeeps, FailsKeeps, ShutdownKeeps, SighupKeeps, OthersKeep DEF DnsNext

LEMMA DnsAlways == DnsSpec => []DnsInv
<1> QED BY DnsStarts, DnsStep, PTL DEF DnsSpec

(* Every variable keeps its type, for any number of hosts, servers and     *)
(* entries: the places the code keeps in activeserver and in the entries   *)
(* are places of the table, also after it has become shorter, and the list *)
(* never holds more than FTABSIZ + 1 entries (dnsmasq_lib.c:593, 746).     *)
THEOREM DnsTypeCorrect == DnsSpec => []DnsTypeOK
<1>1. DnsInv => DnsTypeOK
  BY DEF DnsInv
<1> QED BY <1>1, DnsAlways, PTL

(* No two queries that wait share an id, and an answer that may still come *)
(* finds no entry but that of its own host and name, however many queries  *)
(* there are and however answers are lost, delayed or repeated             *)
(* (dnsmasq_lib.c:740, 781).                                               *)
THEOREM AnswersFit == DnsSpec => []AnswerFits
<1>1. DnsInv => AnswerFits
  BY DEF DnsInv
<1> QED BY <1>1, DnsAlways, PTL
=============================================================================
