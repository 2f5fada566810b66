----------------------------- MODULE DhcpLeases -----------------------------
(***************************************************************************)
(* The DHCP server: dhcpd/src/leases.c (the table of leases), the handlers *)
(* of dhcpd.c, and dynamic_leases.c, which saves the table so that it      *)
(* survives a restart.  Its clients are modelled as far as the promises of *)
(* the server need it: what they were offered, what they were given and    *)
(* until when, and whether they answer when the server probes an address.  *)
(*                                                                         *)
(* One thread runs the server and handles a message in one step; the       *)
(* saving that follows is a step of its own, because the power may fail    *)
(* before it and other threads may commit the configuration in its middle. *)
(* Any message to a client may be lost.                                    *)
(***************************************************************************)
EXTENDS Integers, Sequences, FiniteSetsExt

CONSTANTS
  Client, Nobody,
  start, end, \* the addresses of the pool, as integers
  Skipped,    \* the ones not looked for: of the server, and ending in 0 or 255
  None,       \* no address, 0
  Slots,      \* max_leases
  StaticOf,   \* the static leases of the configuration: [ch, ip]
  Silent,     \* the clients that do not answer a probe of their address
  Late,       \* whether a client asks for an offer that has run out
  Mixed,      \* whether other threads commit while the table is written
  Lease, Offer, Conflict,   \* server_config.lease, offer_time, conflict_time
  MaxTime     \* bound on the clock

Slot == 1 .. Slots
Pool == start .. end

ASSUME PoolAssumption == {start, end} \subseteq Nat \ {0} /\ start <= end /\ None = 0
                         /\ Skipped \subseteq Pool
ASSUME ClientAssumption ==
  /\ Nobody \notin Client /\ Silent \subseteq Client
  /\ StaticOf \in Seq([ch : Client, ip : Nat \ {0}])
ASSUME TimeAssumption ==
  /\ Slots \in Nat
  /\ {Lease, Offer, Conflict, MaxTime} \subseteq Nat \ {0}
  /\ {Late, Mixed} \subseteq BOOLEAN

VARIABLES
  now,        \* GMTtime(0)
  leases,     \* the table
  saved,      \* the leases in the committed configuration
  dirty,      \* WriteDynLeases() has been called and not finished
  offered,    \* to each client: the address and when the offer ends
  conf        \* the address each client uses, and until when it may

vars == <<now, leases, saved, dirty, offered, conf>>

Flag == {"STATICL", "RESERVED"}
Ip == Pool \cup {StaticOf[k].ip : k \in DOMAIN StaticOf}
Time == 0 .. MaxTime + Lease + Offer + Conflict
Entry == [ch : Client \cup {Nobody}, ip : Ip \cup {None}, exp : Time, flag : SUBSET Flag]
Empty == [ch |-> Nobody, ip |-> None, exp |-> 0, flag |-> {}]
NoGrant == [ip |-> None, until |-> 0]

TypeOK ==
  /\ now \in 1 .. MaxTime
  /\ leases \in [Slot -> Entry]
  /\ saved \in Seq([ch : Client, ip : Ip, exp : Time])
  /\ dirty \in BOOLEAN
  /\ offered \in [Client -> [ip : Ip \cup {None}, until : Time]]
  /\ conf \in [Client -> [ip : Ip \cup {None}, until : Time]]

-----------------------------------------------------------------------------
(* leases.c.  L is a table.                                                *)
Static(e) == "STATICL" \in e.flag
LeaseExpired(e) == e.exp < now /\ ~Static(e)

(* The first slot of S, 0 if there is none.                                *)
First(S) == IF S = {} THEN 0 ELSE Min(S)
FindLeaseByChaddr(L, c) == First({i \in Slot : L[i].ch = c})
FindLeaseByYiaddr(L, a) == First({i \in Slot : L[i].ip = a})

(* Mutant of OldestExpiredLease: static leases are taken as well.          *)
OldestExpiredLease_any(L) ==
  LET old == {i \in Slot : L[i].exp < now}
  IN  First({i \in old : \A j \in old : L[i].exp <= L[j].exp})

OldestExpiredLease(L) ==
  LET old == {i \in Slot : L[i].exp < now /\ ~Static(L[i])}
  IN  First({i \in old : \A j \in old : L[i].exp <= L[j].exp})

(* Mutant of SlotFor: the client's own entry is not looked for.            *)
SlotForNew(L, c) == OldestExpiredLease(L)

(* The slot a lease of c goes to: its own or the oldest one.               *)
SlotFor(L, c) ==
  IF FindLeaseByChaddr(L, c) # 0 THEN FindLeaseByChaddr(L, c)
  ELSE OldestExpiredLease(L)

(* An entry keeps its flag; with no slot to be had L is unchanged.         *)
AddLease(L, c, a, exp) ==
  LET i == SlotFor(L, c)
  IN  IF i = 0 THEN L
      ELSE [L EXCEPT ![i] = [ch |-> c, ip |-> a, exp |-> exp,
                             flag |-> IF L[i].ch = c THEN L[i].flag ELSE {}]]

(* An entry of another address loses its time.                             *)
FindAndSetLease(L, c, a, flag) ==
  LET i == SlotFor(L, c)
  IN  IF i = 0 THEN L
      ELSE [L EXCEPT ![i] = [ch |-> c, ip |-> a, flag |-> flag,
                             exp |-> IF @.ch = c /\ @.ip = a THEN @.exp ELSE 0]]

FlushEntry(L, i) == [L EXCEPT ![i] = Empty]

(* The hosts that answer for an address.                                   *)
Answers(a) == {c \in Client \ Silent : conf[c].ip = a}

(* Mutant of Taken: only hosts the table does not know are asked for.      *)
Taken_unknown(a, c) == {w \in Answers(a) \ {c} : FindLeaseByChaddr(leases, w) = 0} # {}

(* CheckIp(): w answers for a.  If it is not the client that asks, the     *)
(* address is reserved in w's name.                                        *)
Reserve(L, a, w) ==
  FindAndSetLease(AddLease(L, w, a, now + Conflict), w, a, {"RESERVED"})
Taken(a, c) == Answers(a) \ {c} # {}
CheckIp(L, a, c) ==
  IF Taken(a, c) THEN Reserve(L, a, CHOOSE w \in Answers(a) \ {c} : TRUE) ELSE L

(* What FindAddress() thinks of an entry                                   *)
Offerable(L, a, expired) ==
  \/ FindLeaseByYiaddr(L, a) = 0
  \/ expired /\ LeaseExpired(L[FindLeaseByYiaddr(L, a)])
(* Mutant of FindAddress: the address after the one that was found.        *)
FindAddress_next(L, expired) ==
  LET free == {a \in Pool \ Skipped : Offerable(L, a, expired) /\ ~Taken(a, Nobody)}
  IN  [table |-> L, ip |-> IF free = {} THEN None ELSE Min(free) + 1]

(* FindAddress(): the first address of the pool that the table has not, or *)
(* has expired, and for which nobody answers.  The hosts that do answer on *)
(* the way are entered in the table.                                       *)
Try(s, a, expired) ==
  IF s.ip # None \/ a \in Skipped \/ ~Offerable(s.table, a, expired) THEN s
  ELSE [table |-> CheckIp(s.table, a, Nobody),
        ip |-> IF Taken(a, Nobody) THEN None ELSE a]
FindAddress(L, expired) ==
  LET scan[a \in start - 1 .. end] ==
        IF a < start THEN [table |-> L, ip |-> None] ELSE Try(scan[a - 1], a, expired)
  IN  scan[end]

-----------------------------------------------------------------------------
(* dynamic_leases.c and the start of the server.                           *)

(* What is saved: the entries that are live and neither static nor         *)
(* reserved, in the order of the table.                                    *)
Worth(e) == e.ch # Nobody /\ ~LeaseExpired(e) /\ e.flag = {}
Dump(s, e) == IF Worth(e) THEN Append(s, [ch |-> e.ch, ip |-> e.ip, exp |-> e.exp]) ELSE s
Snapshot ==
  LET dump[i \in 0 .. Slots] == IF i = 0 THEN <<>> ELSE Dump(dump[i - 1], leases[i])
  IN  dump[Slots]

(* One lease of LoadDynLeases() and of LoadStaticLeases(); both stop at    *)
(* the first lease for which the table has no slot.                        *)
LoadDynamic(s, e) ==
  IF s.full \/ SlotFor(s.table, e.ch) = 0 THEN [s EXCEPT !.full = TRUE]
  ELSE [s EXCEPT !.table = AddLease(@, e.ch, e.ip, e.exp)]

LoadStatic(s, e) ==
  LET i == FindLeaseByYiaddr(s.table, e.ip)
      M == IF i # 0 THEN FlushEntry(s.table, i) ELSE s.table
  IN  IF s.full \/ (i # 0 /\ Static(s.table[i])) THEN s
      ELSE [table |-> FindAndSetLease(AddLease(M, e.ch, e.ip, 0), e.ch, e.ip, {"STATICL"}),
            full |-> SlotFor(M, e.ch) = 0]

(* init_config() of an empty table                                         *)
Blank == [table |-> [i \in Slot |-> Empty], full |-> FALSE]
LoadDynLeases(store) ==
  LET load[k \in 0 .. Len(store)] ==
        IF k = 0 THEN Blank ELSE LoadDynamic(load[k - 1], store[k])
  IN  load[Len(store)]
LoadStaticLeases(s) ==
  LET load[k \in 0 .. Len(StaticOf)] ==
        IF k = 0 THEN s ELSE LoadStatic(load[k - 1], StaticOf[k])
  IN  load[Len(StaticOf)]
Loaded(store) == LoadStaticLeases([LoadDynLeases(store) EXCEPT !.full = FALSE]).table

Init ==
  /\ now = 1
  /\ saved = <<>> /\ leases = Loaded(<<>>) /\ dirty = FALSE
  /\ offered = [c \in Client |-> NoGrant]
  /\ conf = [c \in Client |-> NoGrant]

(* WriteDynLeases() rewrites the saved leases one by one and deletes what  *)
(* is left of them, the last first; until its commit, a commit of another  *)
(* thread saves what there is.                                             *)
WriteDynLeases ==
  /\ dirty
  /\ saved' = Snapshot
  /\ dirty' = FALSE
  /\ UNCHANGED <<now, leases, offered, conf>>

CommitByOther ==
  /\ dirty /\ Mixed
  /\ \/ \E k \in 0 .. Len(Snapshot) :
          saved' = SubSeq(Snapshot, 1, k) \o SubSeq(saved, k + 1, Len(saved))
     \/ \E m \in Len(Snapshot) .. Len(saved) :
          saved' = Snapshot \o SubSeq(saved, Len(Snapshot) + 1, m)
  /\ UNCHANGED <<now, leases, dirty, offered, conf>>

(* The power fails; the server starts with what was committed.             *)
Restart ==
  /\ leases' = Loaded(saved)
  /\ dirty' = FALSE
  /\ UNCHANGED <<now, saved, offered, conf>>

-----------------------------------------------------------------------------
(* The handlers of dhcpd.c.  They wait for the saving of the one before.   *)

(* The OFFER, if the table has room for it, arrives or is lost.            *)
SendOffer(c, a, L) ==
  LET M == AddLease(L, c, a, now + Offer)
  IN  /\ leases' = M
      /\ \/ UNCHANGED offered
         \/ /\ SlotFor(L, c) # 0
            /\ offered' = [offered EXCEPT ![c] = [ip |-> a, until |-> now + Offer]]

(* discover(): the client's own entry, the address it asks for, or one     *)
(* that is free.                                                           *)
Own(c) == FindLeaseByChaddr(leases, c)
discover(c, req) ==
  /\ ~dirty
  /\ conf[c].ip = None
  /\ LET mine == Own(c) # 0 /\ (Static(leases[Own(c)]) \/ leases[Own(c)].ip \in Pool)
         asked == /\ req \in Pool
                  /\ \/ FindLeaseByYiaddr(leases, req) = 0
                     \/ LeaseExpired(leases[FindLeaseByYiaddr(leases, req)])
         a == IF mine THEN leases[Own(c)].ip ELSE req
         free == FindAddress(leases, FALSE)
         any == IF free.ip # None THEN free ELSE FindAddress(free.table, TRUE)
     IN  IF mine \/ asked THEN
           IF Taken(a, c) THEN
             /\ leases' = IF mine /\ Static(leases[Own(c)]) THEN leases
                          ELSE CheckIp(leases, a, c)
             /\ UNCHANGED offered
           ELSE SendOffer(c, a, IF mine THEN [leases EXCEPT ![Own(c)].flag = @ \ {"RESERVED"}]
                                ELSE leases)
         ELSE IF any.ip # None THEN SendOffer(c, any.ip, any.table)
         ELSE leases' = any.table /\ UNCHANGED offered
  /\ UNCHANGED <<now, saved, dirty, conf>>

(* request() for an address: its client's entry decides, and if there is   *)
(* none the table and a probe.                                             *)
Granted(c, a) ==
  IF Own(c) # 0 THEN leases[Own(c)].ip = a
  ELSE /\ a \in Pool
       /\ LET i == FindLeaseByYiaddr(leases, a) IN i = 0 \/ LeaseExpired(leases[i])
       /\ ~Taken(a, c)

(* The client takes an ACK, gives up the address on a NAK, or hears none.  *)
request(c, a) ==
  /\ ~dirty
  /\ a # None
  /\ \/ a = offered[c].ip /\ (Late \/ now <= offered[c].until)
     \/ a = conf[c].ip
  /\ IF Granted(c, a) THEN
       /\ leases' = AddLease(leases, c, a, now + Lease)
       /\ dirty' = TRUE
       /\ \/ /\ conf' = [conf EXCEPT ![c] = [ip |-> a, until |-> now + Lease]]
             /\ offered' = [offered EXCEPT ![c] = NoGrant]
          \/ UNCHANGED <<conf, offered>>
     ELSE
       /\ \/ /\ conf' = [conf EXCEPT ![c] = NoGrant]
             /\ offered' = [offered EXCEPT ![c] = NoGrant]
          \/ UNCHANGED <<conf, offered>>
       /\ UNCHANGED <<leases, dirty>>
  /\ UNCHANGED <<now, saved>>

(* decline(): the client has found another host at its address.  Its       *)
(* message has no ciaddr, so nothing is probed.                            *)
decline(c) ==
  /\ ~dirty
  /\ conf[c].ip # None /\ Taken(conf[c].ip, c)
  /\ conf' = [conf EXCEPT ![c] = NoGrant]
  /\ IF Own(c) # 0 /\ ~Static(leases[Own(c)])
     THEN leases' = FlushEntry(leases, Own(c)) /\ dirty' = TRUE
     ELSE UNCHANGED <<leases, dirty>>
  /\ UNCHANGED <<now, saved, offered>>

release(c) ==
  /\ ~dirty
  /\ conf[c].ip # None
  /\ conf' = [conf EXCEPT ![c] = NoGrant]
  /\ \/ /\ Own(c) # 0
        /\ leases' = [leases EXCEPT ![Own(c)].exp = now]
        /\ dirty' = TRUE
     \/ UNCHANGED <<leases, dirty>>
  /\ UNCHANGED <<now, saved, offered>>

(* A second passes; a client gives up an address whose time is over.       *)
Second ==
  /\ now < MaxTime
  /\ now' = now + 1
  /\ conf' = [c \in Client |-> IF conf[c].until < now + 1 THEN NoGrant ELSE conf[c]]
  /\ offered' = [c \in Client |->
       IF ~Late /\ offered[c].until < now + 1 THEN NoGrant ELSE offered[c]]
  /\ UNCHANGED <<leases, saved, dirty>>

Next ==
  \/ \E c \in Client :
       \/ \E req \in Pool \cup {None} : discover(c, req)
       \/ \E a \in Ip : request(c, a)
       \/ decline(c) \/ release(c)
  \/ WriteDynLeases \/ CommitByOther \/ Restart \/ Second

Spec == Init /\ [][Next]_vars

-----------------------------------------------------------------------------
(* Properties.                                                             *)

(* A client has at most one entry.                                         *)
OneEntryPerClient ==
  \A i, j \in Slot : leases[i].ch # Nobody /\ leases[i].ch = leases[j].ch => i = j

(* A static lease stays in the table, whatever its client or another one   *)
(* asks, releases, declines or answers to a probe, and after a restart; no *)
(* other client is ever given its address.                                 *)
StaticKept ==
  \A k \in DOMAIN StaticOf :
    /\ \E i \in Slot : /\ leases[i].ch = StaticOf[k].ch
                       /\ leases[i].ip = StaticOf[k].ip
                       /\ Static(leases[i])
    /\ \A c \in Client : conf[c].ip = StaticOf[k].ip => c = StaticOf[k].ch

(* While a client uses an address, nobody else is newly offered it: what  *)
(* the table has lost, to a full table, to a probe, to another thread's    *)
(* commit or to a restart, the probe before each offer still finds.        *)
NotOffered ==
  [][\A c \in Client, d \in Client :
       /\ c # d /\ conf[c].ip # None /\ conf'[c].ip = conf[c].ip
       /\ offered'[d] # offered[d]
       => offered'[d].ip # conf[c].ip]_vars
=============================================================================
