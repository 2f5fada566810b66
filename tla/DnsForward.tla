----------------------------- MODULE DnsForward -----------------------------
(***************************************************************************)
(* The DNS proxy: the daemon of dnsmasq/src/dnsmasq.c with the list of     *)
(* forwarded queries and the table of servers of dnsmasq_lib.c.            *)
(*                                                                         *)
(* A query of a host on the LAN gets an entry and an id of its own and is  *)
(* sent to one server after the other until one takes it; an answer finds  *)
(* its way back by that id.  Answers may be late, lost, or come twice, and *)
(* in any order.  Names that the proxy answers itself change nothing and   *)
(* are left out, and so are the port, the id and the type of a query,      *)
(* which its entry keeps for the way back.                                 *)
(*                                                                         *)
(* What most modules name Init, Next, Spec, vars and TypeOK is named for   *)
(* the daemon here: DaemonProofs extends this module and another.          *)
(***************************************************************************)
EXTENDS Integers, Sequences, SequencesExt, FiniteSetsExt

CONSTANTS
  Host, Name,
  Nid,        \* the ids of forwarded queries, without 0
  MAXDNSSERVER, FTABSIZ, TIMEOUT,
  MaxTime     \* bound on the clock

ASSUME IdAssumption == 0 \notin Nid
ASSUME BoundAssumption ==
  {FTABSIZ, TIMEOUT, MaxTime} \subseteq Nat /\ MAXDNSSERVER \in Nat \ {0}

VARIABLES
  forward_list,   \* the entries, the latest first
  open,           \* the servers with a socket
  dns_servers_num,\* how many servers there are, the proxy itself at the end
  activeserver,   \* where the next query goes first
  dns_sleep,      \* stopped by a command
  box,            \* the commands of the monitor task
  sending,        \* the query that is being sent: its entry, its first server
  now,
  wire            \* the answers that servers have sent or will send

(* The places of dns_servers                                               *)
Server == 1 .. MAXDNSSERVER

servers == <<open, dns_servers_num, activeserver>>
daemon == <<dns_sleep, box>>
dnsVars == <<forward_list, servers, daemon, sending, now, wire>>

Entry == [nid : Nid, host : Host, dnsname : Name, forwardto : Server,
          time : 0 .. MaxTime]
(* An entry that is not in use has nid 0; the rest of it is not read.      *)
Free == [nid |-> 0]
Nobody == [entry |-> 0, first |-> 0]

DnsTypeOK ==
  /\ forward_list \in Seq(Entry \cup {Free}) /\ Len(forward_list) <= FTABSIZ + 1
  /\ open \subseteq Server /\ dns_servers_num \in Server /\ activeserver \in Server
  /\ dns_sleep \in BOOLEAN /\ box \in Seq({"sighup", "shutdown"})
  /\ sending \in [entry : 0 .. Len(forward_list), first : Server \cup {0}]
  /\ now \in 0 .. MaxTime
  /\ wire \subseteq [nid : Nid, host : Host, dnsname : Name]

(* serverInit(): n servers, of which those in S have a socket, and behind  *)
(* them the proxy itself, which never has one.                             *)
serverInit(n, S) ==
  /\ open' = S /\ dns_servers_num' = n + 1

DnsInit ==
  /\ forward_list = <<>> /\ sending = Nobody
  /\ \E n \in 0 .. MAXDNSSERVER - 1 :
       open \in SUBSET (1 .. n) /\ dns_servers_num = n + 1
  /\ activeserver = 1
  /\ dns_sleep = FALSE /\ box = <<>>
  /\ now = 0 /\ wire = {}

(* The daemon waits for a command or a packet.                             *)
Idle == sending = Nobody
Awake == Idle /\ ~dns_sleep

-----------------------------------------------------------------------------
(* The list.                                                               *)

(* Mutant of forwardEntryfind: the querist is not compared.                *)
forwardEntryfind_name(h, name) ==
  {i \in DOMAIN forward_list : /\ forward_list[i].nid # 0
                               /\ forward_list[i].dnsname = name}

forwardEntryfind(h, name) ==
  {i \in DOMAIN forward_list : /\ forward_list[i].nid # 0
                               /\ forward_list[i].dnsname = name
                               /\ forward_list[i].host = h}

Unused == {i \in DOMAIN forward_list : forward_list[i].nid = 0}

(* The last of the oldest entries, if it is older than TIMEOUT             *)
Oldest ==
  {i \in DOMAIN forward_list :
     /\ now - forward_list[i].time > TIMEOUT
     /\ \A j \in DOMAIN forward_list :
          \/ forward_list[i].time < forward_list[j].time
          \/ forward_list[i].time = forward_list[j].time /\ j <= i}

(* forwardEntrynew(): the entry a query gets, 0 for a new one at the head. *)
Place ==
  IF Unused # {} THEN {Min(Unused)}
  ELSE IF Oldest # {} THEN Oldest
  ELSE IF Len(forward_list) > FTABSIZ THEN {} ELSE {0}

(* An id drawn at random that no entry has.  That it is the id of an       *)
(* answer still on its way has odds of one to 65535 and is left out.       *)
getnid == Nid \ ({e.nid : e \in ToSet(forward_list)} \cup {p.nid : p \in wire})

(* Mutant of serverFindnextforwardto: index 1 for the first server.        *)
serverFindnextforwardto_second(s) == IF s >= dns_servers_num THEN 2 ELSE s + 1

(* The server after s; the first one if s is the last or not in the table. *)
serverFindnextforwardto(s) == IF s >= dns_servers_num THEN 1 ELSE s + 1

-----------------------------------------------------------------------------
(* dnsMasqprocessquery(), up to its loop over the servers.                 *)

(* A query that is asked again goes to the next server.                    *)
Retry(h, name) ==
  /\ Awake
  /\ forwardEntryfind(h, name) # {}
  /\ LET i == Min(forwardEntryfind(h, name))
         next == serverFindnextforwardto(forward_list[i].forwardto)
     IN  /\ forward_list' = [forward_list EXCEPT ![i].forwardto = next, ![i].host = h]
         /\ sending' = [entry |-> i, first |-> next]
  /\ UNCHANGED <<servers, daemon, now, wire>>

(* A new one gets an entry, or is dropped if there is none to be had.      *)
Query(h, name) ==
  /\ Awake
  /\ forwardEntryfind(h, name) = {}
  /\ \E i \in Place, n \in getnid :
       LET e == [nid |-> n, host |-> h, dnsname |-> name,
                 forwardto |-> activeserver, time |-> now]
       IN  /\ forward_list' = IF i = 0 THEN <<e>> \o forward_list
                              ELSE [forward_list EXCEPT ![i] = e]
           /\ sending' = [entry |-> IF i = 0 THEN 1 ELSE i, first |-> activeserver]
  /\ UNCHANGED <<servers, daemon, now, wire>>

(* The loop over the servers.  One with a socket may take the query.       *)
Cur == forward_list[sending.entry]
Takes ==
  /\ ~Idle /\ Cur.forwardto \in open
  /\ wire' = wire \cup {[nid |-> Cur.nid, host |-> Cur.host, dnsname |-> Cur.dnsname]}
  /\ activeserver' = serverFindnextforwardto(Cur.forwardto)
  /\ sending' = Nobody
  /\ UNCHANGED <<forward_list, open, dns_servers_num, daemon, now>>

(* All have been tried: the next one is where the loop began.              *)
LastTried == serverFindnextforwardto(Cur.forwardto) = sending.first

(* It has no socket, or it cannot be reached.                              *)
Fails ==
  /\ ~Idle
  /\ forward_list' =
       IF LastTried THEN [forward_list EXCEPT ![sending.entry] = Free]
       ELSE [forward_list EXCEPT ![sending.entry].forwardto = serverFindnextforwardto(@)]
  /\ sending' = IF LastTried THEN Nobody ELSE sending
  /\ UNCHANGED <<servers, daemon, now, wire>>

(* dnsMasqprocessreply(): the entry with the id of the answer is freed.    *)
(* The answer may come again, if the query went to a second server.        *)
Reply(p) ==
  /\ Awake
  /\ p \in wire
  /\ \/ wire' = wire \ {p}
     \/ UNCHANGED wire
  /\ LET found == {i \in DOMAIN forward_list : forward_list[i].nid = p.nid}
     IN  \/ /\ found = {}
            /\ UNCHANGED <<forward_list, activeserver>>
         \/ /\ found # {}
            /\ forward_list' = [forward_list EXCEPT ![Min(found)] = Free]
            /\ \/ activeserver' = forward_list[Min(found)].forwardto
               \/ UNCHANGED activeserver
  /\ UNCHANGED <<open, dns_servers_num, daemon, sending, now>>

Lost(p) ==
  /\ p \in wire /\ wire' = wire \ {p}
  /\ UNCHANGED <<forward_list, servers, daemon, sending, now>>

-----------------------------------------------------------------------------
(* The commands, which the monitor task sends one after the other.         *)
Monitor ==
  /\ box = <<>> /\ box' = <<"shutdown", "sighup">>
  /\ UNCHANGED <<forward_list, servers, dns_sleep, sending, now, wire>>

(* dnsMasqstop(): the list is freed.                                       *)
Shutdown ==
  /\ Idle /\ box # <<>> /\ Head(box) = "shutdown" /\ box' = Tail(box)
  /\ forward_list' = <<>> /\ dns_sleep' = TRUE
  /\ UNCHANGED <<servers, sending, now, wire>>

(* dnsMasqstart(): the servers are read anew; the sockets of the old ones  *)
(* are closed, so their answers are not received; activeserver stays.      *)
Sighup ==
  /\ Idle /\ box # <<>> /\ Head(box) = "sighup" /\ box' = Tail(box)
  /\ forward_list' = [i \in DOMAIN forward_list |-> Free]
  /\ \E n \in 0 .. MAXDNSSERVER - 1 : \E S \in SUBSET (1 .. n) : serverInit(n, S)
  /\ dns_sleep' = FALSE
  /\ wire' = {}
  /\ UNCHANGED <<activeserver, sending, now>>

Second ==
  /\ now < MaxTime /\ now' = now + 1
  /\ UNCHANGED <<forward_list, servers, daemon, sending, wire>>

DnsNext ==
  \/ \E h \in Host, name \in Name : Retry(h, name) \/ Query(h, name)
  \/ Takes \/ Fails
  \/ \E p \in wire : Reply(p) \/ Lost(p)
  \/ Monitor \/ Shutdown \/ Sighup \/ Second

(* The daemon goes on with a query it has begun to send.                   *)
DnsSpec == DnsInit /\ [][DnsNext]_dnsVars /\ WF_dnsVars(Takes \/ Fails)

-----------------------------------------------------------------------------
(* Properties.                                                             *)

(* An answer that may still come finds no entry but that of the host and   *)
(* the name it is for, however late it is, whoever has the entry by then   *)
(* and however often the query was sent (dnsmasq_lib.c:740, 790).          *)
AnswerFits ==
  /\ \A i, j \in DOMAIN forward_list :
       forward_list[i].nid = forward_list[j].nid /\ i # j => forward_list[i].nid = 0
  /\ \A p \in wire : \A e \in ToSet(forward_list) :
       e.nid = p.nid => e.host = p.host /\ e.dnsname = p.dnsname

(* A query is sent or given up in the end, whatever servers fail, if the   *)
(* server it goes to first is in the table: activeserver may point behind  *)
(* a table that has become shorter, and if then no server can be reached   *)
(* the loop never comes back to it (dnsmasq_lib.c:969).                    *)
LoopEnds == ~Idle /\ sending.first <= dns_servers_num ~> Idle
=============================================================================
