----------------------------- MODULE DhcpClient -----------------------------
(***************************************************************************)
(* The DHCP client of one interface: dhcpc/src/dhcpc.c, with the parts of  *)
(* dhcpc_api.c and init/wan_start.c through which the monitor task drives  *)
(* it and configures the interface.                                        *)
(*                                                                         *)
(* Four parties meet here: the client's thread, which takes commands from  *)
(* its message box and runs the protocol; the lease timer, which fires on  *)
(* the thread of the network timeouts; the monitor task; and the user, who *)
(* asks for a renewal or a release.  The servers answer what they like or  *)
(* nothing.  The stages of a lease follow each other in their order, at    *)
(* any moment: the times are left out.                                     *)
(***************************************************************************)
EXTENDS Integers, Sequences

CONSTANTS
  Addr, None,      \* the addresses servers may lease; 0
  Wished,          \* CFG_WAN_DHCP_REQIP: the address to ask for, or None
  Tries,           \* DHCPC_MAX_COUNTDOWN
  BoxSize,         \* the room of the message box
  MaxUser,         \* how often the user asks for something
  UserAsks,        \* what for: {"renew", "release"}
  Prompt,          \* the monitor and a client with work to do have done it before
                   \* the next packet, the next stage or the return of the link
  MaxFails,        \* how often the link goes down
  Manual           \* CFG_WAN_DHCP_MAN: leases are renewed by hand

ASSUME ClientAssumption ==
  /\ None \notin Addr /\ Wished \in Addr \cup {None}
  /\ {Tries, BoxSize} \subseteq Nat \ {0} /\ {MaxUser, MaxFails} \subseteq Nat
  /\ UserAsks \subseteq {"renew", "release"}
  /\ {Prompt, Manual} \subseteq BOOLEAN

Recv == {"REQUEST_RECV", "RENEW_RECV", "REBIND_RECV"}
State == {"STOPPED", "INIT", "SELECTING", "REQUESTING", "BOUND", "RENEWING",
          "REBINDING", "NOTBOUND", "DO_RELEASE", "FREE"} \cup Recv
Stage == {"T1", "T2", "EX"}
Command == {"release", "free", "renew", "timeout", "change"}

VARIABLES
  state,      \* difp->state
  pc,         \* where the client's thread is
  box,        \* its message box
  curr, next, \* difp->lease: the stage that has been reached, the next one
  armed,      \* whether the timeout of lease_function() is set
  taken,      \* lease_state, the stage daemon has read
  countdown,
  req_ip, rx, \* the address asked for, and the one in the last packet
  setp,       \* the address in difp->setp, for the monitor to configure
  user_flag,  \* the user has released the address
  mon,        \* the commands to the monitor, and what it is doing
  ctl,        \* dhcpc_ctl.state, the monitor's copy of state
  wan,        \* the address of the interface
  link,       \* chk_link
  fails,      \* how often it went down
  asked,      \* how often the user has asked for something
  finite,     \* whether the lease of the last ACK ends; not in the code
  reached     \* the stages the lease has reached; not in the code

lease == <<curr, next, armed, finite, reached>>
monitor == <<mon, ctl, wan, link, fails>>
vars == <<state, pc, box, lease, taken, countdown, req_ip, rx, setp, user_flag,
          monitor, asked>>

TypeOK ==
  /\ state \in State
  /\ pc \in {"idle", "took", "loop", "out", "delay"}
  /\ box \in Seq(Command) /\ Len(box) <= BoxSize
  /\ {curr, next, taken} \subseteq Stage \cup {"none"}
  /\ {armed, finite, link, user_flag} \subseteq BOOLEAN
  /\ countdown \in 0 .. Tries
  /\ {req_ip, rx, setp, wan} \subseteq Addr \cup {None}
  /\ mon \in [todo : Seq({"stop", "init"}), init : BOOLEAN]
  /\ ctl \in State
  /\ asked \in 0 .. MaxUser /\ fails \in 0 .. MaxFails
  /\ reached \subseteq Stage

(* The monitor has called DHCPC_init(), which made the thread and its box, *)
(* and DHCPC_renew().                                                      *)
Init ==
  /\ state = "STOPPED" /\ pc = "idle" /\ box = <<"renew">>
  /\ curr = "none" /\ next = "none" /\ taken = "none"
  /\ armed = FALSE /\ finite = FALSE /\ reached = {}
  /\ countdown = 0
  /\ req_ip = Wished /\ rx = None /\ setp = None /\ wan = None
  /\ user_flag = FALSE
  /\ mon = [todo |-> <<>>, init |-> FALSE] /\ ctl = "STOPPED"
  /\ link = TRUE /\ fails = 0 /\ asked = 0

-----------------------------------------------------------------------------
(* cyg_mbox_tryput(): a command for which there is no room is dropped.     *)
Put(b, cmd) == IF Len(b) < BoxSize THEN Append(b, cmd) ELSE b
inform_mon(cmds) == mon' = [mon EXCEPT !.todo = @ \o cmds]

no_lease == armed' = FALSE /\ UNCHANGED <<curr, next, finite, reached>>

(* Mutant of new_lease: the stage of the old lease stays.                  *)
new_lease_keeps(ends, first) ==
  /\ armed' = ends /\ next' = (IF ends THEN first ELSE "none")
  /\ finite' = ends /\ reached' = {} /\ UNCHANGED curr

(* new_lease(): a lease that never ends, or one whose first stage is T1, or *)
(* EX if it is very short or the user renews by hand.                      *)
new_lease(ends, first) ==
  /\ curr' = "none"
  /\ armed' = ends /\ next' = (IF ends THEN first ELSE "none")
  /\ finite' = ends /\ reached' = {}

(* Mutant of offer_timer: no timer.                                        *)
offer_timer_none ==
  /\ curr' = "none" /\ next' = "EX" /\ armed' = FALSE
  /\ UNCHANGED <<finite, reached>>

(* new_lease() when no offer came: 30 s to the next attempt.               *)
offer_timer ==
  /\ curr' = "none" /\ next' = "EX" /\ armed' = TRUE
  /\ UNCHANGED <<finite, reached>>

(* lease_function(): the timer fires.                                      *)
After(stage) == CASE stage = "T1" -> "T2" [] stage = "T2" -> "EX" [] OTHER -> stage
Quiet == mon.todo = <<>> /\ ~mon.init
Calm == Prompt => Quiet
Waits ==
  \/ pc = "idle" /\ box = <<>>
  \/ pc = "loop" /\ state \in Recv \cup {"SELECTING"}

lease_function ==
  /\ armed /\ Calm /\ (Prompt => Waits)
  /\ curr' = next /\ next' = After(next)
  /\ armed' = (next \in {"T1", "T2"})
  /\ reached' = reached \cup ({next} \cap Stage)
  /\ box' = Put(box, "timeout")
  /\ UNCHANGED <<state, pc, finite, taken, countdown, req_ip, rx, setp, user_flag, monitor, asked>>

-----------------------------------------------------------------------------
(* DHCPC_daemon(): the thread takes a command and enters do_dhcpc().       *)
Takes(cmd) == pc = "idle" /\ box # <<>> /\ Head(box) = cmd /\ box' = Tail(box)
Enters == pc' = "loop" /\ countdown' = Tries

take_release ==
  /\ Takes("release") /\ Enters
  /\ user_flag' = TRUE
  /\ IF state = "BOUND" THEN state' = "DO_RELEASE" /\ UNCHANGED mon
     ELSE inform_mon(<<"stop">>) /\ UNCHANGED state
  /\ UNCHANGED <<lease, taken, req_ip, rx, setp, ctl, wan, link, fails, asked>>

take_free ==
  /\ Takes("free") /\ Enters
  /\ state' = "FREE"
  /\ UNCHANGED <<lease, taken, req_ip, rx, setp, user_flag, monitor, asked>>

take_renew ==
  /\ Takes("renew") /\ Enters
  /\ user_flag' = FALSE
  /\ state' = IF state = "BOUND" THEN "RENEWING"
              ELSE IF req_ip # None THEN "REQUESTING" ELSE "INIT"
  /\ no_lease
  /\ UNCHANGED <<taken, req_ip, rx, setp, monitor, asked>>

take_change ==
  /\ Takes("change") /\ Enters
  /\ UNCHANGED <<state, lease, taken, req_ip, rx, setp, user_flag, monitor, asked>>

(* A timeout: the stage is read, then cleared.                             *)
take_timeout ==
  /\ Takes("timeout")
  /\ taken' = curr /\ pc' = "took"
  /\ UNCHANGED <<state, lease, countdown, req_ip, rx, setp, user_flag, monitor, asked>>

(* Mutant of StateOf: the end of the lease is taken for T2.                *)
StateOf_T2(stage) ==
  CASE stage \in {"EX", "T2"} -> "REBINDING" [] stage = "T1" -> "RENEWING"
    [] OTHER -> state

StateOf(stage) ==
  CASE stage = "EX" -> "NOTBOUND" [] stage = "T2" -> "REBINDING"
    [] stage = "T1" -> "RENEWING" [] OTHER -> state

clear_curr ==
  /\ pc = "took" /\ Enters
  /\ curr' = "none"
  /\ state' = StateOf(taken)
  /\ setp' = IF taken = "EX" THEN None ELSE setp
  /\ taken' = "none"
  /\ UNCHANGED <<box, next, armed, finite, reached, req_ip, rx, user_flag, monitor, asked>>

-----------------------------------------------------------------------------
(* do_dhcpc(), one pass of its loop.                                       *)
In(s) == pc = "loop" /\ state = s
Out(cmds) == pc' = "out" /\ box' = IF cmds = <<>> THEN box ELSE Put(box, Head(cmds))
Stays == UNCHANGED <<pc, box>>

Still == UNCHANGED <<taken, user_flag, ctl, wan, link, fails, asked>>

(* A message is sent; without a link the client gives up.                  *)
Sends(s, recv) ==
  /\ In(s)
  /\ state' = IF link THEN recv ELSE "FREE"
  /\ Stays /\ UNCHANGED <<lease, countdown, req_ip, rx, setp, mon>> /\ Still

do_init ==
  /\ In("INIT") /\ state' = "SELECTING" /\ no_lease
  /\ Stays /\ UNCHANGED <<countdown, req_ip, rx, setp, mon>> /\ Still

NoLink ==
  /\ pc = "loop" /\ state \in Recv \cup {"SELECTING"} /\ ~link
  /\ state' = "FREE"
  /\ Stays /\ UNCHANGED <<lease, countdown, req_ip, rx, setp, mon>> /\ Still

(* receive_packet() returns 2 or 3: nothing came in time.                  *)
Again(s) ==
  CASE s = "SELECTING" -> "INIT" [] s = "REQUEST_RECV" -> "REQUESTING"
    [] s = "RENEW_RECV" -> "RENEWING" [] s = "REBIND_RECV" -> "REBINDING"

receive_nothing ==
  /\ pc = "loop" /\ state \in Recv \cup {"SELECTING"} /\ link /\ Calm
  /\ countdown' = countdown - 1
  /\ \/ /\ countdown > 1
        /\ state' = Again(state)
        /\ Stays /\ UNCHANGED lease
     \/ /\ countdown = 1 /\ state = "SELECTING"
        /\ state' = "INIT" /\ Out(<<>>)
        /\ offer_timer
     \/ /\ countdown = 1 /\ state = "REQUEST_RECV"
        /\ state' = "INIT" /\ Out(<<"change">>) /\ UNCHANGED lease
     \/ /\ countdown = 1 /\ state \in {"RENEW_RECV", "REBIND_RECV"}
        /\ state' = "BOUND" /\ Stays /\ UNCHANGED lease
  /\ UNCHANGED <<req_ip, rx, setp, mon>> /\ Still

(* An offer long enough                                                    *)
receive_offer ==
  /\ In("SELECTING") /\ link /\ Calm
  /\ \E a \in Addr : rx' = a /\ req_ip' = a
  /\ state' = "REQUESTING" /\ Out(<<"change">>)
  /\ UNCHANGED <<lease, countdown, setp, mon>> /\ Still

(* An ACK for the address asked for                                        *)
receive_ack ==
  /\ pc = "loop" /\ state \in Recv /\ link /\ Calm
  /\ req_ip # None /\ rx' = req_ip
  /\ \E ends \in BOOLEAN, first \in {"T1", "EX"} :
       /\ Manual => first = "EX"
       /\ new_lease(ends, first)
  /\ state' = "BOUND"
  /\ Stays /\ UNCHANGED <<countdown, req_ip, setp, mon>> /\ Still

(* A NAK, and while requesting any other message that names a server       *)
receive_nak ==
  /\ pc = "loop" /\ state \in Recv /\ link /\ Calm
  /\ \E a \in Addr \cup {None} : rx' = a
  /\ IF state = "REQUEST_RECV" THEN state' = "INIT" /\ Out(<<"change">>)
     ELSE state' = "NOTBOUND" /\ Stays
  /\ UNCHANGED <<lease, countdown, req_ip, setp, mon>> /\ Still

(* A packet that is not for this client or says nothing to it              *)
receive_other ==
  /\ pc = "loop" /\ state \in Recv \cup {"SELECTING"} /\ link /\ Calm
  /\ \E a \in Addr \cup {None} : rx' = a
  /\ Stays /\ UNCHANGED <<state, lease, countdown, req_ip, setp, mon>> /\ Still

(* The address of the last packet is handed to the monitor.                *)
do_bound ==
  /\ In("BOUND") /\ Out(<<>>)
  /\ IF countdown # 0 THEN setp' = rx /\ inform_mon(<<"init">>)
     ELSE UNCHANGED <<setp, mon>>
  /\ UNCHANGED <<state, lease, countdown, req_ip, rx>> /\ Still

do_release ==
  /\ In("DO_RELEASE") /\ state' = "NOTBOUND"
  /\ Stays /\ UNCHANGED <<lease, countdown, req_ip, rx, setp, mon>> /\ Still

do_leave ==
  /\ pc = "loop" /\ state \in {"NOTBOUND", "STOPPED", "FREE"} /\ Out(<<>>)
  /\ IF state = "FREE" THEN no_lease ELSE UNCHANGED lease
  /\ UNCHANGED <<state, countdown, req_ip, rx, setp, mon>> /\ Still

(* After do_dhcpc(): an address that is lost is reported, and two seconds  *)
(* later, unless the user released it or renews by hand, asked for again.  *)
returns ==
  /\ pc = "out"
  /\ pc' = IF state = "NOTBOUND" THEN "delay" ELSE "idle"
  /\ state' = CASE state = "NOTBOUND" -> "INIT" [] state = "FREE" -> "STOPPED" [] OTHER -> state
  /\ IF state = "NOTBOUND" THEN inform_mon(<<"stop">>) ELSE UNCHANGED mon
  /\ UNCHANGED <<box, lease, countdown, req_ip, rx, setp>> /\ Still

delayed ==
  /\ pc = "delay" /\ pc' = "idle"
  /\ IF ~user_flag /\ Manual THEN state' = "STOPPED" ELSE UNCHANGED state
  /\ IF ~user_flag /\ ~Manual THEN inform_mon(<<"init">>) ELSE UNCHANGED mon
  /\ UNCHANGED <<box, lease, countdown, req_ip, rx, setp>> /\ Still

-----------------------------------------------------------------------------
(* The monitor task: WAN_start() in DHCP mode.                             *)
Client == <<state, pc, taken, countdown, rx, user_flag, asked>>

(* Mutant of Down: the address stays on the interface.                     *)
Down_stays ==
  IF ctl # "STOPPED"
  THEN box' = Put(box, "free") /\ ctl' = "STOPPED" /\ UNCHANGED wan
  ELSE UNCHANGED <<box, wan, ctl>>

(* dhcpc_mon_down()                                                        *)
Down ==
  IF ctl # "STOPPED"
  THEN box' = Put(box, "free") /\ wan' = None /\ ctl' = "STOPPED"
  ELSE UNCHANGED <<box, wan, ctl>>

mon_stop ==
  /\ ~mon.init
  /\ \/ /\ mon.todo # <<>> /\ Head(mon.todo) = "stop"
        /\ mon' = [mon EXCEPT !.todo = Tail(@)]
        /\ UNCHANGED <<link, fails>>
     \/ /\ link /\ link' = FALSE
        /\ fails < MaxFails /\ fails' = fails + 1
        /\ UNCHANGED mon
  /\ Down
  /\ UNCHANGED <<lease, req_ip, setp>> /\ UNCHANGED Client

(* dhcpc_mon(): what it finds in the state of the client decides.          *)
mon_init ==
  /\ ~mon.init
  /\ \/ /\ mon.todo # <<>> /\ Head(mon.todo) = "init"
        /\ mon' = [todo |-> Tail(mon.todo), init |-> link /\ state # "BOUND"]
        /\ UNCHANGED link
     \/ /\ ~link /\ link' = TRUE
        /\ Prompt => (state = "BOUND" => box = <<>>)
        /\ mon' = [mon EXCEPT !.init = state # "BOUND"]
  /\ ctl' = IF link' THEN state ELSE ctl
  /\ wan' = IF link' /\ state = "BOUND" /\ setp # None THEN setp ELSE wan
  /\ UNCHANGED <<box, lease, req_ip, setp, fails>> /\ UNCHANGED Client

(* DHCPC_init() and DHCPC_renew()                                          *)
DHCPC_init ==
  /\ mon.init /\ mon' = [mon EXCEPT !.init = FALSE]
  /\ req_ip' = Wished /\ setp' = None
  /\ curr' = "none" /\ next' = "none"
  /\ box' = Put(box, "renew")
  /\ UNCHANGED <<armed, finite, reached, ctl, wan, link, fails>> /\ UNCHANGED Client

(* The user asks on the web page or the command line.                      *)
user ==
  /\ asked < MaxUser /\ asked' = asked + 1
  /\ \E cmd \in UserAsks : box' = Put(box, cmd)
  /\ UNCHANGED <<state, pc, lease, taken, countdown, req_ip, rx, setp, user_flag, monitor>>

-----------------------------------------------------------------------------
Daemon ==
  \/ take_release \/ take_free \/ take_renew \/ take_change \/ take_timeout \/ clear_curr
  \/ do_init \/ Sends("REQUESTING", "REQUEST_RECV") \/ Sends("RENEWING", "RENEW_RECV")
  \/ Sends("REBINDING", "REBIND_RECV") \/ do_bound \/ do_release \/ do_leave
  \/ NoLink \/ returns \/ delayed
Server == receive_offer \/ receive_ack \/ receive_nak \/ receive_other
Monitor == mon_stop \/ mon_init \/ DHCPC_init

Next == Daemon \/ receive_nothing \/ Server \/ Monitor \/ lease_function \/ user

(* A thread that can go on goes on, and a receive ends when its time is    *)
(* over unless a packet came.                                              *)
Spec ==
  /\ Init /\ [][Next]_vars
  /\ WF_vars(Daemon) /\ WF_vars(receive_nothing)
  /\ WF_vars(mon.todo # <<>> /\ (mon_stop \/ mon_init)) /\ WF_vars(DHCPC_init)

-----------------------------------------------------------------------------
(* Properties.                                                             *)
Settled == Quiet /\ pc = "idle" /\ box = <<>>

(* When nothing is left to do and the link has not failed, the client does *)
(* not rest in the middle of the protocol: it is bound or stopped, or a    *)
(* timer will set it going again, unless the user released the address     *)
(* (dhcpc.c:111, 742).                                                     *)
NotStuck ==
  Settled /\ fails = 0 => state \in {"BOUND", "STOPPED"} \/ armed \/ user_flag

(* A timeout of an old lease does nothing to a new one: the client rebinds *)
(* or gives up only at a stage its present lease has reached, whenever the *)
(* timer fires and whatever else is in the box (dhcpc.c:804).              *)
OwnStage ==
  [][pc = "took" /\ pc' # "took" =>
       /\ state' = "NOTBOUND" => "EX" \in reached
       /\ state' = "REBINDING" => "T2" \in reached]_vars

(* An address of the interface is one the monitor can take away: its copy  *)
(* of the client's state does not say STOPPED (wan_start.c:354).           *)
Undisturbed == asked = 0 /\ fails = 0
CanTakeDown == Undisturbed /\ wan # None => ctl # "STOPPED"

(* A lease that has run out is renewed or its address given up, unless the *)
(* user or the link came in between (dhcpc.c:807).                         *)
LeaseEnds ==
  ("EX" \in reached /\ finite) ~>
    ("EX" \notin reached \/ wan = None \/ ~Undisturbed)
=============================================================================
