-------------------------- MODULE DhcpClientProofs --------------------------
(* A timeout of the lease acts on the lease it belongs to, whatever the    *)
(* user, the link, the monitor and the servers do and however late the     *)
(* client's thread comes to it; the client does not rest in the middle of  *)
(* the protocol; and the monitor can take down any address it configured.  *)
EXTENDS DhcpClient, SequenceTheorems, TLAPS

(***************************************************************************)
(* The inductive invariant.  The stage the code has noted, and the one the *)
(* daemon has read, are stages the lease has reached: a new lease clears   *)
(* the first, and cannot begin between reading and using the second.  And  *)
(* outside the protocol the state is one that no stage of a lease leads to.*)
(***************************************************************************)
StagesReached ==
  /\ curr # "none" => curr \in reached
  /\ pc = "took" /\ taken # "none" => taken \in reached

Resting == {"INIT", "BOUND", "REQUESTING", "STOPPED"}
RestsOutside ==
  /\ pc \in {"idle", "took", "delay"} => state \in Resting
  /\ pc = "out" => state \in Resting \cup {"NOTBOUND", "FREE"}

ClientInv == TypeOK /\ StagesReached /\ RestsOutside

-----------------------------------------------------------------------------
(* The message boxes.                                                      *)
LEMMA PutTyped ==
  ASSUME NEW b \in Seq(Command), Len(b) <= BoxSize, NEW cmd \in Command
  PROVE  Put(b, cmd) \in Seq(Command) /\ Len(Put(b, cmd)) <= BoxSize
<1>1. BoxSize \in Nat /\ Len(b) \in Nat
  BY ClientAssumption
<1>2. CASE Len(b) < BoxSize
  <2>1. Append(b, cmd) \in Seq(Command) /\ Len(Append(b, cmd)) = Len(b) + 1
    BY AppendProperties
  <2> QED BY <1>1, <1>2, <2>1 DEF Put
<1>3. CASE ~(Len(b) < BoxSize)
  BY <1>3 DEF Put
<1> QED BY <1>2, <1>3

LEMMA OutTyped ==
  ASSUME TypeOK, NEW cmds \in {<<>>, <<"change">>}, Out(cmds)
  PROVE  pc' = "out" /\ box' \in Seq(Command) /\ Len(box') <= BoxSize
<1>1. CASE cmds = <<>>
  BY <1>1 DEF Out, TypeOK
<1>2. CASE cmds = <<"change">>
  <2>1. cmds # <<>> /\ Head(cmds) = "change"
    BY <1>2
  <2>2. box' = Put(box, "change") /\ "change" \in Command
    BY <2>1 DEF Out, Command
  <2> QED BY <2>2, PutTyped DEF Out, TypeOK
<1> QED BY <1>1, <1>2

LEMMA InformTyped ==
  ASSUME TypeOK, NEW cmd \in {"stop", "init"}, inform_mon(<<cmd>>)
  PROVE  mon' \in [todo : Seq({"stop", "init"}), init : BOOLEAN]
<1>1. <<cmd>> \in Seq({"stop", "init"})
  OBVIOUS
<1>2. mon.todo \o <<cmd>> \in Seq({"stop", "init"})
  BY <1>1, ConcatProperties DEF TypeOK
<1>3. mon' = [mon EXCEPT !.todo = mon.todo \o <<cmd>>]
  BY DEF inform_mon
<1> QED BY <1>2, <1>3 DEF TypeOK

LEMMA TailTyped ==
  ASSUME NEW S, NEW q \in Seq(S), q # <<>>
  PROVE  Tail(q) \in Seq(S) /\ Len(Tail(q)) = Len(q) - 1
BY HeadTailProperties

LEMMA TakesTyped ==
  ASSUME TypeOK, NEW cmd, Takes(cmd)
  PROVE  pc = "idle" /\ box' \in Seq(Command) /\ Len(box') <= BoxSize
<1>1. box \in Seq(Command) /\ box # <<>> /\ box' = Tail(box) /\ Len(box) \in Nat /\ Len(box) <= BoxSize
  BY DEF Takes, TypeOK
<1>2. box' \in Seq(Command) /\ Len(box') = Len(box) - 1
  BY <1>1, TailTyped
<1> QED BY <1>1, <1>2, ClientAssumption DEF Takes

-----------------------------------------------------------------------------
(* The commands the thread takes.                                          *)
LEMMA CommandsKeep ==
  ASSUME ClientInv, take_release \/ take_free \/ take_renew \/ take_change \/ take_timeout
  PROVE  ClientInv'
<1>1. Tries \in 0 .. Tries
  BY ClientAssumption
<1>2. CASE take_release
  <2>1. box' \in Seq(Command) /\ Len(box') <= BoxSize /\ pc' = "loop" /\ countdown' = Tries
    BY <1>2, TakesTyped DEF take_release, Enters, ClientInv
  <2>2. /\ state' \in State /\ user_flag' \in BOOLEAN
        /\ mon' \in [todo : Seq({"stop", "init"}), init : BOOLEAN]
    BY <1>2, InformTyped DEF take_release, ClientInv, TypeOK, State
  <2>3. UNCHANGED <<lease, taken, req_ip, rx, setp, ctl, wan, link, fails, asked>>
    BY <1>2 DEF take_release
  <2> QED BY <1>1, <2>1, <2>2, <2>3 DEF ClientInv, TypeOK, StagesReached, RestsOutside, lease
<1>3. CASE take_free \/ take_change
  <2>1. box' \in Seq(Command) /\ Len(box') <= BoxSize /\ pc' = "loop" /\ countdown' = Tries
    BY <1>3, TakesTyped DEF take_free, take_change, Enters, ClientInv
  <2>2. state' \in State
    BY <1>3 DEF take_free, take_change, ClientInv, TypeOK, State
  <2>3. UNCHANGED <<lease, taken, req_ip, rx, setp, user_flag, monitor, asked>>
    BY <1>3 DEF take_free, take_change
  <2> QED BY <1>1, <2>1, <2>2, <2>3 DEF ClientInv, TypeOK, StagesReached, RestsOutside, lease, monitor
<1>4. CASE take_renew
  <2>1. box' \in Seq(Command) /\ Len(box') <= BoxSize /\ pc' = "loop" /\ countdown' = Tries
    BY <1>4, TakesTyped DEF take_renew, Enters, ClientInv
  <2>2. /\ state' \in State /\ user_flag' \in BOOLEAN /\ armed' \in BOOLEAN
        /\ UNCHANGED <<curr, next, finite, reached>>
    BY <1>4 DEF take_renew, State, no_lease
  <2>3. UNCHANGED <<taken, req_ip, rx, setp, monitor, asked>>
    BY <1>4 DEF take_renew
  <2> QED BY <1>1, <2>1, <2>2, <2>3 DEF ClientInv, TypeOK, StagesReached, RestsOutside, monitor
<1>5. CASE take_timeout
  <2>1. pc = "idle" /\ box' \in Seq(Command) /\ Len(box') <= BoxSize
    BY <1>5, TakesTyped DEF take_timeout, ClientInv
  <2>2. /\ taken' = curr /\ pc' = "took"
        /\ UNCHANGED <<state, lease, countdown, req_ip, rx, setp, user_flag, monitor, asked>>
    BY <1>5 DEF take_timeout
  <2> QED BY <2>1, <2>2 DEF ClientInv, TypeOK, StagesReached, RestsOutside, lease, monitor
<1> QED BY <1>2, <1>3, <1>4, <1>5

LEMMA ClearKeeps ==
  ASSUME ClientInv, clear_curr
  PROVE  ClientInv'
<1>1. Tries \in 0 .. Tries
  BY ClientAssumption
<1>2. state' \in State
  BY DEF clear_curr, StateOf, State, ClientInv, TypeOK
<1>3. setp' \in Addr \cup {None}
  BY DEF clear_curr, ClientInv, TypeOK
<1>4. /\ pc' = "loop" /\ countdown' = Tries /\ curr' = "none" /\ taken' = "none"
      /\ UNCHANGED <<box, next, armed, finite, reached, req_ip, rx, user_flag, monitor, asked>>
  BY DEF clear_curr, Enters
<1> QED BY <1>1, <1>2, <1>3, <1>4 DEF ClientInv, TypeOK, StagesReached, RestsOutside, monitor

-----------------------------------------------------------------------------
(* do_dhcpc().  What a pass of its loop leaves alone:                      *)
LEMMA PassKeeps ==
  ASSUME ClientInv, Still, UNCHANGED <<req_ip, setp>>, pc = "loop",
         state' \in State, countdown' \in 0 .. Tries, rx' \in Addr \cup {None},
         mon' \in [todo : Seq({"stop", "init"}), init : BOOLEAN],
         {curr', next'} \subseteq Stage \cup {"none"}, {armed', finite'} \subseteq BOOLEAN,
         reached' \subseteq Stage, curr' # "none" => curr' \in reached',
         \/ UNCHANGED <<pc, box>>
         \/ /\ pc' = "out" /\ box' \in Seq(Command) /\ Len(box') <= BoxSize
            /\ state' \in Resting \cup {"NOTBOUND", "FREE"}
  PROVE  ClientInv'
BY DEF ClientInv, TypeOK, StagesReached, RestsOutside, Still

LEMMA SendingKeeps ==
  ASSUME ClientInv,
         do_init \/ Sends("REQUESTING", "REQUEST_RECV") \/ Sends("RENEWING", "RENEW_RECV")
         \/ Sends("REBINDING", "REBIND_RECV") \/ do_release \/ NoLink
  PROVE  ClientInv'
<1>1. /\ pc = "loop" /\ state' \in State /\ Still
      /\ UNCHANGED <<pc, box, countdown, req_ip, rx, setp, mon>>
      /\ UNCHANGED <<curr, next, finite, reached>> /\ armed' \in BOOLEAN
  BY DEF do_init, Sends, do_release, NoLink, In, Stays, no_lease, State, Recv, lease,
         ClientInv, TypeOK
<1> QED BY <1>1, PassKeeps DEF ClientInv, TypeOK, StagesReached

LEMMA LeavingKeeps ==
  ASSUME ClientInv, do_leave
  PROVE  ClientInv'
<1>1. <<>> \in {<<>>, <<"change">>}
  OBVIOUS
<1>2. pc' = "out" /\ box' \in Seq(Command) /\ Len(box') <= BoxSize
  BY <1>1, OutTyped DEF do_leave, ClientInv
<1>3. /\ pc = "loop" /\ state' \in {"NOTBOUND", "STOPPED", "FREE"} /\ Still
      /\ UNCHANGED <<countdown, req_ip, rx, setp, mon, state>>
      /\ UNCHANGED <<curr, next, finite, reached>> /\ armed' \in BOOLEAN
  BY DEF do_leave, no_lease, lease, ClientInv, TypeOK
<1>4. state' \in State /\ state' \in Resting \cup {"NOTBOUND", "FREE"}
  BY <1>3 DEF State, Resting
<1> QED BY <1>2, <1>3, <1>4, PassKeeps DEF ClientInv, TypeOK, StagesReached

LEMMA BoundKeeps ==
  ASSUME ClientInv, do_bound
  PROVE  ClientInv'
<1>1. <<>> \in {<<>>, <<"change">>}
  OBVIOUS
<1>2. pc' = "out" /\ box' \in Seq(Command) /\ Len(box') <= BoxSize
  BY <1>1, OutTyped DEF do_bound, ClientInv
<1>3. mon' \in [todo : Seq({"stop", "init"}), init : BOOLEAN] /\ setp' \in Addr \cup {None}
  BY InformTyped DEF do_bound, ClientInv, TypeOK
<1>4. /\ state' = "BOUND" /\ Still /\ UNCHANGED <<lease, countdown, req_ip, rx>>
  BY DEF do_bound, In
<1>5. state' \in State \cap Resting
  BY <1>4 DEF State, Resting
<1> QED BY <1>2, <1>3, <1>4, <1>5 DEF ClientInv, TypeOK, StagesReached, RestsOutside, lease, Still

LEMMA NothingKeeps ==
  ASSUME ClientInv, receive_nothing
  PROVE  ClientInv'
<1>1. /\ pc = "loop" /\ state \in Recv \cup {"SELECTING"} /\ Still
      /\ UNCHANGED <<req_ip, rx, setp, mon>> /\ countdown' = countdown - 1
  BY DEF receive_nothing
<1>2. countdown >= 1 => countdown' \in 0 .. Tries
  BY <1>1, ClientAssumption DEF ClientInv, TypeOK
<1>3. <<>> \in {<<>>, <<"change">>} /\ <<"change">> \in {<<>>, <<"change">>}
  OBVIOUS
<1>4. CASE countdown > 1 /\ state' = Again(state) /\ Stays /\ UNCHANGED lease
  <2>1. state' \in State
    BY <1>1, <1>4 DEF Again, Recv, State
  <2>2. countdown' \in 0 .. Tries
    BY <1>2, <1>4 DEF ClientInv, TypeOK
  <2> QED BY <1>1, <1>4, <2>1, <2>2, PassKeeps DEF ClientInv, TypeOK, StagesReached, lease, Stays
<1>5. CASE countdown = 1 /\ state' = "INIT" /\ Out(<<>>) /\ offer_timer
  <2>1. pc' = "out" /\ box' \in Seq(Command) /\ Len(box') <= BoxSize
    BY <1>3, <1>5, OutTyped DEF ClientInv
  <2>2. state' \in State /\ state' \in Resting
    BY <1>5 DEF State, Resting
  <2>3. /\ {curr', next'} \subseteq Stage \cup {"none"} /\ {armed', finite'} \subseteq BOOLEAN
        /\ reached' \subseteq Stage /\ curr' = "none"
    BY <1>5 DEF offer_timer, ClientInv, TypeOK, Stage
  <2> QED BY <1>1, <1>2, <1>5, <2>1, <2>2, <2>3, PassKeeps DEF ClientInv, TypeOK
<1>6. CASE countdown = 1 /\ state' = "INIT" /\ Out(<<"change">>) /\ UNCHANGED lease
  <2>1. pc' = "out" /\ box' \in Seq(Command) /\ Len(box') <= BoxSize
    BY <1>3, <1>6, OutTyped DEF ClientInv
  <2>2. state' \in State /\ state' \in Resting
    BY <1>6 DEF State, Resting
  <2> QED BY <1>1, <1>2, <1>6, <2>1, <2>2, PassKeeps DEF ClientInv, TypeOK, StagesReached, lease
<1>7. CASE countdown = 1 /\ state' = "BOUND" /\ Stays /\ UNCHANGED lease
  <2>1. state' \in State
    BY <1>7 DEF State
  <2> QED BY <1>1, <1>2, <1>7, <2>1, PassKeeps DEF ClientInv, TypeOK, StagesReached, lease, Stays
<1> QED BY <1>4, <1>5, <1>6, <1>7 DEF receive_nothing

LEMMA PacketsKeep ==
  ASSUME ClientInv, Server
  PROVE  ClientInv'
<1>1. <<"change">> \in {<<>>, <<"change">>}
  OBVIOUS
<1>2. CASE receive_offer
  <2>1. pc' = "out" /\ box' \in Seq(Command) /\ Len(box') <= BoxSize
    BY <1>1, <1>2, OutTyped DEF receive_offer, ClientInv
  <2>2. /\ rx' \in Addr /\ req_ip' \in Addr /\ Still
        /\ UNCHANGED <<lease, countdown, setp, mon>> /\ state' = "REQUESTING"
    BY <1>2 DEF receive_offer
  <2>3. state' \in State \cap Resting
    BY <2>2 DEF State, Resting
  <2> QED BY <2>1, <2>2, <2>3 DEF ClientInv, TypeOK, StagesReached, RestsOutside, lease, Still
<1>3. CASE receive_ack
  <2>1. /\ pc = "loop" /\ rx' = req_ip /\ state' = "BOUND" /\ Stays /\ Still
        /\ UNCHANGED <<countdown, req_ip, setp, mon>>
    BY <1>3 DEF receive_ack
  <2>2. PICK ends \in BOOLEAN, first \in {"T1", "EX"} : new_lease(ends, first)
    BY <1>3 DEF receive_ack
  <2>3. /\ {curr', next'} \subseteq Stage \cup {"none"} /\ {armed', finite'} \subseteq BOOLEAN
        /\ reached' \subseteq Stage /\ curr' = "none"
    BY <2>2 DEF new_lease, Stage
  <2>4. state' \in State
    BY <2>1 DEF State
  <2> QED BY <2>1, <2>3, <2>4, PassKeeps DEF ClientInv, TypeOK, Stays
<1>4. CASE receive_nak
  <2>1. /\ pc = "loop" /\ rx' \in Addr \cup {None} /\ Still
        /\ UNCHANGED <<lease, countdown, req_ip, setp, mon>>
    BY <1>4 DEF receive_nak
  <2>2. \/ state' = "INIT" /\ pc' = "out" /\ box' \in Seq(Command) /\ Len(box') <= BoxSize
        \/ state' = "NOTBOUND" /\ Stays
    BY <1>1, <1>4, OutTyped DEF receive_nak, ClientInv
  <2>3. state' \in State /\ (state' = "INIT" => state' \in Resting)
    BY <2>2 DEF State, Resting
  <2> QED BY <2>1, <2>2, <2>3, PassKeeps DEF ClientInv, TypeOK, StagesReached, lease, Stays
<1>5. CASE receive_other
  <2>1. /\ pc = "loop" /\ rx' \in Addr \cup {None} /\ Still /\ Stays
        /\ UNCHANGED <<state, lease, countdown, req_ip, setp, mon>>
    BY <1>5 DEF receive_other
  <2> QED BY <2>1, PassKeeps DEF ClientInv, TypeOK, StagesReached, lease, Stays
<1> QED BY <1>2, <1>3, <1>4, <1>5 DEF Server

LEMMA ReturningKeeps ==
  ASSUME ClientInv, returns \/ delayed
  PROVE  ClientInv'
<1>1. CASE returns
  <2>1. mon' \in [todo : Seq({"stop", "init"}), init : BOOLEAN]
    BY <1>1, InformTyped DEF returns, ClientInv, TypeOK
  <2>2. state' \in Resting
    BY <1>1 DEF returns, ClientInv, RestsOutside, Resting
  <2>3. /\ pc' \in {"delay", "idle"} /\ UNCHANGED <<box, lease, countdown, req_ip, rx, setp>>
        /\ Still
    BY <1>1 DEF returns
  <2>4. Resting \subseteq State
    BY DEF Resting, State
  <2> QED BY <2>1, <2>2, <2>3, <2>4 DEF ClientInv, TypeOK, StagesReached, RestsOutside, lease, Still
<1>2. CASE delayed
  <2>1. mon' \in [todo : Seq({"stop", "init"}), init : BOOLEAN]
    BY <1>2, InformTyped DEF delayed, ClientInv, TypeOK
  <2>2. state' \in Resting
    BY <1>2 DEF delayed, ClientInv, RestsOutside, Resting
  <2>3. pc' = "idle" /\ UNCHANGED <<box, lease, countdown, req_ip, rx, setp>> /\ Still
    BY <1>2 DEF delayed
  <2>4. Resting \subseteq State
    BY DEF Resting, State
  <2> QED BY <2>1, <2>2, <2>3, <2>4 DEF ClientInv, TypeOK, StagesReached, RestsOutside, lease, Still
<1> QED BY <1>1, <1>2

-----------------------------------------------------------------------------
(* The monitor, the timer and the user.                                    *)
LEMMA MonitorKeeps ==
  ASSUME ClientInv, Monitor
  PROVE  ClientInv'
<1>1. "free" \in Command /\ "renew" \in Command /\ "STOPPED" \in State
  BY DEF Command, State
<1>2. CASE mon_stop
  <2>1. mon' \in [todo : Seq({"stop", "init"}), init : BOOLEAN]
    BY <1>2, TailTyped DEF mon_stop, ClientInv, TypeOK
  <2>2. link' \in BOOLEAN /\ fails' \in 0 .. MaxFails
    <3>1. link' = link \/ link' = FALSE
      BY <1>2 DEF mon_stop
    <3>2. fails' = fails \/ (fails < MaxFails /\ fails' = fails + 1)
      BY <1>2 DEF mon_stop
    <3>3. link' \in BOOLEAN
      BY <3>1 DEF ClientInv, TypeOK
    <3>4. fails' \in 0 .. MaxFails
      BY <3>2, ClientAssumption DEF ClientInv, TypeOK
    <3> QED BY <3>3, <3>4
  <2>3. /\ box' \in Seq(Command) /\ Len(box') <= BoxSize /\ ctl' \in State
        /\ wan' \in Addr \cup {None}
    BY <1>1, <1>2, PutTyped DEF mon_stop, Down, ClientInv, TypeOK
  <2>4. UNCHANGED <<lease, req_ip, setp>> /\ UNCHANGED Client
    BY <1>2 DEF mon_stop
  <2> QED BY <2>1, <2>2, <2>3, <2>4
          DEF ClientInv, TypeOK, StagesReached, RestsOutside, lease, Client
<1>3. CASE mon_init
  <2>1. mon' \in [todo : Seq({"stop", "init"}), init : BOOLEAN] /\ link' \in BOOLEAN
    <3>1. link' = link \/ link' = TRUE
      BY <1>3 DEF mon_init
    <3>2. link' \in BOOLEAN
      BY <3>1 DEF ClientInv, TypeOK
    <3> DEFINE both == link /\ state # "BOUND"
               unbound == state # "BOUND"
    <3>3. both \in BOOLEAN /\ unbound \in BOOLEAN
      OBVIOUS
    <3>4. \/ mon.todo # <<>> /\ mon' = [todo |-> Tail(mon.todo), init |-> both]
          \/ mon' = [mon EXCEPT !.init = unbound]
      BY <1>3 DEF mon_init
    <3>5. mon \in [todo : Seq({"stop", "init"}), init : BOOLEAN]
      BY DEF ClientInv, TypeOK
    <3>6. mon.todo # <<>> => Tail(mon.todo) \in Seq({"stop", "init"})
      BY <3>5, TailTyped
    <3> HIDE DEF both, unbound
    <3>7. mon' \in [todo : Seq({"stop", "init"}), init : BOOLEAN]
      BY <3>3, <3>4, <3>5, <3>6
    <3> QED BY <3>2, <3>7
  <2>2. ctl' \in State /\ wan' \in Addr \cup {None}
    BY <1>3 DEF mon_init, ClientInv, TypeOK
  <2>3. UNCHANGED <<box, lease, req_ip, setp, fails>> /\ UNCHANGED Client
    BY <1>3 DEF mon_init
  <2> QED BY <2>1, <2>2, <2>3 DEF ClientInv, TypeOK, StagesReached, RestsOutside, lease, Client
<1>4. CASE DHCPC_init
  <2>1. mon' \in [todo : Seq({"stop", "init"}), init : BOOLEAN]
    BY <1>4 DEF DHCPC_init, ClientInv, TypeOK
  <2>2. box' \in Seq(Command) /\ Len(box') <= BoxSize
    BY <1>1, <1>4, PutTyped DEF DHCPC_init, ClientInv, TypeOK
  <2>3. /\ req_ip' = Wished /\ setp' = None /\ curr' = "none" /\ next' = "none"
        /\ UNCHANGED <<armed, finite, reached, ctl, wan, link, fails>> /\ UNCHANGED Client
    BY <1>4 DEF DHCPC_init
  <2> QED BY <2>1, <2>2, <2>3, ClientAssumption
          DEF ClientInv, TypeOK, StagesReached, RestsOutside, Client
<1> QED BY <1>2, <1>3, <1>4 DEF Monitor

LEMMA TimerKeeps ==
  ASSUME ClientInv, lease_function
  PROVE  ClientInv'
<1>1. "timeout" \in Command
  BY DEF Command
<1>2. box' \in Seq(Command) /\ Len(box') <= BoxSize
  BY <1>1, PutTyped DEF lease_function, ClientInv, TypeOK
<1>3. {curr', next'} \subseteq Stage \cup {"none"} /\ armed' \in BOOLEAN /\ reached' \subseteq Stage
  BY DEF lease_function, After, Stage, ClientInv, TypeOK
<1>4. (curr' # "none" => curr' \in reached') /\ reached \subseteq reached'
  BY DEF lease_function, ClientInv, TypeOK
<1>5. UNCHANGED <<state, pc, finite, taken, countdown, req_ip, rx, setp, user_flag, monitor, asked>>
  BY DEF lease_function
<1> QED BY <1>2, <1>3, <1>4, <1>5 DEF ClientInv, TypeOK, StagesReached, RestsOutside, monitor

LEMMA UserKeeps ==
  ASSUME ClientInv, user
  PROVE  ClientInv'
<1>1. UserAsks \subseteq Command
  BY ClientAssumption DEF Command
<1>2. box' \in Seq(Command) /\ Len(box') <= BoxSize
  BY <1>1, PutTyped DEF user, ClientInv, TypeOK
<1>3. asked' \in 0 .. MaxUser
  BY ClientAssumption DEF user, ClientInv, TypeOK
<1>4. UNCHANGED <<state, pc, lease, taken, countdown, req_ip, rx, setp, user_flag, monitor>>
  BY DEF user
<1> QED BY <1>2, <1>3, <1>4 DEF ClientInv, TypeOK, StagesReached, RestsOutside, lease, monitor

-----------------------------------------------------------------------------
LEMMA ClientInit == Init => ClientInv
<1> SUFFICES ASSUME Init PROVE ClientInv
  OBVIOUS
<1>1. <<"renew">> \in Seq(Command) /\ Len(<<"renew">>) = 1 /\ <<>> \in Seq({"stop", "init"})
  BY DEF Command
<1>2. mon \in [todo : Seq({"stop", "init"}), init : BOOLEAN]
  BY <1>1 DEF Init
<1>3. "STOPPED" \in State /\ "STOPPED" \in Resting
  BY DEF State, Resting
<1>4. box \in Seq(Command) /\ Len(box) <= BoxSize
  BY <1>1, ClientAssumption DEF Init
<1>5. countdown \in 0 .. Tries /\ asked \in 0 .. MaxUser /\ fails \in 0 .. MaxFails
  BY ClientAssumption DEF Init
<1>6. {req_ip, rx, setp, wan} \subseteq Addr \cup {None}
  BY ClientAssumption DEF Init
<1>7. {armed, finite, link, user_flag} \subseteq BOOLEAN
  BY DEF Init
<1>8. /\ {curr, next, taken} \subseteq Stage \cup {"none"} /\ reached \subseteq Stage
      /\ pc = "idle" /\ state = "STOPPED" /\ ctl = "STOPPED" /\ curr = "none"
  BY DEF Init
<1> QED BY <1>2, <1>3, <1>4, <1>5, <1>6, <1>7, <1>8
        DEF ClientInv, TypeOK, StagesReached, RestsOutside

LEMMA ClientStep == ClientInv /\ [Next]_vars => ClientInv'
<1> SUFFICES ASSUME ClientInv, [Next]_vars PROVE ClientInv'
  OBVIOUS
<1>1. CASE Daemon
  BY <1>1, CommandsKeep, ClearKeeps, SendingKeeps, BoundKeeps, LeavingKeeps, ReturningKeeps
  DEF Daemon
<1>2. CASE UNCHANGED vars
  BY <1>2 DEF ClientInv, TypeOK, StagesReached, RestsOutside, vars, lease, monitor
<1> QED BY <1>1, <1>2, NothingKeeps, PacketsKeep, MonitorKeeps, TimerKeeps, UserKeeps DEF Next

LEMMA ClientAlways == Spec => []ClientInv
<1> QED BY ClientInit, ClientStep, PTL DEF Spec

(* Every variable keeps its type, for any servers, tries and box; it       *)
(* includes that the box of the client never overflows, though four        *)
(* threads put commands into it, and that the countdown does not pass 0.   *)
THEOREM ClientTypeCorrect == Spec => []TypeOK
<1>1. ClientInv => TypeOK
  BY DEF ClientInv
<1> QED BY <1>1, ClientAlways, PTL

(* The client gives its address up, or rebinds, because of a timeout only  *)
(* at a stage its present lease has reached, also when commands of an      *)
(* earlier stage or of an earlier lease are still in its box and the timer *)
(* fires between two instructions of the daemon (dhcpc.c:804).             *)
THEOREM TimeoutsAreOwn == Spec => OwnStage
<1>1. ASSUME ClientInv, [Next]_vars, pc = "took", pc' # "took"
      PROVE  /\ state' = "NOTBOUND" => "EX" \in reached
             /\ state' = "REBINDING" => "T2" \in reached
  <2>1. clear_curr
    BY <1>1 DEF Next, Daemon, Server, Monitor, take_release, take_free, take_renew, take_change,
       take_timeout, Takes, do_init, Sends, do_bound, do_release, do_leave, NoLink, returns, delayed,
       In, receive_nothing, receive_offer, receive_ack, receive_nak, receive_other,
       mon_stop, mon_init, DHCPC_init, Client, lease_function, user, vars
  <2>2. state' = StateOf(taken) /\ state \in Resting
    BY <1>1, <2>1 DEF clear_curr, ClientInv, RestsOutside
  <2>3. taken \in Stage \cup {"none"} /\ (taken # "none" => taken \in reached)
    BY <1>1 DEF ClientInv, TypeOK, StagesReached
  <2>4. (state' = "NOTBOUND" => taken = "EX") /\ (state' = "REBINDING" => taken = "T2")
    BY <2>2, <2>3 DEF StateOf, Resting, Stage
  <2> QED BY <2>3, <2>4
<1>2. ClientInv /\ [Next]_vars =>
        [pc = "took" /\ pc' # "took" =>
           /\ state' = "NOTBOUND" => "EX" \in reached
           /\ state' = "REBINDING" => "T2" \in reached]_vars
  BY <1>1
<1> QED BY <1>2, ClientAlways, PTL DEF Spec, OwnStage
-----------------------------------------------------------------------------
(* Nothing is forgotten.  While the link has not failed, a thread that is  *)
(* idle, or about to be, has a command in its box, a timer that will put   *)
(* one there, or a monitor that is about to start it over; or it need not  *)
(* go on.  The last is why user_flag is part of it.                        *)
Expected == \E k \in 1 .. Len(mon.todo) : mon.todo[k] = "init"
Wakeful ==
  \/ state \in {"BOUND", "STOPPED"} \/ armed \/ user_flag
  \/ box # <<>> \/ mon.init \/ Expected
GoesOn ==
  fails = 0 =>
    /\ link
    /\ pc = "idle" => Wakeful
    /\ pc = "out" => Wakeful \/ state \in {"NOTBOUND", "FREE"}

(* A command is dropped only when the box is full: it is never empty after.*)
LEMMA PutFills ==
  ASSUME NEW b \in Seq(Command), NEW cmd \in Command
  PROVE  Put(b, cmd) # <<>>
<1>1. CASE Len(b) < BoxSize
  <2>1. Append(b, cmd) # <<>>
    BY AppendProperties
  <2> QED BY <1>1, <2>1 DEF Put
<1>2. CASE ~(Len(b) < BoxSize)
  <2>1. Len(<<>>) = 0
    OBVIOUS
  <2>2. b # <<>>
    BY <1>2, <2>1, ClientAssumption
  <2> QED BY <1>2, <2>2 DEF Put
<1> QED BY <1>1, <1>2

LEMMA InformedExpects ==
  ASSUME TypeOK, inform_mon(<<"init">>)
  PROVE  Expected'
<1>1. mon.todo \in Seq({"stop", "init"}) /\ mon'.todo = mon.todo \o <<"init">>
  BY DEF TypeOK, inform_mon
<1>2. Len(mon'.todo) = Len(mon.todo) + 1 /\ mon'.todo[Len(mon.todo) + 1] = "init"
  BY <1>1
<1>3. Len(mon.todo) \in Nat
  BY <1>1
<1> QED BY <1>2, <1>3 DEF Expected

(* The monitor has taken a command that is not the one.                    *)
LEMMA TailExpects ==
  ASSUME TypeOK, Expected, mon.todo # <<>>, Head(mon.todo) # "init",
         mon'.todo = Tail(mon.todo)
  PROVE  Expected'
<1>1. PICK k \in 1 .. Len(mon.todo) : mon.todo[k] = "init"
  BY DEF Expected
<1>2. mon.todo \in Seq({"stop", "init"}) /\ k # 1
  BY <1>1 DEF TypeOK
<1>3. k - 1 \in 1 .. Len(mon'.todo) /\ mon'.todo[k - 1] = mon.todo[k]
  BY <1>1, <1>2
<1> QED BY <1>1, <1>3 DEF Expected

LEMMA GoesOnStep ==
  ASSUME ClientInv, GoesOn, [Next]_vars
  PROVE  GoesOn'
<1>t. /\ TypeOK /\ box \in Seq(Command) /\ mon \in [todo : Seq({"stop", "init"}), init : BOOLEAN]
  BY DEF ClientInv, TypeOK
<1>1. CASE take_release \/ take_free \/ take_renew \/ take_change \/ take_timeout \/ clear_curr
  <2>1. pc' \in {"loop", "took"} /\ UNCHANGED <<link, fails>>
    BY <1>1 DEF take_release, take_free, take_renew, take_change, take_timeout, clear_curr,
       Enters, monitor
  <2> QED BY <2>1 DEF GoesOn
<1>2. CASE \/ do_init \/ do_release \/ NoLink \/ receive_other
           \/ Sends("REQUESTING", "REQUEST_RECV") \/ Sends("RENEWING", "RENEW_RECV")
           \/ Sends("REBINDING", "REBIND_RECV") \/ receive_ack
  <2>1. pc' = "loop" /\ UNCHANGED <<link, fails>>
    BY <1>2 DEF do_init, do_release, NoLink, Sends, In, Stays, Still, receive_other, receive_ack
  <2> QED BY <2>1 DEF GoesOn
<1>3. CASE do_bound \/ do_leave
  <2>1. pc' = "out" /\ state' \in {"BOUND", "NOTBOUND", "STOPPED", "FREE"}
        /\ UNCHANGED <<link, fails>>
    BY <1>3 DEF do_bound, do_leave, In, Out, Still
  <2> QED BY <2>1 DEF GoesOn, Wakeful
<1>4. ASSUME Out(<<"change">>), UNCHANGED <<link, fails>> PROVE GoesOn'
  <2>1. <<"change">> # <<>> /\ Head(<<"change">>) = "change"
    OBVIOUS
  <2>2. pc' = "out" /\ box' = Put(box, "change") /\ "change" \in Command
    BY <1>4, <2>1 DEF Out, Command
  <2>3. box' # <<>>
    BY <1>t, <2>2, PutFills
  <2> QED BY <1>4, <2>2, <2>3 DEF GoesOn, Wakeful
<1>5. CASE receive_offer \/ receive_nak
  <2>1. UNCHANGED <<link, fails>>
    BY <1>5 DEF receive_offer, receive_nak, Still
  <2>2. Out(<<"change">>) \/ pc' = "loop"
    BY <1>5 DEF receive_offer, receive_nak, Stays
  <2> QED BY <1>4, <2>1, <2>2 DEF GoesOn
<1>6. CASE receive_nothing
  <2>1. UNCHANGED <<link, fails>>
    BY <1>6 DEF receive_nothing, Still
  <2>2. Out(<<"change">>) \/ (pc' = "loop") \/ (pc' = "out" /\ armed')
    BY <1>6 DEF receive_nothing, Stays, Out, offer_timer
  <2> QED BY <1>4, <2>1, <2>2 DEF GoesOn, Wakeful
<1>7. CASE returns
  <2>1. /\ pc = "out" /\ UNCHANGED <<box, link, fails, user_flag, armed>>
        /\ (state = "NOTBOUND" => pc' = "delay")
        /\ (state = "FREE" => state' = "STOPPED" /\ pc' = "idle")
        /\ (state \notin {"NOTBOUND", "FREE"} => UNCHANGED <<mon, state>> /\ pc' = "idle")
    BY <1>7 DEF returns, lease, Still
  <2> QED BY <2>1 DEF GoesOn, Wakeful, Expected
<1>8. CASE delayed
  <2>1. /\ pc' = "idle" /\ UNCHANGED <<link, fails, user_flag>>
        /\ \/ user_flag \/ state' = "STOPPED" \/ inform_mon(<<"init">>)
    BY <1>8 DEF delayed, Still
  <2>2. Wakeful'
    BY <1>t, <2>1, InformedExpects DEF Wakeful
  <2> QED BY <2>1, <2>2 DEF GoesOn
<1>9. CASE mon_stop
  <2>1. UNCHANGED <<state, pc, armed, user_flag>>
    BY <1>9 DEF mon_stop, Client, lease
  <2>2. box' = box \/ box' # <<>>
    <3>1. "free" \in Command
      BY DEF Command
    <3> QED BY <1>9, <1>t, <3>1, PutFills DEF mon_stop, Down
  <2>3. CASE fails' # 0
    BY <2>3 DEF GoesOn
  <2>4. CASE fails' = 0
    <3>1. fails \in Nat
      BY ClientAssumption DEF ClientInv, TypeOK
    <3>2. fails' # fails + 1
      BY <2>4, <3>1
    <3>3. /\ mon.todo # <<>> /\ Head(mon.todo) = "stop"
          /\ mon' = [mon EXCEPT !.todo = Tail(@)] /\ UNCHANGED <<link, fails>>
      BY <1>9, <3>2 DEF mon_stop
    <3>4. mon'.todo = Tail(mon.todo) /\ mon'.init = mon.init
      BY <1>t, <3>3
    <3>5. Expected => Expected'
      BY <1>t, <3>3, <3>4, TailExpects
    <3>6. Wakeful => Wakeful'
      BY <2>1, <2>2, <3>4, <3>5 DEF Wakeful
    <3> QED BY <2>1, <3>3, <3>6 DEF GoesOn
  <2> QED BY <2>3, <2>4
<1>10. CASE mon_init
  <2>1. UNCHANGED <<state, pc, armed, user_flag, box, fails>>
    BY <1>10 DEF mon_init, Client, lease
  <2>2. CASE fails # 0
    BY <2>1, <2>2 DEF GoesOn
  <2>3. CASE fails = 0
    <3>1. link
      BY <2>3 DEF GoesOn
    <3>2. /\ mon' = [todo |-> Tail(mon.todo), init |-> link /\ state # "BOUND"]
          /\ UNCHANGED link
      BY <1>10, <3>1 DEF mon_init
    <3>3. state = "BOUND" \/ mon'.init
      BY <3>1, <3>2
    <3>4. Wakeful'
      BY <2>1, <3>3 DEF Wakeful
    <3> QED BY <2>1, <3>1, <3>2, <3>4 DEF GoesOn
  <2> QED BY <2>2, <2>3
<1>11. CASE DHCPC_init \/ lease_function \/ user
  <2>1. "renew" \in Command /\ "timeout" \in Command /\ UserAsks \subseteq Command
    BY ClientAssumption DEF Command
  <2>2. UNCHANGED <<state, pc, link, fails>>
    BY <1>11 DEF DHCPC_init, lease_function, user, monitor, Client
  <2>3. PICK cmd \in Command : box' = Put(box, cmd)
    BY <1>11, <2>1 DEF DHCPC_init, lease_function, user
  <2>4. box' # <<>>
    BY <1>t, <2>3, PutFills
  <2> QED BY <2>2, <2>4 DEF GoesOn, Wakeful
<1>12. CASE UNCHANGED vars
  BY <1>12 DEF GoesOn, Wakeful, Expected, vars, monitor, lease
<1> QED BY <1>1, <1>2, <1>3, <1>5, <1>6, <1>7, <1>8, <1>9, <1>10, <1>11, <1>12
        DEF Next, Daemon, Server, Monitor

(* The client does not rest in the middle of the protocol: whatever the    *)
(* servers answer, the user asks, the box drops and whenever the timer     *)
(* fires, when nothing is left to do it is bound or stopped, or a timer is *)
(* set that puts a command into its box (dhcpc.c:111, 742).                *)
THEOREM NeverStuck == Spec => []NotStuck
<1>1. Init => GoesOn
  <2> SUFFICES ASSUME Init PROVE GoesOn
    OBVIOUS
  <2> QED BY DEF Init, GoesOn, Wakeful
<1>2. ClientInv /\ GoesOn /\ [Next]_vars => GoesOn'
  BY GoesOnStep
<1>3. GoesOn => NotStuck
  <2> SUFFICES ASSUME GoesOn, Settled, fails = 0
               PROVE  state \in {"BOUND", "STOPPED"} \/ armed \/ user_flag
    BY DEF NotStuck
  <2>1. ~Expected
    <3>1. mon.todo = <<>> /\ Len(<<>>) = 0
      BY DEF Settled, Quiet
    <3>2. Len(mon.todo) = 0
      BY <3>1
    <3> QED BY <3>2 DEF Expected
  <2> QED BY <2>1 DEF GoesOn, Wakeful, Settled, Quiet
<1> QED BY <1>1, <1>2, <1>3, ClientAlways, PTL DEF Spec

-----------------------------------------------------------------------------
(***************************************************************************)
(* The monitor can take the address down.  The inductive invariant follows *)
(* the commands on their way between the client's thread and the monitor,  *)
(* in the order in which they come to the thread: those in its box, the    *)
(* renewal that DHCPC_init() is about to put there, what the monitor has   *)
(* been told, and the two commands that follow the loss of an address.     *)
(* The box, the list and the flag change, the line hardly does: a command  *)
(* at its head is taken, one joins its end, and the one the monitor comes  *)
(* to turns into what the monitor puts into the box, in the same place, or *)
(* drops out of the line.  The line never holds more than five commands,   *)
(* however large the box is.                                               *)
(***************************************************************************)
Pos == Nat \ {0}
Todo == mon.todo
Held == IF mon.init THEN 1 ELSE 0
Due == IF state = "NOTBOUND" THEN 2 ELSE IF pc = "delay" THEN 1 ELSE 0
Size == Len(box) + Held + Len(Todo) + Due
Line == [i \in Pos |->
  IF i <= Len(box) THEN box[i]
  ELSE IF i <= Len(box) + Held THEN "DHCPC_renew"
  ELSE IF i <= Len(box) + Held + Len(Todo) THEN Todo[i - Len(box) - Held]
  ELSE IF i > Size THEN "none"
  ELSE IF i = Size THEN "inits" ELSE "stops"]

(* What ends the client's work, now or when the monitor comes to it, is    *)
(* never far from the head of the line, and the line is short.             *)
F(i) == Line[i] \in {"free", "stop", "stops"}
SomeF == F(1) \/ F(2) \/ F(3) \/ F(4)
TwoF ==
  \/ F(1) /\ (F(2) \/ F(3) \/ F(4))
  \/ F(2) /\ (F(3) \/ F(4))
  \/ F(3) /\ F(4)
Few(a, b, c) ==
  /\ ~SomeF => Line[a] = "none"
  /\ SomeF /\ ~TwoF => Line[b] = "none"
  /\ TwoF => Line[c] = "none"
Few0 == Few(1, 2, 3)
Few1 == Few(2, 3, 4)
Few2 == Few(3, 4, 5)
Few3 == Few(4, 5, 6)
Has(c) == c \in {Line[1], Line[2], Line[3], Line[4], Line[5]}
Two(c) ==
  \/ Line[1] = c /\ c \in {Line[2], Line[3], Line[4], Line[5]}
  \/ Line[2] = c /\ c \in {Line[3], Line[4], Line[5]}
  \/ Line[3] = c /\ c \in {Line[4], Line[5]}
  \/ Line[4] = c /\ Line[5] = c
Three(c) ==
  \/ Line[1] = c /\ Line[2] = c /\ c \in {Line[3], Line[4], Line[5]}
  \/ Line[1] = c /\ Line[3] = c /\ c \in {Line[4], Line[5]}
  \/ Line[2] = c /\ Line[3] = c /\ c \in {Line[4], Line[5]}
  \/ Line[4] = c /\ Line[5] = c /\ c \in {Line[1], Line[2], Line[3]}
Idle == ~Has("DHCPC_renew") /\ ~Has("stop") /\ ~Has("init")
(* c is what the monitor comes to first.                                   *)
First(c) ==
  \/ Line[1] = c
  \/ Line[2] = c /\ Line[1] \notin {"stop", "init"}
  \/ Line[3] = c /\ Line[2] \notin {"stop", "init"}
  \/ Line[4] = c /\ Line[3] \notin {"stop", "init"}
  \/ Line[5] = c /\ Line[4] \notin {"stop", "init"}

Sooner == {"T1", "T2"}
OnStage == curr # "none" \/ taken # "none"
Renewing == {"RENEWING", "REBINDING", "RENEW_RECV", "REBIND_RECV"}
Asking == {"SELECTING", "REQUESTING", "REQUEST_RECV"}
Gone == {"FREE", "STOPPED"}
Outside == {"idle", "out"}
Asked == req_ip # None
Spoken == armed /\ next # "none"

(* Where the thread is in each state; nobody has asked for a release.      *)
Places ==
  /\ state \in State \ {"DO_RELEASE"} /\ pc \in {"idle", "took", "loop", "out", "delay"}
  /\ state \in {"BOUND", "REQUESTING", "STOPPED"} => pc # "delay"
  /\ state \in {"FREE", "NOTBOUND"} => pc \in {"loop", "out"}
  /\ state \in {"SELECTING", "REQUEST_RECV"} \cup Renewing => pc = "loop"
  /\ pc # "took" => taken = "none"
  /\ ~user_flag /\ ~Has("release")

(* How far from the head the commands are that end the client's work.      *)
Far0 == ~F(2) /\ ~F(3) /\ ~F(4)
Far1 == ~F(4) /\ ~(F(2) /\ F(3)) /\ (F(3) => F(1))
Far2 ==
  /\ F(4) => F(1) \/ F(2)
  /\ ~(F(3) /\ F(4)) /\ ~(F(1) /\ F(2) /\ F(3)) /\ ~(F(1) /\ F(2) /\ F(4))
  /\ ~F(5)
PFar ==
  /\ Far2
  /\ \/ curr \in Sooner /\ state \in {"NOTBOUND", "INIT"}
     \/ state = "INIT" /\ pc \in {"loop", "took"}
     \/ state \in {"SELECTING", "REQUESTING"}
     \/ state \in Gone /\ Asked
     => Far1
  /\ \/ taken \in Sooner
     \/ state \in Renewing \cup {"BOUND", "REQUEST_RECV"}
     \/ state = "REQUESTING" /\ pc \notin Outside
     => Far0
PApart == Asked => ~(F(1) /\ F(4))
(* How short the line is, the shorter the sooner the lease ends.           *)
PFew == Few3 /\ (pc \in {"loop", "took"} /\ state \notin Gone \cup {"NOTBOUND"} => Few2)
PStage == OnStage => ~TwoF
PHurry ==
  taken \in Sooner \/ state \in Renewing =>
    Few2 /\ (armed => next # "T1" /\ Few1 /\ (next = "T2" => Few0))
PEarly ==
  curr \in Sooner /\ pc # "took" =>
    armed /\ next \in {"T2", "EX"} /\ Few2 /\ (next = "T2" => Few1)
(* A stage that is noted has its timeout at the head of the line, and no   *)
(* timer runs for a client that has no lease.                              *)
PHead == curr # "none" /\ pc # "took" => Line[1] = "timeout"
PArmed == state \in Asking \cup {"STOPPED"} \/ (state = "FREE" /\ pc = "out") => ~armed
PNoStage == state \in Asking \cup Gone \/ (state = "INIT" /\ pc = "loop") => ~OnStage
FreeParts ==
  /\ Places /\ PFar /\ PApart /\ PFew /\ PStage /\ PHurry /\ PEarly
  /\ PHead /\ PArmed /\ PNoStage

(* A lease that is being renewed while an end is in the line: the monitor  *)
(* has work to do, so that no packet comes.                                *)
Goes == ~Idle \/ pc = "delay" \/ state = "NOTBOUND"
PGoes ==
  /\ SomeF /\ ((curr \in Sooner /\ pc # "took") \/ taken \in Sooner \/ state \in Renewing)
       /\ (Asked \/ next # "none") => Goes
  /\ state \in Renewing /\ Spoken => Line[1] \in {"timeout", "none"} \/ Goes
(* What can be on its way while the client is bound.                       *)
PBound ==
  state = "BOUND" =>
    /\ ~Has("stop") /\ ~Has("DHCPC_renew")
    /\ SomeF => pc # "took" /\ ~Two("init") /\ (pc = "loop" => ~Has("init"))
    /\ pc = "loop" /\ countdown # 0 => curr = "none"
    /\ Has("init") => ~OnStage
(* What can be on its way while the interface has an address: if the       *)
(* monitor is about to copy the client's state, that is not STOPPED.       *)
PWan ==
  wan # None =>
    /\ ctl # "STOPPED"
    /\ Has("free") => Idle /\ state = "BOUND" /\ pc \in Outside
    /\ First("init") => state \in {"BOUND", "RENEWING", "RENEW_RECV"} /\ ~SomeF /\ ~OnStage
    /\ pc = "delay" => First("stop")
(* What a renewal in the line meets when there is an address to ask for.   *)
PRenew ==
  Asked =>
    /\ state \in {"INIT", "NOTBOUND", "SELECTING"} =>
         /\ Line[1] = "renew" => ~F(2) /\ ~F(3) /\ ~F(4)
         /\ Line[2] = "renew" => ~F(3) /\ ~F(4)
         /\ Line[3] = "renew" => ~F(4)
    /\ OnStage \/ state \in Renewing => ~Has("renew")
    /\ Two("renew") =>
         /\ ~Three("renew")
         /\ \/ state \in Gone \/ Line[1] = "free"
            \/ state = "REQUESTING" /\ pc \in Outside /\ Line[1] = "renew"
    /\ OnStage =>
         /\ F(1) => Line[3] = "none"
         /\ F(2) => Line[4] = "none"
         /\ F(3) => Line[5] = "none"
(* A stop is followed by another stop or by a new beginning.               *)
Informed == {"init", "stop", "inits"}
PFollows ==
  /\ Line[1] = "stop" => Line[2] \in Informed
  /\ Line[2] = "stop" => Line[3] \in Informed
  /\ Line[3] = "stop" => Line[4] \in Informed
  /\ Line[4] = "stop" => Line[5] \in Informed
  /\ Line[5] # "stop"
PClean ==
  /\ OnStage \/ (state \in Renewing /\ armed) => ~Has("change")
  /\ OnStage /\ Spoken => ~Has("renew")
RestParts == PGoes /\ PBound /\ PWan /\ PRenew /\ PFollows /\ PClean

Parts == FreeParts /\ RestParts
MonInv == Undisturbed => link /\ Parts

-----------------------------------------------------------------------------
(* What the line is made of.                                               *)
Kinds == Command \cup {"DHCPC_renew", "stop", "init", "stops", "inits"}

LEMMA LineParts ==
  ASSUME TypeOK
  PROVE  /\ Len(box) \in Nat /\ Len(Todo) \in Nat /\ Held \in {0, 1} /\ Due \in {0, 1, 2}
         /\ Held \in Nat /\ Due \in Nat /\ Size \in Nat
         /\ \A k \in 1 .. Len(box) : box[k] \in Command
         /\ \A k \in 1 .. Len(Todo) : Todo[k] \in {"stop", "init"}
<1>1. Len(box) \in Nat /\ \A k \in 1 .. Len(box) : box[k] \in Command
  BY DEF TypeOK
<1>2. Todo \in Seq({"stop", "init"})
  BY DEF TypeOK, Todo
<1>3. Len(Todo) \in Nat /\ \A k \in 1 .. Len(Todo) : Todo[k] \in {"stop", "init"}
  BY <1>2
<1>4. (Held = 0 \/ Held = 1) /\ (Due = 0 \/ Due = 1 \/ Due = 2)
  BY DEF Held, Due
<1>5. Size \in Nat
  BY <1>1, <1>3, <1>4 DEF Size
<1> QED BY <1>1, <1>3, <1>4, <1>5

LEMMA LineAt ==
  ASSUME NEW i \in Pos, ~(i <= Len(box))
  PROVE  Line[i] = IF i <= Len(box) + Held THEN "DHCPC_renew"
                   ELSE IF i <= Len(box) + Held + Len(Todo) THEN Todo[i - Len(box) - Held]
                   ELSE IF i > Size THEN "none" ELSE IF i = Size THEN "inits" ELSE "stops"
BY DEF Line

LEMMA LineTyped ==
  ASSUME TypeOK, NEW i \in Pos
  PROVE  /\ i <= Size => Line[i] \in Kinds
         /\ i > Size => Line[i] = "none"
         /\ i <= Len(box) => Line[i] = box[i] /\ Line[i] \in Command
         /\ (Line[i] = "none") <=> (i > Size)
<1>1. "none" \notin Kinds
  BY DEF Kinds, Command
<1>2. i <= Size => Line[i] \in Kinds
  BY LineParts DEF Line, Pos, Size, Kinds
<1>3. i > Size => Line[i] = "none"
  BY LineParts DEF Line, Pos, Size
<1>4. i <= Len(box) => Line[i] = box[i] /\ Line[i] \in Command
  BY LineParts DEF Line, Pos
<1>5. Size \in Nat /\ i \in Nat
  BY LineParts DEF Pos
<1> QED BY <1>1, <1>2, <1>3, <1>4, <1>5

LEMMA LineEnds ==
  ASSUME TypeOK
  PROVE  /\ Line[1] = "none" => Line[2] = "none"
         /\ Line[2] = "none" => Line[3] = "none"
         /\ Line[3] = "none" => Line[4] = "none"
         /\ Line[4] = "none" => Line[5] = "none"
         /\ Line[5] = "none" => Line[6] = "none"
         /\ Line[6] = "none" => Line[7] = "none"
<1>1. \A i \in Pos : (Line[i] = "none") <=> (i > Size)
  BY LineTyped
<1>2. Size \in Nat
  BY LineParts
<1>3. /\ 1 \in Pos /\ 2 \in Pos /\ 3 \in Pos /\ 4 \in Pos /\ 5 \in Pos /\ 6 \in Pos /\ 7 \in Pos
  BY DEF Pos
<1> QED BY <1>1, <1>2, <1>3

LEMMA LineHead ==
  ASSUME TypeOK, box # <<>>
  PROVE  Line[1] = Head(box) /\ Line[1] \in Command
<1>1. Len(box) \in Nat /\ Len(box) # 0 /\ Head(box) = box[1]
  BY DEF TypeOK
<1>2. 1 \in Pos
  BY DEF Pos
<1> QED BY <1>1, <1>2, LineTyped

LEMMA LineIdle ==
  ASSUME TypeOK, Line[6] = "none"
  PROVE  Quiet <=> Idle
<1>1. Size <= 5
  <2>1. 6 \in Pos /\ Size \in Nat
    BY LineParts DEF Pos
  <2> QED BY <2>1, LineTyped
<1>2. ASSUME Quiet PROVE Idle
  <2>1. Len(Todo) = 0 /\ Held = 0
    BY <1>2 DEF Quiet, Held, Todo
  <2>2. \A i \in Pos : Line[i] \notin {"DHCPC_renew", "stop", "init"}
    BY <2>1, LineParts DEF Line, Pos, Command
  <2> QED BY <2>2 DEF Idle, Has, Pos
<1>3. ASSUME ~Quiet PROVE ~Idle
  <2> DEFINE p == Len(box) + 1
  <2>1. Held = 1 \/ (Held = 0 /\ Len(Todo) > 0)
    <3>1. Todo \in Seq({"stop", "init"}) /\ mon.init \in BOOLEAN
      BY DEF TypeOK, Todo
    <3>2. Todo # <<>> => Len(Todo) > 0
      BY <3>1
    <3> QED BY <1>3, <3>1, <3>2 DEF Quiet, Held, Todo
  <2>2. p \in 1 .. 5
    BY <1>1, <2>1, LineParts DEF Size
  <2>3. Line[p] \in {"DHCPC_renew", "stop", "init"}
    BY <2>1, <2>2, LineParts DEF Line, Pos
  <2> QED BY <2>2, <2>3 DEF Idle, Has
<1> QED BY <1>2, <1>3

-----------------------------------------------------------------------------
(* How the line changes.                                                   *)
LineIs(a, b, c, d, e) ==
  /\ Line'[1] = a /\ Line'[2] = b /\ Line'[3] = c /\ Line'[4] = d /\ Line'[5] = e
  /\ Line'[6] = "none"
Kept == LineIs(Line[1], Line[2], Line[3], Line[4], Line[5])
Shifted == LineIs(Line[2], Line[3], Line[4], Line[5], "none")
Turned1(old, new) == Line[1] = old /\ LineIs(new, Line[2], Line[3], Line[4], Line[5])
Turned2(old, new, before) ==
  Line[2] = old /\ Line[1] \in before /\ LineIs(Line[1], new, Line[3], Line[4], Line[5])
Turned3(old, new, before) ==
  Line[3] = old /\ Line[2] \in before /\ LineIs(Line[1], Line[2], new, Line[4], Line[5])
Turned4(old, new, before) ==
  Line[4] = old /\ Line[3] \in before /\ LineIs(Line[1], Line[2], Line[3], new, Line[5])
Turned5(old, new, before) ==
  Line[5] = old /\ Line[4] \in before /\ LineIs(Line[1], Line[2], Line[3], Line[4], new)
Turned(old, new, before) ==
  \/ Turned1(old, new) \/ Turned2(old, new, before) \/ Turned3(old, new, before)
  \/ Turned4(old, new, before) \/ Turned5(old, new, before)

Removed1(old) == Line[1] = old /\ Shifted
Removed2(old, before) ==
  Line[2] = old /\ Line[1] \in before /\ LineIs(Line[1], Line[3], Line[4], Line[5], "none")
Removed3(old, before) ==
  Line[3] = old /\ Line[2] \in before /\ LineIs(Line[1], Line[2], Line[4], Line[5], "none")
Removed4(old, before) ==
  Line[4] = old /\ Line[3] \in before /\ LineIs(Line[1], Line[2], Line[3], Line[5], "none")
Removed5(old, before) ==
  Line[5] = old /\ Line[4] \in before /\ LineIs(Line[1], Line[2], Line[3], Line[4], "none")
Removed(old, before) ==
  \/ Removed1(old) \/ Removed2(old, before) \/ Removed3(old, before)
  \/ Removed4(old, before) \/ Removed5(old, before)

LEMMA Keeping ==
  ASSUME TypeOK, UNCHANGED <<box, mon>>, Due' = Due, Line[6] = "none"
  PROVE  Kept
<1>0. Todo' = Todo /\ Len(box') = Len(box) /\ box' = box
  BY DEF Todo
<1>1. Held' = Held /\ Size' = Size
  BY <1>0 DEF Held, Size
<1>2. Line' = Line
  BY <1>0, <1>1 DEF Line
<1> QED BY <1>2 DEF Kept, LineIs

LEMMA Shifting ==
  ASSUME TypeOK, box # <<>>, box' = Tail(box), UNCHANGED mon, Due' = Due, Line[6] = "none"
  PROVE  Shifted
<1>1. /\ Len(box) # 0 /\ Len(box') = Len(box) - 1
      /\ \A k \in 1 .. Len(box') : box'[k] = box[k + 1]
  BY DEF TypeOK
<1>2. Held' = Held /\ Size' = Size - 1 /\ Todo' = Todo
  <2>1. Held' = Held /\ Todo' = Todo
    BY DEF Held, Todo
  <2>2. Held \in Nat /\ Due \in Nat
    BY LineParts
  <2> QED BY <1>1, <2>1, <2>2, LineParts DEF Size
<1>3. \A i \in Pos : Line'[i] = Line[i + 1]
  <2> SUFFICES ASSUME NEW i \in Pos PROVE Line'[i] = Line[i + 1]
    OBVIOUS
  <2>1. i + 1 \in Pos
    BY DEF Pos
  <2>2. CASE i <= Len(box')
    <3>1. box'[i] = box[i + 1] /\ i + 1 <= Len(box)
      BY <1>1, <2>2, LineParts DEF Pos
    <3> QED BY <2>1, <2>2, <3>1 DEF Line
  <2>3. CASE ~(i <= Len(box'))
    <3>0. /\ Len(box) \in Nat /\ Len(box') = Len(box) - 1 /\ Held \in Nat /\ Held' = Held
          /\ Len(Todo) \in Nat /\ Len(Todo') = Len(Todo)
          /\ Size \in Nat /\ Size' = Size - 1 /\ i \in Nat
      BY <1>1, <1>2, LineParts DEF Pos
    <3>1. ~(i + 1 <= Len(box))
      BY <2>3, <3>0
    <3>4. /\ i - Len(box') - Held' = (i + 1) - Len(box) - Held
          /\ (i <= Len(box') + Held') <=> (i + 1 <= Len(box) + Held)
          /\ (i <= Len(box') + Held' + Len(Todo')) <=> (i + 1 <= Len(box) + Held + Len(Todo))
          /\ (i > Size') <=> (i + 1 > Size)
          /\ (i = Size') <=> (i + 1 = Size)
      BY <3>0
    <3>2. Line'[i] = IF i <= Len(box') + Held' THEN "DHCPC_renew"
                     ELSE IF i <= Len(box') + Held' + Len(Todo')
                          THEN Todo'[i - Len(box') - Held']
                     ELSE IF i > Size' THEN "none" ELSE IF i = Size' THEN "inits" ELSE "stops"
      BY <2>3 DEF Line
    <3>3. Line[i + 1] = IF i + 1 <= Len(box) + Held THEN "DHCPC_renew"
                        ELSE IF i + 1 <= Len(box) + Held + Len(Todo)
                             THEN Todo[(i + 1) - Len(box) - Held]
                        ELSE IF i + 1 > Size THEN "none"
                        ELSE IF i + 1 = Size THEN "inits" ELSE "stops"
      BY <2>1, <3>1, LineAt
    <3> QED BY <1>2, <3>2, <3>3, <3>4
  <2> QED BY <2>2, <2>3
<1>4. Line[7] = "none"
  BY LineEnds
<1> QED BY <1>3, <1>4 DEF Shifted, LineIs, Pos

(* One place of the line changes: a command comes, goes on or goes.        *)
LEMMA Turning ==
  ASSUME NEW p \in 1 .. 5, NEW old, NEW new, NEW before, Line[6] = "none", Line[p] = old,
         p # 1 => Line[p - 1] \in before,
         \A i \in 1 .. 6 : Line'[i] = IF i = p THEN new ELSE Line[i]
  PROVE  Turned(old, new, before)
<1>1. p = 1 \/ p = 2 \/ p = 3 \/ p = 4 \/ p = 5
  OBVIOUS
<1>2. p = 2 => p - 1 = 1
  OBVIOUS
<1>3. p = 3 => p - 1 = 2
  OBVIOUS
<1>4. p = 4 => p - 1 = 3
  OBVIOUS
<1>5. p = 5 => p - 1 = 4
  OBVIOUS
<1> QED BY <1>1, <1>2, <1>3, <1>4, <1>5
  DEF Turned, Turned1, Turned2, Turned3, Turned4, Turned5, LineIs

LEMMA Removing ==
  ASSUME NEW p \in 1 .. 5, NEW old, NEW before, Line[6] = "none", Line[7] = "none", Line[p] = old,
         p # 1 => Line[p - 1] \in before,
         \A i \in 1 .. 6 : Line'[i] = IF i < p THEN Line[i] ELSE Line[i + 1]
  PROVE  Removed(old, before)
<1>1. p = 1 \/ p = 2 \/ p = 3 \/ p = 4 \/ p = 5
  OBVIOUS
<1>2. /\ p = 2 => p - 1 = 1
      /\ p = 3 => p - 1 = 2
      /\ p = 4 => p - 1 = 3
      /\ p = 5 => p - 1 = 4
  OBVIOUS
<1>3. /\ Line'[1] = IF 1 < p THEN Line[1] ELSE Line[2]
      /\ Line'[2] = IF 2 < p THEN Line[2] ELSE Line[3]
      /\ Line'[3] = IF 3 < p THEN Line[3] ELSE Line[4]
      /\ Line'[4] = IF 4 < p THEN Line[4] ELSE Line[5]
      /\ Line'[5] = IF 5 < p THEN Line[5] ELSE Line[6]
      /\ Line'[6] = IF 6 < p THEN Line[6] ELSE Line[7]
  OBVIOUS
<1> QED BY <1>1, <1>2, <1>3
  DEF Removed, Removed1, Removed2, Removed3, Removed4, Removed5, Shifted, LineIs

LEMMA Putting ==
  ASSUME TypeOK, NEW cmd \in Command, box' = Put(box, cmd), UNCHANGED mon, Quiet,
         Due = 0, Due' = 0, Line[5] = "none"
  PROVE  \/ Turned("none", cmd, Kinds)
         \/ Kept /\ Line[1] # "none"
<1>1. Size = Len(box) /\ Len(box) \in Nat /\ Len(Todo) = 0 /\ Held = 0 /\ Held' = 0
  <2>1. Len(box) \in Nat /\ Len(Todo) = 0 /\ Held = 0 /\ Held' = 0
    BY LineParts DEF Quiet, Held, Todo
  <2> QED BY <2>1 DEF Size
<1>2. Line[6] = "none" /\ Len(box) <= 4
  <2>1. 5 \in Pos
    BY DEF Pos
  <2> QED BY <1>1, <2>1, LineTyped, LineEnds
<1>3. CASE Len(box) < BoxSize
  <2> DEFINE p == Len(box) + 1
  <2>1. box' = Append(box, cmd)
    BY <1>3 DEF Put
  <2>2. Len(box') = p /\ box'[p] = cmd /\ \A i \in 1 .. Len(box) : box'[i] = box[i]
    BY <2>1 DEF TypeOK
  <2>0. Todo' = Todo
    BY DEF Todo
  <2>3. Size' = p /\ p \in 1 .. 5
    BY <1>1, <1>2, <2>0, <2>2 DEF Size
  <2>4. \A i \in Pos : Line'[i] = IF i = p THEN cmd ELSE Line[i]
    BY <1>1, <2>0, <2>2, <2>3 DEF Line, Pos
  <2>5. Line[p] = "none" /\ (p # 1 => Line[p - 1] \in Kinds)
    BY <1>1, <2>3, LineTyped DEF Pos
  <2> HIDE DEF p
  <2>6. \A i \in 1 .. 6 : Line'[i] = IF i = p THEN cmd ELSE Line[i]
    BY <2>4 DEF Pos
  <2> QED BY <1>2, <2>3, <2>5, <2>6, Turning
<1>4. CASE ~(Len(box) < BoxSize)
  <2>1. box' = box /\ Due' = Due
    BY <1>4 DEF Put
  <2>2. Len(box) # 0
    BY <1>1, <1>4, ClientAssumption
  <2>3. 1 \in Pos /\ 1 <= Len(box)
    BY <1>1, <2>2 DEF Pos
  <2>4. Line[1] # "none"
    BY <2>3, LineTyped DEF Command
  <2> QED BY <1>2, <2>1, <2>4, Keeping
<1> QED BY <1>3, <1>4

(* A command comes to the monitor.                                         *)
Told(cmd) ==
  /\ mon'.init = mon.init /\ Len(Todo') = Len(Todo) + 1
  /\ Todo'[Len(Todo) + 1] = cmd
  /\ \A i \in 1 .. Len(Todo) : Todo'[i] = Todo[i]

LEMMA Appending ==
  ASSUME TypeOK, NEW cmd \in {"stop", "init"}, inform_mon(<<cmd>>)
  PROVE  Told(cmd)
<1>1. Todo' = Todo \o <<cmd>> /\ mon'.init = mon.init
  BY DEF inform_mon, TypeOK, Todo
<1>2. Todo \in Seq({"stop", "init"}) /\ <<cmd>> \in Seq({"stop", "init"})
  BY DEF TypeOK, Todo
<1>3. Len(<<cmd>>) = 1 /\ <<cmd>>[1] = cmd
  OBVIOUS
<1> QED BY <1>1, <1>2, <1>3, ConcatProperties DEF Told

(* The places before the new command, its own and those after it.          *)
LEMMA Telling ==
  ASSUME TypeOK, UNCHANGED box, NEW cmd \in {"stop", "init"}, Told(cmd),
         NEW p \in Nat, p = Len(box) + Held + Len(Todo) + 1, NEW i \in Pos
  PROVE  /\ p >= 1 /\ Size = (p - 1) + Due /\ Size' = p + Due'
         /\ i < p => Line'[i] = Line[i]
         /\ i = p => Line'[i] = cmd
         /\ i > p => Line'[i] = IF i > Size' THEN "none" ELSE IF i = Size' THEN "inits" ELSE "stops"
         /\ i >= p => Line[i] = IF i > Size THEN "none" ELSE IF i = Size THEN "inits" ELSE "stops"
<1>1. /\ Len(box) \in Nat /\ Held \in Nat /\ Len(Todo) \in Nat /\ i \in Nat /\ i >= 1 /\ Due \in Nat
      /\ Held' = Held /\ Len(Todo') = Len(Todo) + 1 /\ Todo'[Len(Todo) + 1] = cmd
      /\ \A k \in 1 .. Len(Todo) : Todo'[k] = Todo[k]
  BY LineParts DEF Pos, Held, Told
<1>2. Due' \in Nat
  BY DEF Due
<1>3. p >= 1 /\ Size = (p - 1) + Due /\ Size' = p + Due'
  BY <1>1, <1>2 DEF Size
<1>4. CASE i <= Len(box)
  <2>1. Line'[i] = Line[i]
    BY <1>4 DEF Line
  <2> QED BY <1>1, <1>3, <1>4, <2>1
<1>5. CASE ~(i <= Len(box))
  <2>1. Line[i] = IF i <= Len(box) + Held THEN "DHCPC_renew"
                  ELSE IF i <= Len(box) + Held + Len(Todo) THEN Todo[i - Len(box) - Held]
                  ELSE IF i > Size THEN "none" ELSE IF i = Size THEN "inits" ELSE "stops"
    BY <1>5, LineAt
  <2>2. Line'[i] = IF i <= Len(box) + Held THEN "DHCPC_renew"
                   ELSE IF i <= Len(box) + Held + Len(Todo') THEN Todo'[i - Len(box) - Held]
                   ELSE IF i > Size' THEN "none" ELSE IF i = Size' THEN "inits" ELSE "stops"
    BY <1>1, <1>5 DEF Line
  <2>3. CASE i <= Len(box) + Held
    BY <1>1, <1>3, <2>1, <2>2, <2>3
  <2>4. CASE ~(i <= Len(box) + Held) /\ i < p
    <3>1. i - Len(box) - Held \in 1 .. Len(Todo) /\ i <= Len(box) + Held + Len(Todo)
      BY <1>1, <2>4
    <3> QED BY <1>1, <1>3, <2>1, <2>2, <2>4, <3>1
  <2>5. CASE i = p
    <3>1. i - Len(box) - Held = Len(Todo) + 1
      BY <1>1, <2>5
    <3> QED BY <1>1, <1>3, <2>1, <2>2, <2>5, <3>1
  <2>6. CASE i > p
    BY <1>1, <1>3, <2>1, <2>2, <2>6
  <2> QED BY <1>1, <1>3, <2>3, <2>4, <2>5, <2>6
<1> QED BY <1>4, <1>5

(* The command takes a free place, or the one that was kept for it.        *)
LEMMA Informing ==
  ASSUME TypeOK, UNCHANGED box, NEW cmd \in {"stop", "init"}, Told(cmd), NEW old,
         \/ Due = 0 /\ Due' = 0 /\ old = "none" /\ Line[5] = "none"
         \/ Due = 2 /\ Due' = 1 /\ old = "stops" /\ Line[6] = "none"
         \/ Due = 1 /\ Due' = 0 /\ old = "inits" /\ Line[6] = "none"
  PROVE  Turned(old, cmd, Kinds)
<1> DEFINE p == Len(box) + Held + Len(Todo) + 1
<1>1. 5 \in Pos /\ 6 \in Pos /\ 1 \in Pos
  BY DEF Pos
<1>0. p \in Nat
  BY LineParts
<1>2. p >= 1 /\ Size = (p - 1) + Due /\ Size' = p + Due'
  BY <1>0, <1>1, Telling
<1>3. \A i \in Pos : /\ i < p => Line'[i] = Line[i]
                     /\ i = p => Line'[i] = cmd
                     /\ i > p =>
                          Line'[i] = IF i > Size' THEN "none" ELSE IF i = Size' THEN "inits" ELSE "stops"
                     /\ i >= p =>
                          Line[i] = IF i > Size THEN "none" ELSE IF i = Size THEN "inits" ELSE "stops"
  BY <1>0, Telling
<1> HIDE DEF p
<1>4. \A i \in Pos : (Line[i] = "none") <=> (i > Size)
  BY LineTyped
<1>5. p \in 1 .. 5 /\ Line[6] = "none"
  BY <1>0, <1>1, <1>2, <1>4, LineEnds, LineParts
<1>6. Line[p] = old
  BY <1>0, <1>2, <1>3, <1>5 DEF Pos
<1>7. p # 1 => Line[p - 1] \in Kinds
  BY <1>0, <1>2, <1>5, LineTyped, LineParts DEF Pos
<1>8. \A i \in 1 .. 6 : Line'[i] = IF i = p THEN cmd ELSE Line[i]
  <2> SUFFICES ASSUME NEW i \in 1 .. 6 PROVE Line'[i] = IF i = p THEN cmd ELSE Line[i]
    OBVIOUS
  <2>1. i \in Pos
    BY DEF Pos
  <2> QED BY <1>0, <1>2, <1>3, <1>5, <2>1
<1> QED BY <1>5, <1>6, <1>7, <1>8, Turning

(* The address is lost: the monitor will be told to stop and to begin.     *)
Lost ==
  \/ Line[1] = "none" /\ LineIs("stops", "inits", "none", "none", "none")
  \/ Line[2] = "none" /\ Line[1] # "none" /\ LineIs(Line[1], "stops", "inits", "none", "none")
  \/ Line[3] = "none" /\ Line[2] # "none" /\ LineIs(Line[1], Line[2], "stops", "inits", "none")
  \/ Line[4] = "none" /\ Line[3] # "none" /\ LineIs(Line[1], Line[2], Line[3], "stops", "inits")

LEMMA Losing ==
  ASSUME TypeOK, UNCHANGED <<box, mon>>, Due = 0, Due' = 2, Line[4] = "none"
  PROVE  Lost
<1>1. /\ Size \in Nat /\ Size = Len(box) + Held + Len(Todo) /\ Size' = Size + 2
      /\ Len(box) \in Nat /\ Held \in Nat /\ Len(Todo) \in Nat
  <2>1. Len(box) \in Nat /\ Held \in Nat /\ Len(Todo) \in Nat
    BY LineParts
  <2>2. Held' = Held /\ Len(Todo') = Len(Todo) /\ Len(box') = Len(box)
    BY DEF Held, Todo
  <2>3. Size = ((Len(box) + Held) + Len(Todo)) + 0
    BY DEF Size
  <2>4. Size' = ((Len(box') + Held') + Len(Todo')) + 2
    BY DEF Size
  <2> QED BY <2>1, <2>2, <2>3, <2>4
<1>2. Size <= 3
  <2>1. 4 \in Pos
    BY DEF Pos
  <2> QED BY <1>1, <2>1, LineTyped
<1>3. Held' = Held /\ Todo' = Todo /\ box' = box
  BY DEF Held, Todo
<1>4. \A i \in Pos :
        Line'[i] = IF i = Size + 1 THEN "stops" ELSE IF i = Size + 2 THEN "inits" ELSE Line[i]
  BY <1>1, <1>3, LineParts DEF Line, Pos
<1>5. \A i \in Pos : (Line[i] = "none") <=> (i > Size)
  BY LineTyped
<1>6. \A i \in 1 .. 6 :
        /\ Line'[i] = IF i = Size + 1 THEN "stops" ELSE IF i = Size + 2 THEN "inits" ELSE Line[i]
        /\ (Line[i] = "none") <=> (i > Size)
  BY <1>4, <1>5 DEF Pos
<1>7. Size = 0 \/ Size = 1 \/ Size = 2 \/ Size = 3
  BY <1>1, <1>2
<1> QED BY <1>6, <1>7 DEF Lost, LineIs

-----------------------------------------------------------------------------
(* The monitor comes to a command: the one after those of the box.         *)
LEMMA Behind ==
  ASSUME TypeOK, Line[6] = "none", NEW p \in Nat, p = Len(box) + 1, p <= Size
  PROVE  /\ p \in 1 .. 5 /\ Line[7] = "none"
         /\ p # 1 => Line[p - 1] \in Command
         /\ p # 1 => Line[1] \in Command
<1>1. Size \in Nat /\ 1 \in Pos /\ 6 \in Pos /\ Len(box) \in Nat
  BY LineParts DEF Pos
<1>2. p \in 1 .. 5 /\ Line[7] = "none"
  BY <1>1, LineTyped, LineEnds
<1>3. ASSUME p # 1 PROVE Line[p - 1] \in Command
  BY <1>1, <1>2, <1>3, LineTyped DEF Pos
<1>4. ASSUME p # 1 PROVE Line[1] \in Command
  BY <1>1, <1>2, <1>4, LineTyped
<1> QED BY <1>2, <1>3, <1>4

LEMMA DropsTodo ==
  ASSUME TypeOK, box' = box, Due' = Due, Held = 0, Held' = 0, Todo # <<>>, Todo' = Tail(Todo),
         NEW p \in Nat, p = Len(box) + 1
  PROVE  /\ p <= Size /\ Line[p] = Head(Todo)
         /\ \A i \in Pos : Line'[i] = IF i < p THEN Line[i] ELSE Line[i + 1]
<1>1. Len(box) \in Nat /\ Len(Todo) \in Nat /\ Due \in Nat /\ Todo \in Seq({"stop", "init"})
  BY LineParts DEF TypeOK, Todo
<1>2. /\ Len(Todo) >= 1 /\ Len(Todo') = Len(Todo) - 1 /\ Head(Todo) = Todo[1]
      /\ \A k \in 1 .. Len(Todo') : Todo'[k] = Todo[k + 1]
  BY <1>1
<1>3. p <= Size /\ Size' = Size - 1 /\ Size \in Nat
  BY <1>1, <1>2 DEF Size
<1>4. Line[p] = Todo[1]
  <2>1. p \in Pos /\ ~(p <= Len(box)) /\ p - Len(box) - 0 = 1
    BY <1>1 DEF Pos
  <2> QED BY <1>1, <1>2, <2>1, LineAt
<1>5. SUFFICES ASSUME NEW i \in Pos PROVE Line'[i] = IF i < p THEN Line[i] ELSE Line[i + 1]
  BY <1>2, <1>3, <1>4
<1>6. i \in Nat /\ i >= 1 /\ i + 1 \in Pos
  BY DEF Pos
<1>7. CASE i < p
  BY <1>1, <1>6, <1>7 DEF Line
<1>8. CASE ~(i < p)
  <2>1. ~(i <= Len(box)) /\ ~(i + 1 <= Len(box))
    BY <1>1, <1>6, <1>8
  <2>2. Line'[i] = IF i <= Len(box) + 0 THEN "DHCPC_renew"
                   ELSE IF i <= Len(box) + 0 + Len(Todo') THEN Todo'[i - Len(box) - 0]
                   ELSE IF i > Size' THEN "none" ELSE IF i = Size' THEN "inits" ELSE "stops"
    BY <2>1 DEF Line
  <2>3. Line[i + 1] = IF i + 1 <= Len(box) + 0 THEN "DHCPC_renew"
                      ELSE IF i + 1 <= Len(box) + 0 + Len(Todo) THEN Todo[(i + 1) - Len(box) - 0]
                      ELSE IF i + 1 > Size THEN "none"
                      ELSE IF i + 1 = Size THEN "inits" ELSE "stops"
    BY <1>6, <2>1, LineAt
  <2>4. CASE i <= Len(box) + Len(Todo')
    <3>1. /\ (i - Len(box)) - 0 \in 1 .. Len(Todo')
          /\ ((i + 1) - Len(box)) - 0 = ((i - Len(box)) - 0) + 1
      BY <1>1, <1>2, <1>6, <2>1, <2>4
    <3>2. Todo'[(i - Len(box)) - 0] = Todo[((i + 1) - Len(box)) - 0]
      BY <1>2, <3>1
    <3> QED BY <1>1, <1>2, <1>6, <1>8, <2>1, <2>2, <2>3, <2>4, <3>2
  <2>5. CASE ~(i <= Len(box) + Len(Todo'))
    BY <1>1, <1>2, <1>3, <1>6, <1>8, <2>1, <2>2, <2>3, <2>5
  <2> QED BY <2>4, <2>5
<1> QED BY <1>7, <1>8

LEMMA DropsRenew ==
  ASSUME TypeOK, box' = box, Due' = Due, Held = 1, Held' = 0, Todo' = Todo,
         NEW p \in Nat, p = Len(box) + 1
  PROVE  /\ p <= Size /\ Line[p] = "DHCPC_renew"
         /\ \A i \in Pos : Line'[i] = IF i < p THEN Line[i] ELSE Line[i + 1]
<1>1. Len(box) \in Nat /\ Len(Todo) \in Nat /\ Due \in Nat
  BY LineParts
<1>3. p <= Size /\ Size' = Size - 1 /\ Size \in Nat
  BY <1>1 DEF Size
<1>4. Line[p] = "DHCPC_renew"
  <2>1. p \in Pos /\ ~(p <= Len(box)) /\ p <= Len(box) + 1
    BY <1>1 DEF Pos
  <2> QED BY <2>1, LineAt
<1>5. SUFFICES ASSUME NEW i \in Pos PROVE Line'[i] = IF i < p THEN Line[i] ELSE Line[i + 1]
  BY <1>3, <1>4
<1>6. i \in Nat /\ i >= 1 /\ i + 1 \in Pos
  BY DEF Pos
<1>7. CASE i < p
  BY <1>1, <1>6, <1>7 DEF Line
<1>8. CASE ~(i < p)
  <2>1. ~(i <= Len(box)) /\ ~(i + 1 <= Len(box)) /\ ((i + 1) - Len(box)) - 1 = (i - Len(box)) - 0
    BY <1>1, <1>6, <1>8
  <2>2. Line'[i] = IF i <= Len(box) + 0 THEN "DHCPC_renew"
                   ELSE IF i <= Len(box) + 0 + Len(Todo) THEN Todo[(i - Len(box)) - 0]
                   ELSE IF i > Size' THEN "none" ELSE IF i = Size' THEN "inits" ELSE "stops"
    BY <2>1 DEF Line
  <2>3. Line[i + 1] = IF i + 1 <= Len(box) + 1 THEN "DHCPC_renew"
                      ELSE IF i + 1 <= Len(box) + 1 + Len(Todo) THEN Todo[((i + 1) - Len(box)) - 1]
                      ELSE IF i + 1 > Size THEN "none"
                      ELSE IF i + 1 = Size THEN "inits" ELSE "stops"
    BY <1>6, <2>1, LineAt
  <2> QED BY <1>1, <1>3, <1>6, <1>8, <2>1, <2>2, <2>3
<1> QED BY <1>7, <1>8

LEMMA Dropping ==
  ASSUME TypeOK, Line[6] = "none", box' = box, Due' = Due, Held' = 0, NEW old,
         \/ Held = 0 /\ Todo # <<>> /\ Todo' = Tail(Todo) /\ old = Head(Todo)
         \/ Held = 1 /\ Todo' = Todo /\ old = "DHCPC_renew"
  PROVE  Removed(old, Command) /\ (box # <<>> => Line[1] \in Command)
<1> DEFINE p == Len(box) + 1
<1>1. Len(box) \in Nat /\ p \in Nat
  BY LineParts
<1>2. /\ p <= Size /\ Line[p] = old
      /\ \A i \in Pos : Line'[i] = IF i < p THEN Line[i] ELSE Line[i + 1]
  BY <1>1, DropsTodo, DropsRenew
<1>3. box # <<>> => p # 1
  BY <1>1 DEF TypeOK
<1> HIDE DEF p
<1>4. /\ p \in 1 .. 5 /\ Line[7] = "none"
      /\ p # 1 => Line[p - 1] \in Command
      /\ p # 1 => Line[1] \in Command
  BY <1>1, <1>2, Behind DEF p
<1>5. \A i \in 1 .. 6 : Line'[i] = IF i < p THEN Line[i] ELSE Line[i + 1]
  BY <1>2 DEF Pos
<1> QED BY <1>2, <1>3, <1>4, <1>5, Removing

LEMMA StopFrees ==
  ASSUME TypeOK, Due' = Due, Held = 0, Held' = 0, Todo # <<>>, Todo' = Tail(Todo),
         NEW cmd, box' = Append(box, cmd),
         NEW p \in Nat, p = Len(box) + 1
  PROVE  /\ p <= Size /\ Line[p] = Head(Todo)
         /\ \A i \in Pos : Line'[i] = IF i = p THEN cmd ELSE Line[i]
<1>1. Len(box) \in Nat /\ Len(Todo) \in Nat /\ Due \in Nat /\ Todo \in Seq({"stop", "init"})
  BY LineParts DEF TypeOK, Todo
<1>2. /\ Len(Todo) >= 1 /\ Len(Todo') = Len(Todo) - 1 /\ Head(Todo) = Todo[1]
      /\ \A k \in 1 .. Len(Todo') : Todo'[k] = Todo[k + 1]
      /\ Len(box') = p /\ box'[p] = cmd /\ \A k \in 1 .. Len(box) : box'[k] = box[k]
  BY <1>1 DEF TypeOK
<1>3. p <= Size /\ Size' = Size /\ Size \in Nat
  BY <1>1, <1>2 DEF Size
<1>4. Line[p] = Todo[1]
  <2>1. p \in Pos /\ ~(p <= Len(box)) /\ p - Len(box) - 0 = 1
    BY <1>1 DEF Pos
  <2> QED BY <1>1, <1>2, <2>1, LineAt
<1>5. SUFFICES ASSUME NEW i \in Pos PROVE Line'[i] = IF i = p THEN cmd ELSE Line[i]
  BY <1>2, <1>3, <1>4
<1>6. i \in Nat /\ i >= 1
  BY DEF Pos
<1>7. CASE i <= Len(box)
  BY <1>1, <1>2, <1>6, <1>7 DEF Line
<1>8. CASE i = p
  BY <1>1, <1>2, <1>6, <1>8 DEF Line
<1>9. CASE ~(i <= Len(box)) /\ i # p
  <2>1. /\ i > p /\ ~(i <= Len(box) + 0) /\ ~(i <= p + 0)
        /\ (i - Len(box)) - 0 = ((i - p) - 0) + 1
    BY <1>1, <1>6, <1>9
  <2>2. Line'[i] = IF i <= p + 0 THEN "DHCPC_renew"
                   ELSE IF i <= p + 0 + Len(Todo') THEN Todo'[(i - p) - 0]
                   ELSE IF i > Size' THEN "none" ELSE IF i = Size' THEN "inits" ELSE "stops"
    BY <1>2, <2>1, <1>1, <1>6, <1>9 DEF Line
  <2>3. Line[i] = IF i <= Len(box) + 0 THEN "DHCPC_renew"
                  ELSE IF i <= Len(box) + 0 + Len(Todo) THEN Todo[(i - Len(box)) - 0]
                  ELSE IF i > Size THEN "none" ELSE IF i = Size THEN "inits" ELSE "stops"
    BY <1>9, LineAt
  <2>4. CASE i <= Len(box) + Len(Todo)
    <3>1. (i - p) - 0 \in 1 .. Len(Todo')
      BY <1>1, <1>2, <1>6, <1>9, <2>1, <2>4
    <3>2. Todo'[(i - p) - 0] = Todo[(i - Len(box)) - 0]
      BY <1>2, <2>1, <3>1
    <3> QED BY <1>1, <1>2, <1>3, <1>6, <1>9, <2>1, <2>2, <2>3, <2>4, <3>2
  <2>5. CASE ~(i <= Len(box) + Len(Todo))
    BY <1>1, <1>2, <1>3, <1>6, <1>9, <2>1, <2>2, <2>3, <2>5
  <2> QED BY <2>4, <2>5
<1> QED BY <1>7, <1>8, <1>9

LEMMA RenewComes ==
  ASSUME TypeOK, Due' = Due, Held = 1, Held' = 0, Todo' = Todo, NEW cmd, box' = Append(box, cmd),
         NEW p \in Nat, p = Len(box) + 1
  PROVE  /\ p <= Size /\ Line[p] = "DHCPC_renew"
         /\ \A i \in Pos : Line'[i] = IF i = p THEN cmd ELSE Line[i]
<1>1. Len(box) \in Nat /\ Len(Todo) \in Nat /\ Due \in Nat /\ Todo \in Seq({"stop", "init"})
  BY LineParts DEF TypeOK, Todo
<1>2. /\ Len(box') = p /\ box'[p] = cmd /\ \A k \in 1 .. Len(box) : box'[k] = box[k]
  BY <1>1 DEF TypeOK
<1>3. p <= Size /\ Size' = Size /\ Size \in Nat
  BY <1>1, <1>2 DEF Size
<1>4. Line[p] = "DHCPC_renew"
  <2>1. p \in Pos /\ ~(p <= Len(box)) /\ p <= Len(box) + 1
    BY <1>1 DEF Pos
  <2> QED BY <2>1, LineAt
<1>5. SUFFICES ASSUME NEW i \in Pos PROVE Line'[i] = IF i = p THEN cmd ELSE Line[i]
  BY <1>2, <1>3, <1>4
<1>6. i \in Nat /\ i >= 1
  BY DEF Pos
<1>7. CASE i <= Len(box)
  BY <1>1, <1>2, <1>6, <1>7 DEF Line
<1>8. CASE i = p
  BY <1>1, <1>2, <1>6, <1>8 DEF Line
<1>9. CASE ~(i <= Len(box)) /\ i # p
  <2>1. /\ i > p /\ ~(i <= Len(box) + 1) /\ ~(i <= p + 0)
        /\ (i - Len(box)) - 1 = (i - p) - 0
    BY <1>1, <1>6, <1>9
  <2>2. Line'[i] = IF i <= p + 0 THEN "DHCPC_renew"
                   ELSE IF i <= p + 0 + Len(Todo') THEN Todo'[(i - p) - 0]
                   ELSE IF i > Size' THEN "none" ELSE IF i = Size' THEN "inits" ELSE "stops"
    BY <1>2, <2>1, <1>1, <1>6, <1>9 DEF Line
  <2>3. Line[i] = IF i <= Len(box) + 1 THEN "DHCPC_renew"
                  ELSE IF i <= Len(box) + 1 + Len(Todo) THEN Todo[(i - Len(box)) - 1]
                  ELSE IF i > Size THEN "none" ELSE IF i = Size THEN "inits" ELSE "stops"
    BY <1>9, LineAt
  <2> QED BY <1>1, <1>2, <1>3, <1>6, <1>9, <2>1, <2>2, <2>3
<1> QED BY <1>7, <1>8, <1>9

LEMMA InitHeld ==
  ASSUME TypeOK, Due' = Due, Held = 0, Held' = 1, Todo # <<>>, Todo' = Tail(Todo), box' = box,
         NEW p \in Nat, p = Len(box) + 1
  PROVE  /\ p <= Size /\ Line[p] = Head(Todo)
         /\ \A i \in Pos : Line'[i] = IF i = p THEN "DHCPC_renew" ELSE Line[i]
<1>1. Len(box) \in Nat /\ Len(Todo) \in Nat /\ Due \in Nat /\ Todo \in Seq({"stop", "init"})
  BY LineParts DEF TypeOK, Todo
<1>2. /\ Len(Todo) >= 1 /\ Len(Todo') = Len(Todo) - 1 /\ Head(Todo) = Todo[1]
      /\ \A k \in 1 .. Len(Todo') : Todo'[k] = Todo[k + 1]
  BY <1>1 DEF TypeOK
<1>3. p <= Size /\ Size' = Size /\ Size \in Nat
  BY <1>1, <1>2 DEF Size
<1>4. Line[p] = Todo[1]
  <2>1. p \in Pos /\ ~(p <= Len(box)) /\ p - Len(box) - 0 = 1
    BY <1>1 DEF Pos
  <2> QED BY <1>1, <1>2, <2>1, LineAt
<1>5. SUFFICES ASSUME NEW i \in Pos PROVE Line'[i] = IF i = p THEN "DHCPC_renew" ELSE Line[i]
  BY <1>2, <1>3, <1>4
<1>6. i \in Nat /\ i >= 1
  BY DEF Pos
<1>7. CASE i <= Len(box)
  BY <1>1, <1>2, <1>6, <1>7 DEF Line
<1>8. CASE i = p
  BY <1>1, <1>2, <1>6, <1>8 DEF Line
<1>9. CASE ~(i <= Len(box)) /\ i # p
  <2>1. /\ i > p /\ ~(i <= Len(box) + 0) /\ ~(i <= Len(box) + 1)
        /\ (i - Len(box)) - 0 = ((i - Len(box)) - 1) + 1
    BY <1>1, <1>6, <1>9
  <2>2. Line'[i] = IF i <= Len(box) + 1 THEN "DHCPC_renew"
                   ELSE IF i <= Len(box) + 1 + Len(Todo') THEN Todo'[(i - Len(box)) - 1]
                   ELSE IF i > Size' THEN "none" ELSE IF i = Size' THEN "inits" ELSE "stops"
    BY <1>2, <2>1, <1>1, <1>6, <1>9 DEF Line
  <2>3. Line[i] = IF i <= Len(box) + 0 THEN "DHCPC_renew"
                  ELSE IF i <= Len(box) + 0 + Len(Todo) THEN Todo[(i - Len(box)) - 0]
                  ELSE IF i > Size THEN "none" ELSE IF i = Size THEN "inits" ELSE "stops"
    BY <1>9, LineAt
  <2>4. CASE i <= Len(box) + Len(Todo)
    <3>1. (i - Len(box)) - 1 \in 1 .. Len(Todo')
      BY <1>1, <1>2, <1>6, <1>9, <2>1, <2>4
    <3>2. Todo'[(i - Len(box)) - 1] = Todo[(i - Len(box)) - 0]
      BY <1>2, <2>1, <3>1
    <3> QED BY <1>1, <1>2, <1>3, <1>6, <1>9, <2>1, <2>2, <2>3, <2>4, <3>2
  <2>5. CASE ~(i <= Len(box) + Len(Todo))
    BY <1>1, <1>2, <1>3, <1>6, <1>9, <2>1, <2>2, <2>3, <2>5
  <2> QED BY <2>4, <2>5
<1> QED BY <1>7, <1>8, <1>9

LEMMA Replacing ==
  ASSUME TypeOK, Line[6] = "none", Due' = Due, NEW old, NEW new,
         \/ /\ Held = 0 /\ Held' = 0 /\ Todo # <<>> /\ Todo' = Tail(Todo)
            /\ box' = Append(box, new) /\ old = Head(Todo)
         \/ /\ Held = 1 /\ Held' = 0 /\ Todo' = Todo
            /\ box' = Append(box, new) /\ old = "DHCPC_renew"
         \/ /\ Held = 0 /\ Held' = 1 /\ Todo # <<>> /\ Todo' = Tail(Todo)
            /\ box' = box /\ old = Head(Todo) /\ new = "DHCPC_renew"
  PROVE  Turned(old, new, Command)
<1> DEFINE p == Len(box) + 1
<1>1. Len(box) \in Nat /\ p \in Nat
  BY LineParts
<1>2. /\ p <= Size /\ Line[p] = old
      /\ \A i \in Pos : Line'[i] = IF i = p THEN new ELSE Line[i]
  BY <1>1, StopFrees, RenewComes, InitHeld
<1> HIDE DEF p
<1>3. /\ p \in 1 .. 5
      /\ p # 1 => Line[p - 1] \in Command
  BY <1>1, <1>2, Behind DEF p
<1>4. \A i \in 1 .. 6 : Line'[i] = IF i = p THEN new ELSE Line[i]
  BY <1>2 DEF Pos
<1> QED BY <1>2, <1>3, <1>4, Turning

-----------------------------------------------------------------------------
(* What the steps need of the invariant before the change.                 *)
LEMMA PartsLine ==
  ASSUME TypeOK, Parts
  PROVE  /\ Line[6] = "none"
         /\ Line[1] = "none" => Line[2] = "none"
         /\ Line[2] = "none" => Line[3] = "none"
         /\ Line[3] = "none" => Line[4] = "none"
         /\ Line[4] = "none" => Line[5] = "none"
         /\ {Line[1], Line[2], Line[3], Line[4], Line[5]} \subseteq Kinds \cup {"none"}
<1>1. Line[6] = "none"
  BY LineEnds DEF Parts, FreeParts, PFew, Few3, Few
<1>2. {1, 2, 3, 4, 5} \subseteq Pos
  BY DEF Pos
<1>3. \A i \in Pos : Line[i] \in Kinds \cup {"none"}
  <2> SUFFICES ASSUME NEW i \in Pos PROVE Line[i] \in Kinds \cup {"none"}
    OBVIOUS
  <2>1. i <= Size \/ i > Size
    BY LineParts DEF Pos
  <2> QED BY <2>1, LineTyped
<1> QED BY <1>1, <1>2, <1>3, LineEnds

(* The commands of the box come first, then what the monitor holds, then  *)
(* what it has been told, then what it will be told.                       *)
Before(x, y) ==
  /\ x \in {"DHCPC_renew", "stop", "init"} => y \notin Command \cup {"DHCPC_renew"}
  /\ x = "stops" => y = "inits" /\ state = "NOTBOUND"
  /\ x = "inits" => y = "none" /\ (state = "NOTBOUND" \/ pc = "delay")
Ordered ==
  /\ Before(Line[1], Line[2]) /\ Before(Line[2], Line[3]) /\ Before(Line[3], Line[4])
  /\ Before(Line[4], Line[5]) /\ Before(Line[5], Line[6])
  /\ state = "NOTBOUND" \/ pc = "delay" => "inits" \in {Line[1], Line[2], Line[3], Line[4], Line[5]}
  /\ state = "NOTBOUND" => "stops" \in {Line[1], Line[2], Line[3], Line[4]}

LEMMA PairOrdered ==
  ASSUME TypeOK, NEW i \in Pos
  PROVE  Before(Line[i], Line[i + 1])
<1> DEFINE A == Len(box) + Held
           B == Len(box) + Held + Len(Todo)
<1>1. /\ Len(box) \in Nat /\ Held \in Nat /\ (Held = 0 \/ Held = 1) /\ Len(Todo) \in Nat
      /\ A \in Nat /\ B \in Nat /\ A <= B /\ Len(box) <= A /\ A <= Len(box) + 1
      /\ Size = B + Due /\ i \in Nat /\ i >= 1 /\ i + 1 \in Pos
  BY LineParts DEF Pos, Size
<1>2. /\ Due = 0 \/ Due = 1 \/ Due = 2
      /\ Due # 0 => state = "NOTBOUND" \/ pc = "delay"
      /\ Due = 2 => state = "NOTBOUND"
  BY DEF Due
<1>3. \A j \in Pos :
        /\ j <= Len(box) => Line[j] \in Command
        /\ ~(j <= Len(box)) /\ j <= A => Line[j] = "DHCPC_renew"
        /\ ~(j <= A) /\ j <= B => Line[j] \in {"stop", "init"}
        /\ ~(j <= B) => Line[j] = IF j > Size THEN "none" ELSE IF j = Size THEN "inits" ELSE "stops"
  <2> SUFFICES ASSUME NEW j \in Pos
      PROVE /\ j <= Len(box) => Line[j] \in Command
            /\ ~(j <= Len(box)) /\ j <= A => Line[j] = "DHCPC_renew"
            /\ ~(j <= A) /\ j <= B => Line[j] \in {"stop", "init"}
            /\ ~(j <= B) =>
                 Line[j] = IF j > Size THEN "none" ELSE IF j = Size THEN "inits" ELSE "stops"
    OBVIOUS
  <2>1. j \in Nat /\ j >= 1
    BY DEF Pos
  <2>2. j <= Len(box) => Line[j] \in Command
    BY LineTyped
  <2>3. ASSUME ~(j <= A), j <= B PROVE Line[j] \in {"stop", "init"}
    <3>1. j - Len(box) - Held \in 1 .. Len(Todo) /\ ~(j <= Len(box))
      BY <1>1, <2>1, <2>3
    <3>2. Line[j] = Todo[j - Len(box) - Held]
      BY <2>3, <3>1, LineAt
    <3> QED BY <3>1, <3>2, LineParts
  <2>4. ~(j <= Len(box)) /\ j <= A => Line[j] = "DHCPC_renew"
    BY LineAt
  <2>5. ~(j <= B) => Line[j] = IF j > Size THEN "none" ELSE IF j = Size THEN "inits" ELSE "stops"
    <3>1. ~(j <= B) => ~(j <= A) /\ ~(j <= Len(box))
      BY <1>1, <2>1
    <3> QED BY <3>1, LineAt
  <2> QED BY <2>2, <2>3, <2>4, <2>5
<1> HIDE DEF A, B
<1>4. i <= Len(box) => Line[i] \in Command
  BY <1>3
<1>5. ASSUME ~(i <= Len(box)), i <= B PROVE Line[i] \in {"DHCPC_renew", "stop", "init"}
  BY <1>1, <1>3, <1>5
<1>6. ~(i <= Len(box)) => Line[i + 1] \notin Command \cup {"DHCPC_renew"}
  <2>1. ~(i <= Len(box)) => ~(i + 1 <= A)
    BY <1>1
  <2>2. ~(i + 1 <= A) => Line[i + 1] \in {"stop", "init", "none", "inits", "stops"}
    BY <1>1, <1>3
  <2> QED BY <2>1, <2>2 DEF Command
<1>7. CASE i <= B
  BY <1>1, <1>4, <1>5, <1>6, <1>7 DEF Before, Command
<1>8. CASE ~(i <= B)
  <2>1. /\ Line[i] = IF i > Size THEN "none" ELSE IF i = Size THEN "inits" ELSE "stops"
        /\ Line[i + 1] = IF i + 1 > Size THEN "none" ELSE IF i + 1 = Size THEN "inits" ELSE "stops"
    BY <1>1, <1>3, <1>8
  <2>2. CASE i > Size
    BY <2>1, <2>2 DEF Before
  <2>3. CASE i = Size
    BY <1>1, <1>2, <1>8, <2>1, <2>3 DEF Before
  <2>4. CASE i < Size
    <3>1. i + 1 = Size /\ Due = 2
      BY <1>1, <1>2, <1>8, <2>4
    <3> QED BY <1>1, <1>2, <2>1, <2>4, <3>1 DEF Before
  <2> QED BY <1>1, <2>2, <2>3, <2>4
<1> QED BY <1>7, <1>8

LEMMA LineOrdered ==
  ASSUME TypeOK, Parts
  PROVE  Ordered
<1>1. {1, 2, 3, 4, 5} \subseteq Pos
  BY DEF Pos
<1>2. /\ Before(Line[1], Line[2]) /\ Before(Line[2], Line[3]) /\ Before(Line[3], Line[4])
      /\ Before(Line[4], Line[5]) /\ Before(Line[5], Line[6])
  <2>1. \A i \in Pos : Before(Line[i], Line[i + 1])
    BY PairOrdered
  <2>2. 1 + 1 = 2 /\ 2 + 1 = 3 /\ 3 + 1 = 4 /\ 4 + 1 = 5 /\ 5 + 1 = 6
    OBVIOUS
  <2> HIDE DEF Pos
  <2> QED BY <1>1, <2>1, <2>2
<1>3. Size \in Nat /\ Size <= 5 /\ Size = Len(box) + Held + Len(Todo) + Due
  <2>1. 6 \in Pos
    BY DEF Pos
  <2> QED BY <2>1, LineParts, LineTyped, PartsLine DEF Size
<1>4. ASSUME state = "NOTBOUND" \/ pc = "delay"
      PROVE  /\ Line[Size] = "inits" /\ Size >= 1
             /\ state = "NOTBOUND" => Line[Size - 1] = "stops" /\ Size >= 2
  <2>1. (Due = 1 \/ Due = 2) /\ (state = "NOTBOUND" => Due = 2)
    BY <1>4 DEF Due
  <2>2. Size >= 1 /\ (Due = 2 => Size >= 2) /\ Size \in Pos /\ (Due = 2 => Size - 1 \in Pos)
    BY <1>3, <2>1, LineParts DEF Pos
  <2>3. /\ ~(Size <= Len(box)) /\ ~(Size <= Len(box) + Held) /\ ~(Size <= Len(box) + Held + Len(Todo))
        /\ Due = 2 => ~(Size - 1 <= Len(box)) /\ ~(Size - 1 <= Len(box) + Held)
                      /\ ~(Size - 1 <= Len(box) + Held + Len(Todo)) /\ ~(Size - 1 > Size) /\ Size - 1 # Size
    BY <1>3, <2>1, LineParts
  <2>4. ~(Size > Size)
    BY <1>3
  <2>5. Line[Size] = "inits"
    BY <2>2, <2>3, <2>4, LineAt
  <2>6. Due = 2 => Line[Size - 1] = "stops"
    BY <2>2, <2>3, LineAt
  <2> QED BY <2>1, <2>2, <2>5, <2>6
<1>5. /\ Size = 1 \/ Size = 2 \/ Size = 3 \/ Size = 4 \/ Size = 5 \/ Size < 1
      /\ Size = 2 => Size - 1 = 1
      /\ Size = 3 => Size - 1 = 2
      /\ Size = 4 => Size - 1 = 3
      /\ Size = 5 => Size - 1 = 4
  BY <1>3
<1>6. state = "NOTBOUND" \/ pc = "delay" =>
        "inits" \in {Line[1], Line[2], Line[3], Line[4], Line[5]}
  BY <1>3, <1>4, <1>5
<1>7. state = "NOTBOUND" => "stops" \in {Line[1], Line[2], Line[3], Line[4]}
  BY <1>3, <1>4, <1>5
<1> QED BY <1>2, <1>6, <1>7 DEF Ordered

LEMMA TakesLine ==
  ASSUME TypeOK, Parts, NEW cmd, Takes(cmd), UNCHANGED mon, pc' \in {"loop", "took"},
         state' = state \/ state' # "NOTBOUND"
  PROVE  Shifted /\ Line[1] = cmd /\ pc = "idle"
<1>1. pc = "idle" /\ state # "NOTBOUND" /\ box # <<>> /\ Head(box) = cmd /\ box' = Tail(box)
  BY DEF Takes, Parts, FreeParts, Places
<1>2. Due = 0 /\ Due' = 0
  BY <1>1 DEF Due
<1> QED BY <1>1, <1>2, PartsLine, Shifting, LineHead

LEMMA KeepsLine ==
  ASSUME TypeOK, Parts, UNCHANGED <<box, mon>>, Due' = Due
  PROVE  Kept
BY PartsLine, Keeping

LEMMA DueZero ==
  ASSUME state # "NOTBOUND", pc # "delay"
  PROVE  Due = 0
BY DEF Due

LEMMA PlacesHold ==
  ASSUME Parts
  PROVE  /\ pc \in {"idle", "took", "delay"} => state # "NOTBOUND"
         /\ ~user_flag
BY DEF Parts, FreeParts, Places

LEMMA QuietIdle ==
  ASSUME TypeOK, Parts, Prompt, Calm
  PROVE  Quiet /\ Idle
BY PartsLine, LineIdle DEF Calm

LEMMA PutsLine ==
  ASSUME TypeOK, Parts, NEW cmd \in Command, box' = Put(box, cmd), UNCHANGED mon, Quiet,
         state # "NOTBOUND", state' # "NOTBOUND", pc # "delay", pc' # "delay", Line[5] = "none"
  PROVE  \/ Turned("none", cmd, Kinds)
         \/ Kept /\ Line[1] # "none"
<1>1. Due = 0 /\ Due' = 0
  BY DEF Due
<1> QED BY <1>1, Putting

(* The monitor's own steps on the line.                                    *)
LEMMA StopLine ==
  ASSUME TypeOK, Parts, link, mon_stop, fails' = fails
  PROVE  /\ ctl = "STOPPED" => Removed("stop", Command) /\ UNCHANGED <<ctl, wan>>
         /\ ctl # "STOPPED" => /\ \/ Turned("stop", "free", Command)
                                  \/ Removed("stop", Command) /\ Line[1] # "stop"
                               /\ ctl' = "STOPPED" /\ wan' = None
<1>1. fails \in Nat
  BY ClientAssumption DEF TypeOK
<1>2. /\ ~mon.init /\ mon.todo # <<>> /\ Head(mon.todo) = "stop"
      /\ mon' = [mon EXCEPT !.todo = Tail(mon.todo)] /\ Down
  <2>1. ~(fails' = fails + 1)
    BY <1>1
  <2> QED BY <2>1 DEF mon_stop
<1>3. Held = 0 /\ Held' = 0 /\ Todo # <<>> /\ Head(Todo) = "stop" /\ Todo' = Tail(Todo)
  BY <1>2 DEF Held, Todo, TypeOK
<1>4. Due' = Due
  BY DEF Due, mon_stop, Client
<1>5. CASE ctl = "STOPPED"
  <2>1. UNCHANGED <<box, ctl, wan>>
    BY <1>2, <1>5 DEF Down
  <2> QED BY <1>3, <1>4, <1>5, <2>1, PartsLine, Dropping
<1>6. CASE ctl # "STOPPED"
  <2>1. box' = Put(box, "free") /\ ctl' = "STOPPED" /\ wan' = None
    BY <1>2, <1>6 DEF Down
  <2>2. CASE Len(box) < BoxSize
    <3>1. box' = Append(box, "free")
      BY <2>1, <2>2 DEF Put
    <3> QED BY <1>3, <1>4, <1>6, <2>1, <3>1, PartsLine, Replacing
  <2>3. CASE ~(Len(box) < BoxSize)
    <3>1. box' = box /\ box # <<>>
      BY <2>1, <2>3, ClientAssumption DEF Put
    <3>2. Removed("stop", Command) /\ Line[1] \in Command
      BY <1>3, <1>4, <3>1, PartsLine, Dropping
    <3> QED BY <1>6, <2>1, <3>2 DEF Command
  <2> QED BY <2>2, <2>3
<1> QED BY <1>5, <1>6

LEMMA InitLine ==
  ASSUME TypeOK, Parts, link, mon_init
  PROVE  /\ state = "BOUND" => Removed("init", Command)
         /\ state # "BOUND" => Turned("init", "DHCPC_renew", Command)
<1>1. /\ ~mon.init /\ mon.todo # <<>> /\ Head(mon.todo) = "init" /\ box' = box
      /\ mon' = [todo |-> Tail(mon.todo), init |-> state # "BOUND"]
  BY DEF mon_init
<1>2. /\ Held = 0 /\ Todo # <<>> /\ Head(Todo) = "init" /\ Todo' = Tail(Todo)
      /\ Held' = IF state # "BOUND" THEN 1 ELSE 0
  BY <1>1 DEF Held, Todo
<1>3. Due' = Due
  BY DEF Due, mon_init, Client
<1>4. CASE state = "BOUND"
  BY <1>1, <1>2, <1>3, <1>4, PartsLine, Dropping
<1>5. CASE state # "BOUND"
  BY <1>1, <1>2, <1>3, <1>5, PartsLine, Replacing
<1> QED BY <1>4, <1>5

LEMMA RenewLine ==
  ASSUME TypeOK, Parts, DHCPC_init
  PROVE  \/ Turned("DHCPC_renew", "renew", Command)
         \/ Removed("DHCPC_renew", Command) /\ Line[1] # "DHCPC_renew"
<1>1. mon.init /\ mon' = [mon EXCEPT !.init = FALSE] /\ box' = Put(box, "renew")
  BY DEF DHCPC_init
<1>2. Held = 1 /\ Held' = 0 /\ Todo' = Todo
  BY <1>1 DEF Held, Todo, TypeOK
<1>3. Due' = Due
  BY DEF Due, DHCPC_init, Client
<1>4. CASE Len(box) < BoxSize
  <2>1. box' = Append(box, "renew")
    BY <1>1, <1>4 DEF Put
  <2> QED BY <1>2, <1>3, <2>1, PartsLine, Replacing
<1>5. CASE ~(Len(box) < BoxSize)
  <2>1. box' = box /\ box # <<>>
    BY <1>1, <1>5, ClientAssumption DEF Put
  <2>2. Removed("DHCPC_renew", Command) /\ Line[1] \in Command
    BY <1>2, <1>3, <2>1, PartsLine, Dropping
  <2> QED BY <2>2 DEF Command
<1> QED BY <1>4, <1>5

(* The steps expand the invariant as a whole.                              *)
USE DEF Informed, Places, State, Recv, PFar, Far0, Far1, Far2, PFew, PStage, PHurry, PEarly,
  PHead, PArmed, PNoStage, PApart, PGoes, PBound, PWan, PRenew, PFollows, PClean, Few0, Few1,
  Few2, Few3, Few, SomeF, TwoF, F, Sooner, Renewing, Gone, Asked, Outside, Asking, Goes, Idle,
  First, Has, Two, Three, OnStage, Spoken, FreeParts, RestParts, Kinds, Command, Ordered, Before,
  LineIs, Kept, Shifted, Turned1, Turned2, Turned3, Turned4, Turned5, Removed1, Removed2,
  Removed3, Removed4, Removed5

LEMMA TakeRenewParts ==
  ASSUME TypeOK, Parts, take_renew
  PROVE  Parts'
<1>1. /\ Takes("renew") /\ pc' = "loop" /\ user_flag' = FALSE /\ armed' = FALSE
      /\ state' = IF state = "BOUND" THEN "RENEWING"
                  ELSE IF req_ip # None THEN "REQUESTING" ELSE "INIT"
      /\ countdown' # 0 /\ UNCHANGED <<curr, next, taken, req_ip, ctl, wan, mon>>
  BY ClientAssumption DEF take_renew, Enters, no_lease, monitor
<1>2. Shifted /\ Line[1] = "renew" /\ pc = "idle"
  BY <1>1, TakesLine
<1> QED BY <1>1, <1>2, PartsLine, SMTT(60) DEF Parts

LEMMA TakeChangeParts ==
  ASSUME TypeOK, Parts, take_change
  PROVE  Parts'
<1>1. /\ Takes("change") /\ pc' = "loop" /\ countdown' # 0
      /\ UNCHANGED <<state, curr, next, armed, taken, req_ip, user_flag, ctl, wan, mon>>
  BY ClientAssumption DEF take_change, Enters, lease, monitor
<1>2. Shifted /\ Line[1] = "change" /\ pc = "idle"
  BY <1>1, TakesLine
<1> QED BY <1>1, <1>2, PartsLine, SMTT(60) DEF Parts

LEMMA TakeFreeParts ==
  ASSUME TypeOK, Parts, take_free
  PROVE  Parts'
<1>1. /\ Takes("free") /\ pc' = "loop" /\ state' = "FREE"
      /\ UNCHANGED <<curr, next, armed, taken, req_ip, user_flag, ctl, wan, mon>>
  BY ClientAssumption DEF take_free, Enters, lease, monitor
<1>2. Shifted /\ Line[1] = "free" /\ pc = "idle"
  BY <1>1, TakesLine
<1> QED BY <1>1, <1>2, PartsLine, SMTT(60) DEF Parts

LEMMA TakeTimeoutParts ==
  ASSUME TypeOK, Parts, take_timeout
  PROVE  Parts'
<1>1. /\ Takes("timeout") /\ pc' = "took" /\ taken' = curr
      /\ UNCHANGED <<state, curr, next, armed, countdown, req_ip, user_flag, ctl, wan, mon>>
  BY DEF take_timeout, lease, monitor
<1>2. Shifted /\ Line[1] = "timeout" /\ pc = "idle"
  BY <1>1, TakesLine
<1> QED BY <1>1, <1>2, PartsLine, SMTT(60) DEF Parts

LEMMA StageGoes ==
  ASSUME PGoes, PClean, ~Has("release"), Ordered, state # "NOTBOUND", pc = "took",
         taken \in {"T1", "T2"},
         {Line[1], Line[2], Line[3], Line[4], Line[5]} \subseteq Kinds \cup {"none"}
  PROVE  /\ SomeF /\ (Asked \/ next # "none") => ~Idle
         /\ Spoken => Line[1] \in {"timeout", "none"} \/ ~Idle
<1>1. SomeF /\ (Asked \/ next # "none") => ~Idle
  OBVIOUS
<1>2. ASSUME Spoken, Idle PROVE Line[1] \in {"timeout", "none"}
  <2>1. ~Has("change") /\ ~Has("renew") /\ ~SomeF
    BY <1>1, <1>2
  <2>2. Line[1] \notin {"change", "renew", "free", "stop", "stops", "init", "DHCPC_renew",
                        "inits", "release"}
    BY <1>2, <2>1 DEF Ordered, Before
  <2> QED BY <2>2 DEF Kinds, Command
<1> QED BY <1>1, <1>2

LEMMA ClearParts ==
  ASSUME TypeOK, Parts, clear_curr
  PROVE  Parts'
<1>1. /\ pc = "took" /\ pc' = "loop" /\ countdown' # 0 /\ curr' = "none" /\ taken' = "none"
      /\ state' = StateOf(taken)
      /\ UNCHANGED <<box, mon, next, armed, req_ip, user_flag, ctl, wan>>
  BY ClientAssumption DEF clear_curr, Enters, monitor
<1>2. Due = 0 /\ state # "NOTBOUND"
  BY <1>1, PlacesHold, DueZero
<1>3. CASE taken = "EX"
  <2>1. state' = "NOTBOUND" /\ Due' = 2
    BY <1>1, <1>3 DEF StateOf, Due
  <2>2. Line[4] = "none"
    BY <1>1, <1>2, <1>3, PartsLine, SMTT(60) DEF Parts
  <2>3. Lost
    BY <1>1, <1>2, <2>1, <2>2, Losing
  <2> QED BY <1>1, <1>2, <1>3, <2>1, <2>2, <2>3, PartsLine, SMTT(60) DEF Parts, Lost
<1>4. CASE taken # "EX"
  <2>1. state' = IF taken = "T2" THEN "REBINDING" ELSE IF taken = "T1" THEN "RENEWING" ELSE state
    BY <1>1, <1>4 DEF StateOf
  <2>2. Due' = 0
    BY <1>1, <1>2, <2>1 DEF Due
  <2>3. Kept
    BY <1>1, <1>2, <2>2, KeepsLine
  <2>4. taken \in {"none", "T1", "T2"}
    BY <1>4 DEF TypeOK, Stage
  <2>5. CASE taken = "none"
    BY <1>1, <1>2, <2>1, <2>3, <2>5, PartsLine, SMTT(60) DEF Parts
  <2>6. CASE taken = "T1"
    <3>1. FreeParts'
      BY <1>1, <1>2, <2>1, <2>3, <2>6, PartsLine, LineOrdered, SMTT(60) DEF Parts
    <3>2. PBound' /\ PWan' /\ PRenew' /\ PFollows' /\ PClean'
      BY <1>1, <1>2, <2>1, <2>3, <2>6, PartsLine, LineOrdered, SMTT(60) DEF Parts
    <3>3. PGoes'
      <4>1. PGoes /\ PClean /\ ~Has("release")
        BY DEF Parts
      <4>2. /\ SomeF /\ (Asked \/ next # "none") => ~Idle
            /\ Spoken => Line[1] \in {"timeout", "none"} \/ ~Idle
        BY <1>1, <1>2, <2>6, <4>1, StageGoes, PartsLine, LineOrdered
      <4> QED BY <1>1, <1>2, <2>1, <2>3, <2>6, <4>2 DEF Kept, LineIs
    <3> QED BY <3>1, <3>2, <3>3 DEF Parts
  <2>7. CASE taken = "T2"
    <3>1. FreeParts'
      BY <1>1, <1>2, <2>1, <2>3, <2>7, PartsLine, LineOrdered, SMTT(60) DEF Parts
    <3>2. PBound' /\ PWan' /\ PRenew' /\ PFollows' /\ PClean'
      BY <1>1, <1>2, <2>1, <2>3, <2>7, PartsLine, LineOrdered, SMTT(60) DEF Parts
    <3>3. PGoes'
      <4>1. PGoes /\ PClean /\ ~Has("release")
        BY DEF Parts
      <4>2. /\ SomeF /\ (Asked \/ next # "none") => ~Idle
            /\ Spoken => Line[1] \in {"timeout", "none"} \/ ~Idle
        BY <1>1, <1>2, <2>7, <4>1, StageGoes, PartsLine, LineOrdered
      <4> QED BY <1>1, <1>2, <2>1, <2>3, <2>7, <4>2 DEF Kept, LineIs
    <3> QED BY <3>1, <3>2, <3>3 DEF Parts
  <2> QED BY <2>4, <2>5, <2>6, <2>7
<1> QED BY <1>3, <1>4

LEMMA InitParts ==
  ASSUME TypeOK, Parts, do_init
  PROVE  Parts'
<1>1. /\ pc = "loop" /\ state = "INIT" /\ state' = "SELECTING" /\ armed' = FALSE
      /\ UNCHANGED <<pc, box, mon, curr, next, taken, countdown, req_ip, user_flag, ctl, wan>>
  BY DEF do_init, In, no_lease, Stays, Still
<1>2. Kept
  <2>1. Due' = Due
    BY <1>1 DEF Due
  <2> QED BY <1>1, <2>1, KeepsLine
<1> QED BY <1>1, <1>2, PartsLine, SMTT(60) DEF Parts

LEMMA SendsParts ==
  ASSUME TypeOK, Parts, link,
         \/ Sends("REQUESTING", "REQUEST_RECV") \/ Sends("RENEWING", "RENEW_RECV")
         \/ Sends("REBINDING", "REBIND_RECV")
  PROVE  Parts'
<1>1. /\ \/ state = "REQUESTING" /\ state' = "REQUEST_RECV"
         \/ state = "RENEWING" /\ state' = "RENEW_RECV"
         \/ state = "REBINDING" /\ state' = "REBIND_RECV"
      /\ pc = "loop"
      /\ UNCHANGED <<pc, box, mon, curr, next, armed, taken, countdown,
                     req_ip, user_flag, ctl, wan>>
  BY DEF Sends, In, lease, Stays, Still
<1>2. Kept
  <2>1. Due' = Due
    BY <1>1 DEF Due
  <2> QED BY <1>1, <2>1, KeepsLine
<1> QED BY <1>1, <1>2, PartsLine, SMTT(60) DEF Parts

LEMMA LeaveParts ==
  ASSUME TypeOK, Parts, do_leave
  PROVE  Parts'
<1>1. /\ pc = "loop" /\ pc' = "out" /\ state \in {"NOTBOUND", "STOPPED", "FREE"}
      /\ state = "FREE" => armed' = FALSE
      /\ state # "FREE" => armed' = armed
      /\ UNCHANGED <<state, box, mon, curr, next, taken, countdown, req_ip, user_flag, ctl, wan>>
  BY DEF do_leave, Out, lease, no_lease, Still
<1>2. Kept
  <2>1. Due' = Due
    BY <1>1 DEF Due
  <2> QED BY <1>1, <2>1, KeepsLine
<1> QED BY <1>1, <1>2, PartsLine, SMTT(60) DEF Parts

LEMMA BoundParts ==
  ASSUME TypeOK, Parts, do_bound
  PROVE  Parts'
<1>1. /\ pc = "loop" /\ pc' = "out" /\ state = "BOUND"
      /\ countdown # 0 => inform_mon(<<"init">>)
      /\ countdown = 0 => UNCHANGED mon
      /\ UNCHANGED <<state, box, curr, next, armed, taken, countdown, req_ip, user_flag, ctl, wan>>
  BY DEF do_bound, In, Out, lease, Still
<1>2. Due = 0 /\ Due' = 0
  BY <1>1 DEF Due
<1>3. Line[5] = "none"
  BY <1>1, PartsLine, SMTT(60) DEF Parts
<1>4. CASE countdown = 0
  <2>1. Kept
    BY <1>1, <1>2, <1>4, KeepsLine
  <2> QED BY <1>1, <1>4, <2>1, PartsLine, SMTT(60) DEF Parts
<1>5. CASE countdown # 0
  <2>1. Turned("none", "init", Kinds)
    BY <1>1, <1>2, <1>3, <1>5, Appending, Informing
  <2>c1. CASE Turned1("none", "init")
    BY <1>1, <1>5, <2>c1, PartsLine, LineOrdered, SMTT(60) DEF Parts
  <2>c2. CASE Turned2("none", "init", Kinds)
    BY <1>1, <1>5, <2>c2, PartsLine, LineOrdered, SMTT(60) DEF Parts
  <2>c3. CASE Turned3("none", "init", Kinds)
    BY <1>1, <1>5, <2>c3, PartsLine, LineOrdered, SMTT(60) DEF Parts
  <2>c4. CASE Turned4("none", "init", Kinds)
    BY <1>1, <1>5, <2>c4, PartsLine, LineOrdered, SMTT(60) DEF Parts
  <2>c5. CASE Turned5("none", "init", Kinds)
    BY <1>1, <1>5, <2>c5, PartsLine, LineOrdered, SMTT(60) DEF Parts
  <2> QED BY <2>1, <2>c1, <2>c2, <2>c3, <2>c4, <2>c5 DEF Turned
<1> QED BY <1>4, <1>5

LEMMA ReturnsParts ==
  ASSUME TypeOK, Parts, returns
  PROVE  Parts'
<1>1. /\ pc = "out"
      /\ state = "NOTBOUND" => pc' = "delay" /\ state' = "INIT" /\ inform_mon(<<"stop">>)
      /\ state # "NOTBOUND" => /\ pc' = "idle" /\ UNCHANGED mon
                               /\ state' = IF state = "FREE" THEN "STOPPED" ELSE state
      /\ UNCHANGED <<box, curr, next, armed, taken, countdown, req_ip, user_flag, ctl, wan>>
  BY DEF returns, lease, Still
<1>2. CASE state = "NOTBOUND"
  <2>1. Due = 2 /\ Due' = 1
    BY <1>1, <1>2 DEF Due
  <2>2. Turned("stops", "stop", Kinds)
    BY <1>1, <1>2, <2>1, PartsLine, Appending, Informing
  <2>c1. CASE Turned1("stops", "stop")
    BY <1>1, <1>2, <2>c1, PartsLine, LineOrdered, SMTT(60) DEF Parts
  <2>c2. CASE Turned2("stops", "stop", Kinds)
    <3>1. FreeParts'
      BY <1>1, <1>2, <2>c2, PartsLine, LineOrdered, SMTT(60) DEF Parts
    <3>2. RestParts'
      BY <1>1, <1>2, <2>c2, PartsLine, LineOrdered, SMTT(60) DEF Parts
    <3> QED BY <3>1, <3>2 DEF Parts
  <2>c3. CASE Turned3("stops", "stop", Kinds)
    <3>1. FreeParts'
      BY <1>1, <1>2, <2>c3, PartsLine, LineOrdered, SMTT(60) DEF Parts
    <3>2. RestParts'
      BY <1>1, <1>2, <2>c3, PartsLine, LineOrdered, SMTT(60) DEF Parts
    <3> QED BY <3>1, <3>2 DEF Parts
  <2>c4. CASE Turned4("stops", "stop", Kinds)
    BY <1>1, <1>2, <2>c4, PartsLine, LineOrdered, SMTT(60) DEF Parts
  <2>c5. CASE Turned5("stops", "stop", Kinds)
    BY <1>1, <1>2, <2>c5, PartsLine, LineOrdered, SMTT(60) DEF Parts
  <2> QED BY <2>2, <2>c1, <2>c2, <2>c3, <2>c4, <2>c5 DEF Turned
<1>3. CASE state # "NOTBOUND"
  <2>1. Due = 0 /\ Due' = 0
    BY <1>1, <1>3 DEF Due
  <2>2. Kept
    BY <1>1, <1>3, <2>1, KeepsLine
  <2> QED BY <1>1, <1>3, <2>2, PartsLine, SMTT(60) DEF Parts
<1> QED BY <1>2, <1>3

LEMMA DelayedParts ==
  ASSUME TypeOK, Parts, ~Manual, delayed
  PROVE  Parts'
<1>1. /\ pc = "delay" /\ pc' = "idle" /\ state # "NOTBOUND" /\ inform_mon(<<"init">>)
      /\ UNCHANGED <<state, box, curr, next, armed, taken, countdown, req_ip, user_flag, ctl, wan>>
  BY PlacesHold DEF delayed, lease, Still
<1>2. Due = 1 /\ Due' = 0
  BY <1>1 DEF Due
<1>3. Turned("inits", "init", Kinds)
  BY <1>1, <1>2, PartsLine, Appending, Informing
<1>c1. CASE Turned1("inits", "init")
    BY <1>1, <1>c1, PartsLine, LineOrdered, SMTT(60) DEF Parts
<1>c2. CASE Turned2("inits", "init", Kinds)
    BY <1>1, <1>c2, PartsLine, LineOrdered, SMTT(60) DEF Parts
<1>c3. CASE Turned3("inits", "init", Kinds)
  <2>1. FreeParts'
    BY <1>1, <1>c3, PartsLine, LineOrdered, SMTT(60) DEF Parts
  <2>2. RestParts'
    BY <1>1, <1>c3, PartsLine, LineOrdered, SMTT(60) DEF Parts
  <2> QED BY <2>1, <2>2 DEF Parts
<1>c4. CASE Turned4("inits", "init", Kinds)
  <2>1. FreeParts'
    BY <1>1, <1>c4, PartsLine, LineOrdered, SMTT(60) DEF Parts
  <2>2. RestParts'
    BY <1>1, <1>c4, PartsLine, LineOrdered, SMTT(60) DEF Parts
  <2> QED BY <2>1, <2>2 DEF Parts
<1>c5. CASE Turned5("inits", "init", Kinds)
  <2>1. FreeParts'
    BY <1>1, <1>c5, PartsLine, LineOrdered, SMTT(60) DEF Parts
  <2>2. RestParts'
    BY <1>1, <1>c5, PartsLine, LineOrdered, SMTT(60) DEF Parts
  <2> QED BY <2>1, <2>2 DEF Parts
<1> QED BY <1>3, <1>c1, <1>c2, <1>c3, <1>c4, <1>c5 DEF Turned

LEMMA NothingParts ==
  ASSUME TypeOK, Parts, Prompt, receive_nothing
  PROVE  Parts'
<1>1. /\ pc = "loop" /\ state \in Recv \cup {"SELECTING"} /\ Calm
      /\ UNCHANGED <<mon, taken, req_ip, user_flag, ctl, wan>>
  BY DEF receive_nothing, Still
<1>2. Quiet /\ Idle
  BY <1>1, QuietIdle
<1>3. Due = 0
  BY <1>1 DEF Due
<1>4. CASE /\ state' = Again(state)
           /\ Stays /\ UNCHANGED lease
  <2>1. /\ state' = IF state = "SELECTING" THEN "INIT" ELSE IF state = "REQUEST_RECV" THEN "REQUESTING"
                    ELSE IF state = "RENEW_RECV" THEN "RENEWING" ELSE "REBINDING"
        /\ UNCHANGED <<pc, box, curr, next, armed>>
    BY <1>1, <1>4 DEF Again, Stays, lease
  <2>2. Kept
    <3>1. Due' = 0
      BY <1>1, <2>1 DEF Due
    <3> QED BY <1>1, <1>3, <2>1, <3>1, KeepsLine
  <2> QED BY <1>1, <1>2, <2>1, <2>2, PartsLine, SMTT(60) DEF Parts
<1>5. CASE /\ state = "SELECTING"
           /\ state' = "INIT" /\ Out(<<>>)
           /\ offer_timer
  <2>1. pc' = "out" /\ box' = box /\ curr' = "none" /\ next' = "EX" /\ armed' = TRUE
    BY <1>5 DEF Out, offer_timer
  <2>2. Kept
    <3>1. Due' = 0
      BY <1>5, <2>1 DEF Due
    <3> QED BY <1>1, <1>3, <2>1, <3>1, KeepsLine
  <2> QED BY <1>1, <1>2, <1>5, <2>1, <2>2, PartsLine, SMTT(60) DEF Parts
<1>6. CASE /\ state = "REQUEST_RECV"
           /\ state' = "INIT" /\ Out(<<"change">>) /\ UNCHANGED lease
  <2>1. pc' = "out" /\ box' = Put(box, "change") /\ UNCHANGED <<curr, next, armed>>
    BY <1>6 DEF Out, lease
  <2>2. Line[5] = "none"
    BY <1>1, <1>6, PartsLine, SMTT(60) DEF Parts
  <2>3. Turned("none", "change", Kinds) \/ (Kept /\ Line[1] # "none")
    <3>1. "change" \in Command
      BY DEF Command
    <3> QED BY <1>1, <1>2, <1>6, <2>1, <2>2, <3>1, PutsLine
  <2> QED BY <1>1, <1>2, <1>6, <2>1, <2>3, PartsLine, SMTT(60) DEF Parts, Turned
<1>7. CASE /\ countdown = 1 /\ state \in {"RENEW_RECV", "REBIND_RECV"}
           /\ state' = "BOUND" /\ Stays /\ UNCHANGED lease
  <2>1. /\ countdown' = 0
        /\ UNCHANGED <<pc, box, curr, next, armed>>
    BY <1>7 DEF Stays, lease, receive_nothing
  <2>2. Kept
    <3>1. Due' = 0
      BY <1>1, <1>7, <2>1 DEF Due
    <3> QED BY <1>1, <1>3, <2>1, <3>1, KeepsLine
  <2> QED BY <1>1, <1>2, <1>7, <2>1, <2>2, PartsLine, SMTT(60) DEF Parts
<1> QED BY <1>4, <1>5, <1>6, <1>7 DEF receive_nothing

LEMMA OfferParts ==
  ASSUME TypeOK, Parts, Prompt, receive_offer
  PROVE  Parts'
<1>1. /\ pc = "loop" /\ pc' = "out" /\ state = "SELECTING" /\ state' = "REQUESTING" /\ Calm
      /\ box' = Put(box, "change") /\ req_ip' # None
      /\ UNCHANGED <<mon, curr, next, armed, taken, countdown, user_flag, ctl, wan>>
  BY ClientAssumption DEF receive_offer, In, Out, lease, Still
<1>2. Quiet /\ Idle
  BY <1>1, QuietIdle
<1>3. Line[5] = "none"
  BY <1>1, PartsLine, SMTT(60) DEF Parts
<1>4. Turned("none", "change", Kinds) \/ (Kept /\ Line[1] # "none")
  <2>1. "change" \in Command
    BY DEF Command
  <2> QED BY <1>1, <1>2, <1>3, <2>1, PutsLine
<1> QED
  <2>1. FreeParts'
    BY <1>1, <1>2, <1>4, PartsLine, LineOrdered, SMTT(60) DEF Parts, Turned
  <2>2. RestParts'
    BY <1>1, <1>2, <1>4, PartsLine, LineOrdered, SMTT(60) DEF Parts, Turned
  <2> QED BY <2>1, <2>2 DEF Parts

LEMMA AckParts ==
  ASSUME TypeOK, Parts, Prompt, receive_ack
  PROVE  Parts'
<1>1. /\ pc = "loop" /\ state \in Recv /\ state' = "BOUND" /\ Calm /\ curr' = "none"
      /\ UNCHANGED <<pc, box, mon, taken, countdown, req_ip, user_flag, ctl, wan>>
  BY DEF receive_ack, new_lease, Stays, Still
<1>2. Quiet /\ Idle
  BY <1>1, QuietIdle
<1>3. Kept
  <2>1. Due' = Due
    BY <1>1 DEF Due
  <2> QED BY <1>1, <2>1, KeepsLine
<1> QED BY <1>1, <1>2, <1>3, PartsLine, SMTT(60) DEF Parts

LEMMA NakParts ==
  ASSUME TypeOK, Parts, Prompt, receive_nak
  PROVE  Parts'
<1>1. /\ pc = "loop" /\ state \in Recv /\ Calm
      /\ UNCHANGED <<mon, curr, next, armed, taken, countdown, req_ip, user_flag, ctl, wan>>
  BY DEF receive_nak, lease, Still
<1>2. Quiet /\ Idle
  BY <1>1, QuietIdle
<1>3. CASE state = "REQUEST_RECV"
  <2>1. state' = "INIT" /\ pc' = "out" /\ box' = Put(box, "change")
    BY <1>3 DEF receive_nak, Out
  <2>2. Line[5] = "none"
    BY <1>1, <1>3, PartsLine, SMTT(60) DEF Parts
  <2>3. Turned("none", "change", Kinds) \/ (Kept /\ Line[1] # "none")
    <3>1. "change" \in Command
      BY DEF Command
    <3> QED BY <1>1, <1>2, <1>3, <2>1, <2>2, <3>1, PutsLine
  <2> QED BY <1>1, <1>2, <1>3, <2>1, <2>3, PartsLine, SMTT(60) DEF Parts, Turned
<1>4. CASE state # "REQUEST_RECV"
  <2>1. state' = "NOTBOUND" /\ UNCHANGED <<pc, box>>
    BY <1>4 DEF receive_nak, Stays
  <2>2. Line[4] = "none"
    BY <1>1, <1>4, PartsLine, SMTT(60) DEF Parts
  <2>3. Lost
    <3>1. Due = 0 /\ Due' = 2
      BY <1>1, <2>1 DEF Due
    <3> QED BY <1>1, <2>1, <2>2, <3>1, Losing
  <2> QED BY <1>1, <1>2, <1>4, <2>1, <2>3, PartsLine, SMTT(60) DEF Parts, Lost
<1> QED BY <1>3, <1>4

LEMMA OtherParts ==
  ASSUME TypeOK, Parts, receive_other
  PROVE  Parts'
<1>1. UNCHANGED <<pc, box, state, mon, curr, next, armed, taken, countdown,
                  req_ip, user_flag, ctl, wan>>
  BY DEF receive_other, Stays, lease, Still
<1>2. Kept
  <2>1. Due' = Due
    BY <1>1 DEF Due
  <2> QED BY <1>1, <2>1, KeepsLine
<1> QED BY <1>1, <1>2, PartsLine, SMTT(60) DEF Parts

LEMMA TimerParts ==
  ASSUME TypeOK, Parts, Prompt, lease_function
  PROVE  Parts'
<1>1. /\ armed /\ Calm /\ Waits /\ curr' = next /\ next' = After(next)
      /\ box' = Put(box, "timeout")
      /\ UNCHANGED <<state, pc, mon, taken, countdown, req_ip, user_flag, ctl, wan>>
      /\ armed' = (next \in {"T1", "T2"})
  BY DEF lease_function, monitor
<1>2. Quiet /\ Idle
  BY <1>1, QuietIdle
<1>3. /\ next' = IF next = "T1" THEN "T2" ELSE IF next = "T2" THEN "EX" ELSE next
      /\ next \in {"none", "T1", "T2", "EX"}
  BY <1>1 DEF After, TypeOK, Stage
<1>4. /\ \/ pc = "idle"
         \/ pc = "loop" /\ state \in {"REQUEST_RECV", "RENEW_RECV", "REBIND_RECV", "SELECTING"}
      /\ state # "NOTBOUND"
  BY <1>1, PlacesHold DEF Waits
<1>5. pc = "idle" => Line[1] = "none"
  <2> SUFFICES ASSUME pc = "idle" PROVE Line[1] = "none"
    OBVIOUS
  <2>1. Len(box) = 0 /\ Held = 0 /\ Len(Todo) = 0 /\ Due = 0
    BY <1>1, <1>2, <1>4 DEF Waits, Quiet, Held, Todo, Due
  <2>2. Size = 0 /\ 1 \in Pos
    BY <2>1 DEF Size, Pos
  <2> QED BY <2>2, LineTyped
<1>6. Line[5] = "none"
  BY <1>1, <1>4, <1>5, PartsLine, SMTT(60) DEF Parts
<1>7. Turned("none", "timeout", Kinds) \/ (Kept /\ Line[1] # "none")
  <2>1. "timeout" \in Command
    BY DEF Command
  <2> QED BY <1>1, <1>2, <1>4, <1>6, <2>1, PutsLine
<1>8. /\ armed /\ Idle /\ curr' = next
      /\ next \in {"T1", "T2"} => armed'
      /\ next \notin {"T1", "T2"} => ~armed'
      /\ UNCHANGED <<state, pc, taken, countdown, req_ip, user_flag, ctl, wan>>
  BY <1>1, <1>2
<1>9. pc # "idle" => /\ state \in {"RENEW_RECV", "REBIND_RECV"} /\ taken = "none"
                     /\ Far0 /\ Few1 /\ next # "T1" /\ (next = "T2" => Few0)
  BY <1>4, <1>8, SMTT(60) DEF Parts
<1>10. Line[3] = "none" /\ (next = "T2" /\ pc # "idle" => Line[2] = "none")
  BY <1>5, <1>9, PartsLine
<1>11. CASE Kept /\ Line[1] # "none"
  <2>1. FreeParts'
    BY <1>3, <1>4, <1>5, <1>8, <1>9, <1>10, <1>11, PartsLine, LineOrdered, SMTT(60) DEF Parts
  <2>2. RestParts'
    BY <1>3, <1>4, <1>5, <1>8, <1>9, <1>10, <1>11, PartsLine, LineOrdered, SMTT(60) DEF Parts
  <2> QED BY <2>1, <2>2 DEF Parts
<1>c1. CASE Turned1("none", "timeout")
  <2>1. FreeParts'
    BY <1>3, <1>4, <1>5, <1>8, <1>9, <1>10, <1>c1, PartsLine, LineOrdered, SMTT(60) DEF Parts
  <2>2. RestParts'
    BY <1>3, <1>4, <1>5, <1>8, <1>9, <1>10, <1>c1, PartsLine, LineOrdered, SMTT(60) DEF Parts
  <2> QED BY <2>1, <2>2 DEF Parts
<1>c2. CASE Turned2("none", "timeout", Kinds)
  <2>1. FreeParts'
    BY <1>3, <1>4, <1>5, <1>8, <1>9, <1>10, <1>c2, PartsLine, LineOrdered, SMTT(60) DEF Parts
  <2>2. RestParts'
    BY <1>3, <1>4, <1>5, <1>8, <1>9, <1>10, <1>c2, PartsLine, LineOrdered, SMTT(60) DEF Parts
  <2> QED BY <2>1, <2>2 DEF Parts
<1>c3. CASE Turned3("none", "timeout", Kinds)
  <2>1. FreeParts'
    BY <1>3, <1>4, <1>5, <1>8, <1>9, <1>10, <1>c3, PartsLine, LineOrdered, SMTT(60) DEF Parts
  <2>2. RestParts'
    BY <1>3, <1>4, <1>5, <1>8, <1>9, <1>10, <1>c3, PartsLine, LineOrdered, SMTT(60) DEF Parts
  <2> QED BY <2>1, <2>2 DEF Parts
<1>c4. ~Turned4("none", "timeout", Kinds)
  BY <1>10
<1>c5. ~Turned5("none", "timeout", Kinds)
  BY <1>10, PartsLine
<1> QED BY <1>7, <1>11, <1>c1, <1>c2, <1>c3, <1>c4, <1>c5 DEF Turned

LEMMA MonStopParts ==
  ASSUME TypeOK, Parts, link, mon_stop, fails' = fails
  PROVE  Parts'
<1>1. UNCHANGED <<state, pc, curr, next, armed, taken, countdown, req_ip, user_flag>>
  BY DEF mon_stop, Client, lease
<1>2. CASE ctl = "STOPPED"
  <2>1. Removed("stop", Command) /\ UNCHANGED <<ctl, wan>>
    BY <1>2, StopLine
  <2> QED
    <3>1. CASE Removed1("stop")
      BY <1>1, <1>2, <2>1, <3>1, PartsLine, LineOrdered, SMTT(60) DEF Parts
    <3>2. CASE Removed2("stop", Command)
      BY <1>1, <1>2, <2>1, <3>2, PartsLine, LineOrdered, SMTT(60) DEF Parts
    <3>3. CASE Removed3("stop", Command)
      BY <1>1, <1>2, <2>1, <3>3, PartsLine, LineOrdered, SMTT(60) DEF Parts
    <3>4. CASE Removed4("stop", Command)
      BY <1>1, <1>2, <2>1, <3>4, PartsLine, LineOrdered, SMTT(60) DEF Parts
    <3>5. CASE Turned5("stop", "none", Command)
      BY <1>1, <1>2, <2>1, <3>5, PartsLine, LineOrdered, SMTT(60) DEF Parts
    <3> QED BY <2>1, <3>1, <3>2, <3>3, <3>4, <3>5 DEF Removed
<1>3. CASE ctl # "STOPPED"
  <2>1. /\ Turned("stop", "free", Command) \/ (Removed("stop", Command) /\ Line[1] # "stop")
        /\ ctl' = "STOPPED" /\ wan' = None
    BY <1>3, StopLine
  <2>2. CASE Turned("stop", "free", Command)
    <3>1. CASE Turned1("stop", "free")
      BY <1>1, <1>3, <2>1, <3>1, PartsLine, LineOrdered, SMTT(60) DEF Parts
    <3>2. CASE Turned2("stop", "free", Command)
      BY <1>1, <1>3, <2>1, <3>2, PartsLine, LineOrdered, SMTT(60) DEF Parts
    <3>3. CASE Turned3("stop", "free", Command)
      BY <1>1, <1>3, <2>1, <3>3, PartsLine, LineOrdered, SMTT(60) DEF Parts
    <3>4. CASE Turned4("stop", "free", Command)
      BY <1>1, <1>3, <2>1, <3>4, PartsLine, LineOrdered, SMTT(60) DEF Parts
    <3>5. CASE Turned5("stop", "free", Command)
      BY <1>1, <1>3, <2>1, <3>5, PartsLine, LineOrdered, SMTT(60) DEF Parts
    <3> QED BY <2>2, <3>1, <3>2, <3>3, <3>4, <3>5 DEF Turned
  <2>3. CASE Removed("stop", Command) /\ Line[1] # "stop"
    BY <1>1, <1>3, <2>1, <2>3, PartsLine, SMTT(60) DEF Parts, Removed
  <2> QED BY <2>1, <2>2, <2>3
<1> QED BY <1>2, <1>3

LEMMA MonInitParts ==
  ASSUME TypeOK, Parts, link, mon_init
  PROVE  Parts'
<1>1. /\ UNCHANGED <<state, pc, curr, next, armed, taken, countdown, req_ip, user_flag>>
      /\ ctl' = state /\ (state # "BOUND" => wan' = wan)
  BY DEF mon_init, Client, lease
<1>2. CASE state = "BOUND"
  <2>1. Removed("init", Command)
    BY <1>2, InitLine
  <2> QED BY <1>1, <1>2, <2>1, PartsLine, SMTT(60) DEF Parts, Removed
<1>3. CASE state # "BOUND"
  <2>1. Turned("init", "DHCPC_renew", Command)
    BY <1>3, InitLine
  <2> QED BY <1>1, <1>3, <2>1, PartsLine, SMTT(60) DEF Parts, Turned
<1> QED BY <1>2, <1>3

LEMMA RenewParts ==
  ASSUME TypeOK, Parts, Wished = None, DHCPC_init
  PROVE  Parts'
<1>1. /\ UNCHANGED <<state, pc, armed, taken, countdown, user_flag, ctl, wan>>
      /\ req_ip' = None /\ curr' = "none" /\ next' = "none"
  BY DEF DHCPC_init, Client
<1>2. CASE Turned("DHCPC_renew", "renew", Command)
  BY <1>1, <1>2, PartsLine, SMTT(60) DEF Parts, Turned
<1>3. CASE Removed("DHCPC_renew", Command) /\ Line[1] # "DHCPC_renew"
  BY <1>1, <1>3, PartsLine, SMTT(60) DEF Parts, Removed
<1> QED BY <1>2, <1>3, RenewLine

LEMMA StillParts ==
  ASSUME TypeOK, Parts, UNCHANGED vars
  PROVE  Parts'
<1>1. UNCHANGED <<pc, box, state, mon, curr, next, armed, taken, countdown,
                  req_ip, user_flag, ctl, wan>>
  BY DEF vars, lease, monitor
<1>2. Kept
  <2>1. Due' = Due
    BY <1>1 DEF Due
  <2> QED BY <1>1, <2>1, KeepsLine
<1> QED BY <1>1, <1>2, PartsLine, SMTT(60) DEF Parts

LEMMA StartParts ==
  ASSUME Init, Wished = None
  PROVE  Parts
<1>1. /\ state = "STOPPED" /\ pc = "idle" /\ curr = "none" /\ next = "none" /\ taken = "none"
      /\ armed = FALSE /\ req_ip = None /\ wan = None /\ user_flag = FALSE
  BY DEF Init
<1>2. Len(box) = 1 /\ box[1] = "renew" /\ Held = 0 /\ Len(Todo) = 0 /\ Due = 0
  BY DEF Init, Held, Todo, Due
<1>3. Size = 1
  BY <1>2 DEF Size
<1>4. /\ Line[1] = "renew" /\ Line[2] = "none" /\ Line[3] = "none" /\ Line[4] = "none"
      /\ Line[5] = "none" /\ Line[6] = "none"
  BY <1>2, <1>3 DEF Line, Pos
<1> QED BY <1>1, <1>4 DEF Parts

HIDE DEF Informed, Places, State, Recv, PFar, Far0, Far1, Far2, PFew, PStage, PHurry, PEarly,
  PHead, PArmed, PNoStage, PApart, PGoes, PBound, PWan, PRenew, PFollows, PClean, Few0, Few1,
  Few2, Few3, Few, SomeF, TwoF, F, Sooner, Renewing, Gone, Asked, Outside, Asking, Goes, Idle,
  First, Has, Two, Three, OnStage, Spoken, FreeParts, RestParts, Kinds, Command, Ordered, Before,
  LineIs, Kept, Shifted, Turned1, Turned2, Turned3, Turned4, Turned5, Removed1, Removed2,
  Removed3, Removed4, Removed5

-----------------------------------------------------------------------------
LEMMA DaemonMon ==
  ASSUME TypeOK, Parts, link, ~Manual, Daemon
  PROVE  Parts' /\ link' /\ fails' = fails
<1>1. ~take_release
  <2>1. ASSUME take_release PROVE box # <<>> /\ Head(box) = "release"
    BY <2>1 DEF take_release, Takes
  <2>2. ~Has("release")
    BY DEF Parts, FreeParts, Places
  <2> QED BY <2>1, <2>2, LineHead DEF Has
<1>2. state # "DO_RELEASE"
  BY DEF Parts, FreeParts, Places
<1>3. ~do_release /\ ~NoLink
  BY <1>2 DEF do_release, In, NoLink
<1>4. Parts'
  BY <1>1, <1>3, TakeFreeParts, TakeRenewParts, TakeChangeParts, TakeTimeoutParts, ClearParts,
    InitParts, SendsParts, BoundParts, LeaveParts, ReturnsParts, DelayedParts DEF Daemon
<1>5. link' = link /\ fails' = fails
  BY DEF Daemon, take_release, take_free, take_renew, take_change, take_timeout, clear_curr, do_init,
    Sends, do_bound, do_release, do_leave, NoLink, returns, delayed, monitor, Still
<1> QED BY <1>4, <1>5

LEMMA MonStep ==
  ASSUME TypeOK, MonInv, Prompt, Wished = None, ~Manual, [Next]_vars
  PROVE  MonInv'
<1> SUFFICES ASSUME Undisturbed' PROVE link' /\ Parts'
  BY DEF MonInv
<1>1. asked \in Nat /\ fails \in Nat
  BY ClientAssumption DEF TypeOK
<1>2. CASE Daemon
  <2>1. asked' = asked
    BY <1>2 DEF Daemon, take_release, take_free, take_renew, take_change, take_timeout, clear_curr,
      do_init, Sends, do_bound, do_release, do_leave, NoLink, returns, delayed, Still
  <2>2. fails' = fails
    BY <1>2 DEF Daemon, take_release, take_free, take_renew, take_change, take_timeout, clear_curr,
      do_init, Sends, do_bound, do_release, do_leave, NoLink, returns, delayed, monitor, Still
  <2>3. link /\ Parts
    BY <2>1, <2>2 DEF MonInv, Undisturbed
  <2> QED BY <1>2, <2>3, DaemonMon
<1>3. CASE receive_nothing \/ Server
  <2>1. asked' = asked /\ fails' = fails /\ link' = link
    BY <1>3 DEF receive_nothing, Server, receive_offer, receive_ack, receive_nak, receive_other, Still
  <2>2. link /\ Parts
    BY <2>1 DEF MonInv, Undisturbed
  <2> QED BY <1>3, <2>1, <2>2, NothingParts, OfferParts, AckParts, NakParts, OtherParts DEF Server
<1>4. CASE Monitor
  <2>1. asked' = asked
    BY <1>4 DEF Monitor, mon_stop, mon_init, DHCPC_init, Client
  <2>2. fails' = fails
    <3>1. fails' = 0
      BY DEF Undisturbed
    <3>2. CASE mon_stop
      <4>1. fails' = fails \/ fails' = fails + 1
        BY <3>2 DEF mon_stop
      <4> QED BY <1>1, <3>1, <4>1
    <3>3. CASE mon_init \/ DHCPC_init
      BY <3>3 DEF mon_init, DHCPC_init
    <3> QED BY <1>4, <3>2, <3>3 DEF Monitor
  <2>3. link /\ Parts
    BY <2>1, <2>2 DEF MonInv, Undisturbed
  <2>4. link'
    <3>1. ~(fails' = fails + 1)
      BY <1>1, <2>2
    <3>2. CASE mon_stop
      BY <2>3, <3>1, <3>2 DEF mon_stop
    <3>3. CASE mon_init \/ DHCPC_init
      BY <2>3, <3>3 DEF mon_init, DHCPC_init
    <3> QED BY <1>4, <3>2, <3>3 DEF Monitor
  <2> QED BY <1>4, <2>2, <2>3, <2>4, MonStopParts, MonInitParts, RenewParts DEF Monitor
<1>5. CASE lease_function
  <2>1. asked' = asked /\ fails' = fails /\ link' = link
    BY <1>5 DEF lease_function, monitor
  <2>2. link /\ Parts
    BY <2>1 DEF MonInv, Undisturbed
  <2> QED BY <1>5, <2>1, <2>2, TimerParts
<1>6. CASE user
  BY <1>1, <1>6 DEF user, Undisturbed
<1>7. CASE UNCHANGED vars
  <2>1. asked' = asked /\ fails' = fails /\ link' = link
    BY <1>7 DEF vars, monitor
  <2>2. link /\ Parts
    BY <2>1 DEF MonInv, Undisturbed
  <2> QED BY <1>7, <2>1, <2>2, StillParts
<1> QED BY <1>2, <1>3, <1>4, <1>5, <1>6, <1>7 DEF Next

(* An address of the interface is one the monitor can take away: its copy  *)
(* of the client's state does not say STOPPED (wan_start.c:354).  It holds *)
(* when no address is wished for and leases renew themselves, and when the *)
(* monitor, and a client with work to do, have done it before the next     *)
(* packet or stage, for any servers, tries and size of the box, while the  *)
(* user asks for nothing and the link stays up.                            *)
THEOREM TakesDown ==
  ASSUME Prompt, Wished = None, ~Manual
  PROVE  Spec => []CanTakeDown
<1>1. Init => MonInv
  BY StartParts DEF Init, MonInv
<1>2. TypeOK /\ MonInv /\ [Next]_vars => MonInv'
  BY MonStep
<1>3. MonInv => CanTakeDown
  BY DEF MonInv, Parts, RestParts, PWan, CanTakeDown
<1>4. Spec => []TypeOK
  BY ClientTypeCorrect
<1> QED BY <1>1, <1>2, <1>3, <1>4, PTL DEF Spec
=============================================================================
