------------------------------ MODULE EventRing ------------------------------
(***************************************************************************)
(* The ring of the event log: eventlog/src/eventlog.c, with the walks of   *)
(* its readers (the web pages, the command line and the mail of            *)
(* eventlog/src/smtp.c).                                                   *)
(*                                                                         *)
(* Entries of different lengths are written one behind the other; one that *)
(* does not fit in the rest of the buffer goes to its beginning, and       *)
(* bottom notes where the entries before it end.  An entry carries its     *)
(* length in its first word and in its last, for the walks up and down.    *)
(* Two cursors trail the end: start, the oldest entry, and mail_start, the *)
(* oldest one that has not been mailed.                                    *)
(*                                                                         *)
(* The daemon handles a command and a reader walks under one mutex, so a   *)
(* command is one step.  Offsets stand for pointers into the buffer, and   *)
(* buffer and entries are measured in units of a few words.                *)
(***************************************************************************)
EXTENDS Integers, Sequences, SequencesExt, FiniteSetsExt

CONSTANTS
  log_buf_len,
  Size,           \* the lengths of entries
  log_count_max,  \* the number of entries at which the oldest is given up
  log_mail_thresh,\* the number of unmailed entries at which a mail is sent
  MaxEvents       \* bound on the number of entries written

ASSUME SizeAssumption ==
  /\ log_buf_len \in Nat
  /\ Size # {} /\ \A n \in Size : n \in Nat \ {0} /\ 2 * n <= log_buf_len
  /\ {log_count_max, log_mail_thresh, MaxEvents} \subseteq Nat \ {0}

VARIABLES
  lc,             \* the buffer, its cursors and counts, and two histories
  doRemoteMail,   \* whether entries are mailed
  written         \* how many entries have been written

vars == <<lc, doRemoteMail, written>>

Offset == 0 .. log_buf_len
NULL == -1

(* Each unit of an entry names the entry and its length: the first and the *)
(* last are read as such, the others stand for the text.                   *)
Unit == [id : 0 .. MaxEvents, len : Size \cup {1}]

(* tried and skipped are not in the code: the entries that were in a mail, *)
(* whether or not it arrived, and those a mail left out.                   *)
TypeOK ==
  /\ lc \in [buf : [0 .. log_buf_len - 1 -> Unit],
             start : Offset, end : Offset, bottom : Offset, num : Nat,
             mail_start : Offset, num_to_mail : Nat,
             tried : SUBSET (1 .. written), skipped : SUBSET (1 .. written)]
  /\ doRemoteMail \in BOOLEAN /\ written \in 0 .. MaxEvents

(* ResetEvent() of a ring c                                                *)
ResetEvent(c) ==
  [c EXCEPT !.buf = [o \in 0 .. log_buf_len - 1 |-> [id |-> 0, len |-> 1]],
            !.start = 0, !.end = 0, !.bottom = log_buf_len, !.num = 0,
            !.mail_start = 0, !.num_to_mail = 0]

Init ==
  /\ lc = ResetEvent([buf |-> 0, start |-> 0, end |-> 0, bottom |-> 0, num |-> 0,
                      mail_start |-> 0, num_to_mail |-> 0, tried |-> {}, skipped |-> {}])
  /\ doRemoteMail \in BOOLEAN
  /\ written = 0

-----------------------------------------------------------------------------
(* The walks over a ring c.                                                *)
FindEvent(c) == IF c.num = 0 THEN NULL ELSE c.start
FindMailEvent(c) == IF c.num_to_mail = 0 THEN NULL ELSE c.mail_start
EndEvent(c) == IF c.num = 0 THEN NULL ELSE IF c.end = 0 THEN c.bottom ELSE c.end

NextEvent(c, o) ==
  LET up == o + c.buf[o].len
      next == IF up = c.bottom THEN 0 ELSE up
  IN  IF next = c.end THEN NULL ELSE next

(* Mutant of PrevEvent: it does not wrap.                                  *)
PrevEvent_flat(c, o) ==
  IF o = c.start \/ o = 0 THEN NULL ELSE o - c.buf[o - 1].len

PrevEvent(c, o) ==
  LET top == IF o = 0 THEN c.bottom ELSE o
  IN  IF o = c.start THEN NULL ELSE top - c.buf[top - 1].len

(* What a reader meets from o up, a round of the ring at most.             *)
Upwards(c, o) ==
  LET step(x) == IF x = NULL THEN NULL ELSE NextEvent(c, x)
      at[k \in 0 .. log_buf_len] == IF k = 0 THEN o ELSE step(at[k - 1])
      n == Min({log_buf_len} \cup {k \in 0 .. log_buf_len : at[k] = NULL})
  IN  [k \in 1 .. n |-> c.buf[at[k - 1]].id]

(* The entries from the end down to stop: the loop of EventSendMail().     *)
Downwards(c, stop) ==
  LET step(x) == IF x = NULL THEN NULL ELSE PrevEvent(c, x)
      at[k \in 0 .. log_buf_len] == IF k = 0 THEN EndEvent(c) ELSE step(at[k - 1])
      n == Min({log_buf_len} \cup {k \in 0 .. log_buf_len - 1 :
                                     at[k + 1] = NULL \/ (k > 0 /\ at[k] = stop)})
  IN  IF stop = NULL \/ EndEvent(c) = NULL THEN <<>> ELSE [k \in 1 .. n |-> c.buf[at[k]].id]

(* The n entries from o, as they lie in the ring; not in the code.         *)
Wrapped(s, o) == IF o = s.bottom THEN 0 ELSE o
Ids(c, o, n) ==
  LET step(x) == Wrapped(c, x + c.buf[x].len)
      at[k \in 0 .. n] == IF k = 0 THEN Wrapped(c, o) ELSE step(at[k - 1])
  IN  [k \in 1 .. n |-> c.buf[at[k - 1]].id]
Log(c) == Ids(c, c.start, c.num)

-----------------------------------------------------------------------------
(* Writing an entry of length n into a ring s, step by step.               *)
(* EventSendMail(), whether or not the mail server answers.                *)
EventSendMail(s, from) ==
  LET sent == ToSet(Downwards(s, from))
  IN  [s EXCEPT !.tried = @ \cup sent,
                !.skipped = IF s.end = s.start THEN @ \cup (ToSet(Log(s)) \ sent) ELSE @]

ResetMailEvent(s) == [s EXCEPT !.mail_start = s.end, !.num_to_mail = 0]

(* From o over whole entries until limit or the bottom is reached: where   *)
(* that is, and how many there were.                                       *)
Passed(s, o, limit) ==
  LET over(x) == x >= limit \/ x >= s.bottom
      step(x) == IF over(x) THEN x ELSE x + s.buf[x].len
      at[k \in 0 .. log_buf_len] == IF k = 0 THEN o ELSE step(at[k - 1])
      n == Min({k \in 0 .. log_buf_len : over(at[k])})
  IN  [at |-> at[n], count |-> n]

(* Old entries are given up as far as limit.                               *)
LogGivesWay(s, limit) ==
  LET p == Passed(s, s.start, limit)
  IN  [s EXCEPT !.start = Wrapped(s, p.at), !.num = @ - p.count]

MailGivesWay(s, limit) ==
  IF doRemoteMail THEN ResetMailEvent(EventSendMail(s, FindMailEvent(s)))
  ELSE LET p == Passed(s, s.mail_start, limit)
       IN  [s EXCEPT !.mail_start = Wrapped(s, p.at), !.num_to_mail = @ - p.count]

(* Mutant of ToBeginning: off by one.                                      *)
ToBeginning_late(s, n) ==
  IF s.end + n <= log_buf_len + 1 THEN s ELSE [s EXCEPT !.bottom = s.end, !.end = 0]

(* Mutant of ToBeginning: what lies behind the end is not given up.        *)
ToBeginning_over(s, n) ==
  IF s.end + n <= log_buf_len THEN s ELSE [s EXCEPT !.bottom = s.end, !.end = 0]

(* "Take care end of buffer problem": the entries behind the end are       *)
(* given up, and the end goes to the beginning.                            *)
ToBeginning(s, n) ==
  LET l == IF s.end <= s.start /\ s.num # 0 THEN LogGivesWay(s, s.bottom) ELSE s
      m == IF l.end <= l.mail_start /\ l.num_to_mail # 0
           THEN MailGivesWay(l, l.bottom) ELSE l
  IN  IF s.end + n <= log_buf_len THEN s ELSE [m EXCEPT !.bottom = m.end, !.end = 0]

(* Mutant of Cleared: all of the old entries are given up.                 *)
Cleared_all(s, n) ==
  IF s.end <= s.start /\ s.end + n > s.start /\ s.num # 0
  THEN MailGivesWay(LogGivesWay(s, s.bottom), s.bottom) ELSE s

(* "Take care of end is head of start problem": the entries the new one    *)
(* overwrites are given up.                                                *)
Cleared(s, n) ==
  LET Meets(cursor) == s.end <= cursor /\ s.end + n > cursor
      l == IF Meets(s.start) /\ s.num # 0 THEN LogGivesWay(s, s.end + n) ELSE s
  IN  IF Meets(l.mail_start) /\ l.num_to_mail # 0 THEN MailGivesWay(l, l.end + n) ELSE l

(* The entry is written.                                                   *)
Filled(s, n, e) ==
  [s EXCEPT !.buf = [o \in DOMAIN @ |->
              IF o \in s.end .. s.end + n - 1 THEN [id |-> e, len |-> n] ELSE @[o]],
            !.end = @ + n, !.bottom = IF s.end + n > @ THEN s.end + n ELSE @,
            !.num = @ + 1, !.num_to_mail = @ + 1]

(* "Check if log max reached"                                              *)
Counted(s) ==
  IF s.num > log_count_max
  THEN [s EXCEPT !.start = Wrapped(s, @ + s.buf[@].len), !.num = @ - 1]
  ELSE s

(* Mutant of Mailed: the cursor is moved before the mail is sent.          *)
Mailed_after(s) ==
  IF doRemoteMail /\ s.num_to_mail >= log_mail_thresh
  THEN EventSendMail(ResetMailEvent(s), FindMailEvent(ResetMailEvent(s))) ELSE s

(* "Log mail threshold reached, send mail."                                *)
Mailed(s) ==
  IF doRemoteMail /\ s.num_to_mail >= log_mail_thresh
  THEN ResetMailEvent(EventSendMail(s, FindMailEvent(s))) ELSE s

-----------------------------------------------------------------------------
(* The commands of syslogd_fn().                                           *)
WriteEvent(n) ==
  /\ written < MaxEvents /\ written' = written + 1
  /\ lc' = Mailed(Counted(Filled(Cleared(ToBeginning(lc, n), n), n, written')))
  /\ UNCHANGED doRemoteMail

(* The user asks for a mail of the whole log, or clears it.                *)
SendMail ==
  /\ lc' = EventSendMail(lc, FindEvent(lc))
  /\ UNCHANGED <<doRemoteMail, written>>

ClearLog ==
  /\ lc' = ResetEvent(lc)
  /\ UNCHANGED <<doRemoteMail, written>>

Next == SendMail \/ ClearLog \/ \E n \in Size : WriteEvent(n)

Spec == Init /\ [][Next]_vars

-----------------------------------------------------------------------------
(* Properties.                                                             *)

(* The last n entries written, the oldest first                            *)
Latest(n) == [k \in 1 .. n |-> written - n + k]

(* The ring holds the latest entries, whole and in their order, wherever   *)
(* it wraps and whatever was given up for room or for their number; the    *)
(* cursor of the mails, which trails on its own when they are switched     *)
(* off, stands on an entry too and counts those behind it                  *)
(* (eventlog.c:510, 556).                                                  *)
LatestInOrder ==
  /\ Log(lc) = Latest(lc.num)
  /\ ~doRemoteMail => Ids(lc, lc.mail_start, lc.num_to_mail) = Latest(lc.num_to_mail)

(* A reader that walks up from the oldest entry meets every one of them    *)
(* and comes to the end (include/eventlog.h:126).                                  *)
WalkEnds == Upwards(lc, FindEvent(lc)) = Log(lc)

(* Walking up it does so unless the end is the bottom, where NextEvent()   *)
(* goes to the beginning before it looks for the end; walking down, unless *)
(* the end is the start, where PrevEvent() stops at once                   *)
(* (eventlog.c:398, 428).                                                  *)
WalksMeetAll ==
  /\ lc.end # lc.bottom => WalkEnds
  /\ lc.end # lc.start => Downwards(lc, FindEvent(lc)) = Reverse(Log(lc))

(* An entry is given up because there are too many, or for want of room    *)
(* and for nothing else: what is younger than it and the new entry do not  *)
(* fit beside it, but for the rest of the buffer that a wrap leaves unused *)
(* (eventlog.c:548).                                                       *)
HeldFrom(c, e) ==
  Cardinality({o \in DOMAIN c.buf : c.buf[o].id \in ToSet(Log(c)) /\ c.buf[o].id >= e})
GivenUpForRoom ==
  [][\A n \in Size : WriteEvent(n) =>
       \A e \in ToSet(Log(lc)) \ ToSet(Log(lc')) :
         lc'.num = log_count_max \/ HeldFrom(lc, e) + n > log_buf_len - Max(Size)]_vars

(* Every entry of the log has been in a mail, or the next mail will hold   *)
(* it, whichever cursor and limit is met first; but for a mail that met    *)
(* the end at the start (eventlog.c:515, 566, 624).                        *)
AllMailed ==
  doRemoteMail /\ lc.end # lc.start =>
    ToSet(Log(lc)) \subseteq
      lc.tried \cup lc.skipped \cup ToSet(Downwards(lc, FindMailEvent(lc)))
=============================================================================
