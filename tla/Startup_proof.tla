--------------------------- MODULE Startup_proof ---------------------------
(***************************************************************************)
(* The back end loads the host's answer whole and counts from it, at most  *)
(* one second late, for every width of the counter, any period of the      *)
(* timer's look at the receiver and any number of resets of the board and  *)
(* restarts of the host's script.                                          *)
(***************************************************************************)
EXTENDS Startup, TLAPS

(* The callback has accepted an answer and loads it.                       *)
Loading == {"write_timestamp", "load_read", "load_write", "unload_read",
            "unload_write"}

Typed ==
  /\ onepps_in \in BOOLEAN
  /\ onepps_r_1 \in BOOLEAN /\ onepps_r_2 \in BOOLEAN /\ onepps_r_3 \in BOOLEAN
  /\ cnt \in Seconds /\ due \in Seconds /\ slv_reg1 \in Seconds
  /\ answer \in Seconds \cup {None}
  /\ mail \in Words \cup {None}
  /\ begun \in BOOLEAN

(* What the registers hold between the accesses of the driver.             *)
Accesses ==
  /\ pc \in {"rst_read", "rst_write", "loop"} \cup Loading
  /\ slv_reg0 = IF pc \in {"unload_read", "unload_write"}
                THEN [rst |-> FALSE, load |-> TRUE] ELSE [rst |-> FALSE, load |-> FALSE]
  /\ pc \in {"rst_write", "load_write", "unload_write"} => temp = slv_reg0
  /\ pc \in Loading => stage = "branch" /\ answer # None
  /\ pc \in Loading \ {"write_timestamp"} => slv_reg1 = answer
  /\ pc \in {"rst_read", "rst_write"} <=> stage = "counter"

Unasked == {"counter", "interrupts", "interface", "client", "request"}

(* The script answers one time request of the board, and before the        *)
(* console opens: an answer never lies unread while main waits for a byte. *)
Asking ==
  /\ stage \in Unasked => ~seconds_recv
  /\ stage \in {"console", "returned"} \/ start_obs_flag => seconds_recv
  /\ ~seconds_recv => answer = None
  /\ host = "waiting" /\ request = "epoch" => ~seconds_recv
  /\ host = "waiting" /\ mail # None => seconds_recv
  /\ asked = "epoch" /\ mail # None => ~seconds_recv

(* w was due when the exchange began.                                      *)
OnTime(w) == w \in Seconds /\ due = (w + Counter!One(begun)) % SecondMod

(* The pulse of the one second that may begin in the exchange is the only  *)
(* one in the synchroniser once the answer is being loaded.                *)
Timed ==
  /\ begun => Exchange /\ (onepps_in => onepps_r_1)
  /\ Exchange /\ ~begun => (onepps_r_1 => onepps_r_2)
  /\ pc \in Loading /\ ~begun => (onepps_r_2 => onepps_r_3)
  /\ asked = "epoch" /\ mail # None => OnTime(mail % SecondMod)
  /\ basis = "epoch" /\ pc \in Loading => OnTime(answer)

(* Inductive.                                                              *)
IInv == Typed /\ Accesses /\ Asking /\ Timed /\ CountsFromTheAnswer

----------------------------------------------------------------------------
(* Remainders                                                              *)

LEMMA OneWrap ==
  ASSUME NEW M \in Nat, M > 1, NEW a \in Nat, a < M + M
  PROVE  a % M = IF a < M THEN a ELSE a - M
<1>1. CASE a < M  BY <1>1, Z3
<1>2. CASE ~(a < M)  BY <1>2, Z3
<1> QED  BY <1>1, <1>2

(* The second after a second, or the same one.                             *)
LEMMA NextSecond ==
  ASSUME NEW a \in Seconds, NEW n \in 0 .. 1
  PROVE  /\ (a + n) % SecondMod = IF a + n < SecondMod THEN a + n ELSE 0
         /\ (a + n) % SecondMod \in Seconds
<1>1. a + n \in Nat /\ a + n < SecondMod + SecondMod /\ a + n <= SecondMod
  BY SecondModAssumption DEF Seconds
<1>2. (a + n) % SecondMod = IF a + n < SecondMod THEN a + n ELSE (a + n) - SecondMod
  BY <1>1, SecondModAssumption, OneWrap
<1> QED BY <1>1, <1>2, SecondModAssumption DEF Seconds

LEMMA NoSecond == \A a \in Seconds : (a + 0) % SecondMod = a
BY SecondModAssumption, OneWrap DEF Seconds

(* What the counter keeps of a word.                                       *)
LEMMA LowBits ==
  \A w \in Words : /\ w % SecondMod \in Seconds
                   /\ w \in Seconds => w % SecondMod = w
<1> TAKE w \in Words
<1>1. w \in Nat /\ w < SecondMod + SecondMod /\ w <= SecondMod
  BY SecondModAssumption DEF Words, Seconds, TooWide
<1>2. w % SecondMod = IF w < SecondMod THEN w ELSE w - SecondMod
  BY <1>1, SecondModAssumption, OneWrap
<1> QED BY <1>1, <1>2, SecondModAssumption DEF Seconds

(* How far s is ahead of c when p pulses are on their way.                 *)
Ahead(s, c, p) == IF s - c - p >= 0 THEN s - c - p ELSE s - c - p + SecondMod

LEMMA AheadIsRemainder ==
  ASSUME NEW s \in Seconds, NEW c \in Seconds, NEW p \in 0 .. 1
  PROVE  (s + 2 * SecondMod - c - p) % SecondMod = Ahead(s, c, p)
<1> DEFINE M == SecondMod
           d == s - c - p
<1>1. M \in Nat /\ M > 1 /\ d \in Int /\ d >= -M /\ d < M
  BY SecondModAssumption DEF Seconds
<1>2. s + 2 * SecondMod - c - p = d + 2 * M
  BY SecondModAssumption DEF Seconds
<1> HIDE DEF M, d
<1>3. CASE d >= 0
  <2>1. (d + 2 * M) % M = d
    BY <1>1, <1>3, Z3
  <2> QED BY <1>2, <1>3, <2>1 DEF Ahead, M, d
<1>4. CASE ~(d >= 0)
  <2>1. (d + 2 * M) % M = d + M
    BY <1>1, <1>4, Z3
  <2> QED BY <1>2, <1>4, <2>1 DEF Ahead, M, d
<1> QED BY <1>3, <1>4

----------------------------------------------------------------------------
(* What one step does to the answer and to the driver                      *)

(* The main loop may move on, a datagram may get lost or be dropped.       *)
Quiet == /\ UNCHANGED <<driver, asked, basis>>
         /\ mail' \in {mail, None}
         /\ stage' # stage => /\ stage # "counter" /\ stage' # "counter"
                              /\ stage = "branch" => pc = "loop"

Accepts == /\ stage = "poll" /\ stage' = "branch" /\ pc = "loop"
           /\ mail # None /\ mail \notin TooWide /\ mail' = None
           /\ pc' = "write_timestamp" /\ answer' = mail /\ basis' = asked
           /\ UNCHANGED <<slv_reg0, slv_reg1, temp, asked>>

Moves == /\ WriteTimestamp \/ ReadCtrl \/ WriteCtrl
         /\ \/ stage = "branch" /\ stage' = stage
            \/ stage = "counter" /\ stage' = IF pc' = "loop" THEN "interrupts" ELSE "counter"
         /\ UNCHANGED <<asked, basis, mail>>

LEMMA Outcomes ==
  ASSUME Step
  PROVE  Quiet \/ Accepts \/ Moves
<1> USE DEF Goto, startupVars, mainVars, networkVars, hostVars, Others
<1>1. CASE Setup /\ UNCHANGED Others
  BY <1>1 DEF Setup, Quiet
<1>2. CASE Poll /\ UNCHANGED Others
  <2>1. CASE Receive /\ basis' = IF Refused(mail) THEN basis ELSE asked
    <3>1. CASE Refused(mail)
      BY <1>2, <2>1, <3>1 DEF Poll, Receive, driver, Quiet
    <3>2. CASE ~Refused(mail)
      BY <1>2, <2>1, <3>2 DEF Poll, Receive, Refused, After, Accepts
    <3> QED BY <3>1, <3>2
  <2>2. CASE UNCHANGED <<driver, mail, seconds_recv, basis, trouble>>
    BY <1>2, <2>2 DEF Poll, Quiet
  <2> QED BY <1>2, <2>1, <2>2 DEF Poll
<1>3. CASE ReleaseCounter /\ UNCHANGED basis /\ UNCHANGED Others
  <2>1. UNCHANGED mail
    BY <1>3 DEF ReleaseCounter, ReadCtrl, WriteCtrl
  <2> QED BY <1>3, <2>1 DEF ReleaseCounter, Moves
<1>4. CASE start_udp_client_app /\ UNCHANGED basis /\ UNCHANGED Others
  BY <1>4 DEF start_udp_client_app, Quiet
<1>5. CASE RequestTime /\ UNCHANGED basis /\ UNCHANGED Others
  BY <1>5 DEF RequestTime, Quiet
<1>6. CASE Access /\ UNCHANGED basis /\ UNCHANGED Others
  <2>1. UNCHANGED mail
    BY <1>6 DEF Access, WriteTimestamp, ReadCtrl, WriteCtrl
  <2> QED BY <1>6, <2>1 DEF Access, Moves
<1>7. CASE Branch /\ UNCHANGED basis /\ UNCHANGED Others
  BY <1>7 DEF Branch, Quiet
<1>8. CASE Operator
  BY <1>8 DEF Operator, TypeByte, Quiet
<1>9. CASE timer_callback
  BY <1>9 DEF timer_callback, Quiet
<1>10. CASE Loses
  BY <1>10 DEF Loses, Quiet
<1>11. CASE RunScript
  BY <1>11 DEF RunScript, Quiet
<1>12. CASE HostRecords
  BY <1>12 DEF HostRecords, Quiet
<1>13. CASE Wait
  BY <1>13 DEF Wait, Quiet
<1> QED BY <1>1, <1>2, <1>3, <1>4, <1>5, <1>6, <1>7, <1>8, <1>9, <1>10, <1>11,
           <1>12, <1>13 DEF Step, Board

(* What a reset of the board leaves.                                       *)
LEMMA Rebooted ==
  ASSUME Reboot
  PROVE  /\ onepps_r_1' /\ onepps_r_2' /\ ~onepps_r_3' /\ cnt' = 0
         /\ slv_reg0' = [rst |-> FALSE, load |-> FALSE] /\ slv_reg1' = 0
         /\ pc' = "rst_read" /\ answer' = None /\ mail' = None
         /\ stage' = "counter" /\ ~seconds_recv' /\ ~start_obs_flag'
         /\ basis' = "none" /\ due' = 0
BY DEF Reboot

(* The driver from one access to the next.                                 *)
LEMMA PcMoves ==
  ASSUME Moves
  PROVE  /\ \/ pc = "rst_read" /\ pc' = "rst_write"
            \/ pc = "rst_write" /\ pc' = "loop"
            \/ pc = "write_timestamp" /\ pc' = "load_read"
            \/ pc = "load_read" /\ pc' = "load_write"
            \/ pc = "load_write" /\ pc' = "unload_read"
            \/ pc = "unload_read" /\ pc' = "unload_write"
            \/ pc = "unload_write" /\ pc' = "loop"
         /\ answer' = answer
<1>1. CASE WriteTimestamp
  BY <1>1 DEF WriteTimestamp, After
<1>2. CASE ReadCtrl
  BY <1>2 DEF ReadCtrl, After
<1>3. CASE WriteCtrl
  BY <1>3 DEF WriteCtrl, WithBit, After
<1> QED BY <1>1, <1>2, <1>3 DEF Moves

LEMMA AccessesStep == ASSUME IInv, Next PROVE Accesses'
<1>1. Accesses /\ Typed
  BY DEF IInv
<1>2. CASE Reboot /\ Pulses
  BY <1>2, Rebooted DEF Accesses, Loading
<1>3. CASE Quiet
  BY <1>1, <1>3 DEF Quiet, Accesses, driver, Loading
<1>4. CASE Accepts
  BY <1>1, <1>4 DEF Accepts, Accesses, Loading
<1>5. CASE Moves
  <2>1. CASE WriteTimestamp
    <3>1. answer % SecondMod = answer
      <4>1. answer \in Seconds
        BY <1>1, <2>1 DEF WriteTimestamp, Accesses, Typed, Loading
      <4>2. (answer + 0) % SecondMod = answer /\ answer + 0 = answer
        BY <4>1, NoSecond DEF Seconds
      <4> QED BY <4>2
    <3>2. /\ pc = "write_timestamp" /\ pc' = "load_read"
          /\ UNCHANGED <<slv_reg0, answer, temp>> /\ slv_reg1' = answer
      BY <2>1, <3>1 DEF WriteTimestamp, After
    <3> QED BY <1>1, <1>5, <3>2 DEF Moves, Accesses, Loading
  <2>2. CASE ReadCtrl
    <3>1. /\ \/ pc = "rst_read" /\ pc' = "rst_write"
             \/ pc = "load_read" /\ pc' = "load_write"
             \/ pc = "unload_read" /\ pc' = "unload_write"
          /\ UNCHANGED <<slv_reg0, slv_reg1, answer>> /\ temp' = slv_reg0
      BY <2>2 DEF ReadCtrl, After
    <3>2. slv_reg0' = IF pc' \in {"unload_read", "unload_write"}
                      THEN [rst |-> FALSE, load |-> TRUE] ELSE [rst |-> FALSE, load |-> FALSE]
      BY <1>1, <3>1 DEF Accesses
    <3>3. stage' = stage /\ (pc' \in {"rst_read", "rst_write"} <=> stage' = "counter")
      BY <1>1, <1>5, <3>1 DEF Moves, Accesses
    <3>4. pc' \in Loading => pc \in Loading \ {"write_timestamp"}
      BY <3>1 DEF Loading
    <3>5. pc' \in {"rst_read", "rst_write", "loop"} \cup Loading
      BY <3>1 DEF Loading
    <3> QED BY <1>1, <3>1, <3>2, <3>3, <3>4, <3>5 DEF Accesses
  <2>3. CASE WriteCtrl
    <3>1. /\ \/ /\ pc = "rst_write" /\ pc' = "loop"
                /\ slv_reg0' = [temp EXCEPT !["rst"] = FALSE]
             \/ /\ pc = "load_write" /\ pc' = "unload_read"
                /\ slv_reg0' = [temp EXCEPT !["load"] = TRUE]
             \/ /\ pc = "unload_write" /\ pc' = "loop"
                /\ slv_reg0' = [temp EXCEPT !["load"] = FALSE]
          /\ UNCHANGED <<slv_reg1, temp, answer>>
      BY <2>3 DEF WriteCtrl, WithBit, After
    <3>2. temp = IF pc = "unload_write"
                 THEN [rst |-> FALSE, load |-> TRUE] ELSE [rst |-> FALSE, load |-> FALSE]
      BY <1>1, <3>1 DEF Accesses
    <3>3. slv_reg0' = IF pc' \in {"unload_read", "unload_write"}
                      THEN [rst |-> FALSE, load |-> TRUE] ELSE [rst |-> FALSE, load |-> FALSE]
      BY <3>1, <3>2
    <3>4. /\ pc' \in {"rst_read", "rst_write"} <=> stage' = "counter"
          /\ pc' \in Loading => stage' = "branch"
      BY <1>1, <1>5, <3>1 DEF Moves, Accesses, Loading
    <3>5. pc' \in Loading => pc \in Loading \ {"write_timestamp"}
      BY <3>1 DEF Loading
    <3>6. pc' \in {"loop", "unload_read"}
      BY <3>1
    <3> QED BY <1>1, <3>1, <3>3, <3>4, <3>5, <3>6 DEF Accesses, Loading
  <2> QED BY <1>5, <2>1, <2>2, <2>3 DEF Moves
<1>6. ASSUME NEW second \in Words, HostAnswers(second) PROVE Accesses'
  BY <1>1, <1>6 DEF HostAnswers, mainVars, driver, Accesses, Loading
<1> QED BY <1>2, <1>3, <1>4, <1>5, <1>6, Outcomes DEF Next

----------------------------------------------------------------------------
(* The one request                                                         *)

LEMMA AskingStep == ASSUME IInv, Next PROVE Asking'
<1> USE DEF Goto, startupVars, mainVars, networkVars, hostVars, Others, Unasked, driver
<1>1. Asking
  BY DEF IInv
<1>2. CASE Reboot
  BY <1>1, <1>2 DEF Reboot, Asking
<1>3. CASE Setup /\ UNCHANGED Others
  BY <1>1, <1>3 DEF Setup, Asking
<1>4. CASE Poll /\ UNCHANGED Others
  <2>1. CASE Receive /\ seconds_recv' = TRUE
    <3>1. mail # None /\ mail' = None
      BY <2>1 DEF Receive
    <3>2. ~(host = "waiting" /\ request = "epoch")
      BY <1>1, <3>1 DEF Asking
    <3> QED BY <1>1, <1>4, <2>1, <3>1, <3>2 DEF Poll, Asking
  <2>2. CASE UNCHANGED <<driver, mail, seconds_recv, basis, trouble>>
    BY <1>1, <1>4, <2>2 DEF Poll, Asking
  <2> QED BY <1>4, <2>1, <2>2 DEF Poll
<1>5. CASE ReleaseCounter /\ UNCHANGED basis /\ UNCHANGED Others
  <2>1. UNCHANGED <<answer, mail>>
    BY <1>5 DEF ReleaseCounter, ReadCtrl, WriteCtrl
  <2> QED BY <1>1, <1>5, <2>1 DEF ReleaseCounter, Asking
<1>6. CASE start_udp_client_app /\ UNCHANGED basis /\ UNCHANGED Others
  BY <1>1, <1>6 DEF start_udp_client_app, Asking
<1>7. CASE RequestTime /\ UNCHANGED basis /\ UNCHANGED Others
  BY <1>1, <1>7 DEF RequestTime, Asking
<1>8. CASE Access /\ UNCHANGED basis /\ UNCHANGED Others
  <2>1. UNCHANGED <<answer, mail>>
    BY <1>8 DEF Access, WriteTimestamp, ReadCtrl, WriteCtrl
  <2> QED BY <1>1, <1>8, <2>1 DEF Access, Asking
<1>9. CASE Branch /\ UNCHANGED basis /\ UNCHANGED Others
  BY <1>1, <1>9 DEF Branch, ConsoleReady, Asking
<1>10. CASE Operator
  BY <1>1, <1>10 DEF Operator, TypeByte, Asking
<1>11. CASE timer_callback
  BY <1>1, <1>11 DEF timer_callback, Asking
<1>12. CASE Loses
  BY <1>1, <1>12 DEF Loses, Asking
<1>13. CASE RunScript
  <2>1. CASE host = "stopped" /\ request = "none" /\ ~Exchange /\ host' = "waiting"
    <3>1. mail # None => seconds_recv
      BY <1>1, <2>1 DEF Exchange, Asking
    <3> QED BY <1>1, <1>13, <2>1, <3>1 DEF RunScript, Asking
  <2>2. CASE host' = "stopped"
    BY <1>1, <1>13, <2>2 DEF RunScript, Asking
  <2> QED BY <1>13, <2>1, <2>2 DEF RunScript
<1>14. CASE HostRecords
  BY <1>1, <1>14 DEF HostRecords, Asking
<1>15. CASE Wait
  BY <1>1, <1>15 DEF Wait, Asking
<1>16. ASSUME NEW second \in Words, HostAnswers(second) PROVE Asking'
  <2>1. asked' = "epoch" => ~seconds_recv
    BY <1>1, <1>16 DEF HostAnswers, Asking
  <2> QED BY <1>1, <1>16, <2>1 DEF HostAnswers, Asking
<1> QED BY <1>2, <1>3, <1>4, <1>5, <1>6, <1>7, <1>8, <1>9, <1>10, <1>11, <1>12,
           <1>13, <1>14, <1>15, <1>16 DEF Next, Step, Board


----------------------------------------------------------------------------
(* Time                                                                    *)

(* One edge of the clock, with the counter out of reset.                   *)
LEMMA CounterStep ==
  ASSUME Accesses, Counter!Edge
  PROVE  /\ onepps_r_1' = onepps_in /\ onepps_r_2' = onepps_r_1
         /\ onepps_r_3' = onepps_r_2
         /\ pc \in {"unload_read", "unload_write"} => cnt' = slv_reg1
         /\ pc \notin {"unload_read", "unload_write"} =>
              cnt' = IF onepps_r_2 /\ ~onepps_r_3 THEN (cnt + 1) % SecondMod ELSE cnt
<1>1. /\ ~slv_reg0.rst
      /\ slv_reg0.load <=> pc \in {"unload_read", "unload_write"}
  BY DEF Accesses
<1> QED BY <1>1 DEF Counter!Edge, Counter!SynchronizerFFs, Counter!EdgeDetector,
                    Counter!Count, Counter!onepps_RE

(* An edge at which the host answers, and at which it does not.            *)
Answered(second) ==
  /\ HostAnswers(second) /\ Clock
  /\ CountSecond(IF request = "epoch" THEN second % SecondMod ELSE due)

Passes == Step /\ Clock /\ CountSecond(due)

LEMMA NextCases ==
  ASSUME Next
  PROVE  (Reboot /\ Pulses) \/ Passes \/ \E second \in Words : Answered(second)
BY DEF Next, Passes, Answered

LEMMA CountSecondType ==
  ASSUME NEW second \in Seconds, CountSecond(second)
  PROVE  due' \in Seconds
BY NextSecond DEF CountSecond

LEMMA TypedStep == ASSUME IInv, Next PROVE Typed'
<1>1. Typed /\ Accesses
  BY DEF IInv
<1>2. 0 \in Seconds
  BY SecondModAssumption DEF Seconds
<1>3. Pulses => onepps_in' \in BOOLEAN /\ begun' \in BOOLEAN
  BY DEF Pulses
<1>4. CASE Reboot /\ Pulses
  BY <1>2, <1>3, <1>4 DEF Reboot, Typed
<1>5. ASSUME Clock
      PROVE  /\ cnt' \in Seconds /\ {onepps_r_1', onepps_r_2', onepps_r_3'} \subseteq BOOLEAN
             /\ onepps_in' \in BOOLEAN /\ begun' \in BOOLEAN
  <2>1. (cnt + 1) % SecondMod \in Seconds
    BY <1>1, NextSecond DEF Typed
  <2> QED BY <1>1, <1>3, <1>5, <2>1, CounterStep DEF Clock, Typed
<1>6. CASE Passes
  <2>1. due' \in Seconds
    BY <1>1, <1>6, CountSecondType DEF Passes, Typed
  <2>2. Quiet \/ Accepts \/ Moves
    BY <1>6, Outcomes DEF Passes
  <2>3. mail' \in Words \cup {None}
    BY <1>1, <2>2 DEF Quiet, Accepts, Moves, Typed
  <2>4. answer' \in Seconds \cup {None}
    BY <1>1, <2>2 DEF Quiet, Accepts, Moves, WriteTimestamp, ReadCtrl, WriteCtrl,
                      driver, Words, Typed
  <2>5. slv_reg1' \in Seconds
    <3>1. CASE WriteTimestamp
      <4>1. answer \in Seconds
        BY <1>1, <3>1 DEF WriteTimestamp, Accesses, Typed, Loading
      <4> QED BY <3>1, <4>1, LowBits DEF WriteTimestamp, Words
    <3>2. CASE ~WriteTimestamp
      BY <1>1, <2>2, <3>2 DEF Quiet, Accepts, Moves, ReadCtrl, WriteCtrl, driver, Typed
    <3> QED BY <3>1, <3>2
  <2> QED BY <1>5, <1>6, <2>1, <2>3, <2>4, <2>5 DEF Passes, Typed
<1>7. ASSUME NEW second \in Words, Answered(second) PROVE Typed'
  <2>1. due' \in Seconds
    BY <1>1, <1>7, LowBits, CountSecondType DEF Answered, Typed
  <2>2. mail' \in Words /\ UNCHANGED driver
    BY <1>7 DEF Answered, HostAnswers
  <2> QED BY <1>1, <1>5, <1>7, <2>1, <2>2 DEF Answered, driver, Typed
<1> QED BY <1>4, <1>6, <1>7, NextCases

(* The host answers no request of a board that has accepted an answer.     *)
LEMMA AnsweredOnce ==
  ASSUME IInv, NEW second \in Words, Answered(second), answer # None
  PROVE  CountSecond(due)
<1>1. request # "epoch"
  BY DEF IInv, Asking, Answered, HostAnswers
<1> QED BY <1>1 DEF Answered

(* In an exchange the second due moves with `begun`.                       *)
LEMMA OneSecondAtMost ==
  ASSUME IInv, Clock, CountSecond(due), Exchange, Exchange'
  PROVE  /\ begun' = (begun \/ Begins)
         /\ ~(begun /\ Begins)
         /\ \A w \in Seconds : due = (w + Counter!One(begun)) % SecondMod
                                 => due' = (w + Counter!One(begun')) % SecondMod
<1>1. CountSecond(due) /\ Pulses
  BY DEF Clock
<1>2. begun' = (begun \/ Begins)
  BY <1>1 DEF Pulses
<1>3. ~(begun /\ Begins)
  BY DEF IInv, Timed, Begins
<1>4. ASSUME NEW w \in Seconds, due = (w + Counter!One(begun)) % SecondMod
      PROVE  due' = (w + Counter!One(begun')) % SecondMod
  <2>1. begun \in BOOLEAN
    BY DEF IInv, Typed
  <2>2. CASE Begins
    <3>1. Counter!One(begun) = 0 /\ Counter!One(begun') = 1
      BY <1>2, <1>3, <2>2 DEF Counter!One
    <3>2. due = w
      BY <1>4, <3>1, NoSecond
    <3> QED BY <1>1, <2>2, <3>1, <3>2 DEF CountSecond
  <2>3. CASE ~Begins
    <3>1. Counter!One(begun') = Counter!One(begun) /\ due' = due
      BY <1>1, <1>2, <2>1, <2>3 DEF CountSecond, Counter!One
    <3> QED BY <1>4, <3>1
  <2> QED BY <2>2, <2>3
<1> QED BY <1>2, <1>3, <1>4

LEMMA TimedStep == ASSUME IInv, Next PROVE Timed'
<1>1. Typed /\ Accesses /\ Asking /\ Timed
  BY DEF IInv
<1>2. Typed' /\ Accesses' /\ Asking'
  BY TypedStep, AccessesStep, AskingStep
<1>3. CASE Reboot /\ Pulses
  <2>1. ~Exchange'
    BY <1>3, Rebooted DEF Exchange
  <2>2. ~begun'
    BY <1>3, <2>1 DEF Pulses
  <2> QED BY <1>3, <2>1, <2>2, Rebooted DEF Timed, Loading
<1>4. ASSUME Clock, pc' \in Loading => Exchange
      PROVE  /\ begun' => Exchange' /\ (onepps_in' => onepps_r_1')
             /\ Exchange' /\ ~begun' => (onepps_r_1' => onepps_r_2')
             /\ pc' \in Loading /\ ~begun' => (onepps_r_2' => onepps_r_3')
             /\ pc' \in Loading => Exchange'
  <2>1. onepps_r_1' = onepps_in /\ onepps_r_2' = onepps_r_1 /\ onepps_r_3' = onepps_r_2
    BY <1>1, <1>4, CounterStep DEF Clock
  <2>2. Pulses
    BY <1>4 DEF Clock
  <2>3. begun' => Exchange' /\ (onepps_in' => onepps_r_1')
    BY <2>1, <2>2 DEF Pulses
  <2>4. Exchange' /\ ~begun' => ~begun /\ (onepps_r_1' => onepps_r_2')
    BY <2>1, <2>2 DEF Pulses, Begins
  <2>5. pc' \in Loading => Exchange'
    BY <1>2 DEF Exchange, Loaded, Accesses, Loading
  <2>6. pc' \in Loading /\ ~begun' => (onepps_r_2' => onepps_r_3')
    BY <1>1, <1>4, <2>1, <2>4, <2>5 DEF Timed
  <2> QED BY <2>3, <2>4, <2>5, <2>6
<1>5. pc \in Loading => Exchange
  BY <1>1 DEF Exchange, Loaded, Accesses, Loading
<1>6. CASE Passes
  <2>1. Quiet \/ Accepts \/ Moves
    BY <1>6, Outcomes DEF Passes
  <2>2. Clock /\ CountSecond(due)
    BY <1>6 DEF Passes
  <2>3. pc' \in Loading => Exchange
    <3>1. CASE Accepts
      BY <3>1 DEF Accepts, Exchange
    <3>2. CASE Quiet \/ Moves
      <4>1. pc' \in Loading => pc \in Loading
        BY <3>2 DEF Quiet, Moves, WriteTimestamp, ReadCtrl, WriteCtrl, driver, After,
                    Loading
      <4> QED BY <1>5, <4>1
    <3> QED BY <2>1, <3>1, <3>2
  <2>4. asked' = "epoch" /\ mail' # None => OnTime(mail % SecondMod)'
    <3> SUFFICES ASSUME asked' = "epoch", mail' # None
                 PROVE  OnTime(mail % SecondMod)'
      OBVIOUS
    <3>1. Exchange'
      BY <1>2 DEF Asking, Exchange
    <3>2. mail' = mail /\ asked = "epoch"
      BY <2>1 DEF Quiet, Moves, Accepts
    <3>3. OnTime(mail % SecondMod) /\ Exchange
      BY <1>1, <3>2 DEF Asking, Timed, Exchange
    <3> QED BY <2>2, <3>1, <3>2, <3>3, OneSecondAtMost DEF OnTime
  <2>5. basis' = "epoch" /\ pc' \in Loading => OnTime(answer)'
    <3> SUFFICES ASSUME basis' = "epoch", pc' \in Loading PROVE OnTime(answer)'
      OBVIOUS
    <3>1. Exchange /\ Exchange'
      BY <1>4, <2>2, <2>3
    <3>2. CASE Accepts
      <4>1. answer' = mail /\ OnTime(mail % SecondMod) /\ mail \in Seconds
        BY <1>1, <3>2 DEF Accepts, Timed, Typed, Words
      <4>2. mail % SecondMod = mail
        BY <4>1, LowBits DEF Words
      <4> QED BY <2>2, <3>1, <4>1, <4>2, OneSecondAtMost DEF OnTime
    <3>3. CASE Quiet \/ Moves
      <4>1. answer' = answer /\ basis = "epoch" /\ pc \in Loading
        BY <3>3 DEF Quiet, Moves, WriteTimestamp, ReadCtrl, WriteCtrl, driver, After,
                    Loading
      <4>2. OnTime(answer)
        BY <1>1, <4>1 DEF Timed
      <4> QED BY <2>2, <3>1, <4>1, <4>2, OneSecondAtMost DEF OnTime
    <3> QED BY <2>1, <3>2, <3>3
  <2> QED BY <1>4, <2>2, <2>3, <2>4, <2>5 DEF Timed
<1>7. ASSUME NEW second \in Words, Answered(second) PROVE Timed'
  <2>1. /\ UNCHANGED <<driver, basis, stage>> /\ asked' = request
        /\ mail' = second /\ host = "waiting" /\ Clock
        /\ CountSecond(IF request = "epoch" THEN second % SecondMod ELSE due)
    BY <1>7 DEF Answered, HostAnswers, mainVars
  <2>2. pc' \in Loading => Exchange
    BY <1>5, <2>1 DEF driver
  <2>3. asked' = "epoch" /\ mail' # None => OnTime(mail % SecondMod)'
    <3> SUFFICES ASSUME asked' = "epoch", mail' # None
                 PROVE  OnTime(mail % SecondMod)'
      OBVIOUS
    <3> DEFINE w == second % SecondMod
    <3>1. w \in Seconds /\ (w + 0) % SecondMod = w
      BY LowBits, NoSecond
    <3>2. mail' = second /\ CountSecond(w)
      BY <2>1
    <3> HIDE DEF w
    <3>3. Exchange' /\ mail = None /\ answer = None
      BY <1>1, <1>2, <2>1 DEF Asking, Exchange
    <3>4. ~begun
      BY <1>1, <3>3 DEF Timed, Exchange
    <3>5. begun' = Begins
      BY <2>1, <3>3, <3>4 DEF Clock, Pulses, Begins
    <3>6. due' = (w + Counter!One(begun')) % SecondMod
      BY <3>1, <3>2, <3>5 DEF CountSecond, Counter!One
    <3> QED BY <3>1, <3>2, <3>6 DEF OnTime, w
  <2>4. basis' = "epoch" /\ pc' \in Loading => OnTime(answer)'
    <3> SUFFICES ASSUME basis' = "epoch", pc' \in Loading PROVE OnTime(answer)'
      OBVIOUS
    <3>1. pc \in Loading /\ answer' = answer /\ basis = "epoch" /\ answer # None
      BY <1>1, <2>1 DEF driver, Accesses
    <3>2. CountSecond(due) /\ OnTime(answer)
      BY <1>1, <1>7, <3>1, AnsweredOnce DEF Timed
    <3>3. Exchange /\ Exchange'
      BY <1>4, <2>1, <2>2
    <3> QED BY <2>1, <3>1, <3>2, <3>3, OneSecondAtMost DEF OnTime
  <2> QED BY <1>4, <2>1, <2>2, <2>3, <2>4 DEF Timed
<1> QED BY <1>3, <1>6, <1>7, NextCases

----------------------------------------------------------------------------
(* The counter against the second due                                      *)

LEMMA LagIsAhead ==
  ASSUME Typed
  PROVE  Counter!InFlight \in 0 .. 1 /\ Lag = Ahead(due, cnt, Counter!InFlight)
<1>1. Counter!InFlight \in 0 .. 1
  BY DEF Counter!InFlight, Counter!One
<1> QED BY <1>1, AheadIsRemainder DEF Lag, Typed

LEMMA LagIsAheadNext ==
  ASSUME Typed'
  PROVE  Counter!InFlight' \in 0 .. 1 /\ Lag' = Ahead(due', cnt', Counter!InFlight')
<1>1. Counter!InFlight' \in 0 .. 1
  BY DEF Counter!InFlight, Counter!One
<1> QED BY <1>1, AheadIsRemainder DEF Lag, Typed

(* An edge that loads nothing leaves the lag as it is.                     *)
LEMMA LagStands ==
  ASSUME IInv, Next, Clock, CountSecond(due), pc \notin {"unload_read", "unload_write"}
  PROVE  Lag' = Lag
<1> DEFINE x == Counter!One(onepps_r_1 /\ ~onepps_r_2)
           y == Counter!One(onepps_r_2 /\ ~onepps_r_3)
           n == Counter!One(onepps_in /\ ~onepps_r_1)
<1>1. x \in 0 .. 1 /\ y \in 0 .. 1 /\ n \in 0 .. 1 /\ x + y <= 1 /\ n + x <= 1
  BY DEF IInv, Typed, Counter!One
<1>2. /\ onepps_r_1' = onepps_in /\ onepps_r_2' = onepps_r_1
      /\ onepps_r_3' = onepps_r_2
      /\ cnt' = IF onepps_r_2 /\ ~onepps_r_3 THEN (cnt + 1) % SecondMod ELSE cnt
  BY CounterStep DEF IInv, Clock
<1>3. Counter!InFlight = x + y /\ Counter!InFlight' = n + x
  BY <1>2 DEF Counter!InFlight
<1>4. due \in Seconds /\ cnt \in Seconds
  BY DEF IInv, Typed
<1>5. cnt' = (cnt + y) % SecondMod
  BY <1>2, <1>4, NoSecond DEF Counter!One
<1>6. due' = (due + n) % SecondMod
  BY <1>4, NoSecond DEF CountSecond, Begins, Counter!One
<1> HIDE DEF x, y, n
<1>7. /\ cnt' = IF cnt + y < SecondMod THEN cnt + y ELSE 0
      /\ due' = IF due + n < SecondMod THEN due + n ELSE 0
  BY <1>1, <1>4, <1>5, <1>6, NextSecond
<1>8. Ahead(due', cnt', n + x) = Ahead(due, cnt, x + y)
  BY <1>1, <1>4, <1>7, SecondModAssumption DEF Ahead, Seconds
<1>9. Typed /\ Typed'
  BY TypedStep DEF IInv
<1> QED BY <1>3, <1>8, <1>9, LagIsAhead, LagIsAheadNext

(* The edge at which load falls takes the answer, and what began since it  *)
(* was given is in the synchroniser or is the second it is late.           *)
LEMMA LagOfALoad ==
  ASSUME IInv, Next, Clock, CountSecond(due), pc = "unload_write", basis = "epoch"
  PROVE  Lag' \in {0, 1}
<1> DEFINE b == begun \/ Begins
           p == Counter!InFlight'
<1>1. Typed /\ Accesses /\ Timed /\ Typed'
  BY TypedStep DEF IInv
<1>2. cnt' = answer /\ answer \in Seconds
  BY <1>1, CounterStep DEF Clock, Accesses, Typed, Loading
<1>3. due = (answer + Counter!One(begun)) % SecondMod
  BY <1>1 DEF Timed, OnTime, Loading
<1>4. Exchange /\ ~(begun /\ Begins)
  BY <1>1 DEF Exchange, Loaded, Accesses, Loading, Timed, Begins
<1>5. p \in 0 .. 1
  BY <1>1, LagIsAheadNext
<1>6. CASE b
  <2>1. due' = (answer + 1) % SecondMod
    <3>1. CASE Begins
      <4>1. due = answer
        BY <1>2, <1>3, <1>4, <3>1, NoSecond DEF Counter!One
      <4> QED BY <3>1, <4>1 DEF CountSecond
    <3>2. CASE ~Begins
      BY <1>3, <1>6, <3>2 DEF CountSecond, Counter!One
    <3> QED BY <3>1, <3>2
  <2>2. due' = IF answer + 1 < SecondMod THEN answer + 1 ELSE 0
    BY <1>2, <2>1, NextSecond
  <2>3. Ahead(due', answer, p) \in {0, 1}
    <3> HIDE DEF p
    <3>1. answer \in Int /\ 0 <= answer /\ answer < SecondMod /\ p \in {0, 1}
      BY <1>2, <1>5, SecondModAssumption DEF Seconds
    <3>2. CASE answer + 1 < SecondMod
      BY <2>2, <3>1, <3>2, SecondModAssumption DEF Ahead
    <3>3. CASE ~(answer + 1 < SecondMod)
      BY <2>2, <3>1, <3>3, SecondModAssumption DEF Ahead
    <3> QED BY <3>2, <3>3
  <2> QED BY <1>1, <1>2, <2>3, LagIsAheadNext
<1>7. CASE ~b
  <2>1. due' = answer
    BY <1>2, <1>3, <1>7, NoSecond DEF CountSecond, Counter!One
  <2>2. (onepps_r_1' => onepps_r_2') /\ (onepps_r_2' => onepps_r_3')
    BY <1>1, <1>4, <1>7, CounterStep DEF Clock, Timed, Begins
  <2>3. p = 0
    BY <2>2 DEF Counter!InFlight, Counter!One
  <2>4. Ahead(due', answer, p) = 0
    BY <1>2, <2>1, <2>3, SecondModAssumption DEF Ahead, Seconds
  <2> QED BY <1>1, <1>2, <2>4, LagIsAheadNext
<1> QED BY <1>6, <1>7

LEMMA CountsFromTheAnswerStep == ASSUME IInv, Next PROVE CountsFromTheAnswer'
<1> SUFFICES ASSUME Loaded', basis' = "epoch" PROVE Lag' \in {0, 1}
  BY DEF CountsFromTheAnswer
<1>1. CASE Reboot /\ Pulses
  BY <1>1, Rebooted DEF Loaded
<1>2. CASE ~(Reboot /\ Pulses)
  <2>1. Typed /\ Accesses /\ Asking /\ CountsFromTheAnswer
    BY DEF IInv
  <2>2. \/ Passes /\ (Quiet \/ Moves)
        \/ \E second \in Words : Answered(second) /\ UNCHANGED <<driver, basis, stage>>
    <3>1. ~Accepts
      BY DEF Loaded, Accepts
    <3>2. Passes => Quiet \/ Moves
      BY <3>1, Outcomes DEF Passes
    <3>3. \A second \in Words : Answered(second) => UNCHANGED <<driver, basis, stage>>
      BY DEF Answered, HostAnswers, mainVars
    <3> QED BY <1>2, <3>2, <3>3, NextCases
  <2>3. answer' = answer /\ basis = "epoch" /\ answer # None
    BY <2>2 DEF Quiet, Moves, WriteTimestamp, ReadCtrl, WriteCtrl, driver, Loaded
  <2>4. Clock /\ CountSecond(due)
    BY <2>2, <2>3, AnsweredOnce DEF Passes, Answered
  <2>5. pc = "loop" \/ pc = "unload_write"
    <3>1. stage # "counter"
      BY <2>1, <2>3 DEF Asking, Unasked
    <3>2. CASE Moves
      BY <2>1, <3>1, <3>2, PcMoves DEF Loaded, Accesses
    <3>3. CASE UNCHANGED driver
      BY <2>1, <3>1, <3>3 DEF Loaded, driver, Accesses
    <3> QED BY <2>2, <3>2, <3>3 DEF Quiet
  <2>6. CASE pc = "loop"
    <3>1. Loaded /\ Lag \in {0, 1}
      BY <2>1, <2>3, <2>6 DEF Loaded, CountsFromTheAnswer
    <3> QED BY <2>4, <2>6, <3>1, LagStands
  <2>7. CASE pc = "unload_write"
    BY <2>3, <2>4, <2>7, LagOfALoad
  <2> QED BY <2>5, <2>6, <2>7
<1> QED BY <1>1, <1>2

----------------------------------------------------------------------------
(* The inductive invariant and what follows from it                        *)

LEMMA InitIInv == Init => IInv
<1> SUFFICES ASSUME Init PROVE IInv
  OBVIOUS
<1>1. 0 \in Seconds
  BY SecondModAssumption DEF Seconds
<1>2. Typed
  BY <1>1 DEF Init, InitDriver, Typed
<1>3. Accesses
  BY DEF Init, InitDriver, Accesses, Loading
<1>4. Asking
  BY DEF Init, InitDriver, Asking, Unasked
<1>5. ~Exchange
  BY DEF Init, InitDriver, Exchange
<1>6. Timed /\ CountsFromTheAnswer
  BY <1>5 DEF Init, InitDriver, Timed, Loading, CountsFromTheAnswer
<1> QED BY <1>2, <1>3, <1>4, <1>6 DEF IInv

LEMMA Stutter == IInv /\ UNCHANGED allVars => IInv'
<1> SUFFICES ASSUME IInv, UNCHANGED allVars PROVE IInv'
  OBVIOUS
<1> USE DEF allVars, vars, counter, driver, startupVars, mainVars, hostVars
<1>1. Exchange' = Exchange /\ Lag' = Lag /\ Loaded' = Loaded
  BY DEF Exchange, Loaded, Lag, Counter!InFlight, Counter!One
<1>2. Typed' /\ Accesses' /\ Asking'
  BY DEF IInv, Typed, Accesses, Asking
<1>3. Timed' /\ CountsFromTheAnswer'
  BY <1>1 DEF IInv, Timed, OnTime, CountsFromTheAnswer
<1> QED BY <1>2, <1>3 DEF IInv

THEOREM Invariance == Spec => []IInv
<1>1. IInv /\ [Next]_allVars => IInv'
  BY Stutter, TypedStep, AccessesStep, AskingStep, TimedStep, CountsFromTheAnswerStep
     DEF IInv
<1> QED BY InitIInv, <1>1, PTL DEF Spec

(* Once the answer to the board's own request is loaded (client.c, sync.c) *)
(* the counter of sync.vhd shows that answer and the seconds begun since   *)
(* it was given, or one less, over lost datagrams, a receiver that hangs,  *)
(* resets of the board and restarts of the host's script.                  *)
THEOREM AlwaysCountsFromTheAnswer == Spec => []CountsFromTheAnswer
<1>1. IInv => CountsFromTheAnswer
  BY DEF IInv
<1> QED BY <1>1, Invariance, PTL

(* While load is high the counter takes the whole accepted answer, never   *)
(* the register's old contents (sync_load_timestamp writes the register    *)
(* before it pulses the bit) and never a refused timestamp.                *)
THEOREM AlwaysLoadsTheAnswer == Spec => LoadsTheAnswer
<1>1. ASSUME IInv, Next, slv_reg0.load, answer' # None PROVE cnt' = answer
  <2>1. Accesses
    BY <1>1 DEF IInv
  <2>2. pc \in {"unload_read", "unload_write"}
    BY <1>1, <2>1 DEF Accesses
  <2>3. ~Reboot
    BY <1>1 DEF Reboot
  <2>4. Counter!Edge
    BY <1>1, <2>3 DEF Next, Clock
  <2> QED BY <1>1, <2>1, <2>2, <2>4, CounterStep DEF Accesses, Loading
<1>2. UNCHANGED allVars => UNCHANGED vars
  BY DEF allVars
<1>3. IInv /\ [Next]_allVars => [slv_reg0.load /\ answer' # None => cnt' = answer]_vars
  BY <1>1, <1>2
<1> QED BY <1>3, Invariance, PTL DEF Spec, LoadsTheAnswer


=============================================================================
