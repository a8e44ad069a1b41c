------------------------------ MODULE Startup ------------------------------
(***************************************************************************)
(* How the back end gets its time: sw/main.c from its set-up to the loop   *)
(* that waits at the console, the UDP client, the timer interrupt, the     *)
(* network, and the host's script src/Matlab/udp_server.m.  One step is    *)
(* one rising edge of the bus clock, in which the counter of seconds and   *)
(* at most one actor moves.                                                *)
(*                                                                         *)
(*   main()      `stage` names the statements about to run                 *)
(*   interrupt   timer_callback, from scutimer_enable on                   *)
(*   network     external: one datagram to the host, one to the board;     *)
(*               each may get lost, none is duplicated                     *)
(*   host        the operator starts and stops the script, which answers   *)
(*               the first datagram it gets, with a reading of the host's  *)
(*               own clock, and records the rest                           *)
(*   PPS         comes from a generator of its own: neither its phase nor  *)
(*               its rate has to do with the host's clock                  *)
(*   board       may be reset at any moment and starts again               *)
(*                                                                         *)
(* Timing assumption, a guard of Pulses: at most one second begins while   *)
(* an answer is on its way to a board that polls and is being loaded.      *)
(***************************************************************************)
EXTENDS SyncDriver

CONSTANTS
  RESET_RX_CNTR_LIMIT,   \* timer interrupts between two looks at the receiver
  MaxStarts              \* bound: starts of the board and of the script

VARIABLES
  stage, pcb_client,           \* main(); the client is bound and listens
  seconds_recv, start_obs_flag,
  ResetRxCntr,                 \* of timer_callback, None if it never runs
  receiver,                    \* the MAC's receive path works
  request,                     \* datagram on its way to the host, or "none"
  host,                        \* the script
  asked, basis,                \* history: what the host took for the time
                               \* request, and so for the answer accepted
  starts,                      \* bounded count of both
  trouble,                     \* history: the console is not open yet and a
                               \* step failed or a datagram was lost
  begun                        \* history: a second began in the exchange

mainVars == <<stage, pcb_client, seconds_recv, start_obs_flag>>
networkVars == <<receiver, request, mail>>
hostVars == <<host, asked>>
startupVars == <<mainVars, ResetRxCntr, receiver, request, host, asked, basis,
                 starts, trouble>>
allVars == <<vars, startupVars, begun>>

Goto(from, to) == stage = from /\ stage' = to

Fails(failed) == trouble' = (~seconds_recv /\ (trouble \/ failed))

----------------------------------------------------------------------------
(* main()                                                                  *)

(* sync_set_rst(0), line 400.                                              *)
ReleaseCounter ==
  /\ stage = "counter"
  /\ ReadCtrl \/ WriteCtrl
  /\ stage' = IF pc' = "loop" THEN "interrupts" ELSE "counter"
  /\ UNCHANGED <<pcb_client, seconds_recv, start_obs_flag, trouble, request>>

(* GIC_Setup (414) and xemac_add (434) end the program if they fail; that  *)
(* the timer's set-up (412) or its interrupt's (418) failed nobody sees.   *)
Setup ==
  /\ \/ /\ Goto("interrupts", "interface")
        /\ ResetRxCntr' \in {0, None}
        /\ UNCHANGED trouble
     \/ /\ Goto("interface", "client")
        /\ UNCHANGED <<ResetRxCntr, trouble>>
     \/ /\ stage \in {"interrupts", "interface"} /\ stage' = "halted"
        /\ Fails(TRUE)
        /\ UNCHANGED ResetRxCntr
  /\ UNCHANGED <<pcb_client, seconds_recv, start_obs_flag, driver, mail, request, basis>>

(* The status of start_udp_client_app (454) is ignored. Whether udp_new,   *)
(* bind or connect failed, no callback is set and no datagram of this      *)
(* start reaches the host: one value stands for the three.                 *)
start_udp_client_app ==
  /\ Goto("client", "request")
  /\ pcb_client' \in BOOLEAN
  /\ Fails(~pcb_client')
  /\ UNCHANGED <<seconds_recv, start_obs_flag, driver, mail, request>>

(* The reference epoch is sent once (457); the status is ignored.          *)
RequestTime ==
  /\ Goto("request", "poll")
  /\ \/ pcb_client /\ request' = "epoch" /\ UNCHANGED trouble
     \/ UNCHANGED request /\ Fails(TRUE)
  /\ UNCHANGED <<pcb_client, seconds_recv, start_obs_flag, driver, mail>>

(* xemacif_input (484) hands one datagram, if any, to the callback, which  *)
(* sets seconds_recv whether the timestamp was accepted or refused.        *)
Poll ==
  /\ Goto("poll", "branch")
  /\ \/ /\ receiver /\ pcb_client
        /\ Receive
        /\ seconds_recv' = TRUE
        /\ basis' = IF Refused(mail) THEN basis ELSE asked
        /\ trouble' = FALSE
     \/ /\ mail = None \/ ~receiver \/ ~pcb_client
        /\ UNCHANGED <<driver, mail, seconds_recv, basis, trouble>>
  /\ UNCHANGED <<pcb_client, start_obs_flag, request>>

Access ==
  /\ stage = "branch"
  /\ WriteTimestamp \/ ReadCtrl \/ WriteCtrl
  /\ UNCHANGED <<mainVars, trouble, request>>

(* Seeded bug: the console does not wait for the time.                     *)
ConsoleReady_Always == TRUE

ConsoleReady == seconds_recv

(* The rest of the loop: a frame is sent or not, the last one ends the     *)
(* observation, an error of the DMA ends the program (486-527); or the     *)
(* console waits for a byte and nothing is polled (529-530).               *)
Branch ==
  /\ pc = "loop"
  /\ \/ /\ Goto("branch", "poll") /\ start_obs_flag
        /\ start_obs_flag' \in BOOLEAN
        /\ request' \in {"frame", request}
     \/ /\ Goto("branch", "returned") /\ start_obs_flag
        /\ UNCHANGED <<start_obs_flag, request>>
     \/ /\ Goto("branch", "poll") /\ ~start_obs_flag /\ ~ConsoleReady
        /\ UNCHANGED <<start_obs_flag, request>>
     \/ /\ Goto("branch", "console") /\ ~start_obs_flag /\ ConsoleReady
        /\ UNCHANGED <<start_obs_flag, request>>
  /\ UNCHANGED <<pcb_client, seconds_recv, trouble, driver, mail>>

(* A byte arrives; the last one of start_observation starts one.           *)
TypeByte ==
  /\ Goto("console", "poll")
  /\ start_obs_flag' \in BOOLEAN
  /\ UNCHANGED <<pcb_client, seconds_recv, trouble, request, driver, mail>>

Others == <<receiver, host, asked, starts>>

Board == /\ \/ Setup
            \/ Poll /\ UNCHANGED ResetRxCntr
            \/ /\ \/ ReleaseCounter \/ start_udp_client_app \/ RequestTime
                  \/ Access \/ Branch
               /\ UNCHANGED <<ResetRxCntr, basis>>
         /\ UNCHANGED Others

Operator == TypeByte /\ UNCHANGED <<Others, ResetRxCntr, basis>>

----------------------------------------------------------------------------
(* Interrupt                                                               *)

(* Also after main has returned from its loop: nothing stops the timer.    *)
TimerRuns == /\ stage \in {"client", "request", "poll", "branch", "console",
                           "returned"}
             /\ ResetRxCntr # None

(* Seeded bug: the interrupts are not counted.                             *)
Ticks_Never == ResetRxCntr

Ticks == ResetRxCntr + 1

(* lwIP's TCP timers have no connection to serve; every so often the       *)
(* receive path is looked at and reset if it is stuck, which loses what    *)
(* the MAC holds.                                                          *)
timer_callback ==
  /\ TimerRuns
  /\ \/ /\ Ticks >= RESET_RX_CNTR_LIMIT
        /\ ResetRxCntr' = 0 /\ receiver' = TRUE
        /\ mail' = IF receiver THEN mail ELSE None
     \/ /\ Ticks < RESET_RX_CNTR_LIMIT
        /\ ResetRxCntr' = Ticks
        /\ UNCHANGED <<receiver, mail>>
  /\ UNCHANGED <<mainVars, driver, request, hostVars, basis, starts, trouble>>

----------------------------------------------------------------------------
(* Network and host                                                        *)

InterfaceUp == stage \notin {"counter", "interrupts", "interface", "halted"}

(* The network, or the board before its interface is up, loses a datagram, *)
(* or the receiver hangs.                                                  *)
Loses ==
  /\ \/ /\ request # "none" /\ request' = "none"
        /\ Fails(request = "epoch")
        /\ UNCHANGED <<receiver, mail>>
     \/ /\ mail # None /\ mail' = None
        /\ Fails(TRUE)
        /\ UNCHANGED <<receiver, request>>
     \/ /\ receiver /\ InterfaceUp /\ receiver' = FALSE
        /\ Fails(TRUE)
        /\ UNCHANGED <<request, mail>>
  /\ UNCHANGED <<mainVars, ResetRxCntr, driver, hostVars, basis, starts>>

(* An answer is on its way to a board that polls, or is being loaded.      *)
Exchange == \/ mail # None /\ stage \notin {"console", "returned"}
            \/ answer # None /\ ~Loaded

(* The operator does not restart the script within a datagram's flight or  *)
(* while an answer is being loaded.                                        *)
RunScript ==
  /\ \/ /\ host = "stopped" /\ starts < MaxStarts
        /\ request = "none" /\ ~Exchange
        /\ host' = "waiting" /\ starts' = starts + 1
        /\ UNCHANGED trouble
     \/ /\ host # "stopped"
        /\ host' = "stopped" /\ Fails(host = "waiting")
        /\ UNCHANGED starts
  /\ UNCHANGED <<mainVars, ResetRxCntr, driver, networkVars, asked, basis>>

(* The first datagram is taken for a reference epoch, whatever it is, and  *)
(* answered with the whole seconds of the host's clock since that epoch:   *)
(* any word, as far as the board knows.                                    *)
HostAnswers(second) ==
  /\ host = "waiting" /\ host' = "recording" /\ InterfaceUp
  /\ request # "none" /\ request' = "none"
  /\ asked' = request /\ mail' = second
  /\ UNCHANGED <<mainVars, ResetRxCntr, driver, receiver, basis, starts, trouble>>

(* Later ones are recorded; an answer finds no board without an interface. *)
HostRecords ==
  /\ host # "stopped" /\ host' = "recording"
  /\ host = "recording" \/ ~InterfaceUp
  /\ request # "none" /\ request' = "none"
  /\ Fails(request = "epoch")
  /\ UNCHANGED <<mainVars, ResetRxCntr, driver, receiver, asked, mail, basis, starts>>

HostReads == HostRecords \/ \E second \in Words : HostAnswers(second)

----------------------------------------------------------------------------
(* A reset of the board: bit stream and program start again.               *)

Reboot ==
  /\ starts < MaxStarts /\ starts' = starts + 1
  /\ onepps_r_1' = TRUE /\ onepps_r_2' = TRUE /\ onepps_r_3' = FALSE /\ cnt' = 0
  /\ slv_reg0' = [rst |-> FALSE, load |-> FALSE] /\ slv_reg1' = 0
  /\ pc' = "rst_read" /\ temp' = slv_reg0' /\ answer' = None /\ mail' = None
  /\ stage' = "counter" /\ pcb_client' = FALSE
  /\ seconds_recv' = FALSE /\ start_obs_flag' = FALSE
  /\ ResetRxCntr' = 0 /\ receiver' = TRUE
  /\ basis' = "none" /\ due' = 0 /\ trouble' = FALSE
  /\ UNCHANGED <<request, hostVars>>

Init == /\ onepps_in = FALSE /\ due = 0
        /\ onepps_r_1 = TRUE /\ onepps_r_2 = TRUE /\ onepps_r_3 = FALSE /\ cnt = 0
        /\ InitDriver /\ mail = None
        /\ stage = "counter" /\ pcb_client = FALSE
        /\ seconds_recv = FALSE /\ start_obs_flag = FALSE
        /\ ResetRxCntr = 0 /\ receiver = TRUE
        /\ basis = "none" /\ trouble = FALSE
        /\ request = "none" /\ host = "stopped" /\ asked = "none" /\ begun = FALSE
        /\ starts = 1

----------------------------------------------------------------------------
Wait == UNCHANGED <<startupVars, driver, mail>>

Pulses == /\ onepps_in' \in BOOLEAN
          /\ begun' = (Exchange' /\ (begun \/ Begins))
          /\ Exchange' /\ begun' /\ onepps_in' => onepps_in

Clock == Counter!Edge /\ Pulses

Step == Board \/ Operator \/ timer_callback \/ Loses \/ RunScript \/ HostRecords \/ Wait

Next == \/ Step /\ Clock /\ CountSecond(due)
        \/ \E second \in Words :
             /\ HostAnswers(second) /\ Clock
             /\ CountSecond(IF request = "epoch" THEN second % SecondMod ELSE due)
        \/ Reboot /\ Pulses

Spec == Init /\ [][Next]_allVars

(* The processor executes, the timer runs, a datagram arrives or is lost;  *)
(* operator, resets and hangs promise nothing.                             *)
FairSpec == /\ Spec
            /\ WF_<<stage, pc>>(Board)
            /\ WF_ResetRxCntr(timer_callback)
            /\ WF_request(HostReads \/ Loses)

----------------------------------------------------------------------------
(* Properties                                                              *)

(* Once an answer to the board's own request is loaded, and as long as no  *)
(* other answer is accepted, the counter shows that answer and the seconds *)
(* begun since it was given, or one less, over lost datagrams, a receiver  *)
(* that hangs, resets of the board and restarts of the script: a pulse     *)
(* detected while load is high is lost, and it is the only one that ever   *)
(* is. What time the answer itself tells is the host's affair.             *)
CountsFromTheAnswer == Loaded /\ basis = "epoch" => Lag \in {0, 1}

(* Every start of the board opens the console unless a step of the one     *)
(* exchange failed: nothing retries it, and nothing else can block it.     *)
ConsoleOpens == stage = "counter" ~> (seconds_recv \/ trouble)

(* A receiver that hangs works again, also while the main loop is stuck in *)
(* the console's blocking read, if the timer's set-up succeeded.           *)
ReceiverRecovers == ~receiver ~> (receiver \/ ResetRxCntr = None)
=============================================================================
