---------------------------- MODULE SpiTransfer ----------------------------
(***************************************************************************)
(* What the SPI master promises: a transaction hands the addressed device  *)
(* the command and the data that were captured when it started, bit for    *)
(* bit, or brings back the bits the device answers with.                   *)
(***************************************************************************)
EXTENDS Naturals, Sequences

CONSTANTS Transactions, \* what may be asked
          Device(_),    \* the device a transaction addresses
          Wire(_),      \* the bits the device receives in it
          IsRead(_),    \* the device answers
          Answer(_),    \* the bits it answers with
          Nothing, NoBits

VARIABLES active, \* the transaction that runs, or Nothing
          seen,   \* the device last addressed and the bits it received
          rx      \* the bits of the last answer

vars == <<active, seen, rx>>

Init == active = Nothing /\ seen = [device |-> 0, bits |-> <<>>] /\ rx = NoBits

Start(t) == /\ active = Nothing
            /\ active' = t
            /\ UNCHANGED <<seen, rx>>

Finish == /\ active # Nothing
          /\ active' = Nothing
          /\ seen' = [device |-> Device(active), bits |-> Wire(active)]
          /\ rx' = IF IsRead(active) THEN Answer(active) ELSE rx

(* A reset cuts the transaction: the device has seen a prefix of it.       *)
Cut(t) == {[device |-> Device(t), bits |-> SubSeq(Wire(t), 1, n)] :
             n \in 0 .. Len(Wire(t))}

Reset == /\ active' = Nothing
         /\ rx' = NoBits
         /\ seen' \in {seen} \cup (IF active = Nothing THEN {} ELSE Cut(active))

Next == Finish \/ Reset \/ \E t \in Transactions : Start(t)

Spec == Init /\ [][Next]_vars
=============================================================================
