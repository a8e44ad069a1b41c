----------------------------- MODULE SpiMaster -----------------------------
(***************************************************************************)
(* hdl/axi_spi_3_wire_ctrl/spi_3_wire_master.vhd: the bit-level master of  *)
(* the three-wire bus that configures the ADC, with the device at the      *)
(* other end.  One step is one rising edge of clock; enable and the fields *)
(* it captures take any value at any edge.                                 *)
(*                                                                         *)
(* A bit is a pair of the word it belongs to and its place in it, so that  *)
(* what reaches the device can be compared with what was asked whatever    *)
(* the values of the bits.                                                 *)
(***************************************************************************)
EXTENDS Integers, Sequences

CONSTANTS slaves, cmd_width, d_width,  \* generics: 2, 16 and 8
          MaxDiv                       \* bound of clk_div: 3 in main.c

ASSUME WidthAssumption == /\ slaves \in Nat \ {0}
                          /\ cmd_width \in Nat \ {0} /\ d_width \in Nat \ {0}
                          /\ MaxDiv \in Nat

VARIABLES
  reset_n,                                                    \* input
  state, slave, clk_ratio, count, clk_toggles, assert_data,   \* registers
  rw_buffer, cmd_buffer, d_buffer, last_bit_rx,
  selected, sclk, sdio, busy, rx_data,                        \* outputs
  got, reply, seen,                                           \* the device
  asked                       \* history: the transaction and its SPI mode

control == <<slave, clk_ratio, last_bit_rx, rw_buffer>>
shifting == <<count, clk_toggles, assert_data, cmd_buffer, d_buffer, sclk>>
device == <<got, reply, seen>>
vars == <<reset_n, state, control, shifting, selected, sdio, busy, rx_data,
          device, asked>>

Bits(word, n) == [i \in 1 .. n |-> <<word, i>>]
Z == <<"Z", 0>>
Zero == <<"zero", 0>>
ShiftIn(buffer, bit) == Append(Tail(buffer), bit)

Transactions == [cmd : {"read", "write"}, data : {"data", "other"},
                 slave : 0 .. slaves - 1, cpol : BOOLEAN, cpha : BOOLEAN]
Nothing == [cmd |-> "none"]

toggles_per_word == (cmd_width + d_width) * 2
(* The first data bit comes after this toggle.                             *)
data_toggle == last_bit_rx - d_width * 2

(* The line is the master's, or the device's while it answers, or floats.  *)
line == IF sdio # Z THEN sdio ELSE IF reply # 0 THEN <<"reply", reply>> ELSE Z

----------------------------------------------------------------------------
(* The master                                                              *)

Divider(clk_div) ==
  LET ratio == IF clk_div = 0 THEN 1 ELSE clk_div
  IN clk_ratio' = ratio /\ count' = ratio

(* Seeded bug: the phase is inverted.                                      *)
Phase_Inverted(cpha) ==
  /\ assert_data' = cpha
  /\ last_bit_rx' = toggles_per_word + (IF cpha THEN 1 ELSE 0) - 1

Phase(cpha) ==
  /\ assert_data' = ~cpha
  /\ last_bit_rx' = toggles_per_word + (IF cpha THEN 1 ELSE 0) - 1

Capture(t, addr, clk_div) ==
  /\ slave' = IF addr < slaves THEN addr ELSE 0
  /\ Divider(clk_div)
  /\ Phase(t.cpha)
  /\ sclk' = t.cpol
  /\ rw_buffer' = (t.cmd = "write")
  /\ cmd_buffer' = Bits(t.cmd, cmd_width)
  /\ d_buffer' = Bits(t.data, d_width)
  /\ clk_toggles' = 0

(* State ready without enable.                                             *)
Ready == /\ state = "ready"
         /\ busy' = FALSE /\ selected' = {} /\ sdio' = Z
         /\ UNCHANGED <<state, control, shifting, rx_data, asked>>

(* State ready with enable: t.slave is the slave addr stands for.          *)
Start(t, addr, clk_div) ==
  /\ state = "ready"
  /\ t.slave = IF addr < slaves THEN addr ELSE 0
  /\ Capture(t, addr, clk_div)
  /\ state' = "execute"
  /\ busy' = TRUE /\ selected' = {} /\ sdio' = Z
  /\ asked' = t
  /\ UNCHANGED rx_data

(* Seeded bug: the divider stands still once the device is selected.       *)
Divide_Stuck == count' = IF selected = {} THEN count + 1 ELSE count

Divide == count' = count + 1

(* State execute between two toggles.                                      *)
Wait == /\ state = "execute" /\ count # clk_ratio
        /\ Divide
        /\ selected' = {slave} /\ busy' = TRUE
        /\ UNCHANGED <<state, control, clk_toggles, assert_data, cmd_buffer,
                       d_buffer, sclk, sdio, rx_data, asked>>

sending_cmd == assert_data /\ clk_toggles < data_toggle
in_data == clk_toggles > data_toggle

(* Seeded bug: the line is not released for the answer.                    *)
releasing_Late == assert_data /\ ~rw_buffer /\ clk_toggles > data_toggle + 2

releasing == assert_data /\ ~rw_buffer /\ in_data

sending_data == assert_data /\ rw_buffer /\ in_data
receiving == ~assert_data /\ clk_toggles < last_bit_rx + 1 /\ ~rw_buffer /\ in_data

(* Seeded bug: the toggle that deselects the device is not counted.        *)
last_toggle_Early == clk_toggles = toggles_per_word

last_toggle == clk_toggles = toggles_per_word + 1

(* Seeded bug: the clock is gated without looking at the slave select.     *)
sclk_toggles_Early == clk_toggles < toggles_per_word + 1

sclk_toggles == clk_toggles < toggles_per_word + 1 /\ selected = {slave}

(* State execute at the clock ratio.                                       *)
Toggle ==
  /\ state = "execute" /\ count = clk_ratio
  /\ count' = 1
  /\ assert_data' = ~assert_data
  /\ clk_toggles' = clk_toggles + 1
  /\ sclk' = IF sclk_toggles THEN ~sclk ELSE sclk
  /\ cmd_buffer' = IF sending_cmd THEN ShiftIn(cmd_buffer, Zero) ELSE cmd_buffer
  /\ d_buffer' = IF sending_data THEN ShiftIn(d_buffer, Zero)
                 ELSE IF receiving THEN ShiftIn(d_buffer, line)
                 ELSE d_buffer
  /\ sdio' = IF last_toggle \/ releasing THEN Z
             ELSE IF sending_cmd THEN Head(cmd_buffer)
             ELSE IF sending_data THEN Head(d_buffer)
             ELSE sdio
  /\ rx_data' = IF last_toggle /\ ~rw_buffer THEN d_buffer ELSE rx_data
  /\ state' = IF last_toggle THEN "ready" ELSE "execute"
  /\ busy' = ~last_toggle
  /\ selected' = IF last_toggle THEN {} ELSE {slave}
  /\ UNCHANGED <<control, asked>>

(* The asynchronous reset: it acts when it falls and as long as it is low. *)
Reset == /\ busy' = TRUE /\ selected' = {} /\ sdio' = Z
         /\ rx_data' = Bits("zero", d_width)
         /\ state' = "ready"
         /\ UNCHANGED <<control, shifting, asked>>

----------------------------------------------------------------------------
(* The device: selected by its line, it samples on the edge its mode asks  *)
(* for, drives on the other one, and acts when it is deselected.           *)

edge == selected # {} /\ sclk' # sclk
leading == sclk = asked.cpol
sample_edge == edge /\ leading # asked.cpha
shift_edge == edge /\ leading = asked.cpha

answering == got # <<>> /\ got[1] = <<"read", 1>> /\ Len(got) = cmd_width

DeviceStep ==
  /\ got' = IF selected = {} /\ selected' # {} THEN <<>>
            ELSE IF sample_edge /\ ~answering THEN Append(got, line)
            ELSE got
  /\ reply' = IF selected' = {} THEN 0
              ELSE IF shift_edge /\ answering
                THEN (reply + 1) % (d_width + 1)
              ELSE reply
  /\ seen' = IF selected # {} /\ selected' = {}
             THEN [device |-> slave, bits |-> got] ELSE seen

----------------------------------------------------------------------------
Init == /\ reset_n = FALSE
        /\ state = "ready" /\ busy = TRUE /\ selected = {} /\ sdio = Z
        /\ rx_data = Bits("zero", d_width)
        /\ slave = 0 /\ clk_ratio = 0 /\ count = 0 /\ clk_toggles = 0
        /\ assert_data = FALSE /\ rw_buffer = FALSE /\ last_bit_rx = 0
        /\ cmd_buffer = Bits("zero", cmd_width)
        /\ d_buffer = Bits("zero", d_width)
        /\ sclk = FALSE
        /\ got = <<>> /\ reply = 0 /\ seen = [device |-> 0, bits |-> <<>>]
        /\ asked = Nothing

Clock == \/ Ready
         \/ \E t \in Transactions, addr \in 0 .. slaves, clk_div \in 0 .. MaxDiv :
              Start(t, addr, clk_div)
         \/ Wait
         \/ Toggle

Next == /\ reset_n' \in BOOLEAN
        /\ \/ ~(reset_n /\ reset_n') /\ Reset
           \/ reset_n /\ reset_n' /\ Clock
        /\ DeviceStep

Spec == Init /\ [][Next]_vars
(* The clock ticks; nobody has to ask for a transaction or to reset.       *)
Tick == reset_n /\ reset_n' = TRUE /\ (Ready \/ Wait \/ Toggle) /\ DeviceStep
FairSpec == Spec /\ WF_vars(Tick)

----------------------------------------------------------------------------
(* Properties                                                              *)

Wire(t) == IF t.cmd = "read" THEN Bits(t.cmd, cmd_width)
           ELSE Bits(t.cmd, cmd_width) \o Bits(t.data, d_width)

Transfer == INSTANCE SpiTransfer WITH
              Device <- LAMBDA t : t.slave,
              IsRead <- LAMBDA t : t.cmd = "read",
              Answer <- LAMBDA t : Bits("reply", d_width),
              NoBits <- Bits("zero", d_width),
              active <- IF state = "execute" THEN asked ELSE Nothing,
              rx <- rx_data

(* In each of the four SPI modes, at every clock divider, the device       *)
(* receives exactly the captured command and data and the master exactly   *)
(* the device's answer; a reset cuts a transaction at a bit.               *)
TransferSpec == Transfer!Spec

(* The two ends never drive the shared line at the same time.              *)
NoContention == ~(sdio # Z /\ reply # 0)

(* The line does not change at an edge at which its reader samples it.     *)
StableWhenSampled == [][sample_edge => line' = line]_vars

(* A transaction takes an edge for the first toggle and a period of the    *)
(* divider for each other one, as busy shows, and its answer comes with    *)
(* the last: 148 edges for 24 bits and the divider 3, which SpiDriver      *)
(* takes for granted.                                                      *)
edges_left ==
  IF state = "execute"
    THEN ((toggles_per_word + 1) - clk_toggles) * clk_ratio + (clk_ratio - count) + 1
  ELSE 0

TakesItsTime ==
  [][ reset_n /\ reset_n' =>
        /\ busy' <=> edges_left' > 0
        /\ edges_left > 0 => edges_left' = edges_left - 1
        /\ edges_left = 0 /\ edges_left' > 0 =>
             edges_left' = (toggles_per_word + 1) * clk_ratio' + 1
        /\ rx_data' # rx_data => edges_left = 1
    ]_vars

(* A transaction comes to its end, also with a divider of zero, and busy   *)
(* falls: the driver's wait in spi_ctrl_read ends.                         *)
BusyEnds == (<>[]reset_n) => (state = "execute" ~> ~busy)
=============================================================================
