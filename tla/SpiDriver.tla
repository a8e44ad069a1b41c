----------------------------- MODULE SpiDriver -----------------------------
(***************************************************************************)
(* sw/spi_3_wire_ctrl.c over the registers of axi_spi_3_wire_ctrl: what    *)
(* becomes of the transactions software asks for.  One step is one rising  *)
(* edge of the bus clock.  The driver is a script of register accesses,    *)
(* one at a time, each of which takes effect at its last edge; the master  *)
(* behind the registers is busy for TransferEdges edges (SpiMaster).       *)
(***************************************************************************)
EXTENDS Naturals, Sequences

CONSTANTS
  TransferEdges,     \* edges of a transaction: 148 for 24 bits and divider 3
  Fastest, Slowest,  \* edges of a register access
  Addresses, Datas,  \* ADC registers and values
  MaxCalls           \* bound on the calls of a behaviour

ASSUME TimeAssumption == /\ TransferEdges \in Nat \ {0}
                         /\ Fastest \in 3 .. Slowest /\ Slowest \in Nat

VARIABLES
  ctrl, command, txdata, addr, clk_div,   \* registers 0, 1, 3, 4, 5
  spi_enable,                             \* the enable pulse
  remaining, transaction, spi_rx_data,    \* master: edges left, captured, read
  script, elapsed, temp, result,          \* driver
  calls, request                          \* calls so far; the last one

registers == <<ctrl, command, txdata, addr, clk_div>>
master == <<remaining, transaction, spi_rx_data>>
driverVars == <<registers, spi_enable, master, script, elapsed, temp,
                result, calls, request>>

NoTransaction == [op |-> "none"]

----------------------------------------------------------------------------
(* The calls as scripts of accesses                                        *)

Store(reg, value) == <<[op |-> "store", reg |-> reg, value |-> value]>>

Modify(reg, bit, value) == <<[op |-> "load", reg |-> reg],
                             [op |-> "save", reg |-> reg, bit |-> bit, value |-> value]>>

(* The two bits of the command that give the length of the data.           *)
Width(dwidth) ==
  LET w == [w \in {8, 16, 24, 32} |-> <<w \in {24, 32}, w \in {16, 32}>>][dwidth]
  IN  Modify("command", "w1", w[1]) \o Modify("command", "w0", w[2])

Enable == Modify("ctrl", "enable", TRUE)

spi_ctrl_set_cpol(value) == Modify("ctrl", "cpol", value)

spi_ctrl_initialize(slave, div) ==
  spi_ctrl_set_cpol(TRUE) \o Modify("ctrl", "cpha", TRUE)
  \o Store("addr", slave) \o <<[op |-> "get_addr"]>>
  \o Modify("ctrl", "rst", FALSE) \o Store("clk_div", div)

spi_ctrl_set_command(c) ==
  Store("command", [address |-> c, rnw |-> FALSE, w1 |-> FALSE, w0 |-> FALSE])

(* Seeded bug: the transaction starts before its data is in the register.  *)
spi_ctrl_write_EnableFirst(d, dwidth) ==
  Modify("command", "rnw", FALSE) \o Width(dwidth) \o Enable \o Store("txdata", d)

spi_ctrl_write(d, dwidth) ==
  Store("txdata", d) \o Modify("command", "rnw", FALSE) \o Width(dwidth) \o Enable

spi_ctrl_read(dwidth) ==
  Modify("command", "rnw", TRUE) \o Width(dwidth) \o Enable
  \o <<[op |-> "get_busy"], [op |-> "fetch"]>>

----------------------------------------------------------------------------
(* The register wrapper and the master                                     *)

(* Seeded bug: the stored enable bit is read back, not the pulse.          *)
spi_reg0_Stored == [ctrl EXCEPT !.busy = remaining > 0]

(* Bits 1 and 2 of the control register read as the pulse and as busy.     *)
spi_reg0 == [ctrl EXCEPT !.enable = spi_enable, !.busy = remaining > 0]

ReadRegister(reg) == CASE reg = "ctrl" -> spi_reg0
                       [] reg = "command" -> command

WriteRegister(reg, value) ==
  /\ ctrl' = IF reg = "ctrl" THEN value ELSE ctrl
  /\ command' = IF reg = "command" THEN value ELSE command
  /\ txdata' = IF reg = "txdata" THEN value ELSE txdata
  /\ addr' = IF reg = "addr" THEN value ELSE addr
  /\ clk_div' = IF reg = "clk_div" THEN value ELSE clk_div
  /\ spi_enable' = (reg = "ctrl" /\ value.enable)

NoWrite == spi_enable' = FALSE /\ UNCHANGED registers

tx == [address |-> command.address, rw |-> ~command.rnw, data |-> txdata,
       mode |-> <<ctrl.cpol, ctrl.cpha>>, slave |-> addr, div |-> clk_div]

(* The master looks at enable only when it is ready.                       *)
starts == spi_enable /\ remaining = 0

Master ==
  /\ remaining' = IF remaining > 0 THEN remaining - 1
                  ELSE IF starts THEN TransferEdges ELSE 0
  /\ transaction' = IF starts THEN tx ELSE transaction
  /\ spi_rx_data' = IF remaining = 1 /\ ~transaction.rw
                      THEN transaction.address ELSE spi_rx_data

----------------------------------------------------------------------------
(* The driver                                                              *)

Do(access) ==
  \/ /\ access.op = "store"
     /\ WriteRegister(access.reg, access.value)
     /\ UNCHANGED <<temp, result>>
  \/ /\ access.op = "load"
     /\ temp' = ReadRegister(access.reg)
     /\ NoWrite /\ UNCHANGED result
  \/ /\ access.op = "save"
     /\ WriteRegister(access.reg, [temp EXCEPT ![access.bit] = access.value])
     /\ UNCHANGED <<temp, result>>
  \/ /\ access.op \in {"get_busy", "get_enable", "get_addr"}
     /\ NoWrite /\ UNCHANGED <<temp, result>>
  \/ /\ access.op = "fetch"
     /\ result' = spi_rx_data
     /\ NoWrite /\ UNCHANGED temp

(* Seeded bug: the wait ends while the master is busy.                     *)
Rest_NoLoop == Tail(script)

(* Seeded bug: or for and, with a complement that is never zero.           *)
Rest_Or == IF Head(script).op = "get_busy"
           THEN <<[op |-> "get_enable"]>> \o script
           ELSE Tail(script)

(* while (get_busy && ~get_enable): the complement of a bit is never zero, *)
(* so enable is read, for nothing, before busy is read again.              *)
Rest == IF Head(script).op = "get_busy" /\ spi_reg0.busy
        THEN <<[op |-> "get_enable"]>> \o script
        ELSE Tail(script)

Access == /\ script # <<>> /\ elapsed + 1 >= Fastest
          /\ Do(Head(script))
          /\ script' = Rest
          /\ elapsed' = 0
          /\ UNCHANGED <<calls, request>>

OnTheBus == /\ script # <<>> /\ elapsed + 1 < Slowest
            /\ elapsed' = elapsed + 1
            /\ NoWrite /\ UNCHANGED <<script, temp, result, calls, request>>

Idle == /\ script = <<>>
        /\ NoWrite
        /\ UNCHANGED <<script, elapsed, temp, result, calls, request>>

(* What a transaction of this call has to look like.                       *)
Ask(rw, d) ==
  request' = [request EXCEPT !.op = IF rw THEN "write" ELSE "read", !.data = d]

Call == /\ script = <<>> /\ calls < MaxCalls /\ calls' = calls + 1
        /\ \/ \E c \in Addresses :
                /\ script' = spi_ctrl_set_command(c)
                /\ request' = [request EXCEPT !.op = "none", !.address = c]
           \/ \E d \in Datas : script' = spi_ctrl_write(d, 8) /\ Ask(TRUE, d)
           \/ script' = spi_ctrl_read(8) /\ Ask(FALSE, txdata)
           \/ /\ script' = spi_ctrl_set_cpol(TRUE)
              /\ request' = [request EXCEPT !.op = "none"]
        /\ NoWrite /\ UNCHANGED <<elapsed, temp, result>>

DriverInit ==
  /\ ctrl = [rst |-> FALSE, enable |-> FALSE, busy |-> FALSE, cpol |-> FALSE,
             cpha |-> FALSE]
  /\ command = [address |-> 0, rnw |-> FALSE, w1 |-> FALSE, w0 |-> FALSE]
  /\ txdata = 0 /\ addr = 0 /\ clk_div = 0
  /\ spi_enable = FALSE
  /\ remaining = 0 /\ transaction = NoTransaction /\ spi_rx_data = 0
  /\ script = spi_ctrl_initialize(0, 3) /\ elapsed = 0 /\ temp = ctrl /\ result = 0
  /\ calls = 0 /\ request = [op |-> "none", address |-> 0, data |-> 0]

Driver == Access \/ OnTheBus \/ Call

DriverNext == Master /\ (Driver \/ Idle)

DriverSpec == DriverInit /\ [][DriverNext]_driverVars

(* The clock ticks, and a script once begun goes on.                       *)
DriverFairSpec == DriverSpec /\ WF_driverVars(DriverNext /\ script # <<>>)

----------------------------------------------------------------------------
(* Properties                                                              *)

(* A transaction that starts is the one the last call asked for: its       *)
(* command, direction and data together, in the mode and with the divider  *)
(* that were configured, and no other access to the control register       *)
(* starts one.                                                             *)
SentAsAsked ==
  [][ starts => /\ request.op # "none"
                /\ transaction' =
                      [address |-> request.address,
                       rw |-> request.op = "write", data |-> request.data,
                       mode |-> <<TRUE, TRUE>>, slave |-> 0, div |-> 3]
    ]_driverVars

(* "Do a write access to a SPI controller": every enable pulse meets a     *)
(* master that is ready to take it.                                        *)
EnableIsSeen == spi_enable => remaining = 0

(* spi_ctrl_read returns the answer to its own command: busy is up before  *)
(* the driver looks at it for the first time, and down only when the       *)
(* answer is in spi_rx_data.                                               *)
ReadReturnsItsAnswer ==
  request.op = "read" /\ script = <<>> => result = request.address

(* The wait of spi_ctrl_read ends.                                         *)
CallsReturn == []<>(script = <<>>)
=============================================================================
