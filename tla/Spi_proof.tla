------------------------------ MODULE Spi_proof ------------------------------
(***************************************************************************)
(* The SPI master, for every width of command and data, every number of    *)
(* devices, every divider and the four SPI modes: the device receives the  *)
(* captured bits, the master the device's answer, a reader samples a line  *)
(* that stands still, and the two ends never drive it together.            *)
(*                                                                         *)
(* The argument counts the two kinds of toggles.  The master drives a bit  *)
(* or releases the line where assert_data is high, the reader samples      *)
(* where it is low, and the first toggle of a transaction, which only      *)
(* selects the device, is of the one kind in two modes and of the other    *)
(* kind in the other two.                                                  *)
(*                                                                         *)
(* Then the driver over it, for any addresses, data, calls and times: each *)
(* transaction is the one its call asked for; and where eight register     *)
(* accesses take no less than a transaction, each enable pulse meets a     *)
(* master that is ready and a read returns its own answer.                 *)
(***************************************************************************)
EXTENDS SpiMaster, SpiDriver, SequenceTheorems, TLAPS

Names == {"read", "write", "data", "other", "zero", "reply", "Z"}
AnyBits == Names \X Nat

Phases == IF asked.cpha THEN 1 ELSE 0

(* Toggles of each kind since the start of the transaction; where the      *)
(* first one is of the sampling kind it does not count.                    *)
Driven == (clk_toggles + 1 - Phases) \div 2
Sampled == (clk_toggles + 2 - Phases) \div 2 - 1

IsWrite == asked.cmd = "write"

(* Bit i of what the device receives in a write.                           *)
WireBit(i) == IF i <= cmd_width THEN <<asked.cmd, i>>
              ELSE <<asked.data, i - cmd_width>>

(* Data bits among n bits.                                                 *)
Data(n) == IF n > cmd_width THEN n - cmd_width ELSE 0

----------------------------------------------------------------------------
(* The inductive invariant                                                 *)

Typed ==
  /\ state \in {"ready", "execute"}
  /\ sclk \in BOOLEAN /\ assert_data \in BOOLEAN /\ reply \in 0 .. d_width
  /\ got \in Seq(AnyBits) /\ sdio \in AnyBits
  /\ state = "ready" => selected = {} /\ sdio = Z
  /\ selected = {} => reply = 0

(* The transaction that runs, and where its toggles have got to.           *)
Captured ==
  /\ asked \in Transactions /\ slave = asked.slave
  /\ rw_buffer <=> IsWrite
  /\ last_bit_rx = toggles_per_word + Phases - 1
  /\ clk_toggles \in 0 .. toggles_per_word + 1
  /\ assert_data <=> Driven = Sampled

(* The device is selected at the first toggle, which leaves the clock      *)
(* alone: from there on the master drives away from the edges that sample. *)
Gated ==
  /\ clk_toggles = 0 => count = clk_ratio /\ selected = {} /\ sclk = asked.cpol
  /\ clk_toggles > 0 => /\ selected = {slave}
                        /\ sclk = asked.cpol <=> (assert_data <=> asked.cpha)

(* What is left in the buffers, and the bit on the line.                   *)
Drives ==
  /\ cmd_buffer \in Seq(AnyBits) /\ Len(cmd_buffer) = cmd_width
  /\ d_buffer \in Seq(AnyBits) /\ Len(d_buffer) = d_width
  /\ \A i \in 1 .. cmd_width :
       i + Driven <= cmd_width => cmd_buffer[i] = <<asked.cmd, i + Driven>>
  /\ IsWrite => \A i \in 1 .. d_width :
       i + Data(Driven) <= d_width => d_buffer[i] = <<asked.data, i + Data(Driven)>>
  /\ Driven = 0 => sdio = Z
  /\ Driven > cmd_width /\ ~IsWrite => sdio = Z
  /\ Driven \in 1 .. cmd_width + d_width /\ (Driven <= cmd_width \/ IsWrite) =>
       sdio = WireBit(Driven)

(* What has reached the device and what has come back.                     *)
Receives ==
  clk_toggles > 0 =>
    /\ Len(got) = IF IsWrite \/ Sampled <= cmd_width THEN Sampled ELSE cmd_width
    /\ \A i \in 1 .. Len(got) : got[i] = WireBit(i)
    /\ reply = IF IsWrite \/ Driven > cmd_width + d_width THEN 0 ELSE Data(Driven)
    /\ ~IsWrite => \A i \in 1 .. d_width :
         i + Data(Sampled) > d_width =>
           d_buffer[i] = <<"reply", (i + Data(Sampled)) - d_width>>

IInv == /\ Typed
        /\ state = "execute" => Captured /\ Gated /\ Drives /\ Receives

----------------------------------------------------------------------------
(* Numbers and sequences                                                   *)

LEMMA Widths ==
  /\ cmd_width \in Nat /\ cmd_width > 0 /\ d_width \in Nat /\ d_width > 0
  /\ toggles_per_word = 2 * (cmd_width + d_width) /\ toggles_per_word \in Nat
BY WidthAssumption DEF toggles_per_word

(* The counts of the toggles, and how one more toggle moves them.          *)
LEMMA Halves ==
  ASSUME NEW k \in Nat, NEW h \in 0 .. 1
  PROVE  LET D(n) == (n + 1 - h) \div 2
             S(n) == (n + 2 - h) \div 2 - 1
         IN  /\ D(k) \in Nat /\ S(k) \in Int /\ k = D(k) + S(k) + h
             /\ D(k) = S(k) \/ D(k) = S(k) + 1
             /\ D(k) = S(k) => D(k + 1) = D(k) + 1 /\ S(k + 1) = S(k)
             /\ D(k) # S(k) => D(k + 1) = D(k) /\ S(k + 1) = S(k) + 1
BY Z3

LEMMA Wraps ==
  ASSUME NEW n \in Nat \ {0}
  PROVE  n % n = 0 /\ \A i \in 0 .. n - 1 : i % n = i
BY Z3

LEMMA Shifted ==
  ASSUME NEW q \in Seq(AnyBits), NEW b \in AnyBits, Len(q) > 0
  PROVE  /\ ShiftIn(q, b) \in Seq(AnyBits) /\ Len(ShiftIn(q, b)) = Len(q)
         /\ \A i \in 1 .. Len(q) - 1 : ShiftIn(q, b)[i] = q[i + 1]
         /\ ShiftIn(q, b)[Len(q)] = b
         /\ Head(q) = q[1]
<1>1. q # <<>> /\ Len(q) \in Nat
  BY LenProperties, EmptySeq
<1>2. /\ Tail(q) \in Seq(AnyBits) /\ Len(Tail(q)) = Len(q) - 1
      /\ \A i \in 1 .. Len(q) - 1 : Tail(q)[i] = q[i + 1]
  BY <1>1, HeadTailProperties
<1> QED BY <1>1, <1>2, AppendProperties DEF ShiftIn

LEMMA AnyBit == \A w \in Names, i \in Nat : <<w, i>> \in AnyBits
BY Zenon DEF AnyBits

LEMMA BitsOf ==
  ASSUME NEW w \in Names, NEW n \in Nat
  PROVE  /\ Bits(w, n) \in Seq(AnyBits) /\ Len(Bits(w, n)) = n
         /\ \A i \in 1 .. n : Bits(w, n)[i] = <<w, i>>
<1>1. ASSUME NEW i \in 1 .. n PROVE <<w, i>> \in AnyBits
  <2>1. i \in Nat
    OBVIOUS
  <2> QED BY <2>1, AnyBit, Zenon
<1>2. Bits(w, n) \in [1 .. n -> AnyBits]
  BY <1>1 DEF Bits
<1>3. Bits(w, n) \in Seq(AnyBits)
  BY <1>2, SeqDef
<1>4. Len(Bits(w, n)) = n
  BY <1>2, <1>3
<1> QED BY <1>3, <1>4 DEF Bits

LEMMA NoBit == Z \in AnyBits /\ Zero \in AnyBits
<1>1. "Z" \in Names /\ "zero" \in Names /\ 0 \in Nat
  BY DEF Names
<1> QED BY <1>1, AnyBit, Zenon DEF Z, Zero

----------------------------------------------------------------------------
(* A transaction, toggle by toggle                                         *)

LEMMA Counted ==
  ASSUME clk_toggles \in Nat
  PROVE  /\ Phases \in 0 .. 1 /\ Driven \in Nat /\ Sampled \in Int
         /\ clk_toggles = Driven + Sampled + Phases
         /\ Driven = Sampled \/ Driven = Sampled + 1
<1>1. Phases \in 0 .. 1
  BY DEF Phases
<1> QED BY <1>1, Halves DEF Driven, Sampled

LEMMA CountedNext ==
  ASSUME clk_toggles \in Nat, clk_toggles' = clk_toggles + 1, asked' = asked
  PROVE  /\ Phases' = Phases
         /\ Driven = Sampled => Driven' = Driven + 1 /\ Sampled' = Sampled
         /\ Driven # Sampled => Driven' = Driven /\ Sampled' = Sampled + 1
<1>1. Phases \in 0 .. 1 /\ Phases' = Phases
  BY DEF Phases
<1> QED BY <1>1, Halves DEF Driven, Sampled

(* What the asked-for transaction is.                                      *)
LEMMA Asked ==
  ASSUME asked \in Transactions
  PROVE  /\ asked.cmd \in {"read", "write"} /\ asked.data \in {"data", "other"}
         /\ asked.cpol \in BOOLEAN /\ asked.cpha \in BOOLEAN
         /\ asked.slave \in 0 .. slaves - 1
         /\ asked # Nothing
         /\ \A i \in Nat \ {0} : WireBit(i) \in AnyBits /\ WireBit(i) # Z
         /\ ~IsWrite => asked.cmd = "read"
<1>1. /\ asked.cmd \in {"read", "write"} /\ asked.data \in {"data", "other"}
      /\ asked.cpol \in BOOLEAN /\ asked.cpha \in BOOLEAN
      /\ asked.slave \in 0 .. slaves - 1
  BY DEF Transactions
<1>2. asked # Nothing
  BY <1>1 DEF Nothing
<1>3. ASSUME NEW i \in Nat \ {0} PROVE WireBit(i) \in AnyBits /\ WireBit(i) # Z
  <2>1. asked.cmd \in Names /\ asked.data \in Names
    BY <1>1 DEF Names
  <2>2. i \in Nat /\ (~(i <= cmd_width) => i - cmd_width \in Nat)
    BY Widths
  <2>3. WireBit(i) = <<asked.cmd, i>> \/ (WireBit(i) = <<asked.data, i - cmd_width>> /\ ~(i <= cmd_width))
    BY DEF WireBit
  <2>4. <<asked.cmd, i>> # Z /\ <<asked.data, i - cmd_width>> # Z
    BY <1>1 DEF Z
  <2> QED BY <2>1, <2>2, <2>3, <2>4, AnyBit, Zenon
<1> QED BY <1>1, <1>2, <1>3 DEF IsWrite

(* The signals that decide about the buffers and the line, by the counts.  *)
LEMMA Signals ==
  ASSUME Captured
  PROVE  /\ sending_cmd <=> assert_data /\ Driven < cmd_width
         /\ releasing <=> assert_data /\ ~IsWrite /\ Driven >= cmd_width
         /\ sending_data <=> assert_data /\ IsWrite /\ Driven >= cmd_width
         /\ receiving <=> /\ ~assert_data /\ ~IsWrite
                          /\ Sampled >= cmd_width /\ Sampled < cmd_width + d_width
<1>1. /\ data_toggle = 2 * cmd_width + Phases - 1
      /\ last_bit_rx = 2 * (cmd_width + d_width) + Phases - 1
  BY Widths, Counted DEF Captured, data_toggle
<1>2. /\ clk_toggles = Driven + Sampled + Phases /\ Driven \in Nat /\ Sampled \in Int
      /\ Phases \in 0 .. 1
      /\ assert_data => Driven = Sampled
      /\ ~assert_data => Driven = Sampled + 1
      /\ rw_buffer <=> IsWrite
  BY Widths, Counted DEF Captured
<1>3. assert_data => /\ clk_toggles < data_toggle <=> Driven < cmd_width
                     /\ in_data <=> Driven >= cmd_width
  BY <1>1, <1>2, Widths DEF in_data
<1>4. ~assert_data => /\ in_data <=> Sampled >= cmd_width
                      /\ clk_toggles < last_bit_rx + 1 <=> Sampled < cmd_width + d_width
  BY <1>1, <1>2, Widths DEF in_data
<1> QED BY <1>2, <1>3, <1>4 DEF sending_cmd, releasing, sending_data, receiving

(* How far the counts go.                                                  *)
LEMMA Ranges ==
  ASSUME Captured
  PROVE  /\ clk_toggles \in Nat /\ Driven \in Nat /\ Sampled \in Int
         /\ assert_data => Driven = Sampled
         /\ ~assert_data => Driven = Sampled + 1
         /\ clk_toggles > 0 => Sampled \in 0 .. cmd_width + d_width
         /\ Driven \in 0 .. cmd_width + d_width + 1
         /\ last_toggle => Sampled = cmd_width + d_width
         /\ ~last_toggle /\ assert_data => Driven <= cmd_width + d_width
         /\ ~last_toggle /\ ~assert_data => Sampled < cmd_width + d_width
<1>1. /\ clk_toggles = Driven + Sampled + Phases /\ Driven \in Nat /\ Sampled \in Int
      /\ Phases \in 0 .. 1 /\ clk_toggles \in 0 .. 2 * (cmd_width + d_width) + 1
      /\ assert_data => Driven = Sampled
      /\ ~assert_data => Driven = Sampled + 1
      /\ last_toggle <=> clk_toggles = 2 * (cmd_width + d_width) + 1
  BY Widths, Counted DEF Captured, last_toggle
<1> QED BY <1>1, Widths

----------------------------------------------------------------------------
(* The steps that toggle nothing                                           *)

(* The device where the clock has no edge.                                 *)
LEMMA NoEdge ==
  ASSUME DeviceStep, ~edge
  PROVE  /\ got' = IF selected = {} /\ selected' # {} THEN <<>> ELSE got
         /\ reply' = IF selected' = {} THEN 0 ELSE reply
BY DEF DeviceStep, sample_edge, shift_edge

LEMMA ResetStep == ASSUME IInv, Reset, DeviceStep PROVE IInv'
<1>1. state' = "ready" /\ selected' = {} /\ sdio' = Z
      /\ UNCHANGED <<sclk, assert_data>>
  BY DEF Reset, shifting
<1>2. ~edge
  BY <1>1 DEF edge
<1>3. got' = got /\ reply' = 0
  BY <1>1, <1>2, NoEdge
<1> QED BY <1>1, <1>3, NoBit, Widths DEF IInv, Typed

LEMMA ReadyStep == ASSUME IInv, Ready, DeviceStep PROVE IInv'
<1>1. state' = "ready" /\ selected' = {} /\ sdio' = Z
      /\ UNCHANGED <<sclk, assert_data>>
  BY DEF Ready, shifting
<1>2. ~edge
  BY <1>1 DEF edge
<1>3. got' = got /\ reply' = 0
  BY <1>1, <1>2, NoEdge
<1> QED BY <1>1, <1>3, NoBit, Widths DEF IInv, Typed

LEMMA Phased ==
  ASSUME NEW cpha \in BOOLEAN, Phase(cpha) PROVE assert_data' <=> ~cpha
BY DEF Phase

LEMMA StartStep ==
  ASSUME IInv, NEW t \in Transactions, NEW a, NEW div,
         Start(t, a, div), DeviceStep
  PROVE  IInv'
<1>1. /\ state = "ready" /\ state' = "execute" /\ asked' = t
      /\ selected' = {} /\ sdio' = Z
      /\ slave' = t.slave /\ clk_ratio' = count'
      /\ assert_data' = ~t.cpha
      /\ last_bit_rx' = toggles_per_word + (IF t.cpha THEN 1 ELSE 0) - 1
      /\ sclk' = t.cpol /\ clk_toggles' = 0
      /\ rw_buffer' <=> t.cmd = "write"
      /\ cmd_buffer' = Bits(t.cmd, cmd_width) /\ d_buffer' = Bits(t.data, d_width)
  BY DEF Start, Capture, Divider, Phase
<1>2. /\ t.cmd \in {"read", "write"} /\ t.data \in {"data", "other"}
      /\ t.cpol \in BOOLEAN /\ t.cpha \in BOOLEAN
  BY DEF Transactions
<1>3. selected = {} /\ ~edge
  BY <1>1 DEF IInv, Typed, edge
<1>4. got' = got /\ reply' = 0
  BY <1>1, <1>3, NoEdge
<1>5. Typed'
  BY <1>1, <1>2, <1>4, NoBit, Widths DEF IInv, Typed
<1>6. Phases' = (IF t.cpha THEN 1 ELSE 0) /\ Phases' \in 0 .. 1
  BY <1>1 DEF Phases
<1>7. Driven' = 0 /\ Sampled' = 0 - Phases'
  <2>1. /\ Driven' = (0 + 1 - Phases') \div 2
        /\ Sampled' = (0 + 2 - Phases') \div 2 - 1
    BY <1>1 DEF Driven, Sampled
  <2>2. Phases' = 0 \/ Phases' = 1
    BY <1>6
  <2> QED BY <2>1, <2>2, Z3
<1>8. Captured'
  <2>1. assert_data' <=> Driven' = Sampled'
    <3>1. Phase(t.cpha)
      BY DEF Start, Capture
    <3>2. assert_data' <=> ~t.cpha
      BY <1>2, <3>1, Phased
    <3>3. (Driven' = Sampled') <=> ~t.cpha
      <4>1. (t.cpha => Phases' = 1) /\ (~t.cpha => Phases' = 0)
        BY <1>6
      <4>2. Phases' = 1 => Driven' # Sampled'
        BY <1>7
      <4>3. Phases' = 0 => Driven' = Sampled'
        BY <1>7
      <4> QED BY <4>1, <4>2, <4>3, Zenon
    <3> QED BY <3>2, <3>3, Zenon
  <2> QED BY <1>1, <1>6, <2>1, Widths DEF Captured, IsWrite, toggles_per_word
<1>9. Gated'
  BY <1>1 DEF Gated
<1>10. Drives'
  <2>1. /\ cmd_buffer' \in Seq(AnyBits) /\ Len(cmd_buffer') = cmd_width
        /\ d_buffer' \in Seq(AnyBits) /\ Len(d_buffer') = d_width
        /\ \A i \in 1 .. cmd_width : cmd_buffer'[i] = <<t.cmd, i>>
        /\ \A i \in 1 .. d_width : d_buffer'[i] = <<t.data, i>>
    <3>1. t.cmd \in Names /\ t.data \in Names
      BY <1>2 DEF Names
    <3> QED BY <1>1, <3>1, BitsOf, Widths
  <2>2. Data(Driven') = 0
    BY <1>7, Widths DEF Data
  <2> QED BY <1>1, <1>7, <2>1, <2>2, Widths DEF Drives, Data
<1>11. Receives'
  BY <1>1 DEF Receives
<1> QED BY <1>5, <1>8, <1>9, <1>10, <1>11 DEF IInv

LEMMA WaitStep == ASSUME IInv, Wait, DeviceStep PROVE IInv'
<1>1. /\ state = "execute" /\ count # clk_ratio /\ selected' = {slave}
      /\ UNCHANGED <<state, control, clk_toggles, assert_data, cmd_buffer,
                     d_buffer, sclk, sdio, asked>>
  BY DEF Wait
<1>2. Typed /\ Captured /\ Gated /\ Drives /\ Receives
  BY <1>1 DEF IInv
<1>3. clk_toggles # 0 /\ selected = {slave} /\ clk_toggles > 0
  BY <1>1, <1>2 DEF Gated, Captured
<1>4. ~edge
  BY <1>1 DEF edge
<1>5. got' = got /\ reply' = reply
  BY <1>1, <1>3, <1>4, NoEdge
<1>6. /\ Phases' = Phases /\ Driven' = Driven /\ Sampled' = Sampled
      /\ IsWrite' = IsWrite /\ Data(Driven)' = Data(Driven)
      /\ Data(Sampled)' = Data(Sampled)
      /\ \A i : WireBit(i)' = WireBit(i)
  BY <1>1 DEF Phases, Driven, Sampled, IsWrite, Data, WireBit
<1>7. Typed'
  BY <1>1, <1>2, <1>5 DEF Typed
<1>8. Captured' /\ Gated'
  BY <1>1, <1>2, <1>3, <1>6 DEF Captured, Gated, control
<1>9. Drives'
  BY <1>1, <1>2, <1>6 DEF Drives, WireBit
<1>10. Receives'
  BY <1>1, <1>2, <1>5, <1>6 DEF Receives, WireBit
<1> QED BY <1>7, <1>8, <1>9, <1>10 DEF IInv

----------------------------------------------------------------------------
(* A toggle                                                                *)

(* The clock edges of a toggle, as the device sees them.                   *)
LEMMA Edges ==
  ASSUME Typed, Captured, Gated, Toggle
  PROVE  /\ sample_edge <=> clk_toggles > 0 /\ ~last_toggle /\ ~assert_data
         /\ shift_edge <=> clk_toggles > 0 /\ ~last_toggle /\ assert_data
         /\ sclk' \in BOOLEAN
         /\ clk_toggles > 0 /\ ~last_toggle => (sclk' <=> ~sclk)
<1>1. /\ sclk' = IF sclk_toggles THEN ~sclk ELSE sclk
      /\ clk_toggles \in 0 .. toggles_per_word + 1
      /\ last_toggle <=> clk_toggles = toggles_per_word + 1
  BY DEF Toggle, Captured, last_toggle
<1>2. /\ clk_toggles = 0 => selected = {}
      /\ clk_toggles > 0 => selected = {slave}
  BY DEF Gated
<1>3. sclk_toggles <=> clk_toggles > 0 /\ ~last_toggle
  BY <1>1, <1>2, Widths DEF sclk_toggles
<1>4. sclk \in BOOLEAN
  BY DEF Typed
<1>5. edge <=> clk_toggles > 0 /\ ~last_toggle
  BY <1>1, <1>2, <1>3, <1>4 DEF edge
<1>6. clk_toggles > 0 => (leading <=> (assert_data <=> asked.cpha))
  BY DEF Gated, leading
<1>7. /\ assert_data \in BOOLEAN /\ asked.cpha \in BOOLEAN
      /\ (leading # asked.cpha) <=> ~(leading <=> asked.cpha)
      /\ (leading = asked.cpha) <=> (leading <=> asked.cpha)
  BY Asked DEF Typed, Captured, leading
<1>8. clk_toggles > 0 => /\ leading # asked.cpha <=> ~assert_data
                         /\ leading = asked.cpha <=> assert_data
  BY <1>6, <1>7
<1> QED BY <1>1, <1>3, <1>4, <1>5, <1>8 DEF sample_edge, shift_edge

(* Until its last toggle a transaction stays captured and gated.           *)
LEMMA ToggleKeeps ==
  ASSUME Typed, Captured, Gated, Toggle, ~last_toggle
  PROVE  Captured' /\ Gated'
<1>1. /\ clk_toggles' = clk_toggles + 1 /\ assert_data' = ~assert_data
      /\ selected' = {slave}
      /\ UNCHANGED <<slave, clk_ratio, last_bit_rx, rw_buffer, asked>>
  BY DEF Toggle, control
<1>2. /\ clk_toggles \in Nat
      /\ assert_data => Driven = Sampled
      /\ ~assert_data => Driven = Sampled + 1
      /\ Driven \in Int /\ Sampled \in Int
  BY Ranges
<1>3. /\ Phases' = Phases
      /\ Driven = Sampled => Driven' = Driven + 1 /\ Sampled' = Sampled
      /\ Driven # Sampled => Driven' = Driven /\ Sampled' = Sampled + 1
  BY <1>1, <1>2, CountedNext
<1>4. assert_data' <=> ~assert_data
  BY <1>1, Zenon
<1>5. assert_data' <=> Driven' = Sampled'
  BY <1>2, <1>3, <1>4
<1>6. clk_toggles' \in 0 .. toggles_per_word + 1
  BY <1>1, Widths DEF Captured, last_toggle
<1>7. Captured'
  BY <1>1, <1>3, <1>5, <1>6 DEF Captured, IsWrite, toggles_per_word
<1>8. sclk' = asked'.cpol <=> (assert_data' <=> asked'.cpha)
  <2>1. /\ asked.cpol \in BOOLEAN /\ asked.cpha \in BOOLEAN
        /\ sclk \in BOOLEAN /\ assert_data \in BOOLEAN /\ asked' = asked
        /\ sclk' \in BOOLEAN
    BY <1>1, Asked, Edges DEF Typed, Captured
  <2>2. CASE clk_toggles = 0
    <3>1. sclk' = sclk
      BY <2>2 DEF Toggle, sclk_toggles, Gated
    <3>2. sclk = asked.cpol
      BY <2>2 DEF Gated
    <3>3. Phases = IF asked.cpha THEN 1 ELSE 0
      BY DEF Phases
    <3>4. assert_data <=> ~asked.cpha
      BY <1>2, <2>2, <3>3, Counted
    <3> QED BY <1>4, <2>1, <3>1, <3>2, <3>4
  <2>3. CASE clk_toggles > 0
    <3>1. sclk = asked.cpol <=> (assert_data <=> asked.cpha)
      BY <2>3 DEF Gated
    <3>2. sclk' <=> ~sclk
      BY <2>3, Edges
    <3> QED BY <1>4, <2>1, <3>1, <3>2
  <2> QED BY <1>2, <2>2, <2>3
<1>9. Gated'
  BY <1>1, <1>2, <1>8 DEF Gated
<1> QED BY <1>7, <1>9

(* The counts across a toggle.                                             *)
LEMMA OneMore ==
  ASSUME Captured, Toggle
  PROVE  /\ clk_toggles' = clk_toggles + 1 /\ asked' = asked
         /\ IsWrite' <=> IsWrite
         /\ \A i : WireBit(i)' = WireBit(i)
         /\ assert_data => /\ Driven = Sampled
                           /\ Driven' = Driven + 1 /\ Sampled' = Sampled
         /\ ~assert_data => /\ Driven = Sampled + 1
                            /\ Driven' = Driven /\ Sampled' = Sampled + 1
<1>1. clk_toggles' = clk_toggles + 1 /\ asked' = asked
  BY DEF Toggle
<1>2. (IsWrite' <=> IsWrite) /\ \A i : WireBit(i)' = WireBit(i)
  BY <1>1 DEF IsWrite, WireBit
<1>3. /\ clk_toggles \in Nat /\ Driven \in Int /\ Sampled \in Int
      /\ assert_data => Driven = Sampled
      /\ ~assert_data => Driven = Sampled + 1
  BY Ranges
<1>4. /\ Driven = Sampled => Driven' = Driven + 1 /\ Sampled' = Sampled
      /\ Driven # Sampled => Driven' = Driven /\ Sampled' = Sampled + 1
  BY <1>1, <1>3, CountedNext
<1> QED BY <1>1, <1>2, <1>3, <1>4

LEMMA LineBit == ASSUME Typed PROVE line \in AnyBits
<1>1. "reply" \in Names /\ reply \in Nat
  BY Widths DEF Typed, Names
<1>2. <<"reply", reply>> \in AnyBits
  BY <1>1, AnyBit, Zenon
<1> QED BY <1>2, NoBit DEF Typed, line

(* The two words lie on the wire one behind the other.                     *)
LEMMA WireBits ==
  ASSUME NEW n \in Nat
  PROVE  /\ n < cmd_width => WireBit(n + 1) = <<asked.cmd, n + 1>>
         /\ n >= cmd_width => /\ WireBit(n + 1) = <<asked.data, Data(n) + 1>>
                              /\ Data(n) = n - cmd_width
                              /\ Data(n + 1) = n + 1 - cmd_width
         /\ n <= cmd_width => Data(n) = 0
         /\ Data(n) \in Nat
<1>1. n <= cmd_width => Data(n) = 0
  BY Widths DEF Data
<1>2. n >= cmd_width => Data(n) = n - cmd_width /\ Data(n + 1) = n + 1 - cmd_width
  BY Widths DEF Data
<1>3. n < cmd_width => WireBit(n + 1) = <<asked.cmd, n + 1>>
  BY Widths DEF WireBit
<1>4. ASSUME n >= cmd_width PROVE WireBit(n + 1) = <<asked.data, Data(n) + 1>>
  <2>1. ~(n + 1 <= cmd_width) /\ (n + 1) - cmd_width = Data(n) + 1
    BY <1>2, <1>4, Widths
  <2>2. WireBit(n + 1) = <<asked.data, (n + 1) - cmd_width>>
    BY <2>1 DEF WireBit
  <2> QED BY <2>1, <2>2
<1>5. Data(n) \in Nat
  BY Widths DEF Data
<1> QED BY <1>1, <1>2, <1>3, <1>4, <1>5

(* A toggle that drives: the next bit comes from the head of its buffer,   *)
(* or the line is released for the answer.                                 *)
LEMMA DrivesABit ==
  ASSUME Typed, Captured, Drives, Toggle, ~last_toggle, assert_data
  PROVE  Drives'
<1> DEFINE n == Driven
<1>1. /\ n \in Nat /\ Driven' = n + 1
      /\ IsWrite' <=> IsWrite
      /\ \A i : WireBit(i)' = WireBit(i)
      /\ asked' = asked
  BY OneMore, Ranges
<1>2. /\ cmd_buffer' = IF n < cmd_width THEN ShiftIn(cmd_buffer, Zero) ELSE cmd_buffer
      /\ d_buffer' = IF IsWrite /\ n >= cmd_width THEN ShiftIn(d_buffer, Zero)
                     ELSE d_buffer
      /\ sdio' = IF n < cmd_width THEN Head(cmd_buffer)
                 ELSE IF IsWrite THEN Head(d_buffer) ELSE Z
  BY <1>1, Signals, Widths DEF Toggle
<1>3. /\ ShiftIn(cmd_buffer, Zero) \in Seq(AnyBits)
      /\ Len(ShiftIn(cmd_buffer, Zero)) = cmd_width
      /\ \A i \in 1 .. cmd_width - 1 : ShiftIn(cmd_buffer, Zero)[i] = cmd_buffer[i + 1]
      /\ Head(cmd_buffer) = cmd_buffer[1]
  BY Shifted, NoBit, Widths DEF Drives
<1>4. /\ ShiftIn(d_buffer, Zero) \in Seq(AnyBits)
      /\ Len(ShiftIn(d_buffer, Zero)) = d_width
      /\ \A i \in 1 .. d_width - 1 : ShiftIn(d_buffer, Zero)[i] = d_buffer[i + 1]
      /\ Head(d_buffer) = d_buffer[1]
  BY Shifted, NoBit, Widths DEF Drives
<1>5. /\ cmd_buffer' \in Seq(AnyBits) /\ Len(cmd_buffer') = cmd_width
      /\ d_buffer' \in Seq(AnyBits) /\ Len(d_buffer') = d_width
  BY <1>2, <1>3, <1>4 DEF Drives
<1>6. ASSUME NEW i \in 1 .. cmd_width, i + (n + 1) <= cmd_width
      PROVE  cmd_buffer'[i] = <<asked.cmd, i + (n + 1)>>
  <2>1. n < cmd_width /\ i \in 1 .. cmd_width - 1 /\ i + 1 \in 1 .. cmd_width
    BY <1>1, <1>6, Widths
  <2>2. cmd_buffer'[i] = cmd_buffer[i + 1] /\ (i + 1) + n <= cmd_width
    BY <1>1, <1>2, <1>3, <1>6, <2>1
  <2>3. cmd_buffer[i + 1] = <<asked.cmd, (i + 1) + n>>
    BY <2>1, <2>2 DEF Drives
  <2>4. (i + 1) + n = i + (n + 1)
    BY <1>1
  <2> QED BY <2>2, <2>3, <2>4
<1>7. ASSUME IsWrite, NEW i \in 1 .. d_width, i + Data(n + 1) <= d_width
      PROVE  d_buffer'[i] = <<asked.data, i + Data(n + 1)>>
  <2>1. CASE n < cmd_width
    <3>1. Data(n + 1) = 0 /\ Data(n) = 0 /\ d_buffer' = d_buffer
      BY <1>1, <1>2, <2>1, Widths DEF Data
    <3> QED BY <1>7, <3>1 DEF Drives
  <2>2. CASE n >= cmd_width
    <3>1. Data(n + 1) = Data(n) + 1 /\ Data(n) \in Nat
      BY <1>1, <2>2, WireBits, Widths
    <3>2. i \in 1 .. d_width - 1 /\ i + 1 \in 1 .. d_width
      BY <1>7, <3>1, Widths
    <3>3. d_buffer'[i] = d_buffer[i + 1] /\ (i + 1) + Data(n) <= d_width
      BY <1>2, <1>4, <1>7, <2>2, <3>1, <3>2
    <3>4. d_buffer[i + 1] = <<asked.data, (i + 1) + Data(n)>>
      BY <1>7, <3>2, <3>3 DEF Drives
    <3>5. (i + 1) + Data(n) = i + Data(n + 1)
      BY <3>1
    <3> QED BY <3>3, <3>4, <3>5
  <2> QED BY <1>1, <2>1, <2>2, Widths
<1>8. n + 1 > cmd_width /\ ~IsWrite => sdio' = Z
  BY <1>1, <1>2, Widths
<1>9. ASSUME n + 1 <= cmd_width + d_width, n + 1 <= cmd_width \/ IsWrite
      PROVE  sdio' = WireBit(n + 1)
  <2>1. CASE n < cmd_width
    <3>1. 1 \in 1 .. cmd_width /\ 1 + n <= cmd_width /\ 1 + n = n + 1
      BY <1>1, <2>1, Widths
    <3>2. cmd_buffer[1] = <<asked.cmd, n + 1>>
      BY <3>1 DEF Drives
    <3> QED BY <1>1, <1>2, <1>3, <2>1, <3>2, WireBits
  <2>2. CASE n >= cmd_width
    <3>1. IsWrite /\ Data(n) = n - cmd_width /\ WireBit(n + 1) = <<asked.data, Data(n) + 1>>
      BY <1>1, <1>9, <2>2, WireBits, Widths
    <3>2. 1 \in 1 .. d_width /\ 1 + Data(n) <= d_width /\ 1 + Data(n) = Data(n) + 1
      BY <1>1, <1>9, <2>2, <3>1, Widths
    <3>3. d_buffer[1] = <<asked.data, Data(n) + 1>>
      BY <3>1, <3>2 DEF Drives
    <3>4. sdio' = Head(d_buffer)
      BY <1>1, <1>2, <2>2, <3>1, Widths
    <3> QED BY <1>4, <3>1, <3>3, <3>4
  <2> QED BY <1>1, <2>1, <2>2, Widths
<1>10. n + 1 # 0
  BY <1>1
<1> QED BY <1>1, <1>5, <1>6, <1>7, <1>8, <1>9, <1>10 DEF Drives, Data

(* A toggle that samples: the line and the command stay, and a read takes  *)
(* the line in.                                                            *)
LEMMA DrivesNoBit ==
  ASSUME Typed, Captured, Drives, Toggle, ~last_toggle, ~assert_data
  PROVE  Drives'
<1>1. /\ Driven' = Driven /\ asked' = asked
      /\ IsWrite' <=> IsWrite
      /\ \A i : WireBit(i)' = WireBit(i)
  BY OneMore
<1>2. /\ cmd_buffer' = cmd_buffer /\ sdio' = sdio
      /\ \/ d_buffer' = d_buffer
         \/ ~IsWrite /\ d_buffer' = ShiftIn(d_buffer, line)
  BY Signals DEF Toggle
<1>3. d_buffer' \in Seq(AnyBits) /\ Len(d_buffer') = d_width
  BY <1>2, Shifted, LineBit, Widths DEF Drives
<1> QED BY <1>1, <1>2, <1>3 DEF Drives, Data

(* The first toggle selects the device, and nothing has arrived.           *)
LEMMA ReceivesNothing ==
  ASSUME Typed, Captured, Gated, Toggle, DeviceStep, clk_toggles = 0
  PROVE  Receives'
<1>1. ~last_toggle /\ clk_toggles' = 1
  BY Widths, OneMore DEF last_toggle
<1>2. selected = {} /\ selected' # {} /\ reply = 0
  BY <1>1 DEF Typed, Gated, Toggle
<1>3. ~edge
  BY <1>2 DEF edge
<1>4. got' = <<>> /\ reply' = 0
  BY <1>2, <1>3, NoEdge
<1>5. Sampled' = 0 /\ Driven' \in 0 .. 1
  <2>1. /\ clk_toggles = Driven + Sampled + Phases /\ Phases \in 0 .. 1
        /\ Driven \in Nat /\ Sampled \in Int
        /\ Driven = Sampled \/ Driven = Sampled + 1
    BY Counted
  <2>2. /\ Driven = Sampled => Driven' = Driven + 1 /\ Sampled' = Sampled
        /\ Driven # Sampled => Driven' = Driven /\ Sampled' = Sampled + 1
    BY <1>1, CountedNext, OneMore
  <2> QED BY <2>1, <2>2
<1>6. Data(Driven') = 0 /\ Data(Sampled') = 0
  <2>1. /\ Driven' \in Nat /\ Driven' <= cmd_width
        /\ Sampled' \in Nat /\ Sampled' <= cmd_width
    BY <1>5, Widths
  <2> QED BY <2>1, WireBits
<1>7. Len(<<>>) = 0
  OBVIOUS
<1>8. Data(Driven)' = 0 /\ Data(Sampled)' = 0
  BY <1>6 DEF Data
<1>9. /\ Len(got') = 0 /\ Sampled' = 0 /\ Sampled' <= cmd_width
      /\ \A i \in 1 .. Len(got') : FALSE
  BY <1>4, <1>5, <1>7, Widths
<1>10. \A i \in 1 .. d_width : ~(i + 0 > d_width)
  BY Widths
<1> QED BY <1>4, <1>8, <1>9, <1>10 DEF Receives

(* Whether the device answers.                                             *)
LEMMA Answers ==
  ASSUME Typed, Captured, Receives, clk_toggles > 0
  PROVE  answering <=> ~IsWrite /\ Sampled >= cmd_width
<1>1. /\ asked.cmd \in {"read", "write"}
      /\ ~IsWrite => asked.cmd = "read"
  BY Asked DEF Captured
<1>2. /\ Len(got) = IF IsWrite \/ Sampled <= cmd_width THEN Sampled ELSE cmd_width
      /\ \A i \in 1 .. Len(got) : got[i] = WireBit(i)
      /\ Sampled \in Int /\ Len(got) \in Nat
  BY Ranges DEF Receives, Typed
<1>3. Len(got) = cmd_width => /\ got[1] = <<asked.cmd, 1>>
                              /\ got # <<>>
  <2>1. got \in Seq(AnyBits)
    BY DEF Typed
  <2>2. Len(got) = cmd_width => got # <<>>
    BY <2>1, Widths, LenProperties, EmptySeq
  <2>3. WireBit(1) = <<asked.cmd, 1>>
    BY Widths DEF WireBit
  <2>4. Len(got) = cmd_width => 1 \in 1 .. Len(got)
    BY Widths
  <2> QED BY <1>2, <2>2, <2>3, <2>4
<1>4. ~IsWrite => (Len(got) = cmd_width <=> Sampled >= cmd_width)
  BY <1>2, Widths
<1>5. IsWrite <=> <<asked.cmd, 1>> # <<"read", 1>>
  BY <1>1 DEF IsWrite
<1> QED BY <1>3, <1>4, <1>5 DEF answering

(* What is on the line.                                                    *)
LEMMA OnTheLine ==
  ASSUME Typed, Captured, Drives, Receives, clk_toggles > 0,
         Driven \in 1 .. cmd_width + d_width
  PROVE  line = IF IsWrite \/ Driven <= cmd_width THEN WireBit(Driven)
                ELSE <<"reply", Driven - cmd_width>>
<1>1. CASE IsWrite \/ Driven <= cmd_width
  <2>1. sdio = WireBit(Driven)
    BY <1>1 DEF Drives
  <2>2. WireBit(Driven) # Z
    BY Asked, Widths DEF Captured
  <2> QED BY <1>1, <2>1, <2>2 DEF line
<1>2. CASE ~IsWrite /\ Driven > cmd_width
  <2>1. sdio = Z /\ reply = Driven - cmd_width /\ reply # 0
    BY <1>2, Widths DEF Drives, Receives, Data
  <2> QED BY <1>2, <2>1, Widths DEF line
<1> QED BY <1>1, <1>2, Widths

(* The device goes on to the next bit of its answer.                       *)
LEMMA ReceivesWhileDriving ==
  ASSUME Typed, Captured, Gated, Receives, Toggle, DeviceStep,
         clk_toggles > 0, ~last_toggle, assert_data
  PROVE  Receives'
<1>1. /\ Driven = Sampled /\ Driven' = Driven + 1 /\ Sampled' = Sampled
      /\ Driven \in Nat /\ Driven <= cmd_width + d_width
      /\ IsWrite' <=> IsWrite
      /\ \A i : WireBit(i)' = WireBit(i)
  BY OneMore, Ranges
<1>2. selected = {slave} /\ selected' = {slave}
  BY DEF Gated, Toggle
<1>3. ~sample_edge /\ shift_edge
  BY Edges
<1>4. /\ got' = got
      /\ reply' = IF answering THEN (reply + 1) % (d_width + 1) ELSE reply
  BY <1>2, <1>3 DEF DeviceStep
<1>5. answering <=> ~IsWrite /\ Driven >= cmd_width
  BY <1>1, Answers
<1>6. ~IsWrite => d_buffer' = d_buffer
  BY Signals DEF Toggle
<1>7. reply' = IF IsWrite \/ Driven + 1 > cmd_width + d_width THEN 0
               ELSE Data(Driven + 1)
  <2>1. reply = IF IsWrite THEN 0 ELSE Data(Driven)
    BY <1>1, Widths DEF Receives
  <2>2. CASE IsWrite
    BY <1>4, <1>5, <2>1, <2>2
  <2>3. CASE ~IsWrite /\ Driven < cmd_width
    <3>1. Data(Driven) = 0 /\ Data(Driven + 1) = 0
      BY <1>1, <2>3, Widths DEF Data
    <3> QED BY <1>1, <1>4, <1>5, <2>1, <2>3, <3>1, Widths
  <2>4. CASE ~IsWrite /\ Driven >= cmd_width
    <3>1. reply = Driven - cmd_width /\ Data(Driven + 1) = (Driven + 1) - cmd_width
      BY <1>1, <2>1, <2>4, Widths DEF Data
    <3>2. reply' = (reply + 1) % (d_width + 1)
      BY <1>4, <1>5, <2>4
    <3>3. CASE Driven = cmd_width + d_width
      <4>1. reply + 1 = d_width + 1
        BY <3>1, <3>3, Widths
      <4>2. (d_width + 1) % (d_width + 1) = 0
        BY Wraps, Widths
      <4> QED BY <1>1, <3>2, <3>3, <4>1, <4>2, Widths
    <3>4. CASE Driven < cmd_width + d_width
      <4>1. reply + 1 \in 0 .. d_width
        BY <1>1, <2>4, <3>1, <3>4, Widths
      <4>2. reply' = reply + 1
        BY <3>2, <4>1, Wraps, Widths
      <4> QED BY <1>1, <2>4, <3>1, <3>4, <4>2, Widths
    <3> QED BY <1>1, <3>3, <3>4, Widths
  <2> QED BY <1>1, <2>2, <2>3, <2>4, Widths
<1>8. Data(Sampled)' = Data(Sampled) /\ Data(Driven)' = Data(Driven + 1)
  BY <1>1 DEF Data
<1> QED BY <1>1, <1>4, <1>6, <1>7, <1>8 DEF Receives

(* The bit on the line reaches its reader.                                 *)
LEMMA ReceivesABit ==
  ASSUME Typed, Captured, Gated, Drives, Receives, Toggle, DeviceStep,
         clk_toggles > 0, ~last_toggle, ~assert_data
  PROVE  Receives'
<1> DEFINE n == Sampled
<1>1. /\ Driven = n + 1 /\ Driven' = n + 1 /\ Sampled' = n + 1
      /\ n \in Nat /\ n < cmd_width + d_width
      /\ IsWrite' <=> IsWrite
      /\ \A i : WireBit(i)' = WireBit(i)
  BY OneMore, Ranges
<1>2. selected = {slave} /\ selected' = {slave}
  BY DEF Gated, Toggle
<1>3. sample_edge /\ ~shift_edge
  BY Edges
<1>4. /\ got' = IF answering THEN got ELSE Append(got, line)
      /\ reply' = reply
  BY <1>2, <1>3 DEF DeviceStep
<1>5. answering <=> ~IsWrite /\ n >= cmd_width
  BY Answers
<1>6. line = IF IsWrite \/ n + 1 <= cmd_width THEN WireBit(n + 1)
             ELSE <<"reply", (n + 1) - cmd_width>>
  BY <1>1, OnTheLine, Widths
<1>7. /\ Len(got) = IF IsWrite \/ n <= cmd_width THEN n ELSE cmd_width
      /\ \A i \in 1 .. Len(got) : got[i] = WireBit(i)
  BY DEF Receives
<1>8. /\ Len(got') = IF IsWrite \/ n + 1 <= cmd_width THEN n + 1 ELSE cmd_width
      /\ \A i \in 1 .. Len(got') : got'[i] = WireBit(i)
  <2>1. CASE answering
    <3>1. ~IsWrite /\ n >= cmd_width
      BY <1>5, <2>1
    <3> QED BY <1>1, <1>4, <1>7, <2>1, <3>1, Widths
  <2>2. CASE ~answering
    <3>1. IsWrite \/ n + 1 <= cmd_width
      BY <1>1, <1>5, <2>2, Widths
    <3>2. Len(got) = n /\ line = WireBit(n + 1)
      BY <1>1, <1>6, <1>7, <3>1, Widths
    <3>3. /\ Len(got') = n + 1
          /\ \A i \in 1 .. n : got'[i] = got[i]
          /\ got'[n + 1] = line
      BY <1>4, <2>2, <3>2, LineBit, AppendProperties DEF Typed
    <3>4. ASSUME NEW i \in 1 .. Len(got') PROVE got'[i] = WireBit(i)
      <4>1. CASE i = n + 1
        BY <3>2, <3>3, <4>1
      <4>2. CASE i # n + 1
        <5>1. i \in 1 .. n
          BY <1>1, <3>3, <4>2
        <5> QED BY <1>7, <3>2, <3>3, <5>1
      <4> QED BY <4>1, <4>2
    <3> QED BY <3>1, <3>3, <3>4
  <2> QED BY <2>1, <2>2
<1>9. reply' = IF IsWrite \/ n + 1 > cmd_width + d_width THEN 0 ELSE Data(n + 1)
  BY <1>1, <1>4 DEF Receives
<1>10. ASSUME ~IsWrite, NEW i \in 1 .. d_width, i + Data(n + 1) > d_width
       PROVE  d_buffer'[i] = <<"reply", (i + Data(n + 1)) - d_width>>
  <2>1. receiving <=> n >= cmd_width
    BY <1>1, <1>10, Signals
  <2>2. d_buffer' = IF n >= cmd_width THEN ShiftIn(d_buffer, line) ELSE d_buffer
    BY <2>1, Signals DEF Toggle
  <2>3. n >= cmd_width
    BY <1>1, <1>10, Widths DEF Data
  <2>4. Data(n + 1) = Data(n) + 1 /\ Data(n) = n - cmd_width
    BY <1>1, <2>3, Widths DEF Data
  <2>5. /\ \A j \in 1 .. d_width - 1 : ShiftIn(d_buffer, line)[j] = d_buffer[j + 1]
        /\ ShiftIn(d_buffer, line)[d_width] = line
    BY Shifted, LineBit, Widths DEF Drives
  <2>6. CASE i = d_width
    <3>1. line = <<"reply", (n + 1) - cmd_width>>
      BY <1>1, <1>6, <1>10, <2>3, Widths
    <3>2. (i + Data(n + 1)) - d_width = (n + 1) - cmd_width
      BY <1>1, <2>4, <2>6, Widths
    <3> QED BY <2>2, <2>3, <2>5, <2>6, <3>1, <3>2
  <2>7. CASE i < d_width
    <3>1. /\ i \in 1 .. d_width - 1 /\ i + 1 \in 1 .. d_width
          /\ (i + 1) + Data(n) > d_width
          /\ ((i + 1) + Data(n)) - d_width = (i + Data(n + 1)) - d_width
      BY <1>1, <1>10, <2>4, <2>7, Widths
    <3>2. d_buffer[i + 1] = <<"reply", ((i + 1) + Data(n)) - d_width>>
      BY <1>10, <3>1 DEF Receives
    <3>3. d_buffer'[i] = d_buffer[i + 1]
      BY <2>2, <2>3, <2>5, <3>1
    <3> QED BY <3>1, <3>2, <3>3
  <2> QED BY <2>6, <2>7, Widths
<1>11. Data(Sampled)' = Data(n + 1) /\ Data(Driven)' = Data(n + 1)
  BY <1>1 DEF Data
<1> QED BY <1>1, <1>8, <1>9, <1>10, <1>11 DEF Receives

LEMMA ToggleStep == ASSUME IInv, Toggle, DeviceStep PROVE IInv'
<1>1. Typed /\ Captured /\ Gated /\ Drives /\ Receives
  BY DEF IInv, Toggle
<1>2. assert_data' \in BOOLEAN /\ sclk' \in BOOLEAN
  BY <1>1, Edges DEF Toggle
<1>3. CASE last_toggle
  <2>1. state' = "ready" /\ selected' = {} /\ sdio' = Z
    BY <1>3 DEF Toggle
  <2>2. ~sample_edge
    BY <1>1, <1>3, Edges
  <2>3. got' = got /\ reply' = 0
    BY <2>1, <2>2 DEF DeviceStep
  <2> QED BY <1>1, <1>2, <2>1, <2>3, NoBit, Widths DEF IInv, Typed
<1>4. CASE ~last_toggle
  <2>1. state' = "execute" /\ selected' = {slave} /\ selected' # {}
    BY <1>4 DEF Toggle
  <2>2. Captured' /\ Gated'
    BY <1>1, <1>4, ToggleKeeps
  <2>3. Drives'
    BY <1>1, <1>4, DrivesABit, DrivesNoBit
  <2>4. Receives'
    <3>1. clk_toggles = 0 \/ clk_toggles > 0
      BY <1>1, Ranges
    <3> QED BY <1>1, <1>4, <3>1, ReceivesNothing, ReceivesWhileDriving,
               ReceivesABit
  <2>5. sdio' \in AnyBits
    <3>1. Len(cmd_buffer) > 0 /\ Len(d_buffer) > 0
      BY <1>1, Widths DEF Drives
    <3>2. Head(cmd_buffer) \in AnyBits /\ Head(d_buffer) \in AnyBits
      BY <1>1, <3>1 DEF Drives
    <3> QED BY <1>1, <3>2, NoBit DEF Toggle, Typed
  <2>6. got' \in Seq(AnyBits)
    <3>1. Append(got, line) \in Seq(AnyBits)
      BY <1>1, LineBit DEF Typed
    <3> QED BY <1>1, <3>1 DEF DeviceStep, Typed
  <2>7. reply' \in 0 .. d_width
    <3>1. (reply + 1) % (d_width + 1) \in 0 .. d_width
      BY <1>1, Widths DEF Typed
    <3> QED BY <1>1, <3>1, Widths DEF DeviceStep, Typed
  <2>8. Typed'
    BY <1>2, <2>1, <2>5, <2>6, <2>7 DEF Typed
  <2> QED BY <2>2, <2>3, <2>4, <2>8 DEF IInv
<1> QED BY <1>3, <1>4

----------------------------------------------------------------------------
(* The invariant of the specification                                      *)

LEMMA InitIInv == Init => IInv
<1> SUFFICES ASSUME Init PROVE IInv
  OBVIOUS
<1>1. state = "ready" /\ selected = {} /\ sdio = Z /\ got = <<>> /\ reply = 0
  BY DEF Init
<1>2. sclk \in BOOLEAN /\ assert_data \in BOOLEAN
  BY DEF Init
<1> QED BY <1>1, <1>2, NoBit, Widths DEF IInv, Typed

LEMMA StepIInv == ASSUME IInv, Next PROVE IInv'
<1>1. DeviceStep /\ (Reset \/ Clock)
  BY DEF Next
<1>2. CASE Reset
  BY <1>1, <1>2, ResetStep
<1>3. CASE Ready
  BY <1>1, <1>3, ReadyStep
<1>4. ASSUME NEW t \in Transactions, NEW a \in 0 .. slaves,
             NEW div \in 0 .. MaxDiv, Start(t, a, div)
      PROVE  IInv'
  BY <1>1, <1>4, StartStep
<1>5. CASE Wait
  BY <1>1, <1>5, WaitStep
<1>6. CASE Toggle
  BY <1>1, <1>6, ToggleStep
<1> QED BY <1>1, <1>2, <1>3, <1>4, <1>5, <1>6 DEF Clock

LEMMA StutterIInv == ASSUME IInv, UNCHANGED vars PROVE IInv'
BY DEF vars, control, shifting, device, IInv, Typed, Captured, Gated, Drives,
       Receives, Driven, Sampled, Phases, IsWrite, WireBit, Data

(* The counts of driving and sampling toggles say at every edge of the     *)
(* clock what the buffers, the line and the device hold.                   *)
THEOREM Invariance == Spec => []IInv
<1>1. IInv /\ [Next]_vars => IInv'
  BY StepIInv, StutterIInv
<1> QED BY InitIInv, <1>1, PTL DEF Spec

(* spi_3_wire_master.vhd releases sdio at the driving toggle behind the    *)
(* last command bit of a read, the toggle at which the device begins to    *)
(* answer, and takes the line back after the device was deselected.        *)
THEOREM NeverBoth == Spec => []NoContention
<1>1. IInv => NoContention
  <2> SUFFICES ASSUME IInv, reply # 0 PROVE sdio = Z
    BY DEF NoContention
  <2>1. state = "execute" /\ selected # {}
    BY DEF IInv, Typed
  <2>2. Captured /\ Gated /\ Drives /\ Receives
    BY <2>1 DEF IInv
  <2>3. clk_toggles > 0 /\ Driven \in Nat
    BY <2>1, <2>2, Ranges DEF Gated
  <2>4. ~IsWrite /\ Data(Driven) # 0
    BY <2>2, <2>3 DEF Receives
  <2>5. Driven > cmd_width
    BY <2>4 DEF Data
  <2> QED BY <2>2, <2>4, <2>5 DEF Drives
<1> QED BY Invariance, <1>1, PTL

(* Master and device change the line at the driving toggles only, never    *)
(* at the edge of sclk at which its reader samples it, in any of the four  *)
(* modes of spi_3_wire_master.vhd.                                         *)
THEOREM SampledStands == Spec => StableWhenSampled
<1>1. ASSUME IInv, Next, sample_edge PROVE line' = line
  <2>1. DeviceStep /\ (Reset \/ Clock) /\ sclk' # sclk /\ selected # {}
    BY <1>1 DEF Next, sample_edge, edge
  <2>2. ~Reset /\ ~Ready /\ ~Wait
    BY <2>1 DEF Reset, Ready, Wait, shifting
  <2>3. ~\E t \in Transactions, a \in 0 .. slaves, div \in 0 .. MaxDiv :
            Start(t, a, div)
    BY <1>1, <2>1 DEF Start, IInv, Typed
  <2>4. Toggle
    BY <2>1, <2>2, <2>3 DEF Clock
  <2>5. Typed /\ Captured /\ Gated
    BY <1>1, <2>4 DEF IInv, Toggle
  <2>6. clk_toggles > 0 /\ ~last_toggle /\ ~assert_data /\ ~shift_edge
    BY <1>1, <2>4, <2>5, Edges
  <2>7. sdio' = sdio
    BY <2>4, <2>5, <2>6, Signals DEF Toggle
  <2>8. selected' # {}
    BY <2>4, <2>6 DEF Toggle
  <2>9. reply' = reply
    BY <2>1, <2>6, <2>8 DEF DeviceStep
  <2> QED BY <2>7, <2>9 DEF line
<1>2. ASSUME UNCHANGED vars, sample_edge PROVE line' = line
  BY <1>2 DEF vars, device, line
<1>3. IInv /\ [Next]_vars => [sample_edge => line' = line]_vars
  BY <1>1, <1>2
<1> QED BY Invariance, <1>3, PTL DEF Spec, StableWhenSampled

----------------------------------------------------------------------------
(* The edges that a transaction takes                                      *)

Timing ==
  state = "execute" =>
    /\ clk_ratio \in Nat /\ clk_ratio > 0 /\ count \in 1 .. clk_ratio
    /\ clk_toggles \in 0 .. toggles_per_word + 1
    /\ clk_toggles = 0 => count = clk_ratio

LEMMA TimingStep == IInv /\ Timing /\ [Next]_vars => Timing'
<1> SUFFICES ASSUME IInv, Timing, [Next]_vars PROVE Timing'
  OBVIOUS
<1>1. CASE Reset
  BY <1>1 DEF Reset, Timing
<1>2. CASE Ready
  BY <1>2 DEF Ready, Timing
<1>3. ASSUME NEW t \in Transactions, NEW a \in 0 .. slaves,
             NEW div \in 0 .. MaxDiv, Start(t, a, div)
      PROVE  Timing'
  <2>1. clk_ratio' = (IF div = 0 THEN 1 ELSE div) /\ count' = clk_ratio' /\ clk_toggles' = 0
    BY <1>3 DEF Start, Capture, Divider
  <2> QED BY <2>1, Widths, WidthAssumption DEF Timing, toggles_per_word
<1>4. CASE Wait
  BY <1>4 DEF Wait, Divide, Timing, control, toggles_per_word
<1>5. CASE Toggle
  BY <1>5, Widths DEF Toggle, Timing, control, last_toggle, toggles_per_word
<1>6. CASE UNCHANGED vars
  BY <1>6 DEF vars, control, shifting, Timing, toggles_per_word
<1> QED BY <1>1, <1>2, <1>3, <1>4, <1>5, <1>6 DEF Next, Clock

(* The edge after which edges_left is one less, by the kind of edge.       *)
LEMMA Periods ==
  ASSUME NEW n \in Nat, NEW r \in Nat, r > 0, NEW k \in 0 .. n, NEW c \in 1 .. r
  PROVE  /\ (n - k) * r + (r - c) + 1 \in Nat \ {0}
         /\ c # r => (n - k) * r + (r - (c + 1)) + 1 = ((n - k) * r + (r - c) + 1) - 1
         /\ k < n => (n - (k + 1)) * r + (r - 1) + 1 = (n - k) * r
<1>1. (n - k) * r \in Nat
  OBVIOUS
<1>2. (n - (k + 1)) * r = (n - k) * r - r
  OBVIOUS
<1> QED BY <1>1, <1>2

(* Busy for one edge and a period of the divider for each toggle after the *)
(* first, for any widths and any divider; the answer with the last one.    *)
THEOREM TimeTaken == Spec => TakesItsTime
<1> DEFINE Takes ==
             /\ busy' <=> edges_left' > 0
             /\ edges_left > 0 => edges_left' = edges_left - 1
             /\ edges_left = 0 /\ edges_left' > 0 =>
                  edges_left' = (toggles_per_word + 1) * clk_ratio' + 1
             /\ rx_data' # rx_data => edges_left = 1
           n == toggles_per_word + 1
<1>1. ASSUME IInv, Timing, Next, reset_n, reset_n'
      PROVE  Takes
  <2>1. Timing' /\ n' = n /\ n \in Nat
    BY <1>1, TimingStep, Widths DEF toggles_per_word
  <2>a. state = "execute" =>
          edges_left = (n - clk_toggles) * clk_ratio + (clk_ratio - count) + 1
    BY Zenon DEF edges_left
  <2>b. state' = "execute" =>
          edges_left' = (n - clk_toggles') * clk_ratio' + (clk_ratio' - count') + 1
    BY Zenon DEF edges_left
  <2>2. CASE Ready
    BY <2>2 DEF Ready, edges_left
  <2>3. ASSUME NEW t \in Transactions, NEW a \in 0 .. slaves,
               NEW div \in 0 .. MaxDiv, Start(t, a, div)
        PROVE  Takes
    <3>1. /\ state = "ready" /\ state' = "execute" /\ busy' = TRUE /\ rx_data' = rx_data
          /\ clk_ratio' = count' /\ clk_toggles' = 0
      BY <2>3 DEF Start, Capture, Divider
    <3>2. clk_ratio' \in Nat /\ clk_ratio' > 0
      BY <2>1, <3>1 DEF Timing
    <3>3. edges_left = 0 /\ edges_left' = n * clk_ratio' + 1
      <4>1. edges_left' = (n - 0) * clk_ratio' + (clk_ratio' - clk_ratio') + 1
        BY <2>1, <3>1 DEF edges_left
      <4> QED BY <2>1, <3>1, <3>2, <4>1 DEF edges_left
    <3>4. edges_left' > 0
      BY <2>1, <3>2, <3>3
    <3>5. busy' <=> edges_left' > 0
      BY <3>1, <3>4
    <3>6. ~(edges_left > 0)
      BY <3>3
    <3> QED BY <3>1, <3>3, <3>5, <3>6
  <2>4. CASE Wait
    <3>1. /\ state = "execute" /\ state' = "execute" /\ busy' = TRUE /\ rx_data' = rx_data
          /\ count # clk_ratio /\ count' = count + 1
          /\ clk_ratio' = clk_ratio /\ clk_toggles' = clk_toggles
      BY <2>4 DEF Wait, Divide, control
    <3>2. /\ edges_left = (n - clk_toggles) * clk_ratio + (clk_ratio - count) + 1
          /\ edges_left' = (n - clk_toggles) * clk_ratio + (clk_ratio - (count + 1)) + 1
      BY <2>a, <2>b, <3>1, Zenon
    <3>3. edges_left \in Nat \ {0} /\ edges_left' = edges_left - 1 /\ edges_left' \in Nat \ {0}
      BY <1>1, <2>1, <3>1, <3>2, Periods DEF Timing
    <3>4. busy' <=> edges_left' > 0
      BY <3>1, <3>3
    <3>5. edges_left # 0
      BY <3>3
    <3> QED BY <3>1, <3>3, <3>4, <3>5
  <2>5. CASE Toggle /\ ~last_toggle
    <3>1. /\ state = "execute" /\ state' = "execute" /\ busy' = TRUE /\ rx_data' = rx_data
          /\ count = clk_ratio /\ count' = 1
          /\ clk_ratio' = clk_ratio /\ clk_toggles' = clk_toggles + 1
      BY <2>5 DEF Toggle, control
    <3>2. clk_ratio \in Nat /\ clk_ratio > 0 /\ clk_toggles \in 0 .. n /\ clk_toggles < n
      BY <1>1, <2>1, <2>5, <3>1 DEF Timing, last_toggle
    <3>3. /\ edges_left = (n - clk_toggles) * clk_ratio + (clk_ratio - clk_ratio) + 1
          /\ edges_left' = (n - (clk_toggles + 1)) * clk_ratio + (clk_ratio - 1) + 1
      BY <2>a, <2>b, <3>1, Zenon
    <3>4. /\ edges_left \in Nat \ {0} /\ edges_left = (n - clk_toggles) * clk_ratio + 1
          /\ edges_left' = (n - clk_toggles) * clk_ratio
      BY <2>1, <3>2, <3>3, Periods
    <3>5. edges_left' \in Nat \ {0}
      <4>1. (n - (clk_toggles + 1)) * clk_ratio \in Nat
        BY <2>1, <3>2
      <4> QED BY <3>2, <3>3, <4>1
    <3>6. edges_left' = edges_left - 1
      BY <3>4, <3>5
    <3>7. busy' <=> edges_left' > 0
      BY <3>1, <3>5
    <3>8. edges_left # 0
      BY <3>4
    <3> QED BY <3>1, <3>6, <3>7, <3>8
  <2>6. CASE Toggle /\ last_toggle
    <3>1. /\ state = "execute" /\ state' = "ready" /\ busy' = FALSE /\ count = clk_ratio
          /\ clk_toggles = n
      BY <2>6 DEF Toggle, last_toggle
    <3>2. edges_left = 1 /\ edges_left' = 0
      <4>1. edges_left = (n - n) * clk_ratio + (clk_ratio - clk_ratio) + 1
        BY <2>a, <3>1, Zenon
      <4>2. clk_ratio \in Nat
        BY <1>1, <3>1 DEF Timing
      <4>3. (n - n) * clk_ratio = 0
        <5>1. n - n = 0
          BY <2>1
        <5> QED BY <4>2, <5>1
      <4>4. edges_left = 1
        BY <4>1, <4>2, <4>3
      <4> QED BY <3>1, <4>4 DEF edges_left
    <3>3. busy' <=> edges_left' > 0
      BY <3>1, <3>2
    <3>4. edges_left > 0 => edges_left' = edges_left - 1
      BY <3>2
    <3>5. edges_left # 0
      BY <3>2
    <3> QED BY <3>2, <3>3, <3>4, <3>5
  <2> QED BY <1>1, <2>2, <2>3, <2>4, <2>5, <2>6 DEF Next, Clock
<1>2. IInv /\ Timing /\ [Next]_vars => [reset_n /\ reset_n' => Takes]_vars
  BY <1>1
<1>3. Init => Timing
  BY DEF Init, Timing
<1> QED BY Invariance, TimingStep, <1>2, <1>3, PTL DEF Spec, TakesItsTime

----------------------------------------------------------------------------
(* The bits that reach their readers                                       *)

LEMMA OnTheWire ==
  ASSUME asked \in Transactions
  PROVE  /\ Wire(asked) \in Seq(AnyBits)
         /\ Len(Wire(asked)) = IF IsWrite THEN cmd_width + d_width ELSE cmd_width
         /\ \A i \in 1 .. Len(Wire(asked)) : Wire(asked)[i] = WireBit(i)
<1>1. /\ asked.cmd \in {"read", "write"} /\ asked.data \in {"data", "other"}
      /\ asked.cmd \in Names /\ asked.data \in Names
      /\ IsWrite <=> asked.cmd # "read"
  BY Asked DEF Names, IsWrite
<1> DEFINE c == Bits(asked.cmd, cmd_width)
           d == Bits(asked.data, d_width)
<1>2. /\ c \in Seq(AnyBits) /\ Len(c) = cmd_width
      /\ \A i \in 1 .. cmd_width : c[i] = <<asked.cmd, i>>
  BY <1>1, BitsOf, Widths
<1>3. /\ d \in Seq(AnyBits) /\ Len(d) = d_width
      /\ \A i \in 1 .. d_width : d[i] = <<asked.data, i>>
  BY <1>1, BitsOf, Widths
<1> HIDE DEF c, d
<1>4. CASE ~IsWrite
  <2>1. Wire(asked) = c
    BY <1>1, <1>4 DEF Wire, c
  <2>2. /\ Wire(asked) \in Seq(AnyBits)
        /\ Len(Wire(asked)) = IF IsWrite THEN cmd_width + d_width ELSE cmd_width
    BY <1>2, <1>4, <2>1
  <2>3. ASSUME NEW i \in 1 .. Len(Wire(asked))
        PROVE  Wire(asked)[i] = WireBit(i)
    <3>1. i \in 1 .. cmd_width /\ i <= cmd_width
      BY <1>2, <2>1, Widths
    <3> QED BY <1>2, <2>1, <3>1 DEF WireBit
  <2> QED BY <2>2, <2>3
<1>5. CASE IsWrite
  <2>1. Wire(asked) = c \o d
    BY <1>1, <1>5 DEF Wire, c, d
  <2>2. /\ c \o d \in Seq(AnyBits) /\ Len(c \o d) = cmd_width + d_width
        /\ \A i \in 1 .. cmd_width + d_width :
             (c \o d)[i] = IF i <= cmd_width THEN c[i] ELSE d[i - cmd_width]
    BY <1>2, <1>3, ConcatProperties
  <2>3. ASSUME NEW i \in 1 .. cmd_width + d_width PROVE (c \o d)[i] = WireBit(i)
    <3>1. CASE i <= cmd_width
      BY <1>2, <2>2, <3>1, Widths DEF WireBit
    <3>2. CASE ~(i <= cmd_width)
      <4>1. i - cmd_width \in 1 .. d_width
        BY <3>2, Widths
      <4> QED BY <1>3, <2>2, <3>2, <4>1 DEF WireBit
    <3> QED BY <3>1, <3>2
  <2> QED BY <1>5, <2>1, <2>2, <2>3
<1> QED BY <1>4, <1>5

(* A device that was selected has received what the transaction sends, as  *)
(* far as it has got.                                                      *)
LEMMA GotAPrefix ==
  ASSUME IInv, state = "execute", selected # {}
  PROVE  /\ Len(got) \in 0 .. Len(Wire(asked))
         /\ got = SubSeq(Wire(asked), 1, Len(got))
<1>1. Typed /\ Captured /\ Gated /\ Receives
  BY DEF IInv
<1>2. clk_toggles > 0 /\ Sampled \in 0 .. cmd_width + d_width
  BY <1>1, Ranges DEF Gated
<1>3. /\ Len(got) = IF IsWrite \/ Sampled <= cmd_width THEN Sampled ELSE cmd_width
      /\ \A i \in 1 .. Len(got) : got[i] = WireBit(i)
  BY <1>1, <1>2 DEF Receives
<1>4. /\ Wire(asked) \in Seq(AnyBits)
      /\ Len(Wire(asked)) = IF IsWrite THEN cmd_width + d_width ELSE cmd_width
      /\ \A i \in 1 .. Len(Wire(asked)) : Wire(asked)[i] = WireBit(i)
  BY <1>1, OnTheWire DEF Captured
<1>5. Len(got) \in 0 .. Len(Wire(asked))
  BY <1>2, <1>3, <1>4, Widths
<1> DEFINE w == Wire(asked)
           n == Len(got)
           p == SubSeq(w, 1, n)
<1>6. n \in Nat /\ \A i \in 1 .. n : w[i] \in AnyBits /\ w[i] = got[i]
  BY <1>3, <1>4, <1>5
<1>7. /\ p \in Seq(AnyBits) /\ Len(p) = n
      /\ \A i \in 1 .. n : p[i] = w[i]
  <2>1. 1 \in Int /\ n \in Int /\ \A i \in 1 .. n : w[i] \in AnyBits
    BY <1>6
  <2>2. /\ p \in Seq(AnyBits) /\ Len(p) = IF 1 <= n THEN n - 1 + 1 ELSE 0
        /\ \A i \in 1 .. n - 1 + 1 : p[i] = w[1 + i - 1]
    BY <2>1, SubSeqProperties
  <2>3. n - 1 + 1 = n /\ \A i \in 1 .. n : 1 + i - 1 = i
    BY <1>6
  <2> QED BY <1>6, <2>2, <2>3
<1>8. got = p
  <2>1. got \in Seq(AnyBits)
    BY <1>1 DEF Typed
  <2> QED BY <1>6, <1>7, <2>1, SeqEqual
<1> QED BY <1>5, <1>8

(* At the last toggle every bit has reached its reader.                    *)
LEMMA AllArrived ==
  ASSUME IInv, state = "execute", last_toggle
  PROVE  /\ selected # {} /\ got = Wire(asked)
         /\ ~IsWrite => d_buffer = Bits("reply", d_width)
<1>1. Typed /\ Captured /\ Gated /\ Drives /\ Receives
  BY DEF IInv
<1>2. clk_toggles > 0 /\ Sampled = cmd_width + d_width
  BY <1>1, Ranges, Widths DEF last_toggle
<1>3. selected # {}
  BY <1>1, <1>2 DEF Gated
<1>4. got = Wire(asked)
  <2>1. Wire(asked) \in Seq(AnyBits) /\ Len(got) = Len(Wire(asked))
    BY <1>1, <1>2, OnTheWire, Widths DEF Receives, Captured
  <2> QED BY <1>3, <2>1, GotAPrefix, SubSeqFull
<1>5. ASSUME ~IsWrite PROVE d_buffer = Bits("reply", d_width)
  <2>1. /\ Bits("reply", d_width) \in Seq(AnyBits)
        /\ Len(Bits("reply", d_width)) = d_width
        /\ \A i \in 1 .. d_width : Bits("reply", d_width)[i] = <<"reply", i>>
    BY BitsOf, Widths DEF Names
  <2>2. Data(Sampled) = d_width
    BY <1>2, Widths DEF Data
  <2>3. ASSUME NEW i \in 1 .. d_width PROVE d_buffer[i] = <<"reply", i>>
    <3>1. i + d_width > d_width /\ (i + d_width) - d_width = i
      BY Widths
    <3> QED BY <1>1, <1>2, <1>5, <2>2, <3>1 DEF Receives
  <2>4. d_buffer \in Seq(AnyBits) /\ Len(d_buffer) = d_width
    BY <1>1 DEF Drives
  <2> QED BY <2>1, <2>3, <2>4, SeqEqual
<1> QED BY <1>3, <1>4, <1>5

----------------------------------------------------------------------------
(* The refinement                                                          *)

(* A transaction is active while the machine executes it.                  *)
active == IF state = "execute" THEN asked ELSE Nothing

(* A reset cuts the transaction at a bit.                                  *)
LEMMA TransferReset == ASSUME IInv, Reset, DeviceStep PROVE Transfer!Reset
<1>1. /\ state' = "ready" /\ selected' = {} /\ asked' = asked
      /\ rx_data' = Bits("zero", d_width)
  BY DEF Reset
<1>2. active' = Nothing
  BY <1>1 DEF active
<1>3. CASE selected = {}
  <2>1. seen' = seen
    BY <1>3 DEF DeviceStep
  <2> QED BY <1>1, <1>2, <2>1 DEF Transfer!Reset, active
<1>4. CASE selected # {}
  <2>1. state = "execute"
    BY <1>4 DEF IInv, Typed
  <2>2. seen' = [device |-> asked.slave, bits |-> got]
    BY <1>1, <1>4, <2>1 DEF DeviceStep, IInv, Captured
  <2>3. /\ Len(got) \in 0 .. Len(Wire(asked))
        /\ got = SubSeq(Wire(asked), 1, Len(got))
    BY <1>4, <2>1, GotAPrefix
  <2>4. seen' \in Transfer!Cut(asked)
    BY <2>2, <2>3 DEF Transfer!Cut
  <2>5. active = asked /\ asked # Nothing
    BY <2>1, Asked DEF active, IInv, Captured
  <2> QED BY <1>1, <1>2, <2>4, <2>5 DEF Transfer!Reset, active
<1> QED BY <1>3, <1>4

LEMMA TransferStart ==
  ASSUME IInv, DeviceStep, NEW t \in Transactions, NEW a, NEW div,
         Start(t, a, div)
  PROVE  Transfer!Start(t)
<1>1. /\ state = "ready" /\ state' = "execute" /\ asked' = t
      /\ rx_data' = rx_data
  BY DEF Start
<1>2. seen' = seen
  BY <1>1 DEF IInv, Typed, DeviceStep
<1> QED BY <1>1, <1>2 DEF Transfer!Start

(* The last toggle deselects the device and hands over what was read.      *)
LEMMA TransferFinish ==
  ASSUME IInv, Toggle, DeviceStep, last_toggle
  PROVE  Transfer!Finish
<1>1. /\ state = "execute" /\ state' = "ready" /\ selected' = {}
      /\ rx_data' = IF ~rw_buffer THEN d_buffer ELSE rx_data
  BY DEF Toggle
<1>2. /\ asked \in Transactions /\ slave = asked.slave
      /\ rw_buffer <=> IsWrite
  BY <1>1 DEF IInv, Captured
<1>3. /\ selected # {} /\ got = Wire(asked)
      /\ ~IsWrite => d_buffer = Bits("reply", d_width)
  BY <1>1, AllArrived
<1>4. seen' = [device |-> asked.slave, bits |-> Wire(asked)]
  BY <1>1, <1>2, <1>3 DEF DeviceStep
<1>5. /\ asked # Nothing
      /\ IsWrite <=> asked.cmd # "read"
  BY <1>2, Asked DEF IsWrite
<1>6. rx_data' = IF asked.cmd = "read" THEN Bits("reply", d_width) ELSE rx_data
  BY <1>1, <1>2, <1>3, <1>5
<1> QED BY <1>1, <1>4, <1>5, <1>6 DEF Transfer!Finish

(* Every other step leaves what the promise speaks of alone.               *)
LEMMA TransferStutters ==
  ASSUME IInv, DeviceStep, Ready \/ Wait \/ (Toggle /\ ~last_toggle)
  PROVE  UNCHANGED Transfer!vars
<1>1. state' = state /\ asked' = asked /\ rx_data' = rx_data
  BY DEF Ready, Wait, Toggle
<1>2. seen' = seen
  <2>1. Ready => selected = {}
    BY DEF Ready, IInv, Typed
  <2>2. Wait \/ (Toggle /\ ~last_toggle) => selected' # {}
    BY DEF Wait, Toggle
  <2> QED BY <2>1, <2>2 DEF DeviceStep
<1> QED BY <1>1, <1>2 DEF Transfer!vars

(* In each of the four modes, at every clock ratio and for words of any    *)
(* width, spi_3_wire_master.vhd hands the addressed device the captured    *)
(* command and data and the caller the device's answer, each bit once and  *)
(* in order, and a reset leaves the device with a prefix of them.          *)
THEOREM Implements == Spec => TransferSpec
<1>1. Init => Transfer!Init
  BY DEF Init, Transfer!Init
<1>2. ASSUME IInv, Next PROVE Transfer!Next \/ UNCHANGED Transfer!vars
  <2>1. DeviceStep /\ (Reset \/ Clock)
    BY <1>2 DEF Next
  <2>2. CASE Reset
    BY <1>2, <2>1, <2>2, TransferReset DEF Transfer!Next
  <2>3. ASSUME NEW t \in Transactions, NEW a \in 0 .. slaves,
               NEW div \in 0 .. MaxDiv, Start(t, a, div)
        PROVE  Transfer!Next
    BY <1>2, <2>1, <2>3, TransferStart DEF Transfer!Next
  <2>4. CASE Toggle /\ last_toggle
    BY <1>2, <2>1, <2>4, TransferFinish DEF Transfer!Next
  <2>5. CASE Ready \/ Wait \/ (Toggle /\ ~last_toggle)
    BY <1>2, <2>1, <2>5, TransferStutters
  <2> QED BY <2>1, <2>2, <2>3, <2>4, <2>5 DEF Clock
<1>3. UNCHANGED vars => UNCHANGED Transfer!vars
  BY DEF vars, device, Transfer!vars
<1>4. IInv /\ [Next]_vars => [Transfer!Next]_Transfer!vars
  BY <1>2, <1>3
<1> QED BY <1>1, <1>4, Invariance, PTL DEF Spec, TransferSpec, Transfer!Spec

----------------------------------------------------------------------------
(* The driver: each call is a script of accesses, and what a call has done *)
(* in the registers follows from how much of its script is left.           *)

Controls == [rst : BOOLEAN, enable : BOOLEAN, busy : BOOLEAN, cpol : BOOLEAN,
             cpha : BOOLEAN]
Commands == [address : Addresses \cup {0}, rnw : BOOLEAN, w1 : BOOLEAN, w0 : BOOLEAN]
Requests == [op : {"none", "write", "read"}, address : Addresses \cup {0},
             data : Datas \cup {0}]

ControlBits == {"rst", "enable", "cpol", "cpha"}
CommandBits == {"rnw", "w1", "w0"}
PlainOps == {"get_busy", "get_enable", "get_addr", "fetch"}

(* The accesses that scripts are made of.                                  *)
Accesses ==
  [op : {"store"}, reg : {"command", "txdata", "addr", "clk_div"},
   value : Commands \cup Datas \cup {0, 3}]
  \cup [op : {"load"}, reg : {"ctrl", "command"}]
  \cup [op : {"save"}, reg : {"ctrl", "command"}, bit : ControlBits \cup CommandBits,
        value : BOOLEAN]
  \cup [op : PlainOps]

LoadOf(reg) == [op |-> "load", reg |-> reg]
SaveOf(reg, bit, value) == [op |-> "save", reg |-> reg, bit |-> bit, value |-> value]
StoreOf(reg, value) == [op |-> "store", reg |-> reg, value |-> value]
PlainOf(op) == [op |-> op]

----------------------------------------------------------------------------
(* The inductive invariant                                                 *)

(* s is what is left of the script p.                                      *)
Remains(s, p) == /\ Len(s) <= Len(p)
                 /\ \A i \in 1 .. Len(s) : s[i] = p[(Len(p) - Len(s)) + i]

(* The transaction that the last call is about.                            *)
Wanted == [address |-> request.address, rw |-> request.op = "write",
           data |-> request.data, mode |-> <<TRUE, TRUE>>, slave |-> 0, div |-> 3]

DriverTyped ==
  /\ script \in Seq(Accesses)
  /\ elapsed \in 0 .. Slowest - 1
  /\ script = <<>> => elapsed = 0
  /\ ctrl \in Controls /\ command \in Commands /\ txdata \in Datas \cup {0}
  /\ spi_enable \in BOOLEAN
  /\ request \in Requests
  /\ remaining \in 0 .. TransferEdges

(* The pulse comes with what it is to send.                                *)
Pulsed == spi_enable => /\ elapsed = 0 /\ request.op # "none" /\ tx = Wanted
                        /\ request.op = "read" => Len(script) = 2

(* Between the two accesses that change a bit the driver holds the         *)
(* register: of the control register, never with the pulse.                *)
HoldingCommand == temp = command
HoldingControl == /\ temp \in Controls /\ temp.enable = FALSE
                  /\ temp.cpol = ctrl.cpol /\ temp.cpha = ctrl.cpha

Configured == ctrl.cpol = TRUE /\ ctrl.cpha = TRUE /\ addr = 0 /\ clk_div = 3

(* The calls, and what each has done when so much of its script is left.   *)
Initializing ==
  /\ request.op = "none"
  /\ Remains(script, spi_ctrl_initialize(0, 3))
  /\ Len(script) <= 7 => ctrl.cpol = TRUE
  /\ Len(script) <= 5 => ctrl.cpha = TRUE
  /\ Len(script) = 0 => clk_div = 3
  /\ Len(script) \in {8, 6, 2} => HoldingControl
  /\ addr = 0
  /\ command.address = request.address

SettingPolarity ==
  /\ request.op = "none"
  /\ Remains(script, spi_ctrl_set_cpol(TRUE))
  /\ Len(script) = 1 => HoldingControl
  /\ Configured
  /\ command.address = request.address

SettingCommand ==
  /\ request.op = "none"
  /\ Remains(script, spi_ctrl_set_command(request.address))
  /\ Configured
  /\ request.address \in Addresses
  /\ Len(script) = 0 => command.address = request.address

Writing ==
  /\ request.op = "write"
  /\ Remains(script, spi_ctrl_write(request.data, 8))
  /\ Configured
  /\ command.address = request.address
  /\ request.data \in Datas
  /\ Len(script) <= 8 => txdata = request.data
  /\ Len(script) <= 6 => command.rnw = FALSE
  /\ Len(script) \in {7, 5, 3} => HoldingCommand
  /\ Len(script) = 1 => HoldingControl

(* The driver reads a bit for nothing before it looks at busy again.       *)
Polling == Len(script) = 3 /\ Head(script) = PlainOf("get_enable")

Reading ==
  /\ request.op = "read"
  /\ Remains(IF Polling THEN Tail(script) ELSE script, spi_ctrl_read(8))
  /\ Configured
  /\ command.address = request.address
  /\ txdata = request.data
  /\ Len(script) <= 8 => command.rnw = TRUE
  /\ Len(script) \in {9, 7, 5} => HoldingCommand
  /\ Len(script) = 3 /\ ~Polling => HoldingControl

Calling == \/ Initializing \/ SettingPolarity \/ SettingCommand
           \/ Writing \/ Reading

ScriptInv == DriverTyped /\ Pulsed /\ Calling

(* The accesses up to the next pulse, and the fewest edges they take.      *)
ToPulse == IF request.op = "write" THEN Len(script)
           ELSE IF request.op = "read" /\ Len(script) > 2 /\ ~Polling
             THEN Len(script) - 2
           ELSE 0
EdgesToPulse == (ToPulse - 1) * Fastest + (IF elapsed < Fastest THEN Fastest - elapsed ELSE 0)

(* The pulse is given, or its transaction runs, or the answer is there.    *)
Answering ==
  \/ spi_enable
  \/ transaction = Wanted /\ (remaining > 0 \/ spi_rx_data = request.address)

(* With accesses slow enough for the master to be ready at each pulse.     *)
TimeInv ==
  /\ spi_enable => remaining = 0 /\ ToPulse = 0
  /\ ToPulse > 0 => remaining <= EdgesToPulse
  /\ request.op = "read" =>
       /\ Polling \/ Len(script) = 2 => Answering
       /\ Len(script) = 1 => spi_rx_data = request.address /\ remaining = 0 /\ ~spi_enable
       /\ Len(script) = 0 => result = request.address

(* The pulse of a read is its eighth access, and a call may follow at once *)
(* on the pulse of a write: eight accesses outlast a transaction.  The     *)
(* code does not check this; at one edge less a pulse is lost.             *)
SlowAccesses == TransferEdges <= 8 * Fastest

----------------------------------------------------------------------------
(* The scripts, access by access                                           *)

LEMMA InAccesses ==
  /\ \A o \in PlainOps : PlainOf(o) \in Accesses
  /\ \A reg \in {"ctrl", "command"} : LoadOf(reg) \in Accesses
  /\ \A reg \in {"ctrl", "command"}, bit \in ControlBits \cup CommandBits,
       value \in BOOLEAN : SaveOf(reg, bit, value) \in Accesses
  /\ \A reg \in {"command", "txdata", "addr", "clk_div"},
       value \in Commands \cup Datas \cup {0, 3} : StoreOf(reg, value) \in Accesses
BY DEF PlainOps, Accesses, LoadOf, SaveOf, StoreOf, PlainOf

LEMMA SavesInAccesses ==
  \A b \in BOOLEAN :
    /\ \A bit \in CommandBits : SaveOf("command", bit, b) \in Accesses
    /\ \A bit \in ControlBits : SaveOf("ctrl", bit, b) \in Accesses
BY InAccesses DEF CommandBits, ControlBits

LEMMA ModifyIs ==
  \A reg, bit, value : Modify(reg, bit, value) = <<LoadOf(reg), SaveOf(reg, bit, value)>>
BY DEF Modify, LoadOf, SaveOf

LEMMA StoreIs == \A reg, value : Store(reg, value) = <<StoreOf(reg, value)>>
BY DEF Store, StoreOf

LEMMA WidthIs ==
  Width(8) = Modify("command", "w1", FALSE) \o Modify("command", "w0", FALSE)
<1> DEFINE w == [x \in {8, 16, 24, 32} |-> <<x \in {24, 32}, x \in {16, 32}>>][8]
<1>1. w[1] = FALSE /\ w[2] = FALSE
  <2>1. w = <<8 \in {24, 32}, 8 \in {16, 32}>>
    OBVIOUS
  <2>2. (8 \in {24, 32}) = FALSE /\ (8 \in {16, 32}) = FALSE
    BY SMT
  <2> HIDE DEF w
  <2>3. w = <<FALSE, FALSE>>
    BY <2>1, <2>2, Zenon
  <2> QED BY <2>3
<1>2. Width(8) = Modify("command", "w1", w[1]) \o Modify("command", "w0", w[2])
  BY DEF Width
<1> HIDE DEF w
<1> QED BY <1>1, <1>2

LEMMA WriteIs ==
  ASSUME NEW d \in Datas
  PROVE  LET p == spi_ctrl_write(d, 8)
         IN  /\ p \in Seq(Accesses) /\ Len(p) = 9
             /\ p[1] = StoreOf("txdata", d)
             /\ p[2] = LoadOf("command") /\ p[3] = SaveOf("command", "rnw", FALSE)
             /\ p[4] = LoadOf("command") /\ p[5] = SaveOf("command", "w1", FALSE)
             /\ p[6] = LoadOf("command") /\ p[7] = SaveOf("command", "w0", FALSE)
             /\ p[8] = LoadOf("ctrl") /\ p[9] = SaveOf("ctrl", "enable", TRUE)
<1> DEFINE s == StoreOf("txdata", d)
           l == LoadOf("command")
           a == SaveOf("command", "rnw", FALSE)
           b == SaveOf("command", "w1", FALSE)
           c == SaveOf("command", "w0", FALSE)
           m == LoadOf("ctrl")
           e == SaveOf("ctrl", "enable", TRUE)
<1>1. s \in Accesses /\ l \in Accesses /\ m \in Accesses
  BY InAccesses
<1>2. a \in Accesses /\ b \in Accesses /\ c \in Accesses /\ e \in Accesses
  BY SavesInAccesses DEF CommandBits, ControlBits
<1>3. spi_ctrl_write(d, 8) =
        ((<<s>> \o <<l, a>>) \o (<<l, b>> \o <<l, c>>)) \o <<m, e>>
  BY ModifyIs, StoreIs, WidthIs, Zenon DEF spi_ctrl_write, Enable
<1> HIDE DEF s, l, a, b, c, m, e
<1> DEFINE p == ((<<s>> \o <<l, a>>) \o (<<l, b>> \o <<l, c>>)) \o <<m, e>>
<1>4. p \in Seq(Accesses) /\ Len(p) = 9
  BY <1>1, <1>2
<1>5. /\ p[1] = s /\ p[2] = l /\ p[3] = a /\ p[4] = l /\ p[5] = b
      /\ p[6] = l /\ p[7] = c /\ p[8] = m /\ p[9] = e
  BY <1>1, <1>2, SMTT(60)
<1> HIDE DEF p
<1>6. spi_ctrl_write(d, 8) = p
  BY <1>3 DEF p
<1> QED BY <1>4, <1>5, <1>6, Zenon DEF s, l, a, b, c, m, e

LEMMA ReadIs ==
  LET p == spi_ctrl_read(8)
  IN  /\ p \in Seq(Accesses) /\ Len(p) = 10
      /\ p[1] = LoadOf("command") /\ p[2] = SaveOf("command", "rnw", TRUE)
      /\ p[3] = LoadOf("command") /\ p[4] = SaveOf("command", "w1", FALSE)
      /\ p[5] = LoadOf("command") /\ p[6] = SaveOf("command", "w0", FALSE)
      /\ p[7] = LoadOf("ctrl") /\ p[8] = SaveOf("ctrl", "enable", TRUE)
      /\ p[9] = PlainOf("get_busy") /\ p[10] = PlainOf("fetch")
<1> DEFINE l == LoadOf("command")
           a == SaveOf("command", "rnw", TRUE)
           b == SaveOf("command", "w1", FALSE)
           c == SaveOf("command", "w0", FALSE)
           m == LoadOf("ctrl")
           e == SaveOf("ctrl", "enable", TRUE)
           g == PlainOf("get_busy")
           f == PlainOf("fetch")
<1>1. l \in Accesses /\ m \in Accesses /\ g \in Accesses /\ f \in Accesses
  BY InAccesses DEF PlainOps
<1>2. a \in Accesses /\ b \in Accesses /\ c \in Accesses /\ e \in Accesses
  BY SavesInAccesses DEF CommandBits, ControlBits
<1>3. spi_ctrl_read(8) =
        ((<<l, a>> \o (<<l, b>> \o <<l, c>>)) \o <<m, e>>) \o <<g, f>>
  BY ModifyIs, WidthIs, Zenon DEF spi_ctrl_read, Enable, PlainOf
<1> HIDE DEF l, a, b, c, m, e, g, f
<1> DEFINE p == ((<<l, a>> \o (<<l, b>> \o <<l, c>>)) \o <<m, e>>) \o <<g, f>>
<1>4. p \in Seq(Accesses) /\ Len(p) = 10
  BY <1>1, <1>2
<1>5. /\ p[1] = l /\ p[2] = a /\ p[3] = l /\ p[4] = b /\ p[5] = l
      /\ p[6] = c /\ p[7] = m /\ p[8] = e /\ p[9] = g /\ p[10] = f
  BY <1>1, <1>2, SMTT(60)
<1> HIDE DEF p
<1>6. spi_ctrl_read(8) = p
  BY <1>3 DEF p
<1> QED BY <1>4, <1>5, <1>6, Zenon DEF l, a, b, c, m, e, g, f

LEMMA InitializeIs ==
  LET p == spi_ctrl_initialize(0, 3)
  IN  /\ p \in Seq(Accesses) /\ Len(p) = 9
      /\ p[1] = LoadOf("ctrl") /\ p[2] = SaveOf("ctrl", "cpol", TRUE)
      /\ p[3] = LoadOf("ctrl") /\ p[4] = SaveOf("ctrl", "cpha", TRUE)
      /\ p[5] = StoreOf("addr", 0) /\ p[6] = PlainOf("get_addr")
      /\ p[7] = LoadOf("ctrl") /\ p[8] = SaveOf("ctrl", "rst", FALSE)
      /\ p[9] = StoreOf("clk_div", 3)
<1> DEFINE m == LoadOf("ctrl")
           a == SaveOf("ctrl", "cpol", TRUE)
           b == SaveOf("ctrl", "cpha", TRUE)
           s == StoreOf("addr", 0)
           g == PlainOf("get_addr")
           c == SaveOf("ctrl", "rst", FALSE)
           t == StoreOf("clk_div", 3)
<1>1. m \in Accesses /\ s \in Accesses /\ g \in Accesses /\ t \in Accesses
  BY InAccesses DEF PlainOps
<1>2. a \in Accesses /\ b \in Accesses /\ c \in Accesses
  BY SavesInAccesses DEF CommandBits, ControlBits
<1>3. spi_ctrl_initialize(0, 3) =
        ((((<<m, a>> \o <<m, b>>) \o <<s>>) \o <<g>>) \o <<m, c>>) \o <<t>>
  BY ModifyIs, StoreIs, Zenon DEF spi_ctrl_initialize, spi_ctrl_set_cpol, PlainOf
<1> HIDE DEF m, a, b, s, g, c, t
<1> DEFINE p == ((((<<m, a>> \o <<m, b>>) \o <<s>>) \o <<g>>) \o <<m, c>>) \o <<t>>
<1>4. p \in Seq(Accesses) /\ Len(p) = 9
  BY <1>1, <1>2
<1>5. /\ p[1] = m /\ p[2] = a /\ p[3] = m /\ p[4] = b /\ p[5] = s
      /\ p[6] = g /\ p[7] = m /\ p[8] = c /\ p[9] = t
  BY <1>1, <1>2, SMTT(60)
<1> HIDE DEF p
<1>6. spi_ctrl_initialize(0, 3) = p
  BY <1>3 DEF p
<1> QED BY <1>4, <1>5, <1>6, Zenon DEF m, a, b, s, g, c, t

LEMMA SetPolarityIs ==
  LET p == spi_ctrl_set_cpol(TRUE)
  IN  /\ p \in Seq(Accesses) /\ Len(p) = 2
      /\ p[1] = LoadOf("ctrl") /\ p[2] = SaveOf("ctrl", "cpol", TRUE)
<1> DEFINE m == LoadOf("ctrl")
           a == SaveOf("ctrl", "cpol", TRUE)
<1>1. m \in Accesses /\ a \in Accesses
  BY InAccesses, SavesInAccesses DEF ControlBits
<1>2. spi_ctrl_set_cpol(TRUE) = <<m, a>>
  BY ModifyIs, Zenon DEF spi_ctrl_set_cpol
<1> HIDE DEF m, a
<1>3. <<m, a>> \in Seq(Accesses) /\ Len(<<m, a>>) = 2 /\ <<m, a>>[1] = m /\ <<m, a>>[2] = a
  BY <1>1
<1> QED BY <1>2, <1>3, Zenon DEF m, a

Fresh(c) == [address |-> c, rnw |-> FALSE, w1 |-> FALSE, w0 |-> FALSE]

LEMMA SetCommandIs ==
  ASSUME NEW c \in Addresses
  PROVE  LET p == spi_ctrl_set_command(c)
         IN  /\ p \in Seq(Accesses) /\ Len(p) = 1
             /\ p[1] = StoreOf("command", Fresh(c))
<1> DEFINE s == StoreOf("command", Fresh(c))
<1>1. s \in Accesses
  <2>1. Fresh(c) \in Commands
    BY DEF Fresh, Commands
  <2> QED BY <2>1, InAccesses
<1>2. spi_ctrl_set_command(c) = <<s>>
  BY StoreIs, Zenon DEF spi_ctrl_set_command, Fresh
<1> HIDE DEF s
<1> QED BY <1>1, <1>2 DEF s

----------------------------------------------------------------------------
(* One access                                                              *)

LEMMA Times ==
  /\ TransferEdges \in Nat /\ TransferEdges > 0
  /\ Fastest \in Nat /\ Fastest >= 3 /\ Slowest \in Nat /\ Fastest <= Slowest
BY TimeAssumption

(* What an access leaves of a script.                                      *)
LEMMA Advance ==
  ASSUME NEW p \in Seq(Accesses), NEW s \in Seq(Accesses), Remains(s, p), s # <<>>
  PROVE  /\ Len(s) \in 1 .. Len(p) /\ Len(p) \in Nat
         /\ Head(s) = p[(Len(p) - Len(s)) + 1]
         /\ Tail(s) \in Seq(Accesses) /\ Len(Tail(s)) = Len(s) - 1
         /\ Remains(Tail(s), p)
         /\ Tail(s) # <<>> => /\ Len(s) > 1
                              /\ Head(Tail(s)) = p[(Len(p) - Len(s)) + 2]
<1>1. Len(s) \in Nat \ {0} /\ Len(p) \in Nat /\ Len(s) <= Len(p)
  BY EmptySeq, LenProperties DEF Remains
<1>2. /\ Tail(s) \in Seq(Accesses) /\ Len(Tail(s)) = Len(s) - 1
      /\ \A i \in 1 .. Len(Tail(s)) : Tail(s)[i] = s[i + 1]
  BY HeadTailProperties
<1>3. Head(s) = s[1]
  BY <1>1
<1>4. s[1] = p[(Len(p) - Len(s)) + 1]
  BY <1>1 DEF Remains
<1>5. Remains(Tail(s), p)
  <2>1. ASSUME NEW i \in 1 .. Len(Tail(s))
        PROVE  Tail(s)[i] = p[(Len(p) - Len(Tail(s))) + i]
    <3>1. i + 1 \in 1 .. Len(s)
      BY <1>1, <1>2
    <3>2. s[i + 1] = p[(Len(p) - Len(s)) + (i + 1)]
      BY <3>1 DEF Remains
    <3>3. (Len(p) - Len(s)) + (i + 1) = (Len(p) - Len(Tail(s))) + i
      BY <1>1, <1>2
    <3> QED BY <1>2, <3>2, <3>3
  <2> QED BY <1>1, <1>2, <2>1 DEF Remains
<1>6. ASSUME Tail(s) # <<>>
      PROVE  Len(s) > 1 /\ Head(Tail(s)) = p[(Len(p) - Len(s)) + 2]
  <2>1. Len(Tail(s)) \in Nat \ {0}
    BY <1>2, <1>6, EmptySeq
  <2>2. Head(Tail(s)) = Tail(s)[1] /\ Tail(s)[1] = s[2]
    BY <1>2, <2>1
  <2>3. 2 \in 1 .. Len(s)
    BY <1>1, <1>2, <2>1
  <2> QED BY <1>1, <2>2, <2>3 DEF Remains
<1> QED BY <1>1, <1>2, <1>3, <1>4, <1>5, <1>6

(* What each kind of access does.                                          *)
LEMMA DoLoad ==
  ASSUME NEW reg \in {"ctrl", "command"}, Do(LoadOf(reg))
  PROVE  NoWrite /\ temp' = ReadRegister(reg) /\ result' = result
BY DEF Do, LoadOf

LEMMA DoPlain ==
  ASSUME NEW o \in {"get_busy", "get_enable", "get_addr"}, Do(PlainOf(o))
  PROVE  NoWrite /\ temp' = temp /\ result' = result
BY DEF Do, PlainOf

LEMMA DoFetch ==
  ASSUME Do(PlainOf("fetch"))
  PROVE  NoWrite /\ temp' = temp /\ result' = spi_rx_data
BY DEF Do, PlainOf

LEMMA DoStore ==
  ASSUME NEW reg \in {"command", "txdata", "addr", "clk_div"}, NEW value,
         Do(StoreOf(reg, value))
  PROVE  WriteRegister(reg, value) /\ temp' = temp /\ result' = result
BY DEF Do, StoreOf

LEMMA DoSave ==
  ASSUME NEW reg \in {"ctrl", "command"}, NEW bit, NEW value \in BOOLEAN,
         Do(SaveOf(reg, bit, value))
  PROVE  WriteRegister(reg, [temp EXCEPT ![bit] = value]) /\ temp' = temp /\ result' = result
BY DEF Do, SaveOf

LEMMA WithCommandBit ==
  ASSUME NEW c \in Commands, NEW bit \in CommandBits, NEW value \in BOOLEAN
  PROVE  LET n == [c EXCEPT ![bit] = value]
         IN  /\ n \in Commands /\ n.address = c.address
             /\ bit = "rnw" => n.rnw = value
             /\ bit # "rnw" => n.rnw = c.rnw
BY DEF Commands, CommandBits

LEMMA WithControlBit ==
  ASSUME NEW c \in Controls, NEW bit \in ControlBits, NEW value \in BOOLEAN
  PROVE  LET n == [c EXCEPT ![bit] = value]
         IN  /\ n \in Controls
             /\ bit = "cpol" => n.cpol = value
             /\ bit # "cpol" => n.cpol = c.cpol
             /\ bit = "cpha" => n.cpha = value
             /\ bit # "cpha" => n.cpha = c.cpha
             /\ bit = "enable" => n.enable = value
             /\ bit # "enable" => n.enable = c.enable
BY DEF Controls, ControlBits

LEMMA WithStatus ==
  ASSUME NEW c \in Controls, NEW e \in BOOLEAN, NEW b \in BOOLEAN
  PROVE  LET n == [c EXCEPT !.enable = e, !.busy = b]
         IN  n \in Controls /\ n.enable = e /\ n.cpol = c.cpol /\ n.cpha = c.cpha
BY DEF Controls

(* A change of a bit, its first access and its second.                     *)
LEMMA LoadCommand ==
  ASSUME Do(LoadOf("command"))
  PROVE  NoWrite /\ temp' = command /\ result' = result
BY DoLoad DEF ReadRegister

LEMMA LoadControl ==
  ASSUME Do(LoadOf("ctrl")), DriverTyped, ~spi_enable
  PROVE  /\ NoWrite /\ result' = result
         /\ temp' \in Controls /\ temp'.enable = FALSE
         /\ temp'.cpol = ctrl.cpol /\ temp'.cpha = ctrl.cpha
<1>1. NoWrite /\ temp' = spi_reg0 /\ result' = result
  BY DoLoad DEF ReadRegister
<1>2. /\ spi_reg0 \in Controls /\ spi_reg0.enable = spi_enable
      /\ spi_reg0.cpol = ctrl.cpol /\ spi_reg0.cpha = ctrl.cpha
  <2>1. ctrl \in Controls /\ spi_enable \in BOOLEAN /\ (remaining > 0) \in BOOLEAN
    BY DEF DriverTyped
  <2> QED BY <2>1, WithStatus, Zenon DEF spi_reg0
<1>3. spi_enable = FALSE
  BY DEF DriverTyped
<1> QED BY <1>1, <1>2, <1>3

LEMMA SaveCommand ==
  ASSUME NEW bit \in CommandBits, NEW value \in BOOLEAN, Do(SaveOf("command", bit, value)),
         DriverTyped, temp = command
  PROVE  /\ command' \in Commands /\ command'.address = command.address
         /\ bit = "rnw" => command'.rnw = value
         /\ bit # "rnw" => command'.rnw = command.rnw
         /\ UNCHANGED <<ctrl, txdata, addr, clk_div, result>>
         /\ spi_enable' = FALSE
<1> DEFINE n == [command EXCEPT ![bit] = value]
<1>1. WriteRegister("command", n) /\ result' = result
  BY DoSave
<1>2. /\ n \in Commands /\ n.address = command.address
      /\ bit = "rnw" => n.rnw = value
      /\ bit # "rnw" => n.rnw = command.rnw
  BY WithCommandBit DEF DriverTyped
<1> HIDE DEF n
<1>3. /\ command' = n /\ UNCHANGED <<ctrl, txdata, addr, clk_div, result>>
      /\ spi_enable' = FALSE
  BY <1>1 DEF WriteRegister
<1> QED BY <1>2, <1>3

LEMMA SaveControl ==
  ASSUME NEW bit \in ControlBits, NEW value \in BOOLEAN, Do(SaveOf("ctrl", bit, value)),
         temp \in Controls, temp.enable = FALSE
  PROVE  /\ ctrl' \in Controls
         /\ bit = "cpol" => ctrl'.cpol = value
         /\ bit # "cpol" => ctrl'.cpol = temp.cpol
         /\ bit = "cpha" => ctrl'.cpha = value
         /\ bit # "cpha" => ctrl'.cpha = temp.cpha
         /\ UNCHANGED <<command, txdata, addr, clk_div, result>>
         /\ spi_enable' = (bit = "enable" /\ value)
<1> DEFINE n == [temp EXCEPT ![bit] = value]
<1>1. WriteRegister("ctrl", n) /\ result' = result
  BY DoSave
<1>2. /\ n \in Controls
      /\ bit = "cpol" => n.cpol = value
      /\ bit # "cpol" => n.cpol = temp.cpol
      /\ bit = "cpha" => n.cpha = value
      /\ bit # "cpha" => n.cpha = temp.cpha
      /\ bit = "enable" => n.enable = value
      /\ bit # "enable" => n.enable = FALSE
  BY WithControlBit
<1> HIDE DEF n
<1>3. /\ ctrl' = n /\ UNCHANGED <<command, txdata, addr, clk_div, result>>
      /\ spi_enable' = n.enable
  <2>1. n.enable \in BOOLEAN
    BY <1>2 DEF Controls
  <2> QED BY <1>1, <2>1 DEF WriteRegister
<1>4. n.enable = (bit = "enable" /\ value)
  <2>1. CASE bit = "enable"
    BY <1>2, <2>1
  <2>2. CASE bit # "enable"
    BY <1>2, <2>2
  <2> QED BY <2>1, <2>2
<1> QED BY <1>2, <1>3, <1>4

----------------------------------------------------------------------------
(* The steps of the driver                                                 *)

LEMMA AtAccess ==
  ASSUME ScriptInv, Access
  PROVE  /\ script \in Seq(Accesses) /\ script # <<>> /\ spi_enable = FALSE
         /\ Do(Head(script)) /\ script' = Rest
         /\ elapsed' = 0 /\ 0 \in 0 .. Slowest - 1
         /\ request' = request
<1>1. elapsed + 1 >= 3 /\ 0 \in 0 .. Slowest - 1
  BY Times DEF ScriptInv, DriverTyped, Access
<1>2. spi_enable = FALSE
  <2>1. spi_enable => elapsed = 0
    BY DEF ScriptInv, Pulsed
  <2>2. spi_enable \in BOOLEAN
    BY DEF ScriptInv, DriverTyped
  <2>3. elapsed # 0
    BY <1>1, Times DEF Access
  <2> QED BY <2>1, <2>2, <2>3
<1> QED BY <1>1, <1>2 DEF ScriptInv, DriverTyped, Access

LEMMA NotPolls ==
  /\ \A reg : LoadOf(reg).op # "get_busy"
  /\ \A reg, bit, value : SaveOf(reg, bit, value).op # "get_busy"
  /\ \A reg, value : StoreOf(reg, value).op # "get_busy"
  /\ PlainOf("get_enable").op # "get_busy"
  /\ PlainOf("get_addr").op # "get_busy"
  /\ PlainOf("fetch").op # "get_busy"
BY DEF LoadOf, SaveOf, StoreOf, PlainOf

(* All but the access that polls takes an access off the script.           *)
LEMMA TakenOff ==
  ASSUME ScriptInv, Access, Head(script).op # "get_busy"
  PROVE  script' = Tail(script)
BY AtAccess DEF Rest

(* The effects of the accesses of the driver.                              *)
LEMMA LoadingCommand ==
  ASSUME Do(LoadOf("command"))
  PROVE  /\ UNCHANGED <<ctrl, command, txdata, addr, clk_div>>
         /\ spi_enable' = FALSE /\ HoldingCommand'
BY LoadCommand DEF NoWrite, registers, HoldingCommand

LEMMA LoadingControl ==
  ASSUME Do(LoadOf("ctrl")), ScriptInv, spi_enable = FALSE
  PROVE  /\ UNCHANGED <<ctrl, command, txdata, addr, clk_div>>
         /\ spi_enable' = FALSE /\ HoldingControl'
BY LoadControl DEF NoWrite, registers, HoldingControl, ScriptInv

LEMMA SavingCommand ==
  ASSUME NEW bit \in CommandBits, NEW value \in BOOLEAN, Do(SaveOf("command", bit, value)),
         ScriptInv, HoldingCommand
  PROVE  /\ command' \in Commands /\ command'.address = command.address
         /\ bit = "rnw" => command'.rnw = value
         /\ bit # "rnw" => command'.rnw = command.rnw
         /\ UNCHANGED <<ctrl, txdata, addr, clk_div>>
         /\ spi_enable' = FALSE
BY SaveCommand DEF HoldingCommand, ScriptInv

LEMMA SavingControl ==
  ASSUME NEW bit \in ControlBits, NEW value \in BOOLEAN, Do(SaveOf("ctrl", bit, value)),
         HoldingControl
  PROVE  /\ ctrl' \in Controls
         /\ bit = "cpol" => ctrl'.cpol = value
         /\ bit # "cpol" => ctrl'.cpol = ctrl.cpol
         /\ bit = "cpha" => ctrl'.cpha = value
         /\ bit # "cpha" => ctrl'.cpha = ctrl.cpha
         /\ UNCHANGED <<command, txdata, addr, clk_div>>
         /\ spi_enable' \in BOOLEAN
         /\ bit # "enable" => spi_enable' = FALSE
         /\ bit = "enable" => spi_enable' = value
BY SaveControl, Zenon DEF HoldingControl

(* What is driven to the master when the command and the data are there.   *)
Prepared == /\ Configured /\ command.address = request.address /\ txdata = request.data
         /\ \/ command.rnw = FALSE /\ request.op = "write"
            \/ command.rnw = TRUE /\ request.op = "read"

LEMMA PreparedIs == Prepared => tx = Wanted
<1> SUFFICES ASSUME Prepared PROVE tx = Wanted
  OBVIOUS
<1>1. (~command.rnw) = (request.op = "write")
  BY DEF Prepared
<1> QED BY <1>1, Zenon DEF Prepared, Configured, tx, Wanted

(* The types that an access touches.                                       *)
AccessTyped ==
  /\ script \in Seq(Accesses)
  /\ ctrl \in Controls /\ command \in Commands /\ txdata \in Datas \cup {0}
  /\ spi_enable \in BOOLEAN

LEMMA WritingStep ==
  ASSUME ScriptInv, Writing, Access
  PROVE  /\ AccessTyped' /\ Pulsed' /\ Writing'
         /\ Len(script) \in 1 .. 9 /\ Len(script') = Len(script) - 1
         /\ spi_enable' => Len(script') = 0
<1> DEFINE p == spi_ctrl_write(request.data, 8)
           k == Len(script)
<1>1. /\ p \in Seq(Accesses) /\ Len(p) = 9
      /\ p[1] = StoreOf("txdata", request.data)
      /\ p[2] = LoadOf("command") /\ p[3] = SaveOf("command", "rnw", FALSE)
      /\ p[4] = LoadOf("command") /\ p[5] = SaveOf("command", "w1", FALSE)
      /\ p[6] = LoadOf("command") /\ p[7] = SaveOf("command", "w0", FALSE)
      /\ p[8] = LoadOf("ctrl") /\ p[9] = SaveOf("ctrl", "enable", TRUE)
  BY WriteIs DEF Writing
<1>2. /\ script \in Seq(Accesses) /\ script # <<>> /\ spi_enable = FALSE
      /\ Do(Head(script)) /\ script' = Rest
      /\ elapsed' = 0 /\ request' = request
  BY AtAccess
<1>3. Remains(script, p)
  BY DEF Writing
<1>4. p' = p
  BY <1>2
<1> HIDE DEF p
<1>5. /\ k \in 1 .. 9 /\ Head(script) = p[(9 - k) + 1]
      /\ Tail(script) \in Seq(Accesses) /\ Len(Tail(script)) = k - 1
      /\ Remains(Tail(script), p)
  BY <1>1, <1>2, <1>3, Advance
<1>6. /\ k = 9 => Head(script) = StoreOf("txdata", request.data)
      /\ k \in {8, 6, 4} => Head(script) = LoadOf("command")
      /\ k = 7 => Head(script) = SaveOf("command", "rnw", FALSE)
      /\ k = 5 => Head(script) = SaveOf("command", "w1", FALSE)
      /\ k = 3 => Head(script) = SaveOf("command", "w0", FALSE)
      /\ k = 2 => Head(script) = LoadOf("ctrl")
      /\ k = 1 => Head(script) = SaveOf("ctrl", "enable", TRUE)
  <2> DEFINE j == (9 - k) + 1
  <2> HIDE DEF k
  <2>1. /\ k = 9 => j = 1
        /\ k = 8 => j = 2
        /\ k = 7 => j = 3
        /\ k = 6 => j = 4
        /\ k = 5 => j = 5
        /\ k = 4 => j = 6
        /\ k = 3 => j = 7
        /\ k = 2 => j = 8
        /\ k = 1 => j = 9
    OBVIOUS
  <2>2. Head(script) = p[j]
    BY <1>5
  <2> HIDE DEF j
  <2> QED BY <1>1, <2>1, <2>2
<1>k. k = 9 \/ k \in {8, 6, 4} \/ k \in {7, 5, 3} \/ k = 2 \/ k = 1
  <2> HIDE DEF k
  <2>1. k \in 1 .. 9
    BY <1>5
  <2> QED BY <2>1
<1>7. /\ script' \in Seq(Accesses) /\ Len(script)' = k - 1 /\ Remains(script, p)'
  <2>1. Head(script).op # "get_busy"
    <3> HIDE DEF k
    <3> QED BY <1>k, <1>6, NotPolls, Zenon
  <2>2. script' = Tail(script)
    BY <2>1, TakenOff
  <2> QED BY <1>4, <1>5, <2>2 DEF Remains
<1>8. /\ ctrl \in Controls /\ command \in Commands /\ txdata \in Datas \cup {0}
      /\ request.op = "write" /\ Configured
      /\ command.address = request.address
      /\ request.data \in Datas
      /\ k <= 8 => txdata = request.data
      /\ k <= 6 => command.rnw = FALSE
      /\ k \in {7, 5, 3} => HoldingCommand
      /\ k = 1 => HoldingControl
  BY DEF ScriptInv, DriverTyped, Writing
<1> DEFINE k2 == Len(script')
           Kept == /\ ctrl' \in Controls /\ command' \in Commands
                   /\ txdata' \in Datas \cup {0}
                   /\ Configured' /\ command'.address = command.address
           Left == /\ k2 <= 8 => txdata' = request.data
                   /\ k2 <= 6 => command'.rnw = FALSE
                   /\ k2 \in {7, 5, 3} => HoldingCommand'
                   /\ k2 = 1 => HoldingControl'
           Pulse == /\ spi_enable' \in BOOLEAN
                    /\ spi_enable' => k2 = 0
<1>9. k2 = k - 1
  BY <1>7
<1>10. Kept /\ Left /\ Pulse
  <2> HIDE DEF k, k2
  <2>1. CASE k = 9
    <3>1. WriteRegister("txdata", request.data)
      BY <1>2, <1>6, <2>1, DoStore
    <3>2. /\ txdata' = request.data /\ UNCHANGED <<ctrl, command, addr, clk_div>>
          /\ spi_enable' = FALSE
      BY <3>1 DEF WriteRegister
    <3>8. Kept /\ Pulse
      BY <1>8, <1>9, <2>1, <3>2 DEF Configured
    <3>9. Left
      BY <1>8, <1>9, <2>1, <3>2
    <3> QED BY <3>8, <3>9
  <2>2. CASE k \in {8, 6, 4}
    <3>1. /\ UNCHANGED <<ctrl, command, txdata, addr, clk_div>>
          /\ spi_enable' = FALSE /\ HoldingCommand'
      BY <1>2, <1>6, <2>2, LoadingCommand
    <3>8. Kept /\ Pulse
      BY <1>8, <1>9, <2>2, <3>1 DEF Configured
    <3>9. Left
      BY <1>8, <1>9, <2>2, <3>1
    <3> QED BY <3>8, <3>9
  <2>3. CASE k \in {7, 5, 3}
    <3>1. PICK bit \in CommandBits :
            Do(SaveOf("command", bit, FALSE)) /\ (k = 7 => bit = "rnw") /\ (k # 7 => bit # "rnw")
      BY <1>2, <1>6, <2>3 DEF CommandBits
    <3>2. /\ command' \in Commands /\ command'.address = command.address
          /\ bit = "rnw" => command'.rnw = FALSE
          /\ bit # "rnw" => command'.rnw = command.rnw
          /\ UNCHANGED <<ctrl, txdata, addr, clk_div>>
          /\ spi_enable' = FALSE
      BY <1>8, <2>3, <3>1, SavingCommand
    <3>8. Kept /\ Pulse
      BY <1>8, <1>9, <2>3, <3>1, <3>2 DEF Configured
    <3>9. Left
      BY <1>8, <1>9, <2>3, <3>1, <3>2
    <3> QED BY <3>8, <3>9
  <2>4. CASE k = 2
    <3>1. /\ UNCHANGED <<ctrl, command, txdata, addr, clk_div>>
          /\ spi_enable' = FALSE /\ HoldingControl'
      BY <1>2, <1>6, <2>4, LoadingControl
    <3>8. Kept /\ Pulse
      BY <1>8, <1>9, <2>4, <3>1 DEF Configured
    <3>9. Left
      BY <1>8, <1>9, <2>4, <3>1
    <3> QED BY <3>8, <3>9
  <2>5. CASE k = 1
    <3>1. /\ ctrl' \in Controls /\ ctrl'.cpol = ctrl.cpol /\ ctrl'.cpha = ctrl.cpha
          /\ UNCHANGED <<command, txdata, addr, clk_div>>
          /\ spi_enable' \in BOOLEAN
      BY <1>2, <1>6, <1>8, <2>5, SavingControl DEF ControlBits
    <3>8. Kept /\ Pulse
      BY <1>8, <1>9, <2>5, <3>1 DEF Configured
    <3>9. Left
      BY <1>8, <1>9, <2>5, <3>1
    <3> QED BY <3>8, <3>9
  <2> HIDE DEF Kept, Left, Pulse
  <2> QED BY <1>k, <2>1, <2>2, <2>3, <2>4, <2>5
<1>11. AccessTyped'
  BY <1>7, <1>10 DEF AccessTyped
<1>12. Writing'
  BY <1>2, <1>7, <1>8, <1>10 DEF Writing, p
<1>13. Pulsed'
  <2>1. spi_enable' => Prepared'
    BY <1>2, <1>8, <1>10 DEF Prepared
  <2>2. Prepared' => (tx = Wanted)'
    BY PreparedIs, PTL
  <2> QED BY <1>2, <1>8, <2>1, <2>2 DEF Pulsed
<1> QED BY <1>5, <1>9, <1>10, <1>11, <1>12, <1>13

LEMMA Prepended ==
  ASSUME NEW a \in Accesses, NEW s \in Seq(Accesses)
  PROVE  LET t == <<a>> \o s
         IN  /\ t \in Seq(Accesses) /\ t # <<>> /\ Len(t) = Len(s) + 1 /\ Head(t) = a
             /\ Tail(t) \in Seq(Accesses) /\ Len(Tail(t)) = Len(s)
             /\ \A i \in 1 .. Len(s) : Tail(t)[i] = s[i]
<1> DEFINE t == <<a>> \o s
<1>1. /\ t \in Seq(Accesses) /\ Len(t) = Len(s) + 1 /\ t[1] = a /\ Len(s) \in Nat
      /\ \A i \in 1 .. Len(s) : t[i + 1] = s[i]
  OBVIOUS
<1> HIDE DEF t
<1>2. t # <<>> /\ Head(t) = a
  BY <1>1
<1>3. /\ Tail(t) \in Seq(Accesses) /\ Len(Tail(t)) = Len(t) - 1
      /\ \A i \in 1 .. Len(Tail(t)) : Tail(t)[i] = t[i + 1]
  BY <1>1, <1>2, HeadTailProperties
<1> QED BY <1>1, <1>2, <1>3 DEF t

(* What is left of a read of which the driver has not started to poll.     *)
LEMMA ReadScript ==
  ASSUME ScriptInv, Reading, Access, ~Polling
  PROVE  LET p == spi_ctrl_read(8)
             k == Len(script)
         IN  /\ k \in 1 .. 10 /\ p \in Seq(Accesses) /\ Len(p) = 10
             /\ Remains(script, p) /\ Remains(Tail(script), p)
             /\ Tail(script) \in Seq(Accesses) /\ Len(Tail(script)) = k - 1
             /\ k \in {10, 8, 6} => Head(script) = LoadOf("command")
             /\ k = 9 => Head(script) = SaveOf("command", "rnw", TRUE)
             /\ k = 7 => Head(script) = SaveOf("command", "w1", FALSE)
             /\ k = 5 => Head(script) = SaveOf("command", "w0", FALSE)
             /\ k = 4 => Head(script) = LoadOf("ctrl")
             /\ k = 3 => Head(script) = SaveOf("ctrl", "enable", TRUE)
             /\ k = 2 => Head(script) = PlainOf("get_busy")
             /\ k = 1 => Head(script) = PlainOf("fetch")
<1> DEFINE p == spi_ctrl_read(8)
           k == Len(script)
           j == (10 - k) + 1
<1>1. /\ p \in Seq(Accesses) /\ Len(p) = 10
      /\ p[1] = LoadOf("command") /\ p[2] = SaveOf("command", "rnw", TRUE)
      /\ p[3] = LoadOf("command") /\ p[4] = SaveOf("command", "w1", FALSE)
      /\ p[5] = LoadOf("command") /\ p[6] = SaveOf("command", "w0", FALSE)
      /\ p[7] = LoadOf("ctrl") /\ p[8] = SaveOf("ctrl", "enable", TRUE)
      /\ p[9] = PlainOf("get_busy") /\ p[10] = PlainOf("fetch")
  BY ReadIs
<1>2. script \in Seq(Accesses) /\ script # <<>>
  BY AtAccess
<1>3. Remains(script, p)
  BY DEF Reading
<1> HIDE DEF p
<1>4. /\ k \in 1 .. 10 /\ Head(script) = p[j]
      /\ Tail(script) \in Seq(Accesses) /\ Len(Tail(script)) = k - 1
      /\ Remains(Tail(script), p)
  BY <1>1, <1>2, <1>3, Advance
<1> HIDE DEF k
<1>5. /\ k = 10 => j = 1
      /\ k = 9 => j = 2
      /\ k = 8 => j = 3
      /\ k = 7 => j = 4
      /\ k = 6 => j = 5
      /\ k = 5 => j = 6
      /\ k = 4 => j = 7
      /\ k = 3 => j = 8
      /\ k = 2 => j = 9
      /\ k = 1 => j = 10
  OBVIOUS
<1> HIDE DEF j
<1>6. /\ k \in {10, 8, 6} => Head(script) = LoadOf("command")
      /\ k = 9 => Head(script) = SaveOf("command", "rnw", TRUE)
      /\ k = 7 => Head(script) = SaveOf("command", "w1", FALSE)
      /\ k = 5 => Head(script) = SaveOf("command", "w0", FALSE)
      /\ k = 4 => Head(script) = LoadOf("ctrl")
      /\ k = 3 => Head(script) = SaveOf("ctrl", "enable", TRUE)
      /\ k = 2 => Head(script) = PlainOf("get_busy")
      /\ k = 1 => Head(script) = PlainOf("fetch")
  BY <1>1, <1>4, <1>5
<1> QED BY <1>1, <1>3, <1>4, <1>6 DEF p, k

(* The accesses of a read up to the pulse, and those that wait for busy.   *)
LEMMA CommandingStep ==
  ASSUME ScriptInv, Reading, Access, ~Polling, Len(script) > 2
  PROVE  /\ Len(script) \in 3 .. 10 /\ Len(script') = Len(script) - 1
         /\ script' = Tail(script) /\ Polling' = FALSE
         /\ Len(script') = 2 => spi_enable'
         /\ AccessTyped' /\ Pulsed' /\ Reading'
<1> DEFINE p == spi_ctrl_read(8)
           k == Len(script)
           k2 == Len(script')
<1>1. /\ k \in 1 .. 10 /\ Remains(Tail(script), p)
      /\ Tail(script) \in Seq(Accesses) /\ Len(Tail(script)) = k - 1
      /\ k \in {10, 8, 6} => Head(script) = LoadOf("command")
      /\ k = 9 => Head(script) = SaveOf("command", "rnw", TRUE)
      /\ k = 7 => Head(script) = SaveOf("command", "w1", FALSE)
      /\ k = 5 => Head(script) = SaveOf("command", "w0", FALSE)
      /\ k = 4 => Head(script) = LoadOf("ctrl")
      /\ k = 3 => Head(script) = SaveOf("ctrl", "enable", TRUE)
  BY ReadScript
<1>2. /\ spi_enable = FALSE /\ Do(Head(script))
      /\ elapsed' = 0 /\ request' = request
  BY AtAccess
<1>k. k \in {10, 8, 6} \/ k = 9 \/ k \in {7, 5} \/ k = 4 \/ k = 3
  <2> HIDE DEF k
  <2>1. k \in 1 .. 10 /\ k > 2
    BY <1>1 DEF k
  <2> QED BY <2>1
<1>3. script' = Tail(script)
  <2>1. Head(script).op # "get_busy"
    <3> HIDE DEF k
    <3> QED BY <1>k, <1>1, NotPolls, Zenon
  <2> QED BY <2>1, TakenOff
<1>4. script' \in Seq(Accesses) /\ k2 = k - 1 /\ Remains(script', p)
  BY <1>1, <1>3
<1>5. /\ ctrl \in Controls /\ command \in Commands /\ txdata \in Datas \cup {0}
      /\ request.op = "read" /\ Configured
      /\ command.address = request.address /\ txdata = request.data
      /\ k <= 8 => command.rnw = TRUE
      /\ k \in {9, 7, 5} => HoldingCommand
      /\ k = 3 => HoldingControl
  BY DEF ScriptInv, DriverTyped, Reading
<1> DEFINE Kept == /\ ctrl' \in Controls /\ command' \in Commands
                   /\ txdata' \in Datas \cup {0} /\ txdata' = txdata
                   /\ Configured' /\ command'.address = command.address
           Left == /\ k2 <= 8 => command'.rnw = TRUE
                   /\ k2 \in {9, 7, 5} => HoldingCommand'
                   /\ k2 = 3 => HoldingControl'
                   /\ k2 = 2 => spi_enable' = TRUE
           Pulse == /\ spi_enable' \in BOOLEAN
                    /\ spi_enable' => k2 = 2
<1>6. Kept /\ Left /\ Pulse
  <2> HIDE DEF k, k2
  <2>1. CASE k \in {10, 8, 6}
    <3>1. /\ UNCHANGED <<ctrl, command, txdata, addr, clk_div>>
          /\ spi_enable' = FALSE /\ HoldingCommand'
      BY <1>1, <1>2, <2>1, LoadingCommand
    <3>2. Kept /\ Pulse
      BY <1>4, <1>5, <2>1, <3>1 DEF Configured
    <3>3. Left
      BY <1>4, <1>5, <2>1, <3>1
    <3> QED BY <3>2, <3>3
  <2>2. CASE k = 9
    <3>1. /\ command' \in Commands /\ command'.address = command.address
          /\ command'.rnw = TRUE
          /\ UNCHANGED <<ctrl, txdata, addr, clk_div>>
          /\ spi_enable' = FALSE
      BY <1>1, <1>2, <1>5, <2>2, SavingCommand DEF CommandBits
    <3>2. Kept /\ Pulse
      BY <1>4, <1>5, <2>2, <3>1 DEF Configured
    <3>3. Left
      BY <1>4, <1>5, <2>2, <3>1
    <3> QED BY <3>2, <3>3
  <2>3. CASE k \in {7, 5}
    <3>1. PICK bit \in CommandBits : Do(SaveOf("command", bit, FALSE)) /\ bit # "rnw"
      BY <1>1, <1>2, <2>3 DEF CommandBits
    <3>2. /\ command' \in Commands /\ command'.address = command.address
          /\ command'.rnw = command.rnw
          /\ UNCHANGED <<ctrl, txdata, addr, clk_div>>
          /\ spi_enable' = FALSE
      BY <1>5, <2>3, <3>1, SavingCommand
    <3>3. Kept /\ Pulse
      BY <1>4, <1>5, <2>3, <3>2 DEF Configured
    <3>4. Left
      BY <1>4, <1>5, <2>3, <3>2
    <3> QED BY <3>3, <3>4
  <2>4. CASE k = 4
    <3>1. /\ UNCHANGED <<ctrl, command, txdata, addr, clk_div>>
          /\ spi_enable' = FALSE /\ HoldingControl'
      BY <1>1, <1>2, <2>4, LoadingControl
    <3>2. Kept /\ Pulse
      BY <1>4, <1>5, <2>4, <3>1 DEF Configured
    <3>3. Left
      BY <1>4, <1>5, <2>4, <3>1
    <3> QED BY <3>2, <3>3
  <2>5. CASE k = 3
    <3>1. /\ ctrl' \in Controls /\ ctrl'.cpol = ctrl.cpol /\ ctrl'.cpha = ctrl.cpha
          /\ UNCHANGED <<command, txdata, addr, clk_div>>
          /\ spi_enable' = TRUE
      BY <1>1, <1>2, <1>5, <2>5, SavingControl DEF ControlBits
    <3>2. Kept /\ Pulse
      BY <1>4, <1>5, <2>5, <3>1 DEF Configured
    <3>3. Left
      BY <1>4, <1>5, <2>5, <3>1
    <3> QED BY <3>2, <3>3
  <2> HIDE DEF Kept, Left, Pulse
  <2> QED BY <1>k, <2>1, <2>2, <2>3, <2>4, <2>5
<1>7. AccessTyped'
  BY <1>4, <1>6 DEF AccessTyped
<1>8. Polling' = FALSE
  <2>1. k2 = 3 => Head(script') = SaveOf("ctrl", "enable", TRUE)
    <3>1. CASE k2 = 3
      <4>1. script \in Seq(Accesses) /\ script # <<>> /\ Remains(script, p)
        BY AtAccess, ReadScript
      <4>2. p \in Seq(Accesses) /\ Len(p) = 10 /\ p[8] = SaveOf("ctrl", "enable", TRUE)
        BY ReadIs
      <4> HIDE DEF p
      <4>3. k = 4
        <5> HIDE DEF k, k2
        <5>1. k \in 1 .. 10
          BY <1>1 DEF k
        <5> QED BY <1>4, <3>1, <5>1
      <4>6. Tail(script) # <<>>
        <5>1. Len(Tail(script)) = 3
          BY <1>3, <3>1
        <5> QED BY <5>1
      <4>4. Head(Tail(script)) = p[(10 - k) + 2]
        BY <4>1, <4>2, <4>6, Advance
      <4>5. (10 - k) + 2 = 8
        BY <4>3
      <4> QED BY <1>3, <4>2, <4>4, <4>5
    <3> QED BY <3>1
  <2>2. SaveOf("ctrl", "enable", TRUE) # PlainOf("get_enable")
    <3>1. SaveOf("ctrl", "enable", TRUE).op = "save" /\ PlainOf("get_enable").op = "get_enable"
      BY DEF SaveOf, PlainOf
    <3> QED BY <3>1
  <2> QED BY <2>1, <2>2 DEF Polling
<1>9. Reading'
  BY <1>2, <1>4, <1>5, <1>6, <1>8 DEF Reading
<1>10. Pulsed'
  <2>1. ASSUME spi_enable' PROVE Prepared'
    <3> HIDE DEF k, k2
    <3>1. command'.rnw = TRUE /\ Kept
      BY <1>6, <2>1
    <3> QED BY <1>2, <1>5, <3>1 DEF Prepared
  <2>2. Prepared' => (tx = Wanted)'
    BY PreparedIs, PTL
  <2> QED BY <1>2, <1>5, <1>6, <2>1, <2>2 DEF Pulsed
<1>11. k \in 3 .. 10
  <2>1. k \in 1 .. 10 /\ k > 2
    BY <1>1
  <2> HIDE DEF k
  <2> QED BY <2>1
<1>12. k2 = 2 => spi_enable'
  BY <1>6
<1> QED BY <1>3, <1>4, <1>7, <1>8, <1>9, <1>10, <1>11, <1>12

LEMMA PollingStep ==
  ASSUME ScriptInv, Reading, Access, Polling \/ Len(script) <= 2
  PROVE  /\ UNCHANGED <<ctrl, command, txdata, addr, clk_div>> /\ spi_enable' = FALSE
         /\ AccessTyped' /\ Pulsed' /\ Reading'
         /\ Polling => Len(script') = 2
         /\ Len(script) = 2 => IF remaining > 0 THEN Polling' ELSE Len(script') = 1
         /\ Len(script) = 1 => Len(script') = 0 /\ result' = spi_rx_data
<1> DEFINE p == spi_ctrl_read(8)
           k == Len(script)
<1>1. /\ script \in Seq(Accesses) /\ script # <<>> /\ spi_enable = FALSE
      /\ Do(Head(script)) /\ script' = Rest
      /\ elapsed' = 0 /\ request' = request
  BY AtAccess
<1>2. /\ ctrl \in Controls /\ command \in Commands /\ txdata \in Datas \cup {0}
      /\ request.op = "read" /\ Configured
      /\ command.address = request.address /\ txdata = request.data
      /\ k <= 8 => command.rnw = TRUE
  BY DEF ScriptInv, DriverTyped, Reading
<1> DEFINE Quiet == /\ UNCHANGED <<ctrl, command, txdata, addr, clk_div>>
                    /\ spi_enable' = FALSE
           Left == /\ script' \in Seq(Accesses)
                   /\ Remains(IF Polling' THEN Tail(script') ELSE script', p)
                   /\ Len(script') \in 0 .. 3 /\ (Len(script') = 3 => Polling')
<1> HIDE DEF p
<1>6. ASSUME Quiet, Left
      PROVE  AccessTyped' /\ Pulsed' /\ Reading'
  <2>1. AccessTyped' /\ Pulsed'
    BY <1>2, <1>6 DEF AccessTyped, Pulsed
  <2>2. /\ Configured' /\ command'.address = request'.address /\ txdata' = request'.data
        /\ request'.op = "read"
    BY <1>1, <1>2, <1>6 DEF Configured
  <2>3. command'.rnw = TRUE
    <3>1. k <= 8
      <4>1. k \in Nat
        BY <1>1
      <4>2. k = 3 \/ k <= 2
        BY DEF Polling
      <4> HIDE DEF k
      <4> QED BY <4>1, <4>2
    <3> QED BY <1>2, <1>6, <3>1
  <2>4. /\ Len(script') \in 0 .. 3 /\ (Len(script') = 3 => Polling')
        /\ Remains(IF Polling' THEN Tail(script') ELSE script', p)
    BY <1>6
  <2>5. Len(script') \notin {9, 7, 5} /\ ~(Len(script') = 3 /\ ~Polling')
    BY <2>4
  <2> QED BY <2>1, <2>2, <2>3, <2>4, <2>5 DEF Reading, p
<1>3. CASE Polling
  <2>1. k = 3 /\ Head(script) = PlainOf("get_enable")
    BY <1>3 DEF Polling
  <2>2. script' = Tail(script)
    BY <2>1, NotPolls, TakenOff
  <2>3. Quiet
    BY <1>1, <2>1, DoPlain DEF NoWrite, registers
  <2>4. /\ script' \in Seq(Accesses) /\ Len(script') = 2
        /\ Remains(script', p) /\ Polling' = FALSE
    BY <1>1, <1>3, <2>1, <2>2, HeadTailProperties DEF Reading, Polling, p
  <2>5. Left
    BY <2>4
  <2>6. AccessTyped' /\ Pulsed' /\ Reading'
    BY <1>6, <2>3, <2>5
  <2> QED BY <1>3, <2>1, <2>3, <2>4, <2>6
<1>4. CASE ~Polling /\ k = 2
  <2>1. /\ Head(script) = PlainOf("get_busy")
        /\ Remains(script, p) /\ Remains(Tail(script), p)
        /\ Tail(script) \in Seq(Accesses) /\ Len(Tail(script)) = 1
    BY <1>4, ReadScript DEF p
  <2>2. Quiet
    BY <1>1, <2>1, DoPlain DEF NoWrite, registers
  <2>3. Rest = IF remaining > 0 THEN <<PlainOf("get_enable")>> \o script ELSE Tail(script)
    <3>1. spi_reg0.busy = (remaining > 0)
      BY <1>2 DEF spi_reg0, Controls
    <3>2. Head(script).op = "get_busy"
      BY <2>1 DEF PlainOf
    <3> QED BY <3>1, <3>2, Zenon DEF Rest, PlainOf
  <2>4. CASE remaining > 0
    <3>1. script' = <<PlainOf("get_enable")>> \o script
      BY <1>1, <2>3, <2>4
    <3>2. PlainOf("get_enable") \in Accesses
      BY InAccesses DEF PlainOps
    <3>3. /\ script' \in Seq(Accesses) /\ Len(script') = 3
          /\ Head(script') = PlainOf("get_enable")
          /\ Tail(script') \in Seq(Accesses) /\ Len(Tail(script')) = k
          /\ \A i \in 1 .. k : Tail(script')[i] = script[i]
      BY <1>1, <1>4, <3>1, <3>2, Prepended
    <3>4. Remains(Tail(script'), p)
      BY <2>1, <3>3 DEF Remains
    <3>5. Polling'
      BY <3>3 DEF Polling
    <3>6. Left
      BY <3>3, <3>4, <3>5
    <3>7. AccessTyped' /\ Pulsed' /\ Reading'
      BY <1>6, <2>2, <3>6
    <3> QED BY <1>4, <2>2, <2>4, <3>5, <3>7
  <2>5. CASE ~(remaining > 0)
    <3>1. script' = Tail(script)
      BY <1>1, <2>3, <2>5
    <3>2. Polling' = FALSE
      BY <2>1, <3>1 DEF Polling
    <3>3. Left
      BY <2>1, <3>1, <3>2
    <3>4. AccessTyped' /\ Pulsed' /\ Reading'
      BY <1>6, <2>2, <3>3
    <3> QED BY <1>4, <2>1, <2>2, <2>5, <3>1, <3>4
  <2> QED BY <2>4, <2>5
<1>5. CASE ~Polling /\ k = 1
  <2>1. /\ Head(script) = PlainOf("fetch") /\ Remains(Tail(script), p)
        /\ Tail(script) \in Seq(Accesses) /\ Len(Tail(script)) = 0
    BY <1>5, ReadScript DEF p
  <2>2. Quiet /\ result' = spi_rx_data
    BY <1>1, <2>1, DoFetch DEF NoWrite, registers
  <2>3. script' = Tail(script)
    BY <2>1, NotPolls, TakenOff
  <2>4. Polling' = FALSE
    BY <2>1, <2>3 DEF Polling
  <2>5. Left
    BY <2>1, <2>3, <2>4
  <2>6. AccessTyped' /\ Pulsed' /\ Reading'
    BY <1>6, <2>2, <2>5
  <2> QED BY <1>5, <2>1, <2>2, <2>3, <2>6
<1> QED
  <2>1. ~Polling => k \in 1 .. 10
    BY ReadScript
  <2>2. Polling \/ k <= 2
    OBVIOUS
  <2> HIDE DEF k, p, Quiet, Left
  <2>3. k \in 1 .. 10 /\ k <= 2 => k = 1 \/ k = 2
    OBVIOUS
  <2> QED BY <1>3, <1>4, <1>5, <2>1, <2>2, <2>3, Zenon

LEMMA InitializingStep ==
  ASSUME ScriptInv, Initializing, Access
  PROVE  AccessTyped' /\ Pulsed' /\ Initializing'
<1> DEFINE p == spi_ctrl_initialize(0, 3)
           k == Len(script)
           k2 == Len(script')
           j == (9 - k) + 1
<1>1. /\ p \in Seq(Accesses) /\ Len(p) = 9
      /\ p[1] = LoadOf("ctrl") /\ p[2] = SaveOf("ctrl", "cpol", TRUE)
      /\ p[3] = LoadOf("ctrl") /\ p[4] = SaveOf("ctrl", "cpha", TRUE)
      /\ p[5] = StoreOf("addr", 0) /\ p[6] = PlainOf("get_addr")
      /\ p[7] = LoadOf("ctrl") /\ p[8] = SaveOf("ctrl", "rst", FALSE)
      /\ p[9] = StoreOf("clk_div", 3)
  BY InitializeIs
<1>2. /\ script \in Seq(Accesses) /\ script # <<>> /\ spi_enable = FALSE
      /\ Do(Head(script)) /\ script' = Rest
      /\ elapsed' = 0 /\ request' = request
  BY AtAccess
<1>3. Remains(script, p)
  BY DEF Initializing
<1> HIDE DEF p
<1>4. /\ k \in 1 .. 9 /\ Head(script) = p[j]
      /\ Tail(script) \in Seq(Accesses) /\ Len(Tail(script)) = k - 1
      /\ Remains(Tail(script), p)
  BY <1>1, <1>2, <1>3, Advance
<1>5. /\ k \in {9, 7, 3} => Head(script) = LoadOf("ctrl")
      /\ k = 8 => Head(script) = SaveOf("ctrl", "cpol", TRUE)
      /\ k = 6 => Head(script) = SaveOf("ctrl", "cpha", TRUE)
      /\ k = 5 => Head(script) = StoreOf("addr", 0)
      /\ k = 4 => Head(script) = PlainOf("get_addr")
      /\ k = 2 => Head(script) = SaveOf("ctrl", "rst", FALSE)
      /\ k = 1 => Head(script) = StoreOf("clk_div", 3)
  <2> HIDE DEF k
  <2>1. /\ k = 9 => j = 1
        /\ k = 8 => j = 2
        /\ k = 7 => j = 3
        /\ k = 6 => j = 4
        /\ k = 5 => j = 5
        /\ k = 4 => j = 6
        /\ k = 3 => j = 7
        /\ k = 2 => j = 8
        /\ k = 1 => j = 9
    OBVIOUS
  <2> HIDE DEF j
  <2> QED BY <1>1, <1>4, <2>1
<1>k. k \in {9, 7, 3} \/ k = 8 \/ k = 6 \/ k = 5 \/ k = 4 \/ k = 2 \/ k = 1
  <2> HIDE DEF k
  <2>1. k \in 1 .. 9
    BY <1>4
  <2> QED BY <2>1
<1>6. script' = Tail(script)
  <2>1. Head(script).op # "get_busy"
    <3> HIDE DEF k
    <3> QED BY <1>k, <1>5, NotPolls, Zenon
  <2> QED BY <2>1, TakenOff
<1>7. script' \in Seq(Accesses) /\ k2 = k - 1 /\ Remains(script', p)
  BY <1>4, <1>6
<1>8. /\ ctrl \in Controls /\ command \in Commands /\ txdata \in Datas \cup {0}
      /\ request.op = "none" /\ addr = 0 /\ command.address = request.address
      /\ k <= 7 => ctrl.cpol = TRUE
      /\ k <= 5 => ctrl.cpha = TRUE
      /\ k \in {8, 6, 2} => HoldingControl
  BY DEF ScriptInv, DriverTyped, Initializing
<1> DEFINE Kept == /\ ctrl' \in Controls /\ UNCHANGED <<command, txdata, addr>>
                   /\ spi_enable' = FALSE
           Left == /\ k2 <= 7 => ctrl'.cpol = TRUE
                   /\ k2 <= 5 => ctrl'.cpha = TRUE
                   /\ k2 = 0 => clk_div' = 3
           Held == k2 \in {8, 6, 2} => HoldingControl'
<1>9. Kept /\ Left /\ Held
  <2> HIDE DEF k, k2
  <2>1. CASE k \in {9, 7, 3}
    <3>1. /\ UNCHANGED <<ctrl, command, txdata, addr, clk_div>>
          /\ spi_enable' = FALSE /\ HoldingControl'
      BY <1>2, <1>5, <2>1, LoadingControl
    <3>2. Kept /\ Left
      BY <1>7, <1>8, <2>1, <3>1
    <3> QED BY <3>1, <3>2
  <2>2. CASE k = 8
    <3>1. /\ ctrl' \in Controls /\ ctrl'.cpol = TRUE
          /\ UNCHANGED <<command, txdata, addr, clk_div>> /\ spi_enable' = FALSE
      BY <1>2, <1>5, <1>8, <2>2, SavingControl DEF ControlBits
    <3> QED BY <1>7, <1>8, <2>2, <3>1
  <2>3. CASE k = 6
    <3>1. /\ ctrl' \in Controls /\ ctrl'.cpol = ctrl.cpol /\ ctrl'.cpha = TRUE
          /\ UNCHANGED <<command, txdata, addr, clk_div>> /\ spi_enable' = FALSE
      BY <1>2, <1>5, <1>8, <2>3, SavingControl DEF ControlBits
    <3> QED BY <1>7, <1>8, <2>3, <3>1
  <2>4. CASE k = 5
    <3>1. WriteRegister("addr", 0)
      BY <1>2, <1>5, <2>4, DoStore
    <3>2. /\ UNCHANGED <<ctrl, command, txdata, clk_div>> /\ addr' = addr
          /\ spi_enable' = FALSE
      BY <1>8, <3>1 DEF WriteRegister
    <3> QED BY <1>7, <1>8, <2>4, <3>2
  <2>5. CASE k = 4
    <3>1. UNCHANGED <<ctrl, command, txdata, addr, clk_div>> /\ spi_enable' = FALSE
      BY <1>2, <1>5, <2>5, DoPlain DEF NoWrite, registers
    <3> QED BY <1>7, <1>8, <2>5, <3>1
  <2>6. CASE k = 2
    <3>1. /\ ctrl' \in Controls /\ ctrl'.cpol = ctrl.cpol /\ ctrl'.cpha = ctrl.cpha
          /\ UNCHANGED <<command, txdata, addr, clk_div>> /\ spi_enable' = FALSE
      BY <1>2, <1>5, <1>8, <2>6, SavingControl DEF ControlBits
    <3> QED BY <1>7, <1>8, <2>6, <3>1
  <2>7. CASE k = 1
    <3>1. WriteRegister("clk_div", 3)
      BY <1>2, <1>5, <2>7, DoStore
    <3>2. UNCHANGED <<ctrl, command, txdata, addr>> /\ clk_div' = 3 /\ spi_enable' = FALSE
      BY <3>1 DEF WriteRegister
    <3> QED BY <1>7, <1>8, <2>7, <3>2
  <2> HIDE DEF Kept, Left, Held
  <2> QED BY <1>k, <2>1, <2>2, <2>3, <2>4, <2>5, <2>6, <2>7
<1>10. AccessTyped' /\ Pulsed'
  BY <1>7, <1>8, <1>9 DEF AccessTyped, Pulsed
<1>11. Initializing'
  BY <1>2, <1>7, <1>8, <1>9 DEF Initializing, p
<1> QED BY <1>10, <1>11

LEMMA SettingPolarityStep ==
  ASSUME ScriptInv, SettingPolarity, Access
  PROVE  AccessTyped' /\ Pulsed' /\ SettingPolarity'
<1> DEFINE p == spi_ctrl_set_cpol(TRUE)
           k == Len(script)
           k2 == Len(script')
           j == (2 - k) + 1
<1>1. /\ p \in Seq(Accesses) /\ Len(p) = 2
      /\ p[1] = LoadOf("ctrl") /\ p[2] = SaveOf("ctrl", "cpol", TRUE)
  BY SetPolarityIs
<1>2. /\ script \in Seq(Accesses) /\ script # <<>> /\ spi_enable = FALSE
      /\ Do(Head(script)) /\ script' = Rest
      /\ elapsed' = 0 /\ request' = request
  BY AtAccess
<1>3. Remains(script, p)
  BY DEF SettingPolarity
<1> HIDE DEF p
<1>4. /\ k \in 1 .. 2 /\ Head(script) = p[j]
      /\ Tail(script) \in Seq(Accesses) /\ Len(Tail(script)) = k - 1
      /\ Remains(Tail(script), p)
  BY <1>1, <1>2, <1>3, Advance
<1>5. /\ k = 2 => Head(script) = LoadOf("ctrl")
      /\ k = 1 => Head(script) = SaveOf("ctrl", "cpol", TRUE)
  <2> HIDE DEF k
  <2>1. /\ k = 2 => j = 1
        /\ k = 1 => j = 2
    OBVIOUS
  <2> HIDE DEF j
  <2> QED BY <1>1, <1>4, <2>1
<1>6. script' = Tail(script)
  <2>1. Head(script).op # "get_busy"
    <3>1. k = 2 \/ k = 1
      BY <1>4
    <3> HIDE DEF k
    <3> QED BY <1>5, <3>1, NotPolls, Zenon
  <2> QED BY <2>1, TakenOff
<1>7. script' \in Seq(Accesses) /\ k2 = k - 1 /\ Remains(script', p)
  BY <1>4, <1>6
<1>8. /\ ctrl \in Controls /\ command \in Commands /\ txdata \in Datas \cup {0}
      /\ request.op = "none" /\ Configured /\ command.address = request.address
      /\ k = 1 => HoldingControl
  BY DEF ScriptInv, DriverTyped, SettingPolarity
<1>9. /\ ctrl' \in Controls /\ UNCHANGED <<command, txdata>> /\ Configured'
      /\ spi_enable' = FALSE
      /\ k2 = 1 => HoldingControl'
  <2>1. k = 2 \/ k = 1
    BY <1>4
  <2> HIDE DEF k, k2
  <2>2. CASE k = 2
    <3>1. /\ UNCHANGED <<ctrl, command, txdata, addr, clk_div>>
          /\ spi_enable' = FALSE /\ HoldingControl'
      BY <1>2, <1>5, <2>2, LoadingControl
    <3> QED BY <1>8, <3>1 DEF Configured
  <2>3. CASE k = 1
    <3>1. /\ ctrl' \in Controls /\ ctrl'.cpol = TRUE /\ ctrl'.cpha = ctrl.cpha
          /\ UNCHANGED <<command, txdata, addr, clk_div>> /\ spi_enable' = FALSE
      BY <1>2, <1>5, <1>8, <2>3, SavingControl DEF ControlBits
    <3> QED BY <1>7, <1>8, <2>3, <3>1 DEF Configured
  <2> QED BY <2>1, <2>2, <2>3
<1>10. AccessTyped' /\ Pulsed'
  BY <1>7, <1>8, <1>9 DEF AccessTyped, Pulsed
<1>11. SettingPolarity'
  BY <1>2, <1>7, <1>8, <1>9 DEF SettingPolarity, p
<1> QED BY <1>10, <1>11

LEMMA SettingCommandStep ==
  ASSUME ScriptInv, SettingCommand, Access
  PROVE  AccessTyped' /\ Pulsed' /\ SettingCommand'
<1> DEFINE c == request.address
           p == spi_ctrl_set_command(c)
<1>1. p \in Seq(Accesses) /\ Len(p) = 1 /\ p[1] = StoreOf("command", Fresh(c))
  BY SetCommandIs DEF SettingCommand
<1>2. /\ script \in Seq(Accesses) /\ script # <<>> /\ spi_enable = FALSE
      /\ Do(Head(script)) /\ script' = Rest
      /\ elapsed' = 0 /\ request' = request
  BY AtAccess
<1>3. Remains(script, p)
  BY DEF SettingCommand
<1>4. p' = p
  BY <1>2
<1> HIDE DEF p
<1>5. /\ Len(script) = 1 /\ Head(script) = StoreOf("command", Fresh(c))
      /\ Tail(script) \in Seq(Accesses) /\ Len(Tail(script)) = 0
      /\ Remains(Tail(script), p)
  <2>1. /\ Len(script) \in 1 .. 1 /\ Head(script) = p[(1 - Len(script)) + 1]
        /\ Tail(script) \in Seq(Accesses) /\ Len(Tail(script)) = Len(script) - 1
        /\ Remains(Tail(script), p)
    BY <1>1, <1>2, <1>3, Advance
  <2>2. Len(script) = 1
    BY <2>1
  <2> QED BY <1>1, <2>1, <2>2
<1>6. script' = Tail(script)
  BY <1>5, NotPolls, TakenOff
<1>7. /\ ctrl \in Controls /\ txdata \in Datas \cup {0}
      /\ request.op = "none" /\ Configured /\ c \in Addresses
  BY DEF ScriptInv, DriverTyped, SettingCommand
<1>8. WriteRegister("command", Fresh(c))
  BY <1>2, <1>5, DoStore
<1>9. UNCHANGED <<ctrl, txdata, addr, clk_div>> /\ command' = Fresh(c) /\ spi_enable' = FALSE
  BY <1>8 DEF WriteRegister
<1>10. command' \in Commands /\ command'.address = c
  BY <1>7, <1>9 DEF Fresh, Commands
<1>11. AccessTyped' /\ Pulsed'
  BY <1>5, <1>6, <1>7, <1>9, <1>10 DEF AccessTyped, Pulsed
<1>12. SettingCommand'
  BY <1>2, <1>4, <1>5, <1>6, <1>7, <1>9, <1>10 DEF SettingCommand, Configured, p
<1> QED BY <1>11, <1>12

LEMMA AccessStep ==
  ASSUME ScriptInv, Access
  PROVE  AccessTyped' /\ Pulsed' /\ Calling'
<1>1. CASE Initializing
  BY <1>1, InitializingStep DEF Calling
<1>2. CASE SettingPolarity
  BY <1>2, SettingPolarityStep DEF Calling
<1>3. CASE SettingCommand
  BY <1>3, SettingCommandStep DEF Calling
<1>4. CASE Writing
  BY <1>4, WritingStep DEF Calling
<1>5. CASE Reading
  <2>1. CASE Polling \/ Len(script) <= 2
    BY <1>5, <2>1, PollingStep DEF Calling
  <2>2. CASE ~Polling /\ ~(Len(script) <= 2)
    <3>1. Len(script) > 2
      BY <2>2, AtAccess
    <3> QED BY <1>5, <2>2, <3>1, CommandingStep DEF Calling
  <2> QED BY <2>1, <2>2
<1> QED BY <1>1, <1>2, <1>3, <1>4, <1>5 DEF ScriptInv, Calling

(* Between the calls everything is as they left it.                        *)
LEMMA Returned ==
  ASSUME ScriptInv, script = <<>>
  PROVE  Configured /\ command.address = request.address
<1>1. Len(script) = 0
  OBVIOUS
<1>2. CASE Initializing
  BY <1>1, <1>2 DEF Initializing, Configured
<1>3. CASE SettingPolarity
  BY <1>3 DEF SettingPolarity
<1>4. CASE SettingCommand
  BY <1>1, <1>4 DEF SettingCommand
<1>5. CASE Writing
  BY <1>5 DEF Writing
<1>6. CASE Reading
  BY <1>6 DEF Reading
<1> QED BY <1>2, <1>3, <1>4, <1>5, <1>6 DEF ScriptInv, Calling

LEMMA AllRemains == \A p \in Seq(Accesses) : Remains(p, p)
<1> SUFFICES ASSUME NEW p \in Seq(Accesses), NEW i \in 1 .. Len(p)
             PROVE  (Len(p) - Len(p)) + i = i
  BY DEF Remains
<1>1. Len(p) \in Nat
  OBVIOUS
<1> QED BY <1>1

LEMMA CallStep ==
  ASSUME ScriptInv, Call
  PROVE  AccessTyped' /\ Pulsed' /\ Calling' /\ request' \in Requests
<1>1. /\ spi_enable' = FALSE /\ UNCHANGED <<ctrl, command, txdata, addr, clk_div>>
      /\ script = <<>>
  BY DEF Call, NoWrite, registers
<1>2. /\ ctrl \in Controls /\ command \in Commands /\ txdata \in Datas \cup {0}
      /\ request \in Requests
  BY DEF ScriptInv, DriverTyped
<1>3. Configured' /\ command.address = request.address
  BY <1>1, Returned DEF Configured
<1>4. request.op \in {"none", "write", "read"} /\ request.address \in Addresses \cup {0}
  BY <1>2 DEF Requests
<1>5. Pulsed'
  BY <1>1 DEF Pulsed
<1>6. ASSUME NEW c \in Addresses, script' = spi_ctrl_set_command(c),
             request' = [request EXCEPT !.op = "none", !.address = c]
      PROVE  AccessTyped' /\ Calling' /\ request' \in Requests
  <2>1. request' \in Requests /\ request'.op = "none" /\ request'.address = c
    BY <1>2, <1>6 DEF Requests
  <2>2. script' \in Seq(Accesses) /\ Len(script') = 1
    BY <1>6, SetCommandIs
  <2>3. Remains(script', script')
    BY <2>2, AllRemains
  <2>4. SettingCommand'
    BY <1>3, <1>6, <2>1, <2>2, <2>3 DEF SettingCommand
  <2> QED BY <1>1, <1>2, <2>1, <2>2, <2>4 DEF AccessTyped, Calling
<1>7. ASSUME NEW d \in Datas, script' = spi_ctrl_write(d, 8), Ask(TRUE, d)
      PROVE  AccessTyped' /\ Calling' /\ request' \in Requests
  <2>1. /\ request' \in Requests /\ request'.op = "write" /\ request'.data = d
        /\ request'.address = request.address
    <3>1. request' = [request EXCEPT !.op = "write", !.data = d]
      BY <1>7 DEF Ask
    <3> QED BY <1>2, <3>1 DEF Requests
  <2>2. script' \in Seq(Accesses) /\ Len(script') = 9
    BY <1>7, WriteIs
  <2>3. Remains(script', spi_ctrl_write(request'.data, 8))
    <3>1. Remains(script', script')
      BY <2>2, AllRemains
    <3> QED BY <1>7, <2>1, <3>1, Zenon
  <2>4. Writing'
    BY <1>1, <1>3, <2>1, <2>2, <2>3 DEF Writing
  <2> QED BY <1>1, <1>2, <2>1, <2>2, <2>4 DEF AccessTyped, Calling
<1>8. ASSUME script' = spi_ctrl_read(8), Ask(FALSE, txdata)
      PROVE  AccessTyped' /\ Calling' /\ request' \in Requests
  <2>1. /\ request' \in Requests /\ request'.op = "read" /\ request'.data = txdata
        /\ request'.address = request.address
    <3>1. request' = [request EXCEPT !.op = "read", !.data = txdata]
      BY <1>8 DEF Ask
    <3> QED BY <1>2, <3>1 DEF Requests
  <2>2. script' \in Seq(Accesses) /\ Len(script') = 10
    BY <1>8, ReadIs
  <2>3. Remains(script', spi_ctrl_read(8)) /\ Polling' = FALSE
    <3>1. Remains(script', script') /\ Polling' = FALSE
      BY <2>2, AllRemains DEF Polling
    <3> QED BY <1>8, <3>1, Zenon
  <2>4. Reading'
    BY <1>1, <1>3, <2>1, <2>2, <2>3 DEF Reading
  <2> QED BY <1>1, <1>2, <2>1, <2>2, <2>4 DEF AccessTyped, Calling
<1>9. ASSUME script' = spi_ctrl_set_cpol(TRUE), request' = [request EXCEPT !.op = "none"]
      PROVE  AccessTyped' /\ Calling' /\ request' \in Requests
  <2>1. request' \in Requests /\ request'.op = "none" /\ request'.address = request.address
    BY <1>2, <1>9 DEF Requests
  <2>2. script' \in Seq(Accesses) /\ Len(script') = 2
    BY <1>9, SetPolarityIs
  <2>3. Remains(script', spi_ctrl_set_cpol(TRUE))
    <3>1. Remains(script', script')
      BY <2>2, AllRemains
    <3> QED BY <1>9, <2>1, <3>1, Zenon
  <2>4. SettingPolarity'
    <3>1. Len(script') # 1
      BY <2>2
    <3> QED BY <1>1, <1>3, <2>1, <2>3, <3>1, Zenon DEF SettingPolarity
  <2> QED BY <1>1, <1>2, <2>1, <2>2, <2>4 DEF AccessTyped, Calling
<1> QED BY <1>5, <1>6, <1>7, <1>8, <1>9 DEF Call

(* A tick in which software does nothing to the registers.                 *)
LEMMA WaitingStep ==
  ASSUME ScriptInv, UNCHANGED <<registers, script, temp, request>>,
         \/ spi_enable' = FALSE
         \/ spi_enable' = spi_enable /\ elapsed' = elapsed
  PROVE  AccessTyped' /\ Pulsed' /\ Calling'
<1>1. UNCHANGED <<ctrl, command, txdata, addr, clk_div>>
  BY DEF registers
<1>2. AccessTyped'
  BY <1>1 DEF ScriptInv, DriverTyped, AccessTyped
<1>3. Pulsed'
  BY <1>1 DEF ScriptInv, Pulsed, tx, Wanted
<1>4. Calling'
  <2>1. /\ Configured' = Configured /\ HoldingCommand' = HoldingCommand
        /\ HoldingControl' = HoldingControl /\ Polling' = Polling
    BY <1>1 DEF Configured, HoldingCommand, HoldingControl, Polling
  <2>2. CASE Initializing
    BY <1>1, <2>1, <2>2 DEF Initializing, Calling
  <2>3. CASE SettingPolarity
    BY <1>1, <2>1, <2>3 DEF SettingPolarity, Calling
  <2>4. CASE SettingCommand
    BY <1>1, <2>1, <2>4 DEF SettingCommand, Calling
  <2>5. CASE Writing
    BY <1>1, <2>1, <2>5 DEF Writing, Calling
  <2>6. CASE Reading
    BY <1>1, <2>1, <2>6 DEF Reading, Calling
  <2> QED BY <2>2, <2>3, <2>4, <2>5, <2>6 DEF ScriptInv, Calling
<1> QED BY <1>2, <1>3, <1>4

LEMMA InitScript == DriverInit => ScriptInv
<1> SUFFICES ASSUME DriverInit PROVE ScriptInv
  OBVIOUS
<1>1. /\ script \in Seq(Accesses) /\ Len(script) = 9
      /\ Remains(script, spi_ctrl_initialize(0, 3))
  <2>1. script = spi_ctrl_initialize(0, 3)
    BY DEF DriverInit
  <2> QED BY <2>1, InitializeIs, AllRemains
<1>2. /\ ctrl \in Controls /\ command \in Commands /\ request \in Requests
      /\ request.op = "none" /\ command.address = request.address
  BY DEF DriverInit, Controls, Commands, Requests
<1>3. /\ txdata = 0 /\ addr = 0 /\ spi_enable = FALSE /\ remaining = 0 /\ elapsed = 0
  BY DEF DriverInit
<1>4. DriverTyped
  <2>1. 0 \in 0 .. Slowest - 1 /\ 0 \in 0 .. TransferEdges
    BY Times
  <2> QED BY <1>1, <1>2, <1>3, <2>1 DEF DriverTyped
<1>6. Pulsed
  BY <1>3 DEF Pulsed
<1>5. Initializing
  BY <1>1, <1>2, <1>3 DEF Initializing
<1> QED BY <1>4, <1>5, <1>6 DEF ScriptInv, Calling

LEMMA MasterStep ==
  ASSUME ScriptInv, Master
  PROVE  remaining' \in 0 .. TransferEdges
BY Times DEF ScriptInv, DriverTyped, Master

LEMMA NextScript == ScriptInv /\ [DriverNext]_driverVars => ScriptInv'
<1> SUFFICES ASSUME ScriptInv, [DriverNext]_driverVars
             PROVE  ScriptInv'
  OBVIOUS
<1>1. /\ elapsed \in 0 .. Slowest - 1 /\ (script = <<>> => elapsed = 0)
      /\ request \in Requests /\ remaining \in 0 .. TransferEdges
  BY DEF ScriptInv, DriverTyped
<1>2. CASE Master /\ Access
  <2>1. AccessTyped' /\ Pulsed' /\ Calling'
    BY <1>2, AccessStep
  <2>2. elapsed' = 0 /\ 0 \in 0 .. Slowest - 1 /\ request' = request
    BY <1>2, AtAccess
  <2>3. DriverTyped'
    BY <1>1, <1>2, <2>1, <2>2, MasterStep DEF DriverTyped, AccessTyped
  <2> QED BY <2>1, <2>3 DEF ScriptInv
<1>3. CASE Master /\ OnTheBus
  <2>1. AccessTyped' /\ Pulsed' /\ Calling'
    BY <1>3, WaitingStep DEF OnTheBus, NoWrite
  <2>2. DriverTyped'
    BY <1>1, <1>3, <2>1, MasterStep, Times DEF DriverTyped, AccessTyped, OnTheBus
  <2> QED BY <2>1, <2>2 DEF ScriptInv
<1>4. CASE Master /\ Call
  <2>1. AccessTyped' /\ Pulsed' /\ Calling' /\ request' \in Requests
    BY <1>4, CallStep
  <2>2. DriverTyped'
    BY <1>1, <1>4, <2>1, MasterStep DEF DriverTyped, AccessTyped, Call
  <2> QED BY <2>1, <2>2 DEF ScriptInv
<1>5. CASE Master /\ Idle
  <2>1. AccessTyped' /\ Pulsed' /\ Calling'
    BY <1>5, WaitingStep DEF Idle, NoWrite
  <2>2. DriverTyped'
    BY <1>1, <1>5, <2>1, MasterStep DEF DriverTyped, AccessTyped, Idle
  <2> QED BY <2>1, <2>2 DEF ScriptInv
<1>6. CASE UNCHANGED driverVars
  <2>1. AccessTyped' /\ Pulsed' /\ Calling'
    BY <1>6, WaitingStep DEF driverVars
  <2>2. DriverTyped'
    BY <1>1, <1>6, <2>1 DEF DriverTyped, AccessTyped, driverVars, master
  <2> QED BY <2>1, <2>2 DEF ScriptInv
<1> QED BY <1>2, <1>3, <1>4, <1>5, <1>6 DEF DriverNext, Driver

(* The driver is at one of its calls, with what that call has done so far  *)
(* in the registers, whatever the times of the accesses.                   *)
THEOREM ScriptsFollowed == DriverSpec => []ScriptInv
BY InitScript, NextScript, PTL DEF DriverSpec

(* "Do a write access to a SPI controller": what the master captures at    *)
(* each pulse is the command, the direction and the data of the last call, *)
(* in the configured mode.                                                 *)
THEOREM EachSentAsAsked == DriverSpec => SentAsAsked
<1> DEFINE Sent == [ starts => /\ request.op # "none"
                               /\ transaction' =
                                     [address |-> request.address,
                                      rw |-> request.op = "write", data |-> request.data,
                                      mode |-> <<TRUE, TRUE>>, slave |-> 0, div |-> 3]
                   ]_driverVars
<1>1. ScriptInv /\ [DriverNext]_driverVars => Sent
  <2> SUFFICES ASSUME ScriptInv, DriverNext, starts
               PROVE  request.op # "none" /\ transaction' = Wanted
    BY DEF Wanted
  <2>1. transaction' = tx
    BY DEF DriverNext, Master
  <2> QED BY <2>1 DEF ScriptInv, Pulsed, starts
<1> QED BY <1>1, ScriptsFollowed, PTL DEF DriverSpec, SentAsAsked

----------------------------------------------------------------------------
(* The times of the accesses and of the transactions                       *)

LEMMA PulseApproaches ==
  ASSUME ScriptInv, Access
  PROVE  /\ ToPulse \in Nat
         /\ ToPulse' = IF ToPulse > 0 THEN ToPulse - 1 ELSE 0
         /\ spi_enable' => ToPulse = 1
<1>1. request' = request
  BY AtAccess
<1>2. CASE Initializing \/ SettingPolarity \/ SettingCommand
  <2>1. request.op = "none"
    BY <1>2 DEF Initializing, SettingPolarity, SettingCommand
  <2>2. Pulsed'
    BY AccessStep
  <2> QED BY <1>1, <2>1, <2>2 DEF ToPulse, Pulsed
<1>3. CASE Writing
  <2>1. request.op = "write"
    BY <1>3 DEF Writing
  <2>2. /\ Len(script) \in 1 .. 9 /\ Len(script') = Len(script) - 1
        /\ spi_enable' => Len(script') = 0
    BY <1>3, WritingStep
  <2>3. ToPulse = Len(script) /\ ToPulse' = Len(script')
    BY <1>1, <2>1 DEF ToPulse
  <2> QED BY <2>2, <2>3
<1>4. CASE Reading
  <2>1. request.op = "read"
    BY <1>4 DEF Reading
  <2>2. CASE Polling \/ Len(script) <= 2
    <3>1. /\ spi_enable' = FALSE
          /\ Polling => Len(script') = 2
          /\ Len(script) = 2 => Polling' \/ Len(script') = 1
          /\ Len(script) = 1 => Len(script') = 0
      BY <1>4, <2>2, PollingStep
    <3>2. Polling \/ Len(script) = 1 \/ Len(script) = 2
      <4> DEFINE k == Len(script)
      <4>1. ~Polling => k \in 1 .. 10
        BY <1>4, ReadScript
      <4>2. Polling \/ k <= 2
        BY <2>2
      <4> HIDE DEF k
      <4>3. Polling \/ k = 1 \/ k = 2
        BY <4>1, <4>2
      <4> QED BY <4>3 DEF k
    <3>3. Polling' \/ Len(script') \in 0 .. 2
      BY <3>1, <3>2
    <3>4. ToPulse = 0 /\ ToPulse' = 0
      BY <1>1, <2>1, <3>2, <3>3 DEF ToPulse
    <3> QED BY <3>1, <3>4
  <2>3. CASE ~Polling /\ ~(Len(script) <= 2)
    <3>1. Len(script) > 2
      BY <2>3, AtAccess
    <3>2. /\ Len(script) \in 3 .. 10 /\ Len(script') = Len(script) - 1
          /\ Polling' = FALSE /\ Pulsed'
      BY <1>4, <2>3, <3>1, CommandingStep
    <3>3. ToPulse = Len(script) - 2
      BY <2>1, <2>3, <3>1 DEF ToPulse
    <3>4. ToPulse' = IF Len(script') > 2 THEN Len(script') - 2 ELSE 0
      BY <1>1, <2>1, <3>2 DEF ToPulse
    <3>5. spi_enable' => Len(script') = 2
      BY <1>1, <2>1, <3>2 DEF Pulsed
    <3> QED BY <3>2, <3>3, <3>4, <3>5
  <2> QED BY <2>2, <2>3
<1> QED BY <1>2, <1>3, <1>4 DEF ScriptInv, Calling

LEMMA ToPulseIsNat == ScriptInv => ToPulse \in Nat
<1> SUFFICES ASSUME ScriptInv PROVE ToPulse \in Nat
  OBVIOUS
<1>1. Len(script) \in Nat
  BY DEF ScriptInv, DriverTyped
<1> QED BY <1>1 DEF ToPulse

LEMMA FewestEdges ==
  ASSUME NEW t \in Nat, t > 0
  PROVE  /\ (t - 1) * Fastest \in Nat
         /\ t > 1 => (t - 1) * Fastest = ((t - 1) - 1) * Fastest + Fastest
BY Times

(* The master counts down while no pulse comes.                            *)
LEMMA CountsDown ==
  ASSUME ScriptInv, Master
  PROVE  /\ remaining \in Nat /\ remaining' \in 0 .. TransferEdges
         /\ spi_enable = FALSE =>
              /\ remaining' = IF remaining > 0 THEN remaining - 1 ELSE 0
              /\ transaction' = transaction
BY MasterStep, Times DEF ScriptInv, DriverTyped, Master, starts

(* An answer on its way gets there.                                        *)
LEMMA AnswerComes ==
  ASSUME ScriptInv, TimeInv, Master, request.op = "read", Answering
  PROVE  transaction' = Wanted /\ (remaining' > 0 \/ spi_rx_data' = request.address)
<1>1. CASE spi_enable
  <2>1. starts /\ tx = Wanted
    BY <1>1 DEF TimeInv, starts, ScriptInv, Pulsed
  <2>2. remaining = 0
    BY <1>1 DEF TimeInv
  <2> QED BY <2>1, <2>2, Times DEF Master
<1>2. CASE ~spi_enable
  <2>1. transaction = Wanted /\ (remaining > 0 \/ spi_rx_data = request.address)
    BY <1>2 DEF Answering
  <2>2. ~transaction.rw /\ transaction.address = request.address
    BY <2>1 DEF Wanted
  <2>3. /\ remaining' = IF remaining > 0 THEN remaining - 1 ELSE 0
        /\ transaction' = transaction /\ remaining \in Nat
    BY <1>2, CountsDown DEF ScriptInv, DriverTyped
  <2>4. spi_rx_data' = IF remaining = 1 THEN request.address ELSE spi_rx_data
    BY <2>2 DEF Master
  <2> QED BY <2>1, <2>3, <2>4
<1> QED BY <1>1, <1>2

(* An access brings the next pulse nearer by no less than the master runs. *)
LEMMA PulseFindsReady ==
  ASSUME ScriptInv, TimeInv, Master, Access
  PROVE  /\ spi_enable' => remaining' = 0
         /\ ToPulse' > 0 => remaining' <= EdgesToPulse'
<1> DEFINE t == ToPulse
           F == Fastest
<1>1. /\ t \in Nat /\ ToPulse' = (IF t > 0 THEN t - 1 ELSE 0)
      /\ spi_enable' => t = 1
  BY PulseApproaches
<1>2. /\ remaining \in Nat /\ remaining' = IF remaining > 0 THEN remaining - 1 ELSE 0
      /\ elapsed' = 0
  BY CountsDown, AtAccess
<1>3. SUFFICES ASSUME t > 0
               PROVE  /\ t = 1 => remaining' = 0
                      /\ t > 1 => remaining' <= EdgesToPulse'
  BY <1>1
<1>4. F \in Nat /\ F >= 3 /\ elapsed \in Nat /\ elapsed + 1 >= F
  BY Times DEF ScriptInv, DriverTyped, Access
<1>5. EdgesToPulse = (t - 1) * F + (IF elapsed < F THEN F - elapsed ELSE 0)
  BY DEF EdgesToPulse
<1>6. t > 1 => EdgesToPulse' = ((t - 1) - 1) * F + F
  <2>1. ASSUME t > 1 PROVE ToPulse' = t - 1
    BY <1>1, <2>1
  <2>2. elapsed' < F /\ F - elapsed' = F
    BY <1>2, <1>4
  <2> QED BY <2>1, <2>2 DEF EdgesToPulse
<1>7. remaining <= EdgesToPulse
  BY <1>3 DEF TimeInv
<1> DEFINE m == (t - 1) * F
<1>8. m \in Nat /\ (t = 1 => m = 0) /\ (t > 1 => m = ((t - 1) - 1) * F + F)
  BY <1>1, <1>3, <1>4, FewestEdges
<1>9. remaining <= m + 1
  <2> HIDE DEF m, t, F
  <2> QED BY <1>2, <1>4, <1>5, <1>7, <1>8 DEF m
<1>10. remaining' <= m /\ remaining' \in Nat
  <2> HIDE DEF m
  <2> QED BY <1>2, <1>8, <1>9
<1> HIDE DEF m, t, F
<1> QED BY <1>6, <1>8, <1>10

LEMMA AnswerKept ==
  ASSUME ScriptInv, TimeInv, Master, Access, request.op = "read"
  PROVE  /\ Polling' \/ Len(script') = 2 => Answering'
         /\ Len(script') = 1 =>
              spi_rx_data' = request'.address /\ remaining' = 0 /\ ~spi_enable'
         /\ Len(script') = 0 => result' = request'.address
<1>1. request' = request /\ spi_enable = FALSE
  BY AtAccess
<1>2. Reading
  BY DEF ScriptInv, Calling, Initializing, SettingPolarity, SettingCommand, Writing
<1>3. /\ remaining \in Nat /\ remaining' = (IF remaining > 0 THEN remaining - 1 ELSE 0)
      /\ transaction' = transaction
  BY <1>1, CountsDown
<1>4. Wanted' = Wanted
  BY <1>1 DEF Wanted
<1>5. Answering => Answering'
  BY <1>1, <1>4, AnswerComes DEF Answering
<1>6. CASE Polling
  <2>1. Len(script') = 2
    BY <1>2, <1>6, PollingStep
  <2>2. Answering'
    BY <1>5, <1>6 DEF TimeInv
  <2> QED BY <2>1, <2>2
<1>7. CASE ~Polling /\ Len(script) = 2
  <2>1. /\ spi_enable' = FALSE
        /\ IF remaining > 0 THEN Polling' ELSE Len(script') = 1
    BY <1>2, <1>7, PollingStep
  <2>2. Answering /\ Answering'
    BY <1>5, <1>7 DEF TimeInv
  <2>3. CASE remaining > 0
    <3>1. Len(script') = 3
      BY <2>1, <2>3 DEF Polling
    <3> QED BY <2>2, <3>1
  <2>4. CASE ~(remaining > 0)
    <3>1. transaction = Wanted /\ spi_rx_data = request.address
      BY <1>1, <2>2, <2>4 DEF Answering
    <3>2. remaining' = 0 /\ spi_rx_data' = spi_rx_data
      BY <1>3, <2>4 DEF Master
    <3>3. Len(script') = 1
      BY <2>1, <2>4
    <3> QED BY <1>1, <2>1, <2>2, <3>1, <3>2, <3>3
  <2> QED BY <2>3, <2>4
<1>8. CASE ~Polling /\ Len(script) = 1
  <2>1. Len(script') = 0 /\ result' = spi_rx_data
    BY <1>2, <1>8, PollingStep
  <2>2. spi_rx_data = request.address
    BY <1>8 DEF TimeInv
  <2> QED BY <1>1, <2>1, <2>2 DEF Polling
<1>9. CASE ~Polling /\ Len(script) > 2
  <2>1. /\ Len(script) \in 3 .. 10 /\ Len(script') = Len(script) - 1
        /\ Polling' = FALSE /\ Pulsed'
    BY <1>2, <1>9, CommandingStep
  <2>2. Len(script') = 2 => Answering'
    BY <1>2, <1>9, CommandingStep DEF Answering
  <2> DEFINE k2 == Len(script')
  <2>3. k2 \in 2 .. 9
    <3> DEFINE k == Len(script)
    <3>1. k \in 3 .. 10 /\ k2 = k - 1
      BY <2>1
    <3> HIDE DEF k, k2
    <3> QED BY <3>1
  <2> HIDE DEF k2
  <2>4. k2 # 1 /\ k2 # 0
    BY <2>3
  <2> QED BY <2>1, <2>2, <2>4 DEF k2
<1> QED
  <2> DEFINE k == Len(script)
  <2>1. ~Polling => k \in 1 .. 10
    BY <1>2, ReadScript
  <2> HIDE DEF k
  <2>2. Polling \/ k = 1 \/ k = 2 \/ k > 2
    BY <2>1
  <2> QED BY <1>6, <1>7, <1>8, <1>9, <2>2 DEF k

(* A tick without an access: the pulse is taken, the master runs.          *)
LEMMA NoAccessTime ==
  ASSUME ScriptInv, TimeInv, Master, OnTheBus \/ Idle
  PROVE  TimeInv'
<1>1. /\ script' = script /\ request' = request /\ elapsed' \in {elapsed, elapsed + 1}
      /\ spi_enable' = FALSE /\ result' = result
      /\ ToPulse' = ToPulse /\ Polling' = Polling /\ Wanted' = Wanted
  BY DEF OnTheBus, Idle, NoWrite, ToPulse, Polling, Wanted
<1>2. ToPulse \in Nat
  BY ToPulseIsNat
<1>3. ASSUME ToPulse > 0
      PROVE  remaining' <= EdgesToPulse'
  <2> DEFINE m == (ToPulse - 1) * Fastest
             e == elapsed'
  <2>1. spi_enable = FALSE
    BY <1>3 DEF TimeInv, ScriptInv, DriverTyped
  <2>2. /\ m \in Nat /\ Fastest \in Nat /\ elapsed \in Nat
        /\ e = elapsed \/ e = elapsed + 1
    BY <1>1, <1>2, <1>3, FewestEdges, Times DEF ScriptInv, DriverTyped
  <2>3. /\ remaining \in Nat /\ remaining' = (IF remaining > 0 THEN remaining - 1 ELSE 0)
        /\ remaining <= EdgesToPulse
    BY <1>3, <2>1, CountsDown DEF TimeInv
  <2>4. /\ EdgesToPulse = m + (IF elapsed < Fastest THEN Fastest - elapsed ELSE 0)
        /\ EdgesToPulse' = m + (IF e < Fastest THEN Fastest - e ELSE 0)
    BY <1>1 DEF EdgesToPulse
  <2> HIDE DEF m, e
  <2> QED BY <2>2, <2>3, <2>4
<1>4. ASSUME request.op = "read"
      PROVE  /\ Polling' \/ Len(script') = 2 => Answering'
             /\ Len(script') = 1 =>
                  spi_rx_data' = request'.address /\ remaining' = 0 /\ ~spi_enable'
             /\ Len(script') = 0 => result' = request'.address
  <2>1. ASSUME Polling \/ Len(script) = 2
        PROVE  Answering'
    <3>1. Answering
      BY <1>4, <2>1 DEF TimeInv
    <3>2. transaction' = Wanted /\ (remaining' > 0 \/ spi_rx_data' = request.address)
      BY <1>4, <3>1, AnswerComes
    <3> QED BY <1>1, <3>2 DEF Answering
  <2>2. ASSUME Len(script) = 1
        PROVE  spi_rx_data' = request.address /\ remaining' = 0
    <3>1. spi_rx_data = request.address /\ remaining = 0 /\ ~spi_enable
      BY <1>4, <2>2 DEF TimeInv
    <3> QED BY <3>1 DEF Master, starts
  <2>3. Len(script) = 0 => result = request.address
    BY <1>4 DEF TimeInv
  <2> QED BY <1>1, <2>1, <2>2, <2>3
<1> QED BY <1>1, <1>3, <1>4 DEF TimeInv

(* A call has as many accesses before its pulse as a transaction needs.    *)
LEMMA CallTime ==
  ASSUME SlowAccesses, ScriptInv, TimeInv, Master, Call
  PROVE  TimeInv'
<1>1. spi_enable' = FALSE /\ elapsed' = 0 /\ remaining' \in 0 .. TransferEdges
  BY CountsDown DEF Call, NoWrite, ScriptInv, DriverTyped
<1>2. CASE request'.op = "none"
  BY <1>1, <1>2 DEF TimeInv, ToPulse
<1>3. ASSUME NEW n \in {8, 9}, ToPulse' = n
      PROVE  remaining' <= EdgesToPulse'
  <2>1. EdgesToPulse' = (n - 1) * Fastest + Fastest
    BY <1>1, <1>3, Times DEF EdgesToPulse
  <2>2. TransferEdges <= (n - 1) * Fastest + Fastest
    BY Times DEF SlowAccesses
  <2> QED BY <1>1, <2>1, <2>2, Times
<1>4. request \in Requests
  BY DEF ScriptInv, DriverTyped
<1>5. ASSUME NEW d \in Datas, script' = spi_ctrl_write(d, 8), Ask(TRUE, d)
      PROVE  TimeInv'
  <2>1. request'.op = "write"
    <3>1. request' = [request EXCEPT !.op = "write", !.data = d]
      BY <1>5 DEF Ask
    <3> QED BY <1>4, <3>1 DEF Requests
  <2>2. ToPulse' = 9
    BY <1>5, <2>1, WriteIs DEF ToPulse
  <2> QED BY <1>1, <1>3, <2>1, <2>2 DEF TimeInv
<1>6. ASSUME script' = spi_ctrl_read(8), Ask(FALSE, txdata)
      PROVE  TimeInv'
  <2>1. request'.op = "read"
    <3>1. request' = [request EXCEPT !.op = "read", !.data = txdata]
      BY <1>6 DEF Ask
    <3> QED BY <1>4, <3>1 DEF Requests
  <2>2. Len(script') = 10
    BY <1>6, ReadIs
  <2>3. ToPulse' = 8 /\ Polling' = FALSE
    BY <2>1, <2>2 DEF ToPulse, Polling
  <2> QED BY <1>1, <1>3, <2>1, <2>2, <2>3 DEF TimeInv
<1>7. ASSUME NEW c, request' = [request EXCEPT !.op = "none", !.address = c]
      PROVE  request'.op = "none"
  BY <1>4, <1>7 DEF Requests
<1>8. ASSUME request' = [request EXCEPT !.op = "none"]
      PROVE  request'.op = "none"
  BY <1>4, <1>8 DEF Requests
<1> QED BY <1>2, <1>5, <1>6, <1>7, <1>8 DEF Call

LEMMA NextTime == SlowAccesses => (ScriptInv /\ TimeInv /\ [DriverNext]_driverVars => TimeInv')
<1> SUFFICES ASSUME SlowAccesses, ScriptInv, TimeInv, [DriverNext]_driverVars
             PROVE  TimeInv'
  OBVIOUS
<1>1. CASE Master /\ Access
  <2>1. request' = request
    BY <1>1, AtAccess
  <2>2. /\ spi_enable' => remaining' = 0 /\ ToPulse' = 0
        /\ ToPulse' > 0 => remaining' <= EdgesToPulse'
    BY <1>1, PulseFindsReady, PulseApproaches
  <2> QED BY <1>1, <2>1, <2>2, AnswerKept DEF TimeInv
<1>2. CASE Master /\ (OnTheBus \/ Idle)
  BY <1>2, NoAccessTime
<1>3. CASE Master /\ Call
  BY <1>3, CallTime
<1>4. CASE UNCHANGED driverVars
  BY <1>4 DEF driverVars, registers, master, TimeInv, ToPulse, EdgesToPulse, Polling,
              Answering, Wanted
<1> QED BY <1>1, <1>2, <1>3, <1>4 DEF DriverNext, Driver

LEMMA InitTime == DriverInit => TimeInv
BY DEF DriverInit, TimeInv, ToPulse

(* Where eight accesses take no less than a transaction, the master has    *)
(* ended the one before when the next pulse comes, and the answer of a     *)
(* read is its own.                                                        *)
THEOREM PulsesInTime == SlowAccesses => (DriverSpec => [](ScriptInv /\ TimeInv))
<1> SUFFICES ASSUME SlowAccesses
             PROVE  DriverSpec => [](ScriptInv /\ TimeInv)
  OBVIOUS
<1>1. ScriptInv /\ TimeInv /\ [DriverNext]_driverVars => TimeInv'
  BY NextTime
<1> QED BY <1>1, InitScript, NextScript, InitTime, PTL DEF DriverSpec

(* "Do a write access to a SPI controller": no enable pulse is lost on a   *)
(* master that is still busy with the transaction before.                  *)
THEOREM EveryEnableIsSeen == SlowAccesses => (DriverSpec => []EnableIsSeen)
<1> SUFFICES ASSUME SlowAccesses
             PROVE  DriverSpec => []EnableIsSeen
  OBVIOUS
<1>1. TimeInv => EnableIsSeen
  BY DEF TimeInv, EnableIsSeen
<1>2. DriverSpec => [](ScriptInv /\ TimeInv)
  BY PulsesInTime
<1> QED BY <1>1, <1>2, PTL

(* spi_ctrl_read returns what the ADC answered to its own command, and not *)
(* what an earlier transaction left in the receive register.               *)
THEOREM EveryReadReturnsItsAnswer == SlowAccesses => (DriverSpec => []ReadReturnsItsAnswer)
<1> SUFFICES ASSUME SlowAccesses
             PROVE  DriverSpec => []ReadReturnsItsAnswer
  OBVIOUS
<1>1. TimeInv => ReadReturnsItsAnswer
  BY DEF TimeInv, ReadReturnsItsAnswer
<1>2. DriverSpec => [](ScriptInv /\ TimeInv)
  BY PulsesInTime
<1> QED BY <1>1, <1>2, PTL
=============================================================================
