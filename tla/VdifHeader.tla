----------------------------- MODULE VdifHeader -----------------------------
(***************************************************************************)
(* sw/vdif_formatter_drv.c and the wiring of its registers in              *)
(* vdif_formatter_v1_0_S_AXI.vhd: how a header field set by software gets  *)
(* to the port of the framer.  A word is the set of its bits that are one, *)
(* so that |, &~ and << are union, difference and shift.                   *)
(*                                                                         *)
(* Three places of the repository say where a field is, and none is        *)
(* derived from another: the masks of vdif_formatter_drv_hw.h, the shifts  *)
(* written in each setter, and the slices of the port map.  The first two  *)
(* are in the tables Word0 .. Word7, the last one in Slices.               *)
(***************************************************************************)
EXTENDS Naturals, FiniteSets

CONSTANT MaxCalls  \* bound on the setter calls of a behaviour

ASSUME MaxCallsAssumption == MaxCalls \in Nat

VARIABLES slv_reg, \* registers 1 .. 8, the header words
          drv,     \* the driver's copy of each field
          call,    \* the setter between its two writes, or None
          calls    \* setter calls so far

headerVars == <<slv_reg, drv, call, calls>>

Word == 0 .. 31

(* mask: the bits of the macro; shift: as written in the setter.           *)
Word0 == [invalid_data |-> [reg |-> 1, mask |-> 31 .. 31, shift |-> 31],
          legacy_mode  |-> [reg |-> 1, mask |-> 30 .. 30, shift |-> 30]]

Word1 == [unassigned |-> [reg |-> 2, mask |-> 30 .. 31, shift |-> 30],
          ref_epoch  |-> [reg |-> 2, mask |-> 24 .. 29, shift |-> 24]]

Word2 == [vdif_version_number |-> [reg |-> 3, mask |-> 29 .. 31, shift |-> 29],
          log2chns            |-> [reg |-> 3, mask |-> 24 .. 28, shift |-> 24],
          data_frame_length   |-> [reg |-> 3, mask |-> 0 .. 23, shift |-> 0]]

(* Seeded bug: the shift of the neighbouring field.                        *)
Word3_Shift ==
  [data_type             |-> [reg |-> 4, mask |-> 31 .. 31, shift |-> 31],
   bitspersample_minus_1 |-> [reg |-> 4, mask |-> 26 .. 30, shift |-> 27],
   thread_id             |-> [reg |-> 4, mask |-> 16 .. 25, shift |-> 16],
   station_id            |-> [reg |-> 4, mask |-> 0 .. 15, shift |-> 0]]

Word3 ==
  [data_type             |-> [reg |-> 4, mask |-> 31 .. 31, shift |-> 31],
   bitspersample_minus_1 |-> [reg |-> 4, mask |-> 26 .. 30, shift |-> 26],
   thread_id             |-> [reg |-> 4, mask |-> 16 .. 25, shift |-> 16],
   station_id            |-> [reg |-> 4, mask |-> 0 .. 15, shift |-> 0]]

Word4 == [edv      |-> [reg |-> 5, mask |-> 24 .. 31, shift |-> 24],
          word4_ed |-> [reg |-> 5, mask |-> 0 .. 23, shift |-> 0]]

Word5 == [word5_ed |-> [reg |-> 6, mask |-> Word, shift |-> 0]]
Word6 == [word6_ed |-> [reg |-> 7, mask |-> Word, shift |-> 0]]
Word7 == [word7_ed |-> [reg |-> 8, mask |-> Word, shift |-> 0]]

Setters == {Word0, Word1, Word2, Word3, Word4, Word5, Word6, Word7}

Names == UNION {DOMAIN w : w \in Setters}

Setter(n) == (CHOOSE w \in Setters : n \in DOMAIN w)[n]

(***************************************************************************)
(* The slice of the header words that the framer gets as a field.          *)
(***************************************************************************)
Slices ==
  [invalid_data          |-> [reg |-> 1, low |-> 31, high |-> 31],
   legacy_mode           |-> [reg |-> 1, low |-> 30, high |-> 30],
   unassigned            |-> [reg |-> 2, low |-> 30, high |-> 31],
   ref_epoch             |-> [reg |-> 2, low |-> 24, high |-> 29],
   vdif_version_number   |-> [reg |-> 3, low |-> 29, high |-> 31],
   log2chns              |-> [reg |-> 3, low |-> 24, high |-> 28],
   data_frame_length     |-> [reg |-> 3, low |-> 0,  high |-> 23],
   data_type             |-> [reg |-> 4, low |-> 31, high |-> 31],
   bitspersample_minus_1 |-> [reg |-> 4, low |-> 26, high |-> 30],
   thread_id             |-> [reg |-> 4, low |-> 16, high |-> 25],
   station_id            |-> [reg |-> 4, low |-> 0,  high |-> 15],
   edv                   |-> [reg |-> 5, low |-> 24, high |-> 31],
   word4_ed              |-> [reg |-> 5, low |-> 0,  high |-> 23],
   word5_ed              |-> [reg |-> 6, low |-> 0,  high |-> 31],
   word6_ed              |-> [reg |-> 7, low |-> 0,  high |-> 31],
   word7_ed              |-> [reg |-> 8, low |-> 0,  high |-> 31]]

Port(n) == LET p == Slices[n]
           IN  {b - p.low : b \in slv_reg[p.reg] \cap (p.low .. p.high)}

(* The values asked for fit the port of their field, as all of main do:    *)
(* the lowest and the highest bit alone, none, all.                        *)
Values(n) == LET top == Slices[n].high - Slices[n].low
             IN  {{}, {0}, {top}, 0 .. top}

Shifted(v, n) == {b + n : b \in v} \cap Word

None == [name |-> "none"]

WholeWord == DOMAIN Word5 \cup DOMAIN Word6 \cup DOMAIN Word7

HeaderInit == /\ slv_reg = [r \in 1 .. 8 |-> {}]
              /\ drv = [n \in Names |-> {}]
              /\ call = None
              /\ calls = 0

Called(n, v) == /\ call = None /\ calls < MaxCalls
                /\ calls' = calls + 1
                /\ drv' = [drv EXCEPT ![n] = v]

(* Seeded bug: the old bits are left in the register.                      *)
ClearField_Kept(n, v) == /\ n \notin WholeWord
                         /\ Called(n, v)
                         /\ UNCHANGED slv_reg
                         /\ call' = [name |-> n, value |-> v]

(* First access of a setter: read the register, write it without the mask. *)
ClearField(n, v) == /\ n \notin WholeWord
                    /\ Called(n, v)
                    /\ slv_reg' = [slv_reg EXCEPT ![Setter(n).reg] =
                                                     @ \ Setter(n).mask]
                    /\ call' = [name |-> n, value |-> v]

(* Second access: or the shifted value in.                                 *)
PutField == /\ call # None
            /\ LET f == Setter(call.name)
               IN  slv_reg' = [slv_reg EXCEPT ![f.reg] =
                                 @ \cup Shifted(call.value, f.shift)]
            /\ call' = None
            /\ UNCHANGED <<drv, calls>>

(* Words 5 to 7 are written whole.                                         *)
PutWord(n, v) == /\ n \in WholeWord
                 /\ Called(n, v)
                 /\ slv_reg' = [slv_reg EXCEPT ![Setter(n).reg] =
                                                  Shifted(v, Setter(n).shift)]
                 /\ UNCHANGED call

HeaderNext == \/ PutField
              \/ \E n \in Names : \E v \in Values(n) : ClearField(n, v) \/ PutWord(n, v)

HeaderSpec == HeaderInit /\ [][HeaderNext]_headerVars
-----------------------------------------------------------------------------
(* The copy the getters answer from is what the framer stamps on frames,   *)
(* whatever was set before and in whatever order, except inside a setter.  *)
CopyIsStamped == call = None => \A n \in Names : drv[n] = Port(n)

Fields == INSTANCE HeaderFields WITH field <- [n \in Names |-> Port(n)]

(* A setter moves its own field alone, through the empty value: nobody     *)
(* reading the port sees a neighbour of the field change, not even between *)
(* the two register accesses.                                              *)
FieldsSpec == Fields!Spec
=============================================================================
