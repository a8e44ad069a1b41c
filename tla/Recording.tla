----------------------------- MODULE Recording -----------------------------
(***************************************************************************)
(* What the back end promises the recording host: an observation emits its *)
(* frames in order, each at most once and none before it was acquired, and *)
(* it stops after exactly the frames it was asked for unless it fails.     *)
(* Nothing of buffers, DMA transfers or interrupts.                        *)
(***************************************************************************)
EXTENDS Integers, Sequences

CONSTANT Targets           \* frames an observation may be asked for

VARIABLES
  phase,     \* "idle", "observing" or "failed"
  run,       \* number of the observation, 0 before the first
  target,    \* frames the observation must acquire
  taken,     \* frames it has acquired
  log        \* <<run, frame>> of every frame emitted

vars == <<phase, run, target, taken, log>>

Init == /\ phase = "idle"
        /\ run = 0
        /\ target \in Targets
        /\ taken = 0
        /\ log = <<>>

SetTarget(n) == /\ phase = "idle"
                /\ target' = n
                /\ UNCHANGED <<phase, run, taken, log>>

Start == /\ phase = "idle"
         /\ phase' = "observing"
         /\ run' = run + 1
         /\ taken' = 0
         /\ UNCHANGED <<target, log>>

(* The last frame of the observation ends it.                              *)
Take == /\ phase = "observing"
        /\ taken < target
        /\ taken' = taken + 1
        /\ phase' = IF taken' = target THEN "idle" ELSE "observing"
        /\ UNCHANGED <<run, target, log>>

Before(a, b) == a[1] < b[1] \/ (a[1] = b[1] /\ a[2] < b[2])

(* Frame number `taken` is being acquired: it may be on its way out before *)
(* it is counted.                                                          *)
Emit == \E r \in 1 .. run, f \in UNION {0 .. n : n \in Targets} :
          /\ r = run => f <= taken
          /\ log # <<>> => Before(log[Len(log)], <<r, f>>)
          /\ log' = Append(log, <<r, f>>)
          /\ UNCHANGED <<phase, run, target, taken>>

Fail == /\ phase = "observing"
        /\ phase' = "failed"
        /\ UNCHANGED <<run, target, taken, log>>

Next == \/ \E n \in Targets : SetTarget(n)
        \/ Start \/ Take \/ Emit \/ Fail

Spec == Init /\ [][Next]_vars
=============================================================================
