--------------------------- MODULE ScancodeChannel ---------------------------
(***************************************************************************)
(* What src/task/keyboard.rs promises: a bounded channel from the keyboard *)
(* interrupt to the print_keypresses task.  Key presses are numbered in    *)
(* the order the controller raises them.  A press is dropped if the        *)
(* channel is not open yet or is full; every other press is delivered,     *)
(* exactly once and in order, and as long as the channel is not empty      *)
(* delivery goes on.                                                       *)
(***************************************************************************)
EXTENDS Naturals, Sequences

CONSTANTS
  ScancodeQueueCap,  \* capacity of the channel
  MaxKeys            \* bound: how many keys are pressed

VARIABLES
  open,       \* the receiving end exists
  chan,       \* presses accepted and not delivered
  pressed,    \* number of presses so far
  dropped,    \* the presses that were dropped
  delivered   \* the presses that were delivered, in order

chanVars == <<open, chan, pressed, dropped, delivered>>

Init ==
  /\ open = FALSE
  /\ chan = <<>>
  /\ pressed = 0
  /\ dropped = {}
  /\ delivered = <<>>

Open ==
  /\ ~open
  /\ open' = TRUE
  /\ UNCHANGED <<chan, pressed, dropped, delivered>>

Accept ==
  /\ pressed < MaxKeys
  /\ open /\ Len(chan) < ScancodeQueueCap
  /\ pressed' = pressed + 1
  /\ chan' = Append(chan, pressed + 1)
  /\ UNCHANGED <<open, dropped, delivered>>

Drop ==
  /\ pressed < MaxKeys
  /\ ~open \/ Len(chan) >= ScancodeQueueCap
  /\ pressed' = pressed + 1
  /\ dropped' = dropped \union {pressed + 1}
  /\ UNCHANGED <<open, chan, delivered>>

Deliver ==
  /\ chan # <<>>
  /\ delivered' = Append(delivered, Head(chan))
  /\ chan' = Tail(chan)
  /\ UNCHANGED <<open, pressed, dropped>>

Next == Open \/ Accept \/ Drop \/ Deliver

SafeSpec == Init /\ [][Next]_chanVars

Fairness == WF_chanVars(Open) /\ WF_chanVars(Deliver)

Spec == SafeSpec /\ Fairness
=============================================================================
