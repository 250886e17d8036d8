----------------------------- MODULE AudioQueue -----------------------------
(***************************************************************************)
(* The audio queue (src/callbacks.cpp) and the conversion of the sample    *)
(* rate in front of it (src/resample.cpp).                                 *)
(*                                                                         *)
(* The game asks how much is still queued and sizes its next buffer from   *)
(* the answer; the port converts the buffer to the device's rate and       *)
(* queues it; the device takes a period at a time and fills what is        *)
(* missing with zeroes.  Rates are frames in the time of one video frame.  *)
(* Samples are counted, not computed: what matters of the conversion is    *)
(* which output is made from which part of the input, and when.  Positions *)
(* are exact, in parts of a source frame, where the code's are doubles.    *)
(***************************************************************************)
EXTENDS Integers, FiniteSetsExt

CONSTANTS
  Rates,          \* rates the game asks for
  HardwareRates,  \* rates the machine's default device may have
  Period,         \* device_period_frames
  HalfTaps,       \* kHalfTaps
  Headroom,       \* queue_headroom_ms, in percent of a video frame
  Extra,          \* frames over its rate the game makes when told nothing is queued
  Least,          \* the smallest buffer the game makes, in percent of its rate
  MaxPulls        \* bound: pulls between two buffers, the game keeping pace

ASSUME AudioQueueAssumption ==
  /\ Rates \subseteq Nat \ {0} /\ HardwareRates \subseteq Nat \ {0}
  /\ Period \in Nat \ {0} /\ HalfTaps \in Nat \ {0}
  /\ {Headroom, Extra, Least, MaxPulls} \subseteq Nat

VARIABLES
  own,       \* resample_in_port(), read once
  freq,      \* g_audio_frequency
  open,      \* g_audio_device # 0
  device,    \* the rate of the open device
  conv,      \* the resampler: g_src, g_dst, frames of g_pending, g_pos
  headroom,  \* g_queue_headroom_frames
  queue,     \* device frames in SDL's queue
  pulls,     \* pulls since the last buffer
  \* observers
  debt,      \* fed and not yet made since the last change of rate, in parts
  made,      \* whether any output was made since
  topped     \* something was left over the headroom when the last buffer was made

vars == <<own, freq, open, device, conv, headroom, queue, pulls, debt, made, topped>>

HeadroomFrames(rate) == (rate * Headroom) \div 100

-----------------------------------------------------------------------------
\* The resampler.  A source frame has dst parts and an output is made every
\* src parts, so every position is a whole number of parts.

Passthrough(c) == c.src = 0 \/ c.dst = 0 \/ c.src = c.dst
Half(c) == HalfTaps * Max({c.src, c.dst})
Lead(src, dst) == ((Half([src |-> src, dst |-> dst]) + dst - 1) \div dst) + 1

configure(src, dst) ==
  [src |-> src, dst |-> dst, pending |-> Lead(src, dst), pos |-> Lead(src, dst) * dst]

\* How many outputs have the right-hand side of their kernel in c.
Ready(c) ==
  LET limit == (c.pending - 1) * c.dst - Half(c)
  IN IF c.pos < limit THEN ((limit - c.pos - 1) \div c.src) + 1 ELSE 0

\* What the kernel can no longer reach back to is dropped.
Spent_NoHistory(c) == Max({(c.pos \div c.dst) - 1, 0})   \* mutant: the left half is forgotten
Spent_RightHalf(c) == Max({((c.pos + Half(c)) \div c.dst) - 1, 0})   \* mutant: the sign of the half
Spent(c) == Max({((c.pos - Half(c)) \div c.dst) - 1, 0})
Drop_KeepsPosition(c) == [c EXCEPT !.pending = @ - Spent(c)]   \* mutant: the position stays
Drop(c) == [c EXCEPT !.pending = @ - Spent(c), !.pos = @ - Spent(c) * c.dst]

\* process: the resampler after frames more, and how many outputs it made.
Fed(c, frames) == [c EXCEPT !.pending = @ + frames]
Outputs(c, frames) == IF Passthrough(c) THEN frames ELSE Ready(Fed(c, frames))
process(c, frames) ==
  IF Passthrough(c) THEN c
  ELSE Drop([Fed(c, frames) EXCEPT !.pos = @ + Outputs(c, frames) * c.src])

to_source_frames(c, frames) ==
  IF Passthrough(c) THEN frames ELSE (frames * c.src) \div c.dst

-----------------------------------------------------------------------------
TypeOK ==
  /\ own \in BOOLEAN /\ open \in BOOLEAN
  /\ freq \in Rates
  /\ device \in Rates \cup HardwareRates \cup {0}
  /\ conv.src \in Rates \cup {0} /\ conv.dst \in Rates \cup HardwareRates \cup {0}
  /\ conv.pending \in Nat /\ conv.pos \in Nat
  /\ headroom \in Nat
  /\ queue \in Nat /\ (~open => queue = 0)
  /\ pulls \in 0 .. MaxPulls
  /\ debt \in Int
  /\ {made, topped} \subseteq BOOLEAN

Init ==
  /\ own \in BOOLEAN
  /\ freq \in Rates
  /\ open = FALSE /\ device = 0
  /\ conv = [src |-> 0, dst |-> 0, pending |-> 0, pos |-> 0]
  /\ headroom = 0 /\ queue = 0 /\ pulls = 0
  /\ debt = 0 /\ made = FALSE /\ topped = FALSE

\* set_frequency.  With its own conversion the port keeps the device.
Retune_HeadroomOnly(c, f) == c   \* mutant: the resampler keeps the old rate
Retune(c, f) == configure(f, device)

ChangeRate(f) ==
  /\ open /\ own /\ f # freq
  /\ freq' = f
  /\ headroom' = HeadroomFrames(f)
  /\ conv' = Retune(conv, f)
  /\ debt' = 0 /\ made' = FALSE
  /\ UNCHANGED <<own, open, device, queue, pulls, topped>>

\* open_audio_device closes the device first, and what it held is gone.
Reopen(f) ==
  /\ IF open THEN ~own /\ f # freq ELSE TRUE
  /\ freq' = f
  /\ queue' = 0 /\ topped' = FALSE
  /\ debt' = 0 /\ made' = FALSE
  /\ \/ /\ open' = FALSE
        /\ UNCHANGED <<device, conv, headroom>>
     \/ \E rate \in IF own THEN HardwareRates ELSE {f} :
          /\ open' = TRUE
          /\ device' = rate
          /\ headroom' = HeadroomFrames(f)
          /\ conv' = configure(f, rate)
  /\ UNCHANGED <<own, pulls>>

LessHeadroom_None(frames) == frames   \* mutant: the depth is not under-reported
LessHeadroom(frames) == IF frames > headroom THEN frames - headroom ELSE 0

get_frames_remaining == IF open THEN LessHeadroom(to_source_frames(conv, queue)) ELSE 0

\* The game makes a little more than a video frame of sound, less what it is
\* told is queued, and queue_samples takes it.
Buffer ==
  LET frames == Max({(freq * Least) \div 100, freq + Extra - get_frames_remaining}) IN
  /\ IF open
     THEN /\ conv' = process(conv, frames)
          /\ queue' = queue + Outputs(conv, frames)
          /\ debt' = debt + frames * device - Outputs(conv, frames) * freq
          /\ made' = (made \/ Outputs(conv, frames) > 0)
          /\ topped' = (get_frames_remaining > 0)
     ELSE UNCHANGED <<conv, queue, debt, made, topped>>
  /\ pulls' = 0
  /\ UNCHANGED <<own, freq, open, device, headroom>>

\* The device takes a period, and zeroes for what the queue is short of.
Pull ==
  /\ open /\ pulls < MaxPulls
  /\ queue' = Max({queue - Period, 0})
  /\ pulls' = pulls + 1
  /\ UNCHANGED <<own, freq, open, device, conv, headroom, debt, made, topped>>

\* Buffers are made in time with video, so none follows another with no pull.
Next ==
  \/ \E f \in Rates : ChangeRate(f) \/ Reopen(f)
  \/ (pulls > 0 \/ ~open \/ queue = 0) /\ Buffer
  \/ Pull

Spec == Init /\ [][Next]_vars

-----------------------------------------------------------------------------
\* However the input is cut into buffers, output n is made from the input
\* around source position n * freq / device, as soon as its kernel has arrived:
\* what is fed and not made is what the right half of the kernel waits for, and
\* the position inside the history is where the count says.  "The boundaries
\* between buffers leave no mark at all."  (resample.cpp process)
Seamless ==
  open => IF freq = device THEN debt = 0
          ELSE /\ debt <= Half(conv) + device
               /\ made => debt > Half(conv) + device - freq
               /\ conv.pending * device - conv.pos = debt

\* The kernel of the next output lies in the history on its left, whatever was
\* dropped, and the history does not grow.  (resample.cpp process)
KernelCovered ==
  (open /\ ~Passthrough(conv)) =>
     /\ conv.pos >= Half(conv)
     /\ conv.pending <= 2 * Lead(conv.src, conv.dst) + 2

\* Once the queue has settled at the depth the game is persuaded to keep, the
\* device finds a whole period at every pull, also across a change of rate: the
\* hole that zero-fill makes in the output does not come back.
\* (get_frames_remaining, set_frequency)
NeverDry == [][(Pull /\ topped) => queue >= Period]_vars
=============================================================================
