-------------------------- MODULE AudioQueueProofs --------------------------
(***************************************************************************)
(* Proofs about AudioQueue, for any rates of the game and of the device,   *)
(* any period, kernel and headroom.                                        *)
(***************************************************************************)
EXTENDS AudioQueue, TLAPS

-----------------------------------------------------------------------------
LEMMA DivBounds ==
  ASSUME NEW a \in Int, NEW b \in Nat \ {0}
  PROVE  /\ a \div b \in Int
         /\ b * (a \div b) <= a
         /\ a < b * (a \div b) + b
  OBVIOUS

LEMMA MaxOfTwo ==
  ASSUME NEW a \in Int, NEW b \in Int
  PROVE  Max({a, b}) = IF a >= b THEN a ELSE b
<1>1. CASE a >= b
  <2>1. \A x \in {a, b} : (\A y \in {a, b} : x >= y) <=> x = a
    BY <1>1
  <2>. QED
    BY <1>1, <2>1 DEF Max
<1>2. CASE ~(a >= b)
  <2>1. \A x \in {a, b} : (\A y \in {a, b} : x >= y) <=> x = b
    BY <1>2
  <2>. QED
    BY <1>2, <2>1 DEF Max
<1>. QED
  BY <1>1, <1>2

-----------------------------------------------------------------------------
\* A resampler that converts.
Converting == [src : Nat \ {0}, dst : Nat \ {0}, pending : Int, pos : Int]

LEMMA HalfBounds ==
  ASSUME NEW c, c.src \in Nat \ {0}, c.dst \in Nat \ {0}
  PROVE  Half(c) \in Nat /\ Half(c) >= c.src /\ Half(c) >= c.dst
<1>1. PICK m \in Nat \ {0} : m = Max({c.src, c.dst})
  BY MaxOfTwo
<1>2. m >= c.src /\ m >= c.dst
  BY <1>1, MaxOfTwo
<1>3. HalfTaps \in Nat \ {0}
  BY AudioQueueAssumption
<1>4. HalfTaps * m \in Nat /\ HalfTaps * m >= m
  BY <1>1, <1>3
<1>. QED
  BY <1>1, <1>2, <1>4 DEF Half

\* The outputs end where the history ends on their right.
LEMMA ReadyExact ==
  ASSUME NEW c \in Converting
  PROVE  LET end == (c.pending - 1) * c.dst - Half(c)
             next == c.pos + Ready(c) * c.src
         IN /\ Ready(c) \in Nat
            /\ next >= end
            /\ Ready(c) > 0 => next < end + c.src
<1>. DEFINE end == (c.pending - 1) * c.dst - Half(c)
            rest == end - c.pos - 1
<1>1. /\ c.src \in Nat \ {0} /\ c.dst \in Nat \ {0} /\ c.pending \in Int /\ c.pos \in Int
      /\ Half(c) \in Nat
  BY HalfBounds DEF Converting
<1>2. end \in Int
  BY <1>1
<1>3. Ready(c) = IF c.pos < end THEN (rest \div c.src) + 1 ELSE 0
  BY DEF Ready
<1>. HIDE DEF end
<1>4. CASE c.pos < end
  <2>2. rest \in Int /\ rest >= 0
    BY <1>1, <1>2, <1>4
  <2>. HIDE DEF rest
  <2>1. PICK q \in Int : q = rest \div c.src /\ c.src * q <= rest /\ rest < c.src * q + c.src
    BY <1>1, <2>2, DivBounds
  <2>3. q >= 0
    <3>1. c.src * (q + 1) > 0
      BY <1>1, <1>2, <2>1, <2>2
    <3>. QED
      BY <1>1, <2>1, <3>1
  <2>4. Ready(c) = q + 1 /\ (q + 1) * c.src = c.src * q + c.src
    BY <1>1, <1>3, <1>4, <2>1
  <2>. USE DEF rest
  <2>5. c.pos + (q + 1) * c.src >= end /\ c.pos + (q + 1) * c.src < end + c.src
    BY <1>1, <1>2, <2>1, <2>4
  <2>. QED
    BY <2>1, <2>3, <2>4, <2>5 DEF end
<1>5. CASE ~(c.pos < end)
  BY <1>1, <1>2, <1>3, <1>5 DEF end
<1>. QED
  BY <1>4, <1>5

\* Dropping moves the history and the position together, and leaves the left
\* half of the kernel and less than two frames more.
LEMMA DropExact ==
  ASSUME NEW c \in Converting, c.pos >= Half(c)
  PROVE  /\ Drop(c) \in Converting
         /\ Drop(c).src = c.src /\ Drop(c).dst = c.dst
         /\ Drop(c).pending * c.dst - Drop(c).pos = c.pending * c.dst - c.pos
         /\ Half(c) <= Drop(c).pos /\ Drop(c).pos < Half(c) + 2 * c.dst
<1>1. /\ c.src \in Nat \ {0} /\ c.dst \in Nat \ {0} /\ c.pending \in Int /\ c.pos \in Int
      /\ Half(c) \in Nat
  BY HalfBounds DEF Converting
<1>2. PICK over \in Int : over = c.pos - Half(c)
  BY <1>1
<1>3. PICK q \in Int : q = over \div c.dst /\ c.dst * q <= over /\ over < c.dst * q + c.dst
  BY <1>1, <1>2, DivBounds
<1>4. PICK m \in Nat : m = Spent(c) /\ m = IF q - 1 >= 0 THEN q - 1 ELSE 0
  BY <1>2, <1>3, MaxOfTwo DEF Spent
<1>5. PICK cut \in Int : cut = m * c.dst /\ cut <= over /\ over < cut + 2 * c.dst
  <2>1. CASE q - 1 >= 0
    <3>1. m * c.dst = c.dst * q - c.dst
      BY <1>1, <1>3, <1>4, <2>1
    <3>. QED
      BY <1>1, <1>2, <1>3, <1>4, <3>1
  <2>2. CASE ~(q - 1 >= 0)
    <3>1. m = 0 /\ q <= 1
      BY <1>3, <1>4, <2>2
    <3>2. c.dst * q <= c.dst
      BY <1>1, <1>3, <3>1
    <3>3. over >= 0
      BY <1>1, <1>2
    <3>4. 0 * c.dst = 0
      BY <1>1
    <3>. QED
      BY <1>1, <1>2, <1>3, <3>1, <3>2, <3>3, <3>4
  <2>. QED
    BY <2>1, <2>2
<1>6. Drop(c) = [c EXCEPT !.pending = c.pending - m, !.pos = c.pos - cut]
  BY <1>4, <1>5 DEF Drop
<1>7. PICK pending \in Int, pos \in Int : pending = c.pending - m /\ pos = c.pos - cut
  BY <1>1, <1>4, <1>5
<1>8. Drop(c) = [c EXCEPT !.pending = pending, !.pos = pos]
  BY <1>6, <1>7
<1>9. /\ Drop(c) \in Converting
      /\ Drop(c).src = c.src /\ Drop(c).dst = c.dst
      /\ Drop(c).pending = pending /\ Drop(c).pos = pos
  BY <1>8 DEF Converting
<1>10. pending * c.dst - pos = c.pending * c.dst - c.pos
  BY <1>1, <1>5, <1>7
<1>11. Half(c) <= pos /\ pos < Half(c) + 2 * c.dst
  BY <1>1, <1>2, <1>5, <1>7
<1>. QED
  BY <1>9, <1>10, <1>11

LEMMA FedType ==
  ASSUME NEW c \in Converting, NEW n \in Nat
  PROVE  /\ Fed(c, n) \in Converting
         /\ Fed(c, n).src = c.src /\ Fed(c, n).dst = c.dst
         /\ Fed(c, n).pending = c.pending + n /\ Fed(c, n).pos = c.pos
<1>1. PICK pending \in Int : pending = c.pending + n
  BY DEF Converting
<1>2. Fed(c, n) = [c EXCEPT !.pending = pending]
  BY <1>1 DEF Fed
<1>. QED
  BY <1>1, <1>2 DEF Converting

\* What a buffer of n frames does: the input is accounted for to a part, and
\* only what the right half of the kernel waits for is left.
LEMMA ProcessExact ==
  ASSUME NEW c \in Converting, c.src # c.dst, c.pos >= Half(c), NEW n \in Nat
  PROVE  LET k == Outputs(c, n)
             e == process(c, n)
             left == e.pending * c.dst - e.pos
         IN /\ k \in Nat
            /\ e \in Converting /\ e.src = c.src /\ e.dst = c.dst
            /\ left = (c.pending * c.dst - c.pos) + n * c.dst - k * c.src
            /\ left <= Half(c) + c.dst
            /\ k > 0 => left > Half(c) + c.dst - c.src
            /\ Half(c) <= e.pos /\ e.pos < Half(c) + 2 * c.dst
<1>1. /\ c.src \in Nat \ {0} /\ c.dst \in Nat \ {0} /\ c.pending \in Int /\ c.pos \in Int
      /\ Half(c) \in Nat /\ ~Passthrough(c)
  BY HalfBounds DEF Converting, Passthrough
<1>2. PICK f \in Converting : /\ f = Fed(c, n) /\ f.src = c.src /\ f.dst = c.dst
                              /\ f.pending = c.pending + n /\ f.pos = c.pos
  BY FedType
<1>3. Half(f) = Half(c)
  BY <1>2 DEF Half
<1>4. PICK k \in Nat : k = Ready(f)
  BY ReadyExact
<1>5. Outputs(c, n) = k
  BY <1>1, <1>2, <1>4 DEF Outputs
<1>6. PICK end \in Int : end = (c.pending + n - 1) * c.dst - Half(c)
  BY <1>1
<1>7. PICK next \in Int : next = c.pos + k * c.src
  BY <1>1
<1>8. next >= end /\ (k > 0 => next < end + c.src)
  <2>1. (f.pending - 1) * f.dst - Half(f) = end
    BY <1>1, <1>2, <1>3, <1>6
  <2>2. f.pos + Ready(f) * f.src = next
    BY <1>1, <1>2, <1>4, <1>7
  <2>. QED
    BY <1>2, <1>4, <2>1, <2>2, ReadyExact
<1>9. next >= c.pos
  BY <1>1, <1>7
<1>10. PICK g \in Converting : g = [f EXCEPT !.pos = next]
  BY <1>2 DEF Converting
<1>11. /\ g.src = c.src /\ g.dst = c.dst /\ g.pending = c.pending + n /\ g.pos = next
       /\ Half(g) = Half(c)
  BY <1>2, <1>10 DEF Converting, Half
<1>12. process(c, n) = Drop(g)
  BY <1>1, <1>2, <1>5, <1>7, <1>10 DEF process
<1>13. PICK e \in Converting :
         /\ e = process(c, n) /\ e.src = c.src /\ e.dst = c.dst
         /\ e.pending * c.dst - e.pos = (c.pending + n) * c.dst - next
         /\ Half(c) <= e.pos /\ e.pos < Half(c) + 2 * c.dst
  BY <1>1, <1>9, <1>11, <1>12, DropExact
<1>14. PICK left \in Int : left = e.pending * c.dst - e.pos
  BY <1>1 DEF Converting
<1>15. left = (c.pending * c.dst - c.pos) + n * c.dst - k * c.src
  BY <1>1, <1>7, <1>13, <1>14
<1>16. left = end + Half(c) + c.dst - next
  BY <1>1, <1>6, <1>13, <1>14
<1>17. left <= Half(c) + c.dst /\ (k > 0 => left > Half(c) + c.dst - c.src)
  BY <1>1, <1>8, <1>16
<1>. QED
  BY <1>5, <1>13, <1>14, <1>15, <1>17

\* A fresh resampler: silence to the left of the first output.
LEMMA ConfigureExact ==
  ASSUME NEW src \in Nat \ {0}, NEW dst \in Nat \ {0}
  PROVE  LET c == configure(src, dst)
         IN /\ c \in Converting /\ c.src = src /\ c.dst = dst
            /\ c.pending * dst - c.pos = 0
            /\ Half(c) <= c.pos /\ c.pos < Half(c) + 2 * dst
            /\ Lead(src, dst) \in Nat
            /\ Half(c) + dst <= Lead(src, dst) * dst
<1>1. PICK h \in Nat : h = Half([src |-> src, dst |-> dst])
  BY HalfBounds
<1>2. PICK a \in Int : a = h + dst - 1
  BY <1>1
<1>3. PICK q \in Int : q = a \div dst /\ dst * q <= a /\ a < dst * q + dst
  BY DivBounds
<1>4. PICK lead \in Int : lead = Lead(src, dst) /\ lead = q + 1
  BY <1>1, <1>2, <1>3 DEF Lead
<1>5. PICK p \in Int : p = lead * dst /\ p = dst * q + dst
  BY <1>3, <1>4
<1>6. h + dst <= p /\ p < h + 2 * dst
  BY <1>1, <1>2, <1>3, <1>5
<1>7. lead \in Nat
  <2>1. lead * dst > 0
    BY <1>1, <1>5, <1>6
  <2>. QED
    BY <1>4, <2>1
<1>8. PICK c \in Converting : c = configure(src, dst) /\ c = [src |-> src, dst |-> dst, pending |-> lead, pos |-> p]
  BY <1>4, <1>5 DEF configure, Converting
<1>9. c.src = src /\ c.dst = dst /\ c.pending = lead /\ c.pos = p
  BY <1>8
<1>10. Half(c) = h
  BY <1>1, <1>9 DEF Half
<1>. QED
  BY <1>1, <1>4, <1>5, <1>6, <1>7, <1>8, <1>9, <1>10

-----------------------------------------------------------------------------
\* What TypeOK says of all but the resampler, and the resampler.
RestType ==
  /\ own \in BOOLEAN /\ open \in BOOLEAN
  /\ freq \in Rates
  /\ device \in Rates \cup HardwareRates \cup {0}
  /\ headroom \in Nat
  /\ queue \in Nat /\ (~open => queue = 0)
  /\ pulls \in 0 .. MaxPulls
  /\ debt \in Int
  /\ made \in BOOLEAN /\ topped \in BOOLEAN

ConvType == conv \in [src : Rates \cup {0}, dst : Rates \cup HardwareRates \cup {0},
                      pending : Nat, pos : Nat]

\* While the device is open, the resampler is set up for the rates in force.
SetUp ==
  open => /\ conv.src = freq /\ conv.dst = device /\ device # 0
          /\ IF own THEN device \in HardwareRates ELSE device = freq
          /\ headroom = HeadroomFrames(freq)

\* The position is where the count of what was fed and made says, between the
\* left half of the kernel and the end of the history.
Position ==
  open => IF freq = device THEN debt = 0
          ELSE /\ 0 <= debt /\ debt <= Half(conv) + device
               /\ made => debt > Half(conv) + device - freq
               /\ conv.pending * device - conv.pos = debt
               /\ Half(conv) <= conv.pos /\ conv.pos < Half(conv) + 2 * device

IInv == RestType /\ ConvType /\ SetUp /\ Position

LEMMA RateTypes ==
  ASSUME NEW r \in Rates \cup HardwareRates
  PROVE  r \in Nat \ {0}
  BY AudioQueueAssumption

LEMMA HeadroomType ==
  ASSUME NEW f \in Rates
  PROVE  HeadroomFrames(f) \in Nat
<1>1. PICK a \in Nat : a = f * Headroom
  BY RateTypes, AudioQueueAssumption
<1>2. a \div 100 \in Nat
  OBVIOUS
<1>. QED
  BY <1>1, <1>2 DEF HeadroomFrames

\* How many frames the game makes.
Frames == Max({(freq * Least) \div 100, freq + Extra - get_frames_remaining})

LEMMA RemainingType ==
  ASSUME IInv
  PROVE  /\ get_frames_remaining \in Nat
         /\ Frames \in Nat /\ Frames >= freq + Extra - get_frames_remaining
<1>1. /\ queue \in Nat /\ headroom \in Nat /\ freq \in Nat /\ Extra \in Nat /\ Least \in Nat
  BY RateTypes, AudioQueueAssumption DEF IInv, RestType
<1>2. get_frames_remaining \in Nat
  <2>1. CASE open
    <3>1. to_source_frames(conv, queue) \in Nat
      <4>1. CASE Passthrough(conv)
        BY <1>1, <4>1 DEF to_source_frames
      <4>2. CASE ~Passthrough(conv)
        <5>1. PICK s \in Nat, d \in Nat \ {0} : s = conv.src /\ d = conv.dst
          BY <4>2, RateTypes DEF IInv, ConvType, Passthrough
        <5>2. PICK a \in Nat : a = queue * s
          BY <1>1
        <5>3. a \div d \in Nat
          OBVIOUS
        <5>. QED
          BY <4>2, <5>1, <5>2, <5>3 DEF to_source_frames
      <4>. QED
        BY <4>1, <4>2
    <3>2. PICK q \in Nat : q = to_source_frames(conv, queue)
      BY <3>1
    <3>. QED
      BY <1>1, <2>1, <3>2 DEF get_frames_remaining, LessHeadroom
  <2>2. CASE ~open
    BY <2>2 DEF get_frames_remaining
  <2>. QED
    BY <2>1, <2>2
<1>3. PICK r \in Nat : r = get_frames_remaining
  BY <1>2
<1>4. PICK a \in Nat : a = freq * Least
  BY <1>1
<1>5. PICK least \in Nat : least = a \div 100
  OBVIOUS
<1>6. PICK wanted \in Int : wanted = freq + Extra - r
  BY <1>1
<1>7. Frames = Max({least, wanted})
  BY <1>3, <1>4, <1>5, <1>6 DEF Frames
<1>8. Frames \in Nat /\ Frames >= wanted
  BY <1>7, MaxOfTwo
<1>. QED
  BY <1>3, <1>6, <1>8

-----------------------------------------------------------------------------
LEMMA ConfigureInv ==
  ASSUME NEW f \in Rates, NEW d \in Rates \cup HardwareRates,
         open', freq' = f, device' = d, conv' = configure(f, d), debt' = 0, made' = FALSE
  PROVE  ConvType' /\ Position' /\ conv'.src = f /\ conv'.dst = d
<1>1. f \in Nat \ {0} /\ d \in Nat \ {0}
  BY RateTypes
<1>2. PICK c \in Converting : c = configure(f, d)
  BY <1>1, ConfigureExact
<1>3. PICK lead \in Nat : lead = Lead(f, d)
  BY <1>1, ConfigureExact
<1>4. /\ c.src = f /\ c.dst = d /\ c.pending * d - c.pos = 0
      /\ Half(c) <= c.pos /\ c.pos < Half(c) + 2 * d
  BY <1>1, <1>2, ConfigureExact
<1>5. c.pending = lead
  BY <1>2, <1>3 DEF configure
<1>6. Half(c) \in Nat
  BY <1>1, <1>4, HalfBounds
<1>7. c.pending \in Nat /\ c.pos \in Nat
  BY <1>2, <1>4, <1>5, <1>6 DEF Converting
<1>8. ConvType'
  BY <1>2, <1>4, <1>7 DEF ConvType, Converting
<1>9. 0 <= Half(c) + d
  BY <1>1, <1>6
<1>10. Position'
  BY <1>2, <1>4, <1>9 DEF Position
<1>. QED
  BY <1>2, <1>4, <1>8, <1>10

LEMMA ChangeRateInv ==
  ASSUME IInv, NEW f \in Rates, ChangeRate(f)
  PROVE  IInv'
<1>1. PICK d \in HardwareRates : d = device
  BY DEF ChangeRate, IInv, SetUp
<1>2. /\ open /\ own /\ conv' = configure(f, d)
      /\ freq' = f /\ headroom' = HeadroomFrames(f) /\ debt' = 0 /\ made' = FALSE
      /\ UNCHANGED <<own, open, device, queue, pulls, topped>>
  BY <1>1 DEF ChangeRate, Retune
<1>3. ConvType' /\ Position' /\ conv'.src = f /\ conv'.dst = d
  BY <1>1, <1>2, ConfigureInv
<1>4. RestType'
  <2>1. headroom' \in Nat /\ debt' \in Int
    BY <1>2, HeadroomType
  <2>2. freq' \in Rates /\ made' \in BOOLEAN
    BY <1>2, Zenon
  <2>. QED
    BY <1>2, <2>1, <2>2, Zenon DEF IInv, RestType
<1>5. SetUp'
  BY <1>1, <1>2, <1>3, RateTypes DEF SetUp
<1>. QED
  BY <1>3, <1>4, <1>5 DEF IInv

LEMMA ReopenInv ==
  ASSUME IInv, NEW f \in Rates, Reopen(f)
  PROVE  IInv'
<1>1. /\ freq' = f /\ queue' = 0 /\ topped' = FALSE /\ debt' = 0 /\ made' = FALSE
      /\ own' = own /\ pulls' = pulls
  BY DEF Reopen
<1>2. CASE open' = FALSE /\ UNCHANGED <<device, conv, headroom>>
  <2>1. queue' \in Nat /\ debt' \in Int
    BY <1>1
  <2>2. made' \in BOOLEAN /\ topped' \in BOOLEAN
    BY <1>1, Zenon
  <2>3. RestType'
    BY <1>1, <1>2, <2>1, <2>2, Zenon DEF IInv, RestType
  <2>4. ConvType' /\ SetUp' /\ Position'
    BY <1>2 DEF IInv, ConvType, SetUp, Position
  <2>. QED
    BY <2>3, <2>4 DEF IInv
<1>3. ASSUME NEW d \in IF own THEN HardwareRates ELSE {f},
             open' = TRUE, device' = d, headroom' = HeadroomFrames(f), conv' = configure(f, d)
      PROVE  IInv'
  <2>1. d \in Rates \cup HardwareRates
    BY <1>3
  <2>2. ConvType' /\ Position' /\ conv'.src = f /\ conv'.dst = d
    BY <1>1, <1>3, <2>1, ConfigureInv
  <2>3. RestType'
    <3>1. queue' \in Nat /\ debt' \in Int /\ headroom' \in Nat
      BY <1>1, <1>3, HeadroomType
    <3>2. device' \in Rates \cup HardwareRates \cup {0}
      BY <1>3, <2>1
    <3>3. made' \in BOOLEAN /\ topped' \in BOOLEAN
      BY <1>1, Zenon
    <3>. QED
      BY <1>1, <1>3, <3>1, <3>2, <3>3, Zenon DEF IInv, RestType
  <2>4. SetUp'
    BY <1>1, <1>3, <2>1, <2>2, RateTypes DEF SetUp
  <2>. QED
    BY <2>2, <2>3, <2>4 DEF IInv
<1>. QED
  BY <1>2, <1>3 DEF Reopen

\* A buffer, the device open and the rates different.
LEMMA BufferConverts ==
  ASSUME IInv, open, freq # device, Buffer
  PROVE  LET k == Outputs(conv, Frames)
         IN /\ k \in Nat
            /\ debt' = debt + Frames * device - k * freq
            /\ queue' = queue + k
            /\ ConvType' /\ Position' /\ made' \in BOOLEAN
            /\ conv'.src = freq /\ conv'.dst = device
<1>1. PICK n \in Nat : n = Frames
  BY RemainingType
<1>2. PICK f \in Rates, d \in Rates \cup HardwareRates : f = freq /\ d = device
  BY DEF IInv, RestType, SetUp
<1>3. f \in Nat \ {0} /\ d \in Nat \ {0}
  BY RateTypes
<1>4. PICK c \in Converting : c = conv
  BY <1>2, <1>3 DEF IInv, ConvType, SetUp, Converting
<1>5. /\ c.src = f /\ c.dst = d /\ c.src # c.dst /\ c.pos >= Half(c)
      /\ c.pending * d - c.pos = debt
      /\ 0 <= debt
      /\ made => debt > Half(c) + d - f
  BY <1>2, <1>3, <1>4 DEF IInv, SetUp, Position, ConvType
<1>6. PICK k \in Nat : k = Outputs(c, n)
  BY <1>5, ProcessExact
<1>7. PICK e \in Converting : e = process(c, n)
  BY <1>5, ProcessExact
<1>8. PICK left \in Int : left = e.pending * d - e.pos
  BY <1>3 DEF Converting
<1>9. /\ e.src = f /\ e.dst = d
      /\ left = (c.pending * d - c.pos) + n * d - k * f
      /\ left <= Half(c) + d
      /\ k > 0 => left > Half(c) + d - f
      /\ Half(c) <= e.pos /\ e.pos < Half(c) + 2 * d
  BY <1>5, <1>6, <1>7, <1>8, ProcessExact
<1>10. /\ conv' = e /\ queue' = queue + k /\ debt' = debt + n * d - k * f
       /\ made' = (made \/ k > 0)
       /\ UNCHANGED <<own, freq, open, device, headroom>>
  BY <1>1, <1>2, <1>4, <1>6, <1>7 DEF Buffer, Frames
<1>11. debt' = left
  BY <1>5, <1>9, <1>10
<1>12. Half(c) \in Nat /\ Half(c) >= f /\ Half(e) = Half(c)
  BY <1>3, <1>5, <1>9, HalfBounds DEF Half
<1>13. n * d \in Nat /\ debt \in Int
  BY <1>3 DEF IInv, RestType
<1>14. (made \/ k > 0) => left > Half(c) + d - f
  <2>1. CASE k > 0
    BY <1>9, <2>1
  <2>2. CASE k = 0 /\ made
    <3>1. k * f = 0
      BY <1>3, <2>2
    <3>. QED
      BY <1>3, <1>5, <1>9, <1>12, <1>13, <2>2, <3>1
  <2>. QED
    BY <2>1, <2>2
<1>15. 0 <= left
  <2>1. CASE k > 0
    BY <1>3, <1>9, <1>12, <2>1
  <2>2. CASE k = 0
    <3>1. k * f = 0
      BY <1>3, <2>2
    <3>. QED
      BY <1>5, <1>9, <1>13, <3>1
  <2>. QED
    BY <2>1, <2>2
<1>16. e.pending \in Nat /\ e.pos \in Nat
  <2>1. e.pos \in Nat
    BY <1>9, <1>12 DEF Converting
  <2>2. e.pending * d >= 0
    BY <1>3, <1>8, <1>15, <2>1 DEF Converting
  <2>3. e.pending >= 0
    BY <1>3, <2>2 DEF Converting
  <2>. QED
    BY <2>1, <2>3 DEF Converting
<1>17. ConvType'
  BY <1>2, <1>9, <1>10, <1>16 DEF ConvType, Converting
<1>18. Position'
  BY <1>2, <1>8, <1>9, <1>10, <1>11, <1>12, <1>14, <1>15 DEF Position
<1>. QED
  BY <1>1, <1>2, <1>4, <1>6, <1>9, <1>10, <1>17, <1>18

\* A buffer at the device's own rate goes through as it is.
LEMMA BufferPasses ==
  ASSUME IInv, open, freq = device, Buffer
  PROVE  /\ Outputs(conv, Frames) = Frames
         /\ conv' = conv /\ debt' = debt /\ queue' = queue + Frames
         /\ made' \in BOOLEAN
<1>1. Passthrough(conv)
  BY DEF IInv, SetUp, Passthrough
<1>2. Outputs(conv, Frames) = Frames /\ process(conv, Frames) = conv
  BY <1>1 DEF Outputs, process
<1>3. PICK n \in Nat, f \in Nat : n = Frames /\ f = freq
  BY RemainingType, RateTypes DEF IInv, RestType
<1>4. /\ debt' = debt + n * f - n * f /\ conv' = conv /\ queue' = queue + n
      /\ made' = (made \/ n > 0)
  BY <1>2, <1>3 DEF Buffer, Frames
<1>5. n * f \in Nat /\ debt \in Int
  BY DEF IInv, RestType
<1>6. debt' = debt
  BY <1>4, <1>5
<1>7. made' \in BOOLEAN
  BY <1>4
<1>. QED
  BY <1>2, <1>3, <1>4, <1>6, <1>7

LEMMA BufferInv ==
  ASSUME IInv, Buffer
  PROVE  IInv'
<1>1. UNCHANGED <<own, freq, open, device, headroom>> /\ pulls' = 0
  BY DEF Buffer
<1>2. pulls' \in 0 .. MaxPulls
  BY <1>1, AudioQueueAssumption
<1>3. CASE ~open
  <2>1. UNCHANGED <<conv, queue, debt, made, topped>>
    BY <1>3 DEF Buffer
  <2>2. RestType'
    BY <1>1, <1>2, <2>1, Zenon DEF IInv, RestType
  <2>. QED
    BY <1>1, <1>3, <2>1, <2>2 DEF IInv, ConvType, SetUp, Position
<1>4. CASE open
  <2>1. topped' = (get_frames_remaining > 0)
    BY <1>4 DEF Buffer
  <2>2. topped' \in BOOLEAN
    BY <2>1
  <2>3. /\ queue' \in Nat /\ debt' \in Int /\ made' \in BOOLEAN
        /\ ConvType' /\ Position' /\ conv'.src = freq /\ conv'.dst = device
    <3>1. CASE freq = device
      <4>1. /\ conv' = conv /\ debt' = debt /\ queue' = queue + Frames /\ made' \in BOOLEAN
        BY <1>4, <3>1, BufferPasses
      <4>2. queue' \in Nat /\ debt' \in Int
        BY <4>1, RemainingType DEF IInv, RestType
      <4>3. Position'
        BY <1>1, <1>4, <3>1, <4>1 DEF IInv, Position
      <4>4. ConvType' /\ conv'.src = freq /\ conv'.dst = device
        BY <1>4, <4>1 DEF IInv, ConvType, SetUp
      <4>. QED
        BY <4>1, <4>2, <4>3, <4>4
    <3>2. CASE freq # device
      <4>1. PICK k \in Nat : k = Outputs(conv, Frames)
        BY <1>4, <3>2, BufferConverts
      <4>2. /\ debt' = debt + Frames * device - k * freq /\ queue' = queue + k
            /\ ConvType' /\ Position' /\ made' \in BOOLEAN
            /\ conv'.src = freq /\ conv'.dst = device
        BY <1>4, <3>2, <4>1, BufferConverts
      <4>3. queue \in Nat /\ debt \in Int /\ Frames \in Nat /\ freq \in Nat /\ device \in Nat
        BY RemainingType, RateTypes DEF IInv, RestType
      <4>4. queue' \in Nat /\ debt' \in Int
        BY <4>2, <4>3
      <4>. QED
        BY <4>2, <4>4
    <3>. QED
      BY <3>1, <3>2
  <2>4. RestType'
    BY <1>1, <1>2, <1>4, <2>2, <2>3, Zenon DEF IInv, RestType
  <2>5. SetUp'
    BY <1>1, <2>3 DEF IInv, SetUp
  <2>. QED
    BY <2>3, <2>4, <2>5 DEF IInv
<1>. QED
  BY <1>3, <1>4

LEMMA PullInv ==
  ASSUME IInv, Pull
  PROVE  /\ IInv'
         /\ pulls < MaxPulls /\ pulls' = pulls + 1 /\ topped' = topped /\ open'
         /\ queue' >= queue - Period
<1>1. /\ open /\ pulls < MaxPulls /\ pulls' = pulls + 1
      /\ UNCHANGED <<own, freq, open, device, conv, headroom, debt, made, topped>>
  BY DEF Pull
<1>2. PICK q \in Int : q = queue - Period
  BY AudioQueueAssumption DEF IInv, RestType
<1>3. queue' = Max({q, 0})
  BY <1>2 DEF Pull
<1>4. queue' \in Nat /\ queue' >= q
  BY <1>3, MaxOfTwo
<1>5. pulls' \in 0 .. MaxPulls
  BY <1>1, AudioQueueAssumption DEF IInv, RestType
<1>6. RestType'
  BY <1>1, <1>4, <1>5, Zenon DEF IInv, RestType
<1>7. ConvType' /\ SetUp' /\ Position'
  BY <1>1 DEF IInv, ConvType, SetUp, Position
<1>. QED
  BY <1>1, <1>2, <1>4, <1>6, <1>7 DEF IInv

LEMMA InitInv == Init => IInv
<1>. SUFFICES ASSUME Init
              PROVE  IInv
  OBVIOUS
<1>1. headroom \in Nat /\ queue \in Nat /\ debt \in Int /\ pulls \in 0 .. MaxPulls
  BY AudioQueueAssumption DEF Init
<1>2. open \in BOOLEAN /\ made \in BOOLEAN /\ topped \in BOOLEAN
  BY Zenon DEF Init
<1>3. queue = 0 /\ device \in Rates \cup HardwareRates \cup {0} /\ freq \in Rates
  BY DEF Init
<1>4. RestType
  BY <1>1, <1>2, <1>3, Zenon DEF Init, RestType
<1>5. ConvType /\ SetUp /\ Position
  BY DEF Init, ConvType, SetUp, Position
<1>. QED
  BY <1>4, <1>5 DEF IInv

LEMMA SameInv ==
  ASSUME IInv, UNCHANGED vars
  PROVE  IInv'
<1>1. RestType'
  BY Zenon DEF IInv, RestType, vars
<1>2. ConvType' /\ SetUp' /\ Position'
  BY DEF IInv, ConvType, SetUp, Position, vars
<1>. QED
  BY <1>1, <1>2 DEF IInv

LEMMA IInvStep ==
  ASSUME IInv, [Next]_vars
  PROVE  IInv'
  BY ChangeRateInv, ReopenInv, BufferInv, PullInv, SameInv DEF Next

\* Every variable stays in its range, whatever the rates: the resampler's
\* history and position never become negative.
THEOREM TypeCorrect == Spec => []TypeOK
<1>1. IInv => TypeOK
  BY DEF IInv, RestType, ConvType, TypeOK
<1>. QED
  BY <1>1, InitInv, IInvStep, PTL DEF Spec

\* However the game cuts its sound into buffers, no input is lost, repeated or
\* held back longer than the kernel needs, for every pair of rates.
THEOREM NoMark == Spec => []Seamless
<1>1. IInv => Seamless
  BY DEF IInv, Position, Seamless
<1>. QED
  BY <1>1, InitInv, IInvStep, PTL DEF Spec

LEMMA HistoryBounded ==
  ASSUME IInv, open, ~Passthrough(conv)
  PROVE  /\ conv.pos >= Half(conv)
         /\ conv.pending <= 2 * Lead(conv.src, conv.dst)
<1>1. PICK f \in Nat \ {0}, d \in Nat \ {0} : f = freq /\ d = device
  BY RateTypes DEF IInv, RestType, SetUp
<1>2. conv.src = f /\ conv.dst = d /\ f # d
  BY <1>1 DEF IInv, SetUp, Passthrough
<1>3. PICK pending \in Nat, pos \in Nat : pending = conv.pending /\ pos = conv.pos
  BY DEF IInv, ConvType
<1>4. PICK half \in Nat : half = Half(conv)
  BY <1>2, HalfBounds
<1>5. /\ debt <= half + d /\ pending * d - pos = debt /\ half <= pos /\ pos < half + 2 * d
  BY <1>1, <1>2, <1>3, <1>4 DEF IInv, Position
<1>6. PICK lead \in Nat : lead = Lead(f, d) /\ half + d <= lead * d
  <2>1. Half(configure(f, d)) = half
    BY <1>2, <1>4 DEF Half, configure
  <2>. QED
    BY <2>1, ConfigureExact
<1>7. PICK p \in Int, l \in Int : p = pending * d /\ l = lead * d
  OBVIOUS
<1>8. p < 2 * l + d
  BY <1>4, <1>5, <1>6, <1>7 DEF IInv, RestType
<1>9. pending <= 2 * lead
  <2>1. SUFFICES ASSUME pending >= 2 * lead + 1
                 PROVE  FALSE
    OBVIOUS
  <2>2. pending * d >= (2 * lead + 1) * d
    BY <2>1
  <2>3. (2 * lead + 1) * d = 2 * l + d
    BY <1>7
  <2>. QED
    BY <1>7, <1>8, <2>2, <2>3
<1>. QED
  BY <1>2, <1>3, <1>4, <1>5, <1>6, <1>9

\* The kernel never reaches back to what was dropped, and what is kept is
\* bounded by twice the silence in front of the first output.
THEOREM KernelHasItsHistory == Spec => []KernelCovered
<1>1. IInv => KernelCovered
  <2>1. SUFFICES ASSUME IInv, open, ~Passthrough(conv)
                 PROVE  /\ conv.pos >= Half(conv)
                        /\ conv.pending <= 2 * Lead(conv.src, conv.dst) + 2
    BY DEF KernelCovered
  <2>2. PICK f \in Nat \ {0}, d \in Nat \ {0} : f = conv.src /\ d = conv.dst
    BY <2>1, RateTypes DEF IInv, RestType, SetUp
  <2>3. PICK lead \in Nat : lead = Lead(conv.src, conv.dst)
    BY <2>2, ConfigureExact
  <2>4. conv.pending \in Nat
    BY <2>1 DEF IInv, ConvType
  <2>. QED
    BY <2>1, <2>3, <2>4, HistoryBounded
<1>. QED
  BY <1>1, InitInv, IInvStep, PTL DEF Spec

-----------------------------------------------------------------------------
\* Deep enough for every pull between two buffers: what the game is persuaded
\* to make is a video frame and the headroom, less what the kernel holds back.
DeepEnough ==
  \A f \in Rates : \A d \in HardwareRates \cup {f} :
     MaxPulls * Period * f + Half([src |-> f, dst |-> d])
        <= d * (HeadroomFrames(f) + f + Extra - 1)

\* The queue holds a period for every pull before the next buffer.
DepthInv == topped => open /\ queue >= (MaxPulls - pulls) * Period

\* What is left over the headroom says how much is in the queue.
LEMMA LeftOver ==
  ASSUME IInv, open, get_frames_remaining > 0
  PROVE  LET depth == get_frames_remaining + headroom
         IN IF freq = device THEN queue = depth ELSE device * depth <= queue * freq
<1>1. PICK f \in Nat \ {0}, d \in Nat \ {0} : f = freq /\ d = device
  BY RateTypes DEF IInv, RestType, SetUp
<1>2. conv.src = f /\ conv.dst = d
  BY <1>1 DEF IInv, SetUp
<1>3. PICK q \in Nat, h \in Nat : q = queue /\ h = headroom
  BY DEF IInv, RestType
<1>4. CASE f = d
  <2>1. to_source_frames(conv, queue) = q
    BY <1>2, <1>3, <1>4 DEF to_source_frames, Passthrough
  <2>2. get_frames_remaining = IF q > h THEN q - h ELSE 0
    BY <1>3, <2>1 DEF get_frames_remaining, LessHeadroom
  <2>. QED
    BY <1>1, <1>3, <1>4, <2>2
<1>5. CASE f # d
  <2>1. PICK a \in Nat : a = q * f
    OBVIOUS
  <2>2. PICK x \in Int : x = a \div d /\ d * x <= a
    BY DivBounds
  <2>3. to_source_frames(conv, queue) = x
    BY <1>2, <1>3, <1>5, <2>1, <2>2 DEF to_source_frames, Passthrough
  <2>4. get_frames_remaining = IF x > h THEN x - h ELSE 0
    BY <1>3, <2>3 DEF get_frames_remaining, LessHeadroom
  <2>5. get_frames_remaining + headroom = x
    BY <1>3, <2>4
  <2>. QED
    BY <1>1, <1>3, <1>5, <2>1, <2>2, <2>5
<1>. QED
  BY <1>4, <1>5

LEMMA BufferDeep ==
  ASSUME DeepEnough, IInv, open, get_frames_remaining > 0, Buffer
  PROVE  queue' >= MaxPulls * Period
<1>1. PICK f \in Rates : f = freq
  BY DEF IInv, RestType
<1>. PICK d \in HardwareRates \cup {f} : d = device
  BY <1>1 DEF IInv, SetUp
<1>2. f \in Nat \ {0} /\ d \in Nat \ {0} /\ Extra \in Nat
  BY <1>1, RateTypes, AudioQueueAssumption
<1>3. PICK need \in Nat : need = MaxPulls * Period
  BY AudioQueueAssumption
<1>4. PICK h \in Nat, q \in Nat, r \in Nat, n \in Nat :
        /\ h = headroom /\ h = HeadroomFrames(f) /\ q = queue
        /\ r = get_frames_remaining /\ n = Frames /\ n >= f + Extra - r
  BY <1>1, RemainingType DEF IInv, RestType, SetUp
<1>5. PICK half \in Nat : half = Half([src |-> f, dst |-> d]) /\ half = Half(conv)
  <2>1. Half([src |-> f, dst |-> d]) \in Nat
    BY <1>2, HalfBounds
  <2>2. Half([src |-> f, dst |-> d]) = Half(conv)
    BY <1>1 DEF Half, IInv, SetUp
  <2>. QED
    BY <2>1, <2>2
<1>6. need * f + half <= d * (h + f + Extra - 1)
  BY <1>1, <1>3, <1>4, <1>5 DEF DeepEnough
<1>7. CASE f = d
  <2>1. q = r + h /\ queue' = q + n
    BY <1>1, <1>4, <1>7, LeftOver, BufferPasses
  <2>2. queue' >= h + f + Extra - 1
    BY <1>2, <1>4, <2>1
  <2>3. PICK m \in Int : m = h + f + Extra - 1
    BY <1>2
  <2>4. need * f <= m * f
    BY <1>2, <1>5, <1>6, <1>7, <2>3
  <2>5. need <= m
    BY <1>2, <2>4
  <2>. QED
    BY <1>3, <2>1, <2>2, <2>3, <2>5
<1>8. CASE f # d
  <2>1. PICK k \in Nat : k = Outputs(conv, Frames)
    BY <1>1, <1>8, BufferConverts
  <2>2. /\ debt' = debt + n * d - k * f /\ queue' = q + k
        /\ Position' /\ conv'.src = freq /\ conv'.dst = device
    BY <1>1, <1>4, <1>8, <2>1, BufferConverts
  <2>3. debt' <= half + d
    <3>1. Half(conv') = half
      BY <1>5, <2>2 DEF Half, IInv, SetUp
    <3>2. open' /\ freq' = f /\ device' = d
      BY <1>1 DEF Buffer
    <3>. QED
      BY <1>8, <2>2, <3>1, <3>2 DEF Position
  <2>4. 0 <= debt /\ debt \in Int
    BY <1>1, <1>8 DEF IInv, Position, RestType
  <2>5. PICK nd \in Int, kf \in Int, qf \in Int : nd = n * d /\ kf = k * f /\ qf = q * f
    BY <1>2
  <2>6. kf >= nd - half - d
    BY <1>2, <2>2, <2>3, <2>4, <2>5
  <2>7. d * (r + h) <= qf
    BY <1>1, <1>4, <1>8, <2>5, LeftOver
  <2>8. nd >= d * (f + Extra - r)
    BY <1>2, <1>4, <2>5
  <2>9. d * (r + h) + d * (f + Extra - r) - d = d * (h + f + Extra - 1)
    BY <1>2
  <2>10. PICK u \in Int, v \in Int, w \in Int :
           u = d * (r + h) /\ v = d * (f + Extra - r) /\ w = d * (h + f + Extra - 1)
    BY <1>2
  <2>11. qf + kf >= need * f
    <3>1. PICK nf \in Int : nf = need * f
      BY <1>2
    <3>. QED
      BY <1>2, <1>6, <2>5, <2>6, <2>7, <2>8, <2>9, <2>10, <3>1
  <2>12. (q + k) * f >= need * f
    BY <1>2, <2>5, <2>11
  <2>13. q + k >= need
    BY <1>2, <2>12
  <2>. QED
    BY <1>3, <2>2, <2>13
<1>. QED
  BY <1>7, <1>8

LEMMA DepthStep ==
  ASSUME DeepEnough, IInv, DepthInv, [Next]_vars
  PROVE  DepthInv'
<1>1. PICK p \in Int, m \in Nat, period \in Nat : p = pulls /\ m = MaxPulls /\ period = Period
  BY AudioQueueAssumption DEF IInv, RestType
<1>2. CASE \/ \E f \in Rates : ChangeRate(f)
           \/ UNCHANGED vars
  <2>1. UNCHANGED <<open, queue, pulls, topped>>
    BY <1>2 DEF ChangeRate, vars
  <2>. QED
    BY <2>1 DEF DepthInv
<1>3. CASE \E f \in Rates : Reopen(f)
  <2>1. topped' = FALSE
    BY <1>3 DEF Reopen
  <2>. QED
    BY <2>1 DEF DepthInv
<1>4. CASE Buffer
  <2>1. CASE ~open
    BY <1>4, <2>1 DEF Buffer, DepthInv
  <2>2. CASE open
    <3>1. SUFFICES ASSUME topped'
                   PROVE  open' /\ queue' >= (MaxPulls - pulls') * Period
      BY DEF DepthInv
    <3>2. get_frames_remaining > 0 /\ open' = open /\ pulls' = 0
      BY <1>4, <2>2, <3>1 DEF Buffer
    <3>3. queue' >= MaxPulls * Period
      BY <1>4, <2>2, <3>2, BufferDeep
    <3>4. (MaxPulls - 0) * Period = MaxPulls * Period
      BY <1>1
    <3>. QED
      BY <2>2, <3>2, <3>3, <3>4
  <2>. QED
    BY <2>1, <2>2
<1>5. CASE Pull
  <2>1. /\ IInv' /\ pulls' = pulls + 1 /\ topped' = topped /\ open'
        /\ queue' >= queue - Period
    BY <1>5, PullInv
  <2>2. SUFFICES ASSUME topped
                 PROVE  queue' >= (MaxPulls - pulls') * Period
    BY <2>1 DEF DepthInv
  <2>3. PICK q \in Int, r \in Int : q = queue /\ r = queue'
    BY <2>1 DEF IInv, RestType
  <2>4. q >= (m - p) * period /\ r >= q - period
    BY <1>1, <2>1, <2>2, <2>3 DEF DepthInv
  <2>5. (m - (p + 1)) * period = (m - p) * period - period
    BY <1>1
  <2>6. r >= (m - (p + 1)) * period
    BY <1>1, <2>4, <2>5
  <2>. QED
    BY <1>1, <2>1, <2>3, <2>6
<1>. QED
  BY <1>2, <1>3, <1>4, <1>5 DEF Next

\* Once something was left over the headroom, the device finds a whole period
\* at every pull until the next reopening, across buffers and changes of rate,
\* for every pair of rates the headroom is deep enough for.
THEOREM NoHole ==
  ASSUME DeepEnough
  PROVE  Spec => NeverDry
<1>1. Init => DepthInv
  BY DEF Init, DepthInv
<1>2. IInv /\ DepthInv /\ [Next]_vars => [(Pull /\ topped) => queue >= Period]_vars
  <2>1. SUFFICES ASSUME IInv, DepthInv, Pull, topped
                 PROVE  queue >= Period
    OBVIOUS
  <2>2. PICK m \in Int, period \in Nat, q \in Int :
           m = MaxPulls - pulls /\ period = Period /\ q = queue
    BY <2>1, AudioQueueAssumption DEF IInv, RestType
  <2>3. m >= 1
    BY <2>1, <2>2, AudioQueueAssumption DEF Pull, IInv, RestType
  <2>4. q >= m * period
    BY <2>1, <2>2 DEF DepthInv
  <2>5. m * period >= period
    BY <2>2, <2>3
  <2>. QED
    BY <2>2, <2>4, <2>5
<1>. QED
  BY <1>1, <1>2, InitInv, IInvStep, DepthStep, PTL DEF Spec, NeverDry
=============================================================================
