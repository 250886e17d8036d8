---------------------------- MODULE SiPakProofs ----------------------------
(***************************************************************************)
(* Proofs about SiPak, for any set of ports and any contents of blocks:    *)
(* what the game concludes of each slot, and what it does to the paks,     *)
(* however the scripts of the ports interleave.                            *)
(***************************************************************************)
EXTENDS SiPak, SequenceTheorems, TLAPS

Phases == {"rest", "want", "packed", "sent", "written", "asked", "done"}
Flying == {"packed", "sent", "written", "asked"}
Data == Bytes \cup Banks \cup {1, NoReply}
Requests == [cmd : {"status", "read", "write"}, block : Nat, data : Data]
Accessing == [cmd : {"read", "write"}, block : Nat, data : Data]

GameType == [script : Scripts \cup {<<"none">>}, step : Nat, phase : Phases,
             verdict : BOOLEAN \cup Bytes \cup {NoReply}]

\* The records, which TypeOK leaves open.
Shapes ==
  /\ game \in [Ports -> GameType]
  /\ pif \in [bytes : Seq(Nat), block : Nat, data : Data, answer : Data]

Kind(p) == game[p].script[1]
Request(p) == Script(game[p].script)[game[p].step]

\* The port has answered the n-th request of the script.
Served(p, n) ==
  game[p].step > n \/ (game[p].step = n /\ game[p].phase \in {"asked", "done"})

\* What the port answers to a request, from the state it leaves.
Answer(p, r) ==
  IF r.cmd = "status" THEN IF present(p) THEN 1 ELSE 0
  ELSE IF r.cmd = "write" THEN NoReply
  ELSE IF IsStorage(r.block) THEN image[p][r.block]
  ELSE IF r.block = kBlockDetect THEN Identify(p) ELSE 0

\* While a port holds the semaphore the buffer holds its request, or its answer.
Flight(p) ==
  game[p].phase \in Flying =>
    /\ pif.bytes = Pack(p, Request(p)).bytes
    /\ pif.block = Request(p).block /\ pif.data = Request(p).data
    /\ pif.answer = IF game[p].phase = "asked" THEN Answer(p, Request(p)) ELSE NoReply

\* What a script has done to its slot so far, and found out about it.
Progress(p) ==
  game[p].phase # "rest" =>
    /\ game[p].script \in Scripts /\ game[p].step \in 1 .. Len(Script(game[p].script))
    /\ Kind(p) = "check" =>
         /\ game[p].step >= 2 => present(p)
         /\ Served(p, 2) => cell[p] = 0
         /\ Served(p, 4) => image[p][0] = Pattern
    /\ Kind(p) \in {"motor", "gbpak"} =>
         /\ Served(p, 1) /\ ~Served(p, 3) => cell[p] = 254
         /\ game[p].step >= 3 => rumble /\ present(p)
    /\ Kind(p) = "motor" =>
         /\ Served(p, 3) => cell[p] = 128
         /\ Served(p, 5) => p \notin motor
         /\ game[p].phase = "done" /\ game[p].verdict = TRUE => game[p].step = 5
    /\ Kind(p) = "gbpak" => (Served(p, 3) => cell[p] = 132)
    /\ Kind(p) = "stop" => (Served(p, 1) => p \notin motor)
    /\ Kind(p) \in {"load", "save"} => present(p)
    /\ Kind(p) = "save" => (Served(p, 1) => image[p][DataBlock] = game[p].script[2])
    /\ Kind(p) = "load" => (game[p].phase = "done" => game[p].verdict = image[p][DataBlock])

\* What holds of a slot whatever is run on it.
Slot(p) ==
  /\ p \in motor => rumble /\ present(p) /\ (p \in shaking \/ Kind(p) = "start")
  /\ p \in touched \cup found => present(p)
  /\ wrote[p] # NoReply /\ ~(Kind(p) = "save" /\ Served(p, 1)) => image[p][DataBlock] = wrote[p]

Verdict(p) ==
  /\ Concludes(p, "check") => game[p].verdict = present(p)
  /\ Concludes(p, "motor") => game[p].verdict = (rumble /\ present(p))
  /\ Concludes(p, "gbpak") => game[p].verdict = FALSE

PortInv(p) == Flight(p) /\ Progress(p) /\ Slot(p) /\ Verdict(p)

IInv == TypeOK /\ Shapes /\ \A p \in Ports : PortInv(p)

-----------------------------------------------------------------------------
\* The game's scripts, request by request.
LEMMA Kinds ==
  ASSUME NEW s \in Scripts
  PROVE  /\ s[1] \in {"check", "motor", "gbpak", "load", "start", "stop", "save"}
         /\ s[1] = "save" => s[2] \in Bytes
  BY DEF Scripts, Accesses

LEMMA ProbeTable ==
  ASSUME NEW id \in Banks
  PROVE  /\ Probe(id) \in Seq(Accessing)
         /\ Len(Probe(id)) = 4
         /\ Probe(id)[1] = Wr(kBlockDetect, 254) /\ Probe(id)[2] = Rd(kBlockDetect)
         /\ Probe(id)[3] = Wr(kBlockDetect, id) /\ Probe(id)[4] = Rd(kBlockDetect)
<1>1. /\ Wr(kBlockDetect, 254) \in Accessing
      /\ Wr(kBlockDetect, id) \in Accessing
      /\ Rd(kBlockDetect) \in Accessing
  BY DEF Accessing, Wr, Rd, kBlockDetect, Data, Banks
<1>. QED
  BY <1>1 DEF Probe

LEMMA FourAndOne ==
  ASSUME NEW R, NEW four \in Seq(R), Len(four) = 4, NEW fifth \in R
  PROVE  LET five == four \o <<fifth>>
         IN  /\ Len(five) = 5 /\ five[1] = four[1] /\ five[2] = four[2]
             /\ five[3] = four[3] /\ five[4] = four[4] /\ five[5] = fifth
<1>. DEFINE last == <<fifth>>
<1>1. last \in Seq(R) /\ Len(last) = 1 /\ last[1] = fifth
  OBVIOUS
<1>. HIDE DEF last
<1>2. Len(four \o last) = Len(four) + Len(last)
  BY <1>1, ConcatProperties
<1>3. \A i \in 1 .. Len(four) + Len(last) :
        (four \o last)[i] = IF i <= Len(four) THEN four[i] ELSE last[i - Len(four)]
  BY <1>1, ConcatProperties
<1>4. /\ Len(four \o last) = 5
      /\ (four \o last)[1] = four[1] /\ (four \o last)[2] = four[2]
      /\ (four \o last)[3] = four[3] /\ (four \o last)[4] = four[4]
      /\ (four \o last)[5] = last[1]
  BY <1>1, <1>2, <1>3
<1>. QED
  BY <1>1, <1>4 DEF last

LEMMA MotorTable ==
  LET script == Probe(128) \o <<Wr(kBlockMotor, 0)>>
  IN  /\ Len(script) = 5
      /\ script[1] = Wr(kBlockDetect, 254) /\ script[2] = Rd(kBlockDetect)
      /\ script[3] = Wr(kBlockDetect, 128) /\ script[4] = Rd(kBlockDetect)
      /\ script[5] = Wr(kBlockMotor, 0)
<1>1. Wr(kBlockMotor, 0) \in Accessing
  BY DEF Accessing, Wr, kBlockMotor, Data, Banks
<1>2. 128 \in Banks
  BY DEF Banks
<1>. DEFINE probe == Probe(128)
            w == Wr(kBlockMotor, 0)
            script == probe \o <<w>>
<1>3. probe \in Seq(Accessing) /\ Len(probe) = 4
  BY <1>2, ProbeTable, SMTT(20)
<1>4. /\ Probe(128)[1] = Wr(kBlockDetect, 254) /\ Probe(128)[2] = Rd(kBlockDetect)
      /\ Probe(128)[3] = Wr(kBlockDetect, 128) /\ Probe(128)[4] = Rd(kBlockDetect)
  BY <1>2, ProbeTable, SMTT(20)
<1>5. /\ Len(script) = 5 /\ script[1] = probe[1] /\ script[2] = probe[2]
      /\ script[3] = probe[3] /\ script[4] = probe[4] /\ script[5] = w
  <2>1. w \in Accessing
    BY <1>1
  <2>. HIDE DEF probe, w
  <2>. QED
    BY <1>3, <2>1, FourAndOne
<1>. QED
  BY <1>4, <1>5, SMTT(20)

LEMMA ScriptTable ==
  ASSUME NEW s \in Scripts
  PROVE  /\ s[1] = "check" =>
              /\ Len(Script(s)) = 5 /\ Script(s)[1] = Status
              /\ Script(s)[2] = Wr(kBlockDetect, 0) /\ Script(s)[3] = Rd(kBlockDetect)
              /\ Script(s)[4] = Wr(0, Pattern) /\ Script(s)[5] = Rd(0)
         /\ s[1] = "motor" =>
              /\ Len(Script(s)) = 5
              /\ Script(s)[1] = Wr(kBlockDetect, 254) /\ Script(s)[2] = Rd(kBlockDetect)
              /\ Script(s)[3] = Wr(kBlockDetect, 128) /\ Script(s)[4] = Rd(kBlockDetect)
              /\ Script(s)[5] = Wr(kBlockMotor, 0)
         /\ s[1] = "gbpak" =>
              /\ Len(Script(s)) = 4
              /\ Script(s)[1] = Wr(kBlockDetect, 254) /\ Script(s)[2] = Rd(kBlockDetect)
              /\ Script(s)[3] = Wr(kBlockDetect, 132) /\ Script(s)[4] = Rd(kBlockDetect)
         /\ s[1] = "load" => Len(Script(s)) = 1 /\ Script(s)[1] = Rd(DataBlock)
         /\ s[1] = "save" => Len(Script(s)) = 1 /\ Script(s)[1] = Wr(DataBlock, s[2])
         /\ s[1] = "start" => Len(Script(s)) = 1 /\ Script(s)[1] = Wr(kBlockMotor, 1)
         /\ s[1] = "stop" => Len(Script(s)) = 1 /\ Script(s)[1] = Wr(kBlockMotor, 0)
<1>1. CASE s[1] = "check"
  <2>1. Script(s) = <<Status, Wr(kBlockDetect, 0), Rd(kBlockDetect), Wr(0, Pattern), Rd(0)>>
    BY <1>1 DEF Script
  <2>. QED
    BY <1>1, <2>1
<1>2. CASE s[1] = "motor"
  <2>1. Script(s) = Probe(128) \o <<Wr(kBlockMotor, 0)>>
    BY <1>2 DEF Script
  <2>. QED
    BY <1>2, <2>1, MotorTable
<1>3. CASE s[1] = "gbpak"
  <2>1. Script(s) = Probe(132) /\ 132 \in Banks
    BY <1>3 DEF Script, Banks
  <2>. QED
    BY <1>3, <2>1, ProbeTable
<1>4. CASE s[1] = "load"
  <2>1. Script(s) = <<Rd(DataBlock)>>
    BY <1>4 DEF Script
  <2>. QED
    BY <1>4, <2>1
<1>5. CASE s[1] = "save"
  <2>1. Script(s) = <<Wr(DataBlock, s[2])>>
    BY <1>5 DEF Script
  <2>. QED
    BY <1>5, <2>1
<1>6. CASE s[1] = "start"
  <2>1. Script(s) = <<Wr(kBlockMotor, 1)>>
    BY <1>6 DEF Script
  <2>. QED
    BY <1>6, <2>1
<1>7. CASE s[1] = "stop"
  <2>1. Script(s) = <<Wr(kBlockMotor, 0)>>
    BY <1>7 DEF Script
  <2>. QED
    BY <1>7, <2>1
<1>. QED
  BY <1>1, <1>2, <1>3, <1>4, <1>5, <1>6, <1>7, Kinds

Registers == {kBlockDetect, kBlockMotor}

\* What the game asks: blocks of the pak with contents, registers with banks.
Proper(r) ==
  /\ r \in Requests
  /\ r.cmd # "write" => r.data = NoReply
  /\ r.cmd # "status" => r.block \in Blocks \cup Registers
  /\ r.cmd = "write" => r.data \in IF IsStorage(r.block) THEN Bytes ELSE Banks \cup {1}
  /\ r.cmd = "write" /\ r.block = kBlockDetect => r.data \in Banks

LEMMA ProperRequests ==
  /\ Proper(Status)
  /\ \A b \in Blocks \cup Registers : Proper(Rd(b))
  /\ \A b \in Blocks, d \in Bytes : Proper(Wr(b, d))
  /\ \A d \in Banks : Proper(Wr(kBlockDetect, d))
  /\ Proper(Wr(kBlockMotor, 0)) /\ Proper(Wr(kBlockMotor, 1))
<1>. USE DEF Proper, Requests, Data, Banks, Blocks, Registers, DataBlock, kBlockDetect,
         kBlockMotor, IsStorage
<1>1. Proper(Status)
  BY DEF Status
<1>2. \A b \in Blocks \cup Registers : Proper(Rd(b))
  BY DEF Rd
<1>3. \A b \in Blocks, d \in Bytes : Proper(Wr(b, d))
  BY DEF Wr
<1>4. \A d \in Banks : Proper(Wr(kBlockDetect, d))
  BY DEF Wr
<1>5. Proper(Wr(kBlockMotor, 0)) /\ Proper(Wr(kBlockMotor, 1))
  BY DEF Wr
<1>. QED
  BY <1>1, <1>2, <1>3, <1>4, <1>5

LEMMA RequestTypes ==
  ASSUME NEW s \in Scripts
  PROVE  /\ Len(Script(s)) \in 1 .. 5
         /\ \A k \in 1 .. Len(Script(s)) : Proper(Script(s)[k])
<1>1. 0 \in Blocks /\ DataBlock \in Blocks /\ Pattern \in Bytes
  BY SiPakAssumption DEF Blocks
<1>2. kBlockDetect \in Registers /\ 0 \in Banks /\ 128 \in Banks /\ 132 \in Banks /\ 254 \in Banks
  BY DEF Registers, Banks
<1>3. CASE s[1] = "check"
  <2>1. /\ Proper(Status) /\ Proper(Wr(kBlockDetect, 0)) /\ Proper(Rd(kBlockDetect))
        /\ Proper(Wr(0, Pattern)) /\ Proper(Rd(0))
    BY <1>1, <1>2, ProperRequests
  <2>2. Len(Script(s)) = 5 /\ 1 .. 5 = {1, 2, 3, 4, 5}
    BY <1>3, ScriptTable
  <2>. QED
    BY <1>3, <2>1, <2>2, ScriptTable
<1>4. CASE s[1] = "motor"
  <2>1. /\ Proper(Wr(kBlockDetect, 254)) /\ Proper(Rd(kBlockDetect))
        /\ Proper(Wr(kBlockDetect, 128)) /\ Proper(Wr(kBlockMotor, 0))
    BY <1>1, <1>2, ProperRequests
  <2>2. Len(Script(s)) = 5 /\ 1 .. 5 = {1, 2, 3, 4, 5}
    BY <1>4, ScriptTable
  <2>. QED
    BY <1>4, <2>1, <2>2, ScriptTable
<1>5. CASE s[1] = "gbpak"
  <2>1. /\ Proper(Wr(kBlockDetect, 254)) /\ Proper(Rd(kBlockDetect))
        /\ Proper(Wr(kBlockDetect, 132))
    BY <1>1, <1>2, ProperRequests
  <2>2. Len(Script(s)) = 4 /\ 1 .. 4 = {1, 2, 3, 4}
    BY <1>5, ScriptTable
  <2>. QED
    BY <1>5, <2>1, <2>2, ScriptTable
<1>6. CASE s[1] \in {"load", "save", "start", "stop"}
  <2>1. Proper(Rd(DataBlock)) /\ Proper(Wr(kBlockMotor, 0)) /\ Proper(Wr(kBlockMotor, 1))
    BY <1>1, ProperRequests
  <2>2. s[1] = "save" => Proper(Wr(DataBlock, s[2]))
    BY <1>1, ProperRequests, Kinds
  <2>3. Len(Script(s)) = 1 /\ 1 .. 1 = {1}
    BY <1>6, ScriptTable
  <2>4. Proper(Script(s)[1])
    BY <1>6, <2>1, <2>2, ScriptTable
  <2>. QED
    BY <2>3, <2>4
<1>. QED
  BY <1>3, <1>4, <1>5, <1>6, Kinds

-----------------------------------------------------------------------------
\* The search of service_frame finds a packed request on the channel of its
\* port, and there the one shape of its command.
LEMMA HeaderTypes ==
  ASSUME NEW cmd \in {"status", "read", "write"}
  PROVE  /\ Header(cmd) \in Seq(Nat) /\ Len(Header(cmd)) \in {3, 4}
         /\ Header(cmd)[1] \in {1, 255}
         /\ Match(Header(cmd)) = {cmd}
<1>1. CASE cmd = "status"
  BY <1>1 DEF Header, Match
<1>2. CASE cmd = "read"
  BY <1>2 DEF Header, Match
<1>3. CASE cmd = "write"
  BY <1>3 DEF Header, Match
<1>. QED
  BY <1>1, <1>2, <1>3

LEMMA PackedBytes ==
  ASSUME NEW p \in 0 .. 3, NEW request \in Requests
  PROVE  LET bytes == Pack(p, request).bytes
             h == Header(request.cmd)
         IN  /\ bytes \in Seq(Nat) /\ Len(bytes) = p + Len(h)
             /\ \A i \in 1 .. p : bytes[i] = 0
             /\ \A i \in 1 .. Len(h) : bytes[p + i] = h[i]
             /\ p + 1 \in DOMAIN bytes /\ bytes[p + 1] # 0
<1>. DEFINE zeros == [i \in 1 .. p |-> 0]
            h == Header(request.cmd)
<1>1. zeros \in Seq(Nat) /\ Len(zeros) = p /\ \A i \in 1 .. p : zeros[i] = 0
  OBVIOUS
<1>2. h \in Seq(Nat) /\ Len(h) \in {3, 4} /\ h[1] # 0
  BY HeaderTypes DEF Requests
<1>3. Pack(p, request).bytes = zeros \o h
  BY DEF Pack
<1>. HIDE DEF zeros, h
<1>4. zeros \o h \in Seq(Nat) /\ Len(zeros \o h) = Len(zeros) + Len(h)
  BY <1>1, <1>2, ConcatProperties
<1>5. \A i \in 1 .. Len(zeros) + Len(h) :
        (zeros \o h)[i] = IF i <= Len(zeros) THEN zeros[i] ELSE h[i - Len(zeros)]
  BY <1>1, <1>2, ConcatProperties
<1>6. \A i \in 1 .. p : (zeros \o h)[i] = 0
  BY <1>1, <1>2, <1>5
<1>7. \A i \in 1 .. Len(h) : (zeros \o h)[p + i] = h[i]
  <2>1. SUFFICES ASSUME NEW i \in 1 .. Len(h)
                 PROVE  (zeros \o h)[p + i] = h[i]
    OBVIOUS
  <2>2. p + i \in 1 .. Len(zeros) + Len(h) /\ ~(p + i <= Len(zeros)) /\ (p + i) - Len(zeros) = i
    BY <1>1, <1>2, <2>1
  <2>. QED
    BY <1>5, <2>2
<1>8. p + 1 \in DOMAIN (zeros \o h) /\ (zeros \o h)[p + 1] # 0
  BY <1>1, <1>2, <1>4, <1>7
<1>. QED
  BY <1>1, <1>3, <1>4, <1>6, <1>7, <1>8 DEF h

LEMMA FrameRecognised ==
  ASSUME NEW p \in 0 .. 3, NEW request \in Requests
  PROVE  LET bytes == Pack(p, request).bytes
         IN  Channels(bytes) = {p} /\ Match(After(bytes, p)) = {request.cmd}
<1>. DEFINE bytes == Pack(p, request).bytes
            h == Header(request.cmd)
<1>1. /\ bytes \in Seq(Nat) /\ Len(bytes) = p + Len(h) /\ Len(h) \in {3, 4} /\ h \in Seq(Nat)
      /\ \A i \in 1 .. p : bytes[i] = 0
      /\ \A i \in 1 .. Len(h) : bytes[p + i] = h[i]
      /\ p + 1 \in DOMAIN bytes /\ bytes[p + 1] # 0
  <2>1. request.cmd \in {"status", "read", "write"}
    BY DEF Requests
  <2>2. Len(h) \in {3, 4} /\ h \in Seq(Nat)
    BY <2>1, HeaderTypes
  <2>3. /\ bytes \in Seq(Nat) /\ Len(bytes) = p + Len(h)
        /\ \A i \in 1 .. p : bytes[i] = 0
    BY PackedBytes
  <2>4. /\ \A i \in 1 .. Len(h) : bytes[p + i] = h[i]
        /\ p + 1 \in DOMAIN bytes /\ bytes[p + 1] # 0
    BY PackedBytes
  <2>. QED
    BY <2>2, <2>3, <2>4
<1>. HIDE DEF bytes, h
<1>2. ASSUME NEW c \in 0 .. p
      PROVE  /\ After(bytes, c) \in Seq(Nat) /\ Len(After(bytes, c)) = p + Len(h) - c
             /\ \A i \in 1 .. p + Len(h) - c : After(bytes, c)[i] = bytes[c + i]
  <2>1. /\ c + 1 \in Int /\ Len(bytes) \in Int
        /\ \A i \in c + 1 .. Len(bytes) : bytes[i] \in Nat
    BY <1>1
  <2>2. /\ After(bytes, c) \in Seq(Nat)
        /\ Len(After(bytes, c)) = IF c + 1 <= Len(bytes) THEN Len(bytes) - (c + 1) + 1 ELSE 0
        /\ \A i \in 1 .. Len(bytes) - (c + 1) + 1 : After(bytes, c)[i] = bytes[c + 1 + i - 1]
    BY <2>1, SubSeqProperties, SMTT(20) DEF After
  <2>3. /\ Len(bytes) = p + Len(h) /\ Len(h) \in {3, 4} /\ c \in Nat /\ c <= p
    BY <1>1
  <2>4. /\ Len(After(bytes, c)) = p + Len(h) - c
        /\ Len(bytes) - (c + 1) + 1 = p + Len(h) - c
    BY <2>2, <2>3
  <2>5. \A i \in 1 .. p + Len(h) - c : c + 1 + i - 1 = c + i
    BY <2>3
  <2>. QED
    BY <2>2, <2>4, <2>5
<1>3. After(bytes, p) = h
  <2>1. /\ After(bytes, p) \in Seq(Nat) /\ Len(After(bytes, p)) = Len(h)
        /\ \A i \in 1 .. Len(h) : After(bytes, p)[i] = h[i]
    <3>1. p \in 0 .. p /\ p + Len(h) - p = Len(h)
      BY <1>1
    <3>. QED
      BY <1>1, <1>2, <3>1
  <2>. QED
    BY <1>1, <2>1, SeqEqual
<1>4. Match(After(bytes, p)) = {request.cmd}
  BY <1>3, HeaderTypes DEF h, Requests
<1>5. ASSUME NEW c \in 0 .. 3, c < p
      PROVE  Match(After(bytes, c)) = {}
  <2>1. After(bytes, c)[1] = 0
    <3>1. c \in 0 .. p /\ 1 \in 1 .. p + Len(h) - c /\ c + 1 \in 1 .. p
      BY <1>1, <1>5
    <3>2. After(bytes, c)[1] = bytes[c + 1]
      BY <1>2, <3>1
    <3>. QED
      BY <1>1, <3>1, <3>2
  <2>2. \A cmd \in {"status", "read", "write"} : Header(cmd)[1] # 0
    <3>1. 1 # 0 /\ 255 # 0
      OBVIOUS
    <3>. QED
      BY <3>1, HeaderTypes
  <2>3. \A cmd \in {"status", "read", "write"} : After(bytes, c) # Header(cmd)
    BY <2>1, <2>2
  <2>. QED
    BY <2>3 DEF Match
<1>6. ASSUME NEW c \in 0 .. 3, p < c
      PROVE  ~Skips(bytes, c)
  <2>1. p + 1 \in 1 .. c
    BY <1>6
  <2>. QED
    BY <1>1, <2>1 DEF Skips
<1>7. Skips(bytes, p)
  BY <1>1 DEF Skips
<1>8. Channels(bytes) = {p}
  BY <1>4, <1>5, <1>6, <1>7 DEF Channels
<1>. QED
  BY <1>4, <1>8 DEF bytes

LEMMA Service ==
  ASSUME service_frame, NEW p \in Ports, NEW r \in Requests,
         pif.bytes = Pack(p, r).bytes, pif.block = r.block, pif.data = r.data
  PROVE  /\ r.cmd = "status" => handle_status(p)
         /\ r.cmd = "read" => ReadPak(p, r.block)
         /\ r.cmd = "write" => WritePak(p, r.block, r.data)
<1>1. p \in 0 .. 3
  BY SiPakAssumption
<1>2. Channels(pif.bytes) = {p} /\ Match(After(pif.bytes, p)) = {r.cmd}
  BY <1>1, FrameRecognised
<1>3. Min(Channels(pif.bytes)) = p
  BY <1>1, <1>2 DEF Min
<1>4. (CHOOSE x \in Match(After(pif.bytes, p)) : TRUE) = r.cmd
  BY <1>2
<1>5. CASE r.cmd = "status"
  BY <1>2, <1>3, <1>4, <1>5 DEF service_frame
<1>6. CASE r.cmd = "read"
  BY <1>2, <1>3, <1>4, <1>6 DEF service_frame
<1>7. CASE r.cmd = "write"
  BY <1>2, <1>3, <1>4, <1>7 DEF service_frame
<1>. QED
  BY <1>5, <1>6, <1>7

Keeps(q) == /\ cell'[q] = cell[q] /\ image'[q] = image[q]
            /\ q \in motor' <=> q \in motor
            /\ q \in touched' <=> q \in touched

DeviceType == /\ cell \in [Ports -> Banks] /\ motor \subseteq Ports
              /\ image \in [Ports -> [Blocks -> Bytes]] /\ touched \subseteq Ports

LEMMA IdentifyType ==
  ASSUME cell \in [Ports -> Banks], NEW p \in Ports
  PROVE  Identify(p) \in Banks
  BY DEF Identify, kRumbleIdentify, Banks

\* A request is answered from the slot it is for, and changes no other.
LEMMA ServiceEffect ==
  ASSUME DeviceType, Shapes, service_frame, NEW p \in Ports, NEW r, Proper(r),
         pif.bytes = Pack(p, r).bytes, pif.block = r.block, pif.data = r.data,
         pif.answer = NoReply, rumble' = rumble
  PROVE  /\ pif' = [pif EXCEPT !.answer = Answer(p, r)'] /\ Answer(p, r)' \in Data
         /\ DeviceType'
         /\ \A q \in Ports \ {p} : Keeps(q)
         /\ r.cmd # "write" => cell'[p] = cell[p] /\ image'[p] = image[p] /\ motor' = motor
         /\ r.cmd = "write" =>
              /\ cell'[p] = IF r.block = kBlockDetect THEN r.data ELSE cell[p]
              /\ image'[p] = IF IsStorage(r.block) THEN [image[p] EXCEPT ![r.block] = r.data]
                             ELSE image[p]
              /\ p \in motor' <=> IF r.block = kBlockMotor /\ rumble /\ present(p)
                                    THEN r.data # 0 ELSE p \in motor
         /\ p \in touched' => p \in touched \/ (r.cmd # "status" /\ IsStorage(r.block))
<1>1. r \in Requests
  BY DEF Proper
<1>2. /\ r.cmd = "status" => handle_status(p)
      /\ r.cmd = "read" => ReadPak(p, r.block)
      /\ r.cmd = "write" => WritePak(p, r.block, r.data)
  BY <1>1, Service
<1>3. r.cmd # "status" /\ IsStorage(r.block) => r.block \in Blocks
  BY DEF Proper, Registers, IsStorage, kBlockDetect, kBlockMotor
<1>4. CASE r.cmd = "status"
  <2>1. pif' = [pif EXCEPT !.answer = IF present(p) THEN 1 ELSE 0] /\ UNCHANGED device
    BY <1>2, <1>4 DEF handle_status
  <2>2. Answer(p, r)' = (IF present(p) THEN 1 ELSE 0)
    BY <1>4 DEF Answer
  <2>. QED
    BY <1>4, <2>1, <2>2 DEF device, DeviceType, Keeps, Data, Banks
<1>5. CASE r.cmd = "read"
  <2>1. ReadPak(p, r.block)
    BY <1>2, <1>5
  <2>2. CASE IsStorage(r.block)
    <3>1. /\ pif' = [pif EXCEPT !.answer = image[p][r.block]]
          /\ touched' = touched \cup {p} /\ UNCHANGED <<cell, motor, image>>
      BY <2>1, <2>2 DEF ReadPak
    <3>2. Answer(p, r)' = image[p][r.block] /\ image[p][r.block] \in Bytes
      BY <1>3, <1>5, <2>2, <3>1 DEF Answer, DeviceType
    <3>. QED
      BY <1>5, <2>2, <3>1, <3>2 DEF DeviceType, Keeps, Data
  <2>3. CASE ~IsStorage(r.block)
    <3>1. /\ pif' = [pif EXCEPT !.answer = IF r.block = kBlockDetect THEN Identify(p) ELSE 0]
          /\ UNCHANGED device
      BY <2>1, <2>3 DEF ReadPak
    <3>2. Identify(p)' = Identify(p) /\ Identify(p) \in Banks
      BY <3>1, IdentifyType DEF Identify, device, DeviceType
    <3>3. Answer(p, r)' = IF r.block = kBlockDetect THEN Identify(p) ELSE 0
      BY <1>5, <2>3, <3>2 DEF Answer
    <3>. QED
      BY <1>5, <2>3, <3>1, <3>2, <3>3 DEF device, DeviceType, Keeps, Data, Banks
  <2>. QED
    BY <2>2, <2>3
<1>6. CASE r.cmd = "write"
  <2>1. WritePak(p, r.block, r.data)
    BY <1>2, <1>6
  <2>2. /\ pif' = [pif EXCEPT !.answer = Answer(p, r)'] /\ Answer(p, r)' \in Data
    BY <1>6, <2>1 DEF WritePak, Answer, Data, Shapes
  <2>3. /\ cell' \in [Ports -> Banks]
        /\ cell'[p] = IF r.block = kBlockDetect THEN r.data ELSE cell[p]
        /\ \A q \in Ports \ {p} : cell'[q] = cell[q]
    <3>1. r.block = kBlockDetect => r.data \in Banks
      BY <1>6 DEF Proper
    <3>. QED
      BY <2>1, <3>1 DEF WritePak, DeviceType
  <2>4. /\ image' \in [Ports -> [Blocks -> Bytes]]
        /\ image'[p] = IF IsStorage(r.block) THEN [image[p] EXCEPT ![r.block] = r.data]
                       ELSE image[p]
        /\ \A q \in Ports \ {p} : image'[q] = image[q]
    <3>1. IsStorage(r.block) => r.data \in Bytes
      BY <1>6 DEF Proper
    <3>2. image \in [Ports -> [Blocks -> Bytes]]
      BY DEF DeviceType
    <3>3. image' = IF IsStorage(r.block) THEN [image EXCEPT ![p][r.block] = r.data] ELSE image
      BY <2>1 DEF WritePak
    <3>. QED
      BY <1>3, <3>1, <3>2, <3>3
  <2>5. /\ motor' \subseteq Ports
        /\ p \in motor' <=> IF r.block = kBlockMotor /\ rumble /\ present(p)
                              THEN r.data # 0 ELSE p \in motor
        /\ \A q \in Ports \ {p} : q \in motor' <=> q \in motor
    BY <2>1 DEF WritePak, MotorAfter, DeviceType
  <2>6. /\ touched' \subseteq Ports
        /\ p \in touched' => p \in touched \/ IsStorage(r.block)
        /\ \A q \in Ports \ {p} : q \in touched' <=> q \in touched
    BY <2>1 DEF WritePak, DeviceType
  <2>. QED
    BY <1>6, <2>2, <2>3, <2>4, <2>5, <2>6 DEF DeviceType, Keeps
<1>. QED
  BY <1>1, <1>4, <1>5, <1>6 DEF Requests

-----------------------------------------------------------------------------
\* What a step that only moves a transfer on, or is of another port, leaves.
Before == {"want", "packed", "sent", "written"}
Stays(q) ==
  /\ game'[q].script = game[q].script /\ game'[q].step = game[q].step
  /\ game'[q].verdict = game[q].verdict
  /\ \/ game'[q].phase = game[q].phase
     \/ game[q].phase \in Before /\ game'[q].phase \in Before
  /\ cell'[q] = cell[q] /\ image'[q] = image[q] /\ rumble' = rumble
  /\ q \in motor' => q \in motor
  /\ q \in touched' <=> q \in touched
  /\ q \in found' <=> q \in found
  /\ q \in shaking' <=> q \in shaking
  /\ wrote'[q] = wrote[q]

LEMMA StaysServed ==
  ASSUME NEW q \in Ports, Stays(q)
  PROVE  /\ \A n \in 1 .. 5 : Served(q, n)' <=> Served(q, n)
         /\ Kind(q)' = Kind(q)
         /\ game'[q].phase = "rest" <=> game[q].phase = "rest"
         /\ game'[q].phase = "done" <=> game[q].phase = "done"
  BY DEF Stays, Before, Served, Kind

LEMMA StaysProgress ==
  ASSUME NEW q \in Ports, Stays(q), Progress(q)
  PROVE  Progress(q)'
  BY StaysServed DEF Stays, Progress, present

LEMMA StaysSlot ==
  ASSUME NEW q \in Ports, Stays(q), Slot(q)
  PROVE  Slot(q)'
  BY StaysServed DEF Stays, Slot, present

LEMMA StaysVerdict ==
  ASSUME NEW q \in Ports, Stays(q), Verdict(q)
  PROVE  Verdict(q)'
  BY StaysServed, Zenon DEF Stays, Verdict, Concludes, Kind, present

LEMMA AnswerStays ==
  ASSUME NEW q \in Ports, Keeps(q), rumble' = rumble, NEW r
  PROVE  Answer(q, r)' = Answer(q, r)
  BY DEF Keeps, Answer, Identify, present

\* The buffer is the holder's alone.
LEMMA FlightOthers ==
  ASSUME NEW q \in Ports, Flight(q), Keeps(q), rumble' = rumble, game'[q] = game[q],
         game[q].phase \notin Flying \/ pif' = pif
  PROVE  Flight(q)'
<1>1. CASE game[q].phase \notin Flying
  BY <1>1 DEF Flight
<1>2. CASE pif' = pif
  <2>1. Request(q)' = Request(q)
    BY DEF Request
  <2>2. Answer(q, Request(q))' = Answer(q, Request(q))
    BY <2>1, AnswerStays
  <2>. QED
    BY <1>2, <2>1, <2>2 DEF Flight, Pack
<1>. QED
  BY <1>1, <1>2

LEMMA OthersKeep ==
  ASSUME NEW q \in Ports, PortInv(q), Keeps(q), rumble' = rumble, game'[q] = game[q],
         q \in found' <=> q \in found, q \in shaking' <=> q \in shaking,
         wrote'[q] = wrote[q],
         game[q].phase \notin Flying \/ pif' = pif
  PROVE  PortInv(q)'
<1>1. Stays(q)
  BY DEF Stays, Keeps
<1>2. Flight(q)'
  BY FlightOthers DEF PortInv
<1>. QED
  BY <1>1, <1>2, StaysProgress, StaysSlot, StaysVerdict DEF PortInv

\* A port that runs a script stands at one of its requests.
LEMMA Running ==
  ASSUME NEW p \in Ports, Progress(p), game[p].phase # "rest"
  PROVE  /\ game[p].script \in Scripts
         /\ game[p].step \in 1 .. Len(Script(game[p].script))
         /\ Len(Script(game[p].script)) \in 1 .. 5
         /\ Proper(Request(p)) /\ Request(p) \in Requests
  BY RequestTypes DEF Progress, Request, Proper

LEMMA ToEffect ==
  ASSUME Shapes, NEW p \in Ports, NEW phase \in Phases, To(p, phase)
  PROVE  /\ game'[p] = [game[p] EXCEPT !.phase = phase]
         /\ game'[p].phase = phase /\ game'[p].script = game[p].script
         /\ game'[p].step = game[p].step /\ game'[p].verdict = game[p].verdict
         /\ \A q \in Ports \ {p} : game'[q] = game[q]
         /\ game' \in [Ports -> GameType]
  BY DEF Shapes, To, GameType

\* Who holds the semaphore is in a transfer, and nobody else.
LEMMA Holders ==
  ASSUME TypeOK
  PROVE  /\ \A q \in Ports : game[q].phase \in Flying <=> sem = q
         /\ completions = 1 => sem # Free /\ game[sem].phase \in {"sent", "asked"}
         /\ completions \in {0, 1} /\ sem \in Ports \cup {Free}
  BY DEF TypeOK, Flying

-----------------------------------------------------------------------------
LEMMA GetAccessStep ==
  ASSUME IInv, NEW p \in Ports, GetAccess(p)
  PROVE  IInv'
<1>. DEFINE r == Request(p)
<1>1. /\ game[p].phase = "want" /\ sem = Free /\ sem' = p /\ pif' = Pack(p, r)
      /\ To(p, "packed")
      /\ rumble' = rumble /\ UNCHANGED device /\ completions' = completions
      /\ UNCHANGED player
  BY DEF GetAccess, Request
<1>2. Proper(r) /\ r \in Requests
  BY <1>1, Running DEF IInv, PortInv
<1>3. /\ game'[p] = [game[p] EXCEPT !.phase = "packed"]
      /\ game'[p].phase = "packed" /\ game'[p].script = game[p].script
      /\ game'[p].step = game[p].step /\ game'[p].verdict = game[p].verdict
      /\ \A q \in Ports \ {p} : game'[q] = game[q]
      /\ game' \in [Ports -> GameType]
  BY <1>1, ToEffect DEF IInv, Phases
<1>4. completions = 0 /\ \A q \in Ports : game[q].phase \notin Flying
  BY <1>1, Holders, SiPakAssumption DEF IInv
<1>5. TypeOK'
  <2>1. \A q \in Ports :
          /\ game'[q].script \in Scripts \cup {<<"none">>}
          /\ game'[q].phase \in Phases
          /\ game'[q].phase \in Flying <=> sem' = q
    <3>1. SUFFICES ASSUME NEW q \in Ports
                   PROVE  /\ game'[q].script \in Scripts \cup {<<"none">>}
                          /\ game'[q].phase \in Phases
                          /\ game'[q].phase \in Flying <=> sem' = q
      OBVIOUS
    <3>2. game'[q].script \in Scripts \cup {<<"none">>} /\ game'[q].phase \in Phases
      BY <1>3 DEF GameType
    <3>3. game'[q].phase \in Flying <=> sem' = q
      BY <1>1, <1>3, <1>4 DEF Flying
    <3>. QED
      BY <3>2, <3>3
  <2>. QED
    BY <1>1, <1>4, <2>1 DEF IInv, TypeOK, device, player, Phases, Flying
<1>6. Shapes'
  <2>1. p \in 0 .. 3 /\ Pack(p, r).bytes \in Seq(Nat)
    BY <1>2, SiPakAssumption, PackedBytes
  <2>2. Pack(p, r) \in [bytes : Seq(Nat), block : Nat, data : Data, answer : Data]
    BY <1>2, <2>1 DEF Pack, Requests, Data
  <2>. QED
    BY <1>1, <1>3, <2>2 DEF Shapes, Data
<1>7. \A q \in Ports \ {p} : PortInv(q)'
  BY <1>1, <1>3, <1>4, OthersKeep DEF IInv, Keeps, device, player
<1>8. Flight(p)'
  <2>1. Request(p)' = r
    BY <1>3 DEF Request
  <2>. QED
    BY <1>1, <1>3, <2>1 DEF Flight, Pack
<1>9. Progress(p)' /\ Slot(p)' /\ Verdict(p)'
  <2>1. Stays(p)
    BY <1>1, <1>3 DEF Stays, Before, device, player
  <2>. QED
    BY <2>1, StaysProgress, StaysSlot, StaysVerdict DEF IInv, PortInv
<1>. QED
  BY <1>5, <1>6, <1>7, <1>8, <1>9 DEF IInv, PortInv

\* A step of the transfer of the port that holds the semaphore.
LEMMA MoveType ==
  ASSUME TypeOK, Shapes, NEW p \in Ports, NEW phase \in Flying, game[p].phase \in Flying,
         To(p, phase), sem' = sem, completions' \in {0, 1},
         completions' = 1 => phase \in {"sent", "asked"},
         DeviceType', rumble' = rumble, UNCHANGED player
  PROVE  TypeOK'
<1>1. phase \in Phases
  BY DEF Phases, Flying
<1>2. /\ game'[p].phase = phase /\ game'[p].script = game[p].script
      /\ \A q \in Ports \ {p} : game'[q] = game[q]
      /\ game' \in [Ports -> GameType]
  BY <1>1, ToEffect
<1>3. sem = p
  BY Holders
<1>4. \A q \in Ports :
        /\ game'[q].script \in Scripts \cup {<<"none">>}
        /\ game'[q].phase \in Phases
        /\ game'[q].phase \in Flying <=> sem' = q
  <2>1. SUFFICES ASSUME NEW q \in Ports
                 PROVE  /\ game'[q].script \in Scripts \cup {<<"none">>}
                        /\ game'[q].phase \in Phases
                        /\ game'[q].phase \in Flying <=> sem' = q
    OBVIOUS
  <2>2. game'[q].script \in Scripts \cup {<<"none">>} /\ game'[q].phase \in Phases
    BY <1>2 DEF GameType
  <2>3. game'[q].phase \in Flying <=> sem' = q
    BY <1>2, <1>3, Holders
  <2>. QED
    BY <2>2, <2>3
<1>5. completions' = 1 => sem' # Free /\ game'[sem'].phase \in {"sent", "asked"}
  BY <1>2, <1>3, SiPakAssumption
<1>6. /\ rumble' \in BOOLEAN /\ sem' \in Ports \cup {Free}
      /\ found' \subseteq Ports /\ motorized' \subseteq Ports /\ shaking' \subseteq Ports
      /\ wrote' \in [Ports -> Bytes \cup {NoReply}]
  BY DEF TypeOK, player
<1>. QED
  BY <1>4, <1>5, <1>6 DEF TypeOK, DeviceType, Phases, Flying

\* The two steps between the halves of a transfer change no slot.
LEMMA MoveStep ==
  ASSUME IInv, NEW p \in Ports, NEW phase \in {"sent", "written"},
         game[p].phase \in {"packed", "sent"}, To(p, phase),
         sem' = sem, pif' = pif, UNCHANGED device, rumble' = rumble, UNCHANGED player,
         completions' \in {0, 1}, completions' = 1 => phase = "sent"
  PROVE  IInv'
<1>1. phase \in Phases /\ phase \in Flying /\ game[p].phase \in Flying
  BY DEF Phases, Flying
<1>2. /\ game'[p].phase = phase /\ game'[p].script = game[p].script
      /\ game'[p].step = game[p].step /\ game'[p].verdict = game[p].verdict
      /\ \A q \in Ports \ {p} : game'[q] = game[q]
      /\ game' \in [Ports -> GameType]
  BY <1>1, ToEffect DEF IInv
<1>3. TypeOK'
  <2>1. DeviceType'
    BY DEF IInv, TypeOK, DeviceType, device
  <2>. QED
    BY <1>1, <2>1, MoveType DEF IInv
<1>4. Shapes'
  BY <1>2 DEF IInv, Shapes, Data
<1>5. \A q \in Ports \ {p} : PortInv(q)'
  BY <1>2, OthersKeep DEF IInv, Keeps, device, player
<1>6. Flight(p)'
  <2>1. Request(p)' = Request(p)
    BY <1>2 DEF Request
  <2>2. game[p].phase # "asked" /\ game'[p].phase # "asked"
    BY <1>2
  <2>. QED
    BY <1>1, <2>1, <2>2 DEF IInv, PortInv, Flight, Pack
<1>7. Progress(p)' /\ Slot(p)' /\ Verdict(p)'
  <2>1. Stays(p)
    BY <1>2 DEF Stays, Before, device, player
  <2>. QED
    BY <2>1, StaysProgress, StaysSlot, StaysVerdict DEF IInv, PortInv
<1>. QED
  BY <1>3, <1>4, <1>5, <1>6, <1>7 DEF IInv, PortInv

LEMMA WriteHalfStep ==
  ASSUME IInv, NEW p \in Ports, WriteHalf(p)
  PROVE  IInv'
<1>1. /\ game[p].phase = "packed" /\ UNCHANGED <<pif, device>>
      /\ completions' = completions + 1 /\ To(p, "sent")
      /\ UNCHANGED <<rumble, sem, player>>
  BY DEF WriteHalf, Transfer, StartDma
<1>2. completions = 0
  BY <1>1, Holders DEF IInv, Flying
<1>. QED
  BY <1>1, <1>2, MoveStep

LEMMA WriteDoneStep ==
  ASSUME IInv, NEW p \in Ports, WriteDone(p)
  PROVE  IInv'
<1>1. /\ game[p].phase = "sent" /\ completions > 0 /\ completions' = completions - 1
      /\ To(p, "written") /\ UNCHANGED <<rumble, device, pif, sem, player>>
  BY DEF WriteDone
<1>2. completions' = 0
  BY <1>1, Holders DEF IInv
<1>3. /\ "written" \in {"sent", "written"} /\ game[p].phase \in {"packed", "sent"}
  BY <1>1
<1>4. completions' \in {0, 1} /\ ~(completions' = 1)
  BY <1>2
<1>5. sem' = sem /\ pif' = pif /\ UNCHANGED device /\ rumble' = rumble /\ UNCHANGED player
  BY <1>1
<1>. QED
  BY <1>1, <1>3, <1>4, <1>5, MoveStep

\* The window's focus only ever stops a motor.
LEMMA UnfocusStep ==
  ASSUME IInv, Unfocus
  PROVE  IInv'
<1>1. /\ motor' \subseteq motor
      /\ UNCHANGED <<rumble, cell, image, touched, wire, game, player>>
  BY DEF Unfocus
<1>2. TypeOK'
  BY <1>1 DEF IInv, TypeOK, wire, player
<1>3. Shapes'
  BY <1>1 DEF IInv, Shapes, wire, Data
<1>4. ASSUME NEW q \in Ports
      PROVE  PortInv(q)'
  <2>1. Stays(q)
    BY <1>1, <1>4 DEF Stays, player
  <2>2. Request(q)' = Request(q)
    BY <1>1 DEF Request
  <2>3. Answer(q, Request(q))' = Answer(q, Request(q))
    BY <1>1, <2>2 DEF Answer, Identify, present
  <2>4. Flight(q)'
    BY <1>1, <1>4, <2>2, <2>3 DEF IInv, PortInv, Flight, Pack, wire
  <2>. QED
    BY <1>4, <2>1, <2>4, StaysProgress, StaysSlot, StaysVerdict DEF IInv, PortInv
<1>. QED
  BY <1>2, <1>3, <1>4 DEF IInv

-----------------------------------------------------------------------------
\* What each port asks, by its script and step.
IsRead(r, b) == r.cmd = "read" /\ r.block = b
IsWrite(r, b, d) == r.cmd = "write" /\ r.block = b /\ r.data = d

AsksCheck(p, k, r) ==
  /\ k \in 1 .. 5
  /\ k = 1 => r.cmd = "status"
  /\ k = 2 => IsWrite(r, kBlockDetect, 0)
  /\ k = 3 => IsRead(r, kBlockDetect)
  /\ k = 4 => IsWrite(r, 0, Pattern)
  /\ k = 5 => IsRead(r, 0)
AsksMotor(p, k, r) ==
  /\ k \in 1 .. 5
  /\ k = 1 => IsWrite(r, kBlockDetect, 254)
  /\ k = 2 => IsRead(r, kBlockDetect)
  /\ k = 3 => IsWrite(r, kBlockDetect, 128)
  /\ k = 4 => IsRead(r, kBlockDetect)
  /\ k = 5 => IsWrite(r, kBlockMotor, 0)
AsksGbpak(p, k, r) ==
  /\ k \in 1 .. 4
  /\ k = 1 => IsWrite(r, kBlockDetect, 254)
  /\ k = 2 => IsRead(r, kBlockDetect)
  /\ k = 3 => IsWrite(r, kBlockDetect, 132)
  /\ k = 4 => IsRead(r, kBlockDetect)
AsksLoad(p, k, r) ==
  /\ k = 1
  /\ IsRead(r, DataBlock)
AsksSave(p, k, r) ==
  /\ k = 1
  /\ IsWrite(r, DataBlock, game[p].script[2])
AsksStart(p, k, r) ==
  /\ k = 1
  /\ IsWrite(r, kBlockMotor, 1)
AsksStop(p, k, r) ==
  /\ k = 1
  /\ IsWrite(r, kBlockMotor, 0)

LEMMA RequestTable ==
  ASSUME NEW p \in Ports, game[p].script \in Scripts,
         game[p].step \in 1 .. Len(Script(game[p].script))
  PROVE  LET r == Request(p)
             k == game[p].step
         IN  /\ Kind(p) = "check" => AsksCheck(p, k, r)
             /\ Kind(p) = "motor" => AsksMotor(p, k, r)
             /\ Kind(p) = "gbpak" => AsksGbpak(p, k, r)
             /\ Kind(p) = "load" => AsksLoad(p, k, r)
             /\ Kind(p) = "save" => AsksSave(p, k, r)
             /\ Kind(p) = "start" => AsksStart(p, k, r)
             /\ Kind(p) = "stop" => AsksStop(p, k, r)
<1>. DEFINE s == game[p].script
            r == Request(p)
            k == game[p].step
<1>1. /\ \A b : IsRead(Rd(b), b)
      /\ \A b, d : IsWrite(Wr(b, d), b, d)
      /\ Status.cmd = "status"
  BY DEF IsRead, IsWrite, Rd, Wr, Status
<1>2. r = Script(s)[k] /\ Kind(p) = s[1] /\ k \in 1 .. Len(Script(s)) /\ s \in Scripts
  BY DEF Request, Kind
<1>. HIDE DEF r, k, s
<1>3. ASSUME Kind(p) = "check"
      PROVE  AsksCheck(p, k, r)
  <2>1. /\ Len(Script(s)) = 5 /\ Script(s)[1] = Status
        /\ Script(s)[2] = Wr(kBlockDetect, 0) /\ Script(s)[3] = Rd(kBlockDetect)
        /\ Script(s)[4] = Wr(0, Pattern) /\ Script(s)[5] = Rd(0)
    <3>1. s \in Scripts /\ s[1] = "check"
      BY <1>2, <1>3
    <3>. QED
      BY <3>1, ScriptTable
  <2>2. k \in 1 .. 5
    BY <1>2, <2>1
  <2>3. /\ k = 1 => r = Status
        /\ k = 2 => r = Wr(kBlockDetect, 0)
        /\ k = 3 => r = Rd(kBlockDetect)
        /\ k = 4 => r = Wr(0, Pattern)
        /\ k = 5 => r = Rd(0)
    BY <1>2, <2>1, Zenon
  <2>. QED
    BY <1>1, <2>2, <2>3, Zenon DEF AsksCheck
<1>4. ASSUME Kind(p) = "motor"
      PROVE  AsksMotor(p, k, r)
  <2>1. /\ Len(Script(s)) = 5
        /\ Script(s)[1] = Wr(kBlockDetect, 254) /\ Script(s)[2] = Rd(kBlockDetect)
        /\ Script(s)[3] = Wr(kBlockDetect, 128) /\ Script(s)[4] = Rd(kBlockDetect)
        /\ Script(s)[5] = Wr(kBlockMotor, 0)
    <3>1. s \in Scripts /\ s[1] = "motor"
      BY <1>2, <1>4
    <3>. QED
      BY <3>1, ScriptTable
  <2>2. k \in 1 .. 5
    BY <1>2, <2>1
  <2>3. /\ k = 1 => r = Wr(kBlockDetect, 254)
        /\ k = 2 => r = Rd(kBlockDetect)
        /\ k = 3 => r = Wr(kBlockDetect, 128)
        /\ k = 4 => r = Rd(kBlockDetect)
        /\ k = 5 => r = Wr(kBlockMotor, 0)
    BY <1>2, <2>1, SMTT(20)
  <2>. QED
    BY <1>1, <2>2, <2>3, SMTT(20) DEF AsksMotor
<1>5. ASSUME Kind(p) = "gbpak"
      PROVE  AsksGbpak(p, k, r)
  <2>1. /\ Len(Script(s)) = 4
        /\ Script(s)[1] = Wr(kBlockDetect, 254) /\ Script(s)[2] = Rd(kBlockDetect)
        /\ Script(s)[3] = Wr(kBlockDetect, 132) /\ Script(s)[4] = Rd(kBlockDetect)
    <3>1. s \in Scripts /\ s[1] = "gbpak"
      BY <1>2, <1>5
    <3>. QED
      BY <3>1, ScriptTable
  <2>2. k \in 1 .. 4
    BY <1>2, <2>1
  <2>3. /\ k = 1 => r = Wr(kBlockDetect, 254)
        /\ k = 2 => r = Rd(kBlockDetect)
        /\ k = 3 => r = Wr(kBlockDetect, 132)
        /\ k = 4 => r = Rd(kBlockDetect)
    BY <1>2, <2>1, SMTT(20)
  <2>. QED
    BY <1>1, <2>2, <2>3, SMTT(20) DEF AsksGbpak
<1>6. ASSUME Kind(p) = "load"
      PROVE  AsksLoad(p, k, r)
  <2>1. /\ Len(Script(s)) = 1 /\ Script(s)[1] = Rd(DataBlock)
    <3>1. s \in Scripts /\ s[1] = "load"
      BY <1>2, <1>6
    <3>. QED
      BY <3>1, ScriptTable
  <2>3. k = 1
    BY <1>2, <2>1
  <2>4. r = Rd(DataBlock)
    BY <1>2, <2>1, <2>3, Zenon
  <2>. QED
    BY <1>1, <2>3, <2>4, Zenon DEF AsksLoad
<1>7. ASSUME Kind(p) = "save"
      PROVE  AsksSave(p, k, r)
  <2>1. s \in Scripts /\ s[1] = "save"
    BY <1>2, <1>7
  <2>2. /\ Len(Script(s)) = 1 /\ Script(s)[1] = Wr(DataBlock, s[2])
    BY <2>1, ScriptTable
  <2>3. k = 1
    BY <1>2, <2>2
  <2>4. r = Wr(DataBlock, s[2])
    BY <1>2, <2>2, <2>3, Zenon
  <2>. QED
    BY <1>1, <2>3, <2>4, Zenon DEF AsksSave, s
<1>8. ASSUME Kind(p) = "start"
      PROVE  AsksStart(p, k, r)
  <2>1. s \in Scripts /\ s[1] = "start"
    BY <1>2, <1>8
  <2>2. /\ Len(Script(s)) = 1 /\ Script(s)[1] = Wr(kBlockMotor, 1)
    BY <2>1, ScriptTable
  <2>3. k = 1
    BY <1>2, <2>2
  <2>4. r = Wr(kBlockMotor, 1)
    BY <1>2, <2>2, <2>3, Zenon
  <2>. QED
    BY <1>1, <2>3, <2>4, Zenon DEF AsksStart
<1>9. ASSUME Kind(p) = "stop"
      PROVE  AsksStop(p, k, r)
  <2>1. /\ Len(Script(s)) = 1 /\ Script(s)[1] = Wr(kBlockMotor, 0)
    <3>1. s \in Scripts /\ s[1] = "stop"
      BY <1>2, <1>9
    <3>. QED
      BY <3>1, ScriptTable
  <2>3. k = 1
    BY <1>2, <2>1
  <2>4. r = Wr(kBlockMotor, 0)
    BY <1>2, <2>1, <2>3, Zenon
  <2>. QED
    BY <1>1, <2>3, <2>4, Zenon DEF AsksStop
<1>. QED
  BY <1>3, <1>4, <1>5, <1>6, <1>7, <1>8, <1>9 DEF r, k

-----------------------------------------------------------------------------
\* What the read half does for the port whose request is in the buffer.
Serving(p) ==
  /\ p \in Ports /\ game[p].phase = "written"
  /\ game'[p].phase = "asked" /\ game'[p].script = game[p].script
  /\ game'[p].step = game[p].step
  /\ game[p].script \in Scripts /\ game[p].step \in 1 .. Len(Script(game[p].script))
  /\ rumble' = rumble /\ UNCHANGED player
  /\ LET r == Request(p)
     IN  /\ r.cmd # "write" => cell'[p] = cell[p] /\ image'[p] = image[p] /\ motor' = motor
         /\ r.cmd = "write" =>
              /\ cell'[p] = IF r.block = kBlockDetect THEN r.data ELSE cell[p]
              /\ image'[p] = IF IsStorage(r.block) THEN [image[p] EXCEPT ![r.block] = r.data]
                             ELSE image[p]
              /\ p \in motor' <=> IF r.block = kBlockMotor /\ rumble /\ present(p)
                                    THEN r.data # 0 ELSE p \in motor
         /\ p \in touched' => p \in touched \/ (r.cmd # "status" /\ IsStorage(r.block))
  /\ image[p] \in [Blocks -> Bytes]

LEMMA ServingPhases ==
  ASSUME NEW p \in Ports, Serving(p)
  PROVE  /\ Kind(p)' = Kind(p)
         /\ game[p].step \in Nat /\ game'[p].step = game[p].step
         /\ \A n \in 1 .. 5 : Served(p, n) <=> game[p].step > n
         /\ \A n \in 1 .. 5 : Served(p, n)' <=> game[p].step >= n
  BY RequestTypes DEF Serving, Kind, Served

LEMMA ServingSlot ==
  ASSUME NEW p \in Ports, Serving(p), Slot(p),
         p \in motor' => rumble /\ present(p) /\ (p \in motor \/ Kind(p) = "start"),
         p \in touched' => p \in touched \/ present(p),
         Kind(p) # "save" => image'[p][DataBlock] = image[p][DataBlock]
  PROVE  Slot(p)'
<1>1. Kind(p)' = Kind(p) /\ Served(p, 1)'
  BY ServingPhases DEF Serving
<1>2. /\ wrote' = wrote /\ found' = found /\ shaking' = shaking /\ rumble' = rumble
      /\ present(p)' = present(p)
  BY DEF Serving, player, present
<1>3. p \in motor' => rumble' /\ present(p)' /\ (p \in shaking' \/ Kind(p)' = "start")
  BY <1>1, <1>2 DEF Slot
<1>4. p \in touched' \cup found' => present(p)'
  BY <1>2 DEF Slot
<1>5. wrote'[p] # NoReply /\ ~(Kind(p)' = "save" /\ Served(p, 1)') =>
        image'[p][DataBlock] = wrote'[p]
  <2>1. SUFFICES ASSUME wrote[p] # NoReply, Kind(p) # "save"
                 PROVE  image'[p][DataBlock] = wrote[p]
    BY <1>1, <1>2
  <2>. QED
    BY <2>1 DEF Slot
<1>. QED
  BY <1>3, <1>4, <1>5 DEF Slot

LEMMA ServingCheck ==
  ASSUME NEW p \in Ports, Serving(p), Progress(p), Slot(p), Kind(p) = "check"
  PROVE  Progress(p)' /\ Slot(p)'
<1>. DEFINE k == game[p].step
            r == Request(p)
<1>1. AsksCheck(p, k, r)
  BY RequestTable DEF Serving
<1>2. /\ k >= 2 => present(p)
      /\ k > 2 => cell[p] = 0
      /\ k > 4 => image[p][0] = Pattern
  <2>1. /\ k >= 2 => present(p)
        /\ Served(p, 2) => cell[p] = 0
        /\ Served(p, 4) => image[p][0] = Pattern
    BY DEF Progress, Serving
  <2>. QED
    BY <2>1, ServingPhases
<1>. HIDE DEF k, r
<1>3. k = 2 => cell'[p] = 0
  BY <1>1 DEF AsksCheck, Serving, IsWrite, r
<1>4. k \in {1, 3, 5} => cell'[p] = cell[p] /\ image'[p] = image[p] /\ motor' = motor
  BY <1>1 DEF AsksCheck, Serving, IsRead, r
<1>5. k = 4 => cell'[p] = cell[p] /\ image'[p] = [image[p] EXCEPT ![0] = Pattern]
  BY <1>1 DEF AsksCheck, Serving, IsWrite, IsStorage, kBlockDetect, r
<1>6. k \in {2, 4} => (p \in motor' <=> p \in motor)
  BY <1>1 DEF AsksCheck, Serving, IsWrite, kBlockDetect, kBlockMotor, r
<1>7. k = 2 => image'[p] = image[p]
  BY <1>1 DEF AsksCheck, Serving, IsWrite, IsStorage, kBlockDetect, r
<1>8. k = 4 => image'[p][0] = Pattern /\ image'[p][DataBlock] = image[p][DataBlock]
  BY <1>5 DEF Serving, Blocks, DataBlock, kBlockDetect
<1>9. p \in touched' => p \in touched \/ present(p)
  BY <1>1, <1>2 DEF AsksCheck, Serving, IsRead, r
<1>10. Slot(p)'
  BY <1>1, <1>4, <1>6, <1>7, <1>8, <1>9, ServingSlot DEF AsksCheck, Slot
<1>11. k >= 2 => cell'[p] = 0
  BY <1>1, <1>2, <1>3, <1>4, <1>5 DEF AsksCheck
<1>12. k >= 4 => image'[p][0] = Pattern
  BY <1>1, <1>2, <1>4, <1>8 DEF AsksCheck
<1>13. Progress(p)'
  BY <1>2, <1>11, <1>12, ServingPhases DEF Progress, Serving, k, present
<1>. QED
  BY <1>10, <1>13

LEMMA ServingMotor ==
  ASSUME NEW p \in Ports, Serving(p), Progress(p), Slot(p), Kind(p) = "motor"
  PROVE  Progress(p)' /\ Slot(p)'
<1>. DEFINE k == game[p].step
            r == Request(p)
<1>1. AsksMotor(p, k, r)
  BY RequestTable DEF Serving
<1>2. /\ k > 1 /\ ~(k > 3) => cell[p] = 254
      /\ k >= 3 => rumble /\ present(p)
      /\ k > 3 => cell[p] = 128
  <2>1. /\ Served(p, 1) /\ ~Served(p, 3) => cell[p] = 254
        /\ k >= 3 => rumble /\ present(p)
        /\ Served(p, 3) => cell[p] = 128
    BY DEF Progress, Serving
  <2>. QED
    BY <2>1, ServingPhases
<1>. HIDE DEF k, r
<1>3. k = 1 => cell'[p] = 254
  BY <1>1 DEF AsksMotor, Serving, IsWrite, r
<1>4. k = 3 => cell'[p] = 128
  BY <1>1 DEF AsksMotor, Serving, IsWrite, r
<1>5. k \in {2, 4} => cell'[p] = cell[p] /\ image'[p] = image[p] /\ motor' = motor
  BY <1>1 DEF AsksMotor, Serving, IsRead, r
<1>6. k = 5 => cell'[p] = cell[p]
  BY <1>1 DEF AsksMotor, Serving, IsWrite, kBlockDetect, kBlockMotor, r
<1>7. k = 5 => p \notin motor'
  BY <1>1, <1>2 DEF AsksMotor, Serving, IsWrite, r
<1>8. k \in {1, 3} => (p \in motor' <=> p \in motor)
  BY <1>1 DEF AsksMotor, Serving, IsWrite, kBlockDetect, kBlockMotor, r
<1>9. k \in {1, 3, 5} => image'[p] = image[p]
  BY <1>1 DEF AsksMotor, Serving, IsWrite, IsStorage, kBlockDetect, kBlockMotor, r
<1>10. p \in touched' => p \in touched
  BY <1>1 DEF AsksMotor, Serving, IsRead, IsWrite, IsStorage, kBlockDetect, kBlockMotor, r
<1>11. Slot(p)'
  BY <1>1, <1>5, <1>7, <1>8, <1>9, <1>10, ServingSlot DEF AsksMotor, Slot
<1>12. /\ k >= 1 /\ ~(k >= 3) => cell'[p] = 254
       /\ k >= 3 => cell'[p] = 128
  BY <1>1, <1>2, <1>3, <1>4, <1>5, <1>6 DEF AsksMotor
<1>13. k >= 5 => p \notin motor'
  BY <1>1, <1>7 DEF AsksMotor
<1>14. Progress(p)'
  <2>1. /\ Kind(p)' = "motor" /\ game'[p].phase = "asked" /\ game'[p].step = k
        /\ game'[p].script = game[p].script
        /\ \A n \in 1 .. 5 : Served(p, n)' <=> k >= n
    BY ServingPhases DEF Serving, k
  <2>2. /\ game'[p].script \in Scripts
        /\ game'[p].step \in 1 .. Len(Script(game'[p].script))
    BY DEF Serving
  <2>3. k >= 3 => rumble' /\ present(p)'
    BY <1>2 DEF Serving, present
  <2>. QED
    BY <1>12, <1>13, <2>1, <2>2, <2>3 DEF Progress
<1>. QED
  BY <1>11, <1>14

LEMMA ServingGbpak ==
  ASSUME NEW p \in Ports, Serving(p), Progress(p), Slot(p), Kind(p) = "gbpak"
  PROVE  Progress(p)' /\ Slot(p)'
<1>. DEFINE k == game[p].step
            r == Request(p)
<1>1. AsksGbpak(p, k, r)
  BY RequestTable DEF Serving
<1>2. /\ k > 1 /\ ~(k > 3) => cell[p] = 254
      /\ k >= 3 => rumble /\ present(p)
      /\ k > 3 => cell[p] = 132
  <2>1. /\ Served(p, 1) /\ ~Served(p, 3) => cell[p] = 254
        /\ k >= 3 => rumble /\ present(p)
        /\ Served(p, 3) => cell[p] = 132
    BY DEF Progress, Serving
  <2>. QED
    BY <2>1, ServingPhases
<1>. HIDE DEF k, r
<1>3. k = 1 => cell'[p] = 254
  BY <1>1 DEF AsksGbpak, Serving, IsWrite, r
<1>4. k = 3 => cell'[p] = 132
  BY <1>1 DEF AsksGbpak, Serving, IsWrite, r
<1>5. k \in {2, 4} => cell'[p] = cell[p] /\ image'[p] = image[p] /\ motor' = motor
  BY <1>1 DEF AsksGbpak, Serving, IsRead, r
<1>6. k \in {1, 3} => (p \in motor' <=> p \in motor)
  BY <1>1 DEF AsksGbpak, Serving, IsWrite, kBlockDetect, kBlockMotor, r
<1>7. k \in {1, 3} => image'[p] = image[p]
  BY <1>1 DEF AsksGbpak, Serving, IsWrite, IsStorage, kBlockDetect, r
<1>8. p \in touched' => p \in touched
  BY <1>1 DEF AsksGbpak, Serving, IsRead, IsWrite, IsStorage, kBlockDetect, r
<1>9. Slot(p)'
  BY <1>1, <1>5, <1>6, <1>7, <1>8, ServingSlot DEF AsksGbpak, Slot
<1>10. /\ k >= 1 /\ ~(k >= 3) => cell'[p] = 254
       /\ k >= 3 => cell'[p] = 132
  BY <1>1, <1>2, <1>3, <1>4, <1>5 DEF AsksGbpak
<1>11. /\ game'[p].step = k /\ k \in Nat /\ Kind(p)' = "gbpak"
       /\ Served(p, 1)' <=> k >= 1
       /\ Served(p, 3)' <=> k >= 3
  BY ServingPhases DEF k
<1>12. /\ k >= 3 => (rumble /\ present(p))'
       /\ game'[p].script \in Scripts /\ game'[p].step \in 1 .. Len(Script(game'[p].script))
  BY <1>2 DEF Serving, present
<1>13. Progress(p)'
  BY <1>10, <1>11, <1>12 DEF Progress
<1>. QED
  BY <1>9, <1>13

LEMMA ServingAccess ==
  ASSUME NEW p \in Ports, Serving(p), Progress(p), Slot(p),
         Kind(p) \in {"load", "save", "start", "stop"}
  PROVE  Progress(p)' /\ Slot(p)'
<1>. DEFINE r == Request(p)
<1>1. /\ Kind(p) = "load" => IsRead(r, DataBlock)
      /\ Kind(p) = "save" => IsWrite(r, DataBlock, game[p].script[2])
      /\ Kind(p) = "start" => IsWrite(r, kBlockMotor, 1)
      /\ Kind(p) = "stop" => IsWrite(r, kBlockMotor, 0)
  BY RequestTable DEF Serving, AsksLoad, AsksSave, AsksStart, AsksStop
<1>2. Kind(p) \in {"load", "save"} => present(p)
  BY DEF Progress, Serving
<1>. HIDE DEF r
<1>3. p \in touched' => p \in touched \/ present(p)
  BY <1>1, <1>2 DEF Serving, IsWrite, IsStorage, kBlockMotor, kBlockDetect, r
<1>4. Kind(p) = "save" => image'[p][DataBlock] = game[p].script[2]
  BY <1>1 DEF Serving, IsWrite, IsStorage, DataBlock, kBlockDetect, Blocks, r
<1>5. Kind(p) # "save" => image'[p] = image[p]
  BY <1>1 DEF Serving, IsRead, IsWrite, IsStorage, kBlockMotor, kBlockDetect, r
<1>6. Kind(p) \in {"load", "save"} => (p \in motor' <=> p \in motor)
  BY <1>1 DEF Serving, IsRead, IsWrite, DataBlock, kBlockDetect, kBlockMotor, r
<1>7. Kind(p) = "stop" => p \notin motor'
  BY <1>1 DEF Serving, IsWrite, Slot, r
<1>8. p \in motor' => rumble /\ present(p) /\ (p \in motor \/ Kind(p) = "start")
  <2>1. Kind(p) = "start" => (p \in motor' => rumble /\ present(p))
    BY <1>1 DEF Serving, IsWrite, Slot, r
  <2>. QED
    BY <1>6, <1>7, <2>1 DEF Slot
<1>9. Slot(p)'
  BY <1>3, <1>5, <1>8, ServingSlot
<1>10. /\ Kind(p)' = Kind(p) /\ game'[p].phase = "asked"
       /\ game'[p].script = game[p].script /\ game[p].script \in Scripts
       /\ game'[p].step \in 1 .. Len(Script(game'[p].script))
  BY ServingPhases DEF Serving
<1>11. Kind(p) \in {"load", "save"} => present(p)'
  BY <1>2 DEF Serving, present
<1>12. Progress(p)'
  BY <1>4, <1>7, <1>10, <1>11 DEF Progress
<1>. QED
  BY <1>9, <1>12

LEMMA ServingProgress ==
  ASSUME NEW p \in Ports, Serving(p), Progress(p), Slot(p)
  PROVE  Progress(p)' /\ Slot(p)'
<1>1. Kind(p) \in {"check", "motor", "gbpak", "load", "start", "stop", "save"}
  BY Kinds DEF Serving, Kind
<1>. QED
  BY <1>1, ServingCheck, ServingMotor, ServingGbpak, ServingAccess

LEMMA ReadHalfStep ==
  ASSUME IInv, NEW p \in Ports, ReadHalf(p)
  PROVE  IInv'
<1>0. PICK r : r = Request(p)
  OBVIOUS
<1>1. /\ game[p].phase = "written" /\ service_frame
      /\ completions' = completions + 1 /\ To(p, "asked")
      /\ rumble' = rumble /\ sem' = sem /\ UNCHANGED player
  BY DEF ReadHalf, Transfer, StartDma
<1>2. completions = 0
  BY <1>1, Holders DEF IInv, Flying
<1>3. /\ game'[p].phase = "asked" /\ game'[p].script = game[p].script
      /\ game'[p].step = game[p].step /\ game'[p].verdict = game[p].verdict
      /\ \A q \in Ports \ {p} : game'[q] = game[q]
      /\ game' \in [Ports -> GameType]
  BY <1>1, ToEffect DEF IInv, Phases
<1>4. Flight(p) /\ Progress(p) /\ Slot(p)
  BY DEF IInv, PortInv
<1>5. /\ game[p].script \in Scripts
      /\ game[p].step \in 1 .. Len(Script(game[p].script))
      /\ Proper(r)
  BY <1>0, <1>1, <1>4, Running
<1>6. /\ pif.bytes = Pack(p, r).bytes /\ pif.block = r.block /\ pif.data = r.data
      /\ pif.answer = NoReply
  BY <1>0, <1>1, <1>4 DEF Flight, Flying
<1>7. DeviceType
  BY DEF IInv, TypeOK, DeviceType
<1>8. /\ pif' = [pif EXCEPT !.answer = Answer(p, r)'] /\ Answer(p, r)' \in Data
      /\ DeviceType'
      /\ \A q \in Ports \ {p} : Keeps(q)
  BY <1>1, <1>5, <1>6, <1>7, ServiceEffect DEF IInv
<1>9. /\ r.cmd # "write" => cell'[p] = cell[p] /\ image'[p] = image[p] /\ motor' = motor
      /\ r.cmd = "write" =>
           /\ cell'[p] = IF r.block = kBlockDetect THEN r.data ELSE cell[p]
           /\ image'[p] = IF IsStorage(r.block) THEN [image[p] EXCEPT ![r.block] = r.data]
                          ELSE image[p]
           /\ p \in motor' <=> IF r.block = kBlockMotor /\ rumble /\ present(p)
                                 THEN r.data # 0 ELSE p \in motor
      /\ p \in touched' => p \in touched \/ (r.cmd # "status" /\ IsStorage(r.block))
  BY <1>1, <1>5, <1>6, <1>7, ServiceEffect DEF IInv
<1>10. TypeOK'
  <2>1. "asked" \in Flying /\ game[p].phase \in Flying
    BY <1>1 DEF Flying
  <2>2. completions' \in {0, 1}
    BY <1>1, <1>2
  <2>. QED
    BY <1>1, <1>8, <2>1, <2>2, MoveType DEF IInv
<1>11. Shapes'
  BY <1>3, <1>8 DEF IInv, Shapes, Data
<1>12. \A q \in Ports \ {p} : PortInv(q)'
  <2>1. SUFFICES ASSUME NEW q \in Ports \ {p}
                 PROVE  PortInv(q)'
    OBVIOUS
  <2>2. game[q].phase \notin Flying
    BY <1>1, Holders DEF IInv, Flying
  <2>. QED
    BY <1>1, <1>3, <1>8, <2>2, OthersKeep DEF IInv, player
<1>13. Flight(p)'
  <2>1. Request(p)' = r
    BY <1>0, <1>3 DEF Request
  <2>2. /\ pif'.bytes = pif.bytes /\ pif'.block = pif.block /\ pif'.data = pif.data
        /\ pif'.answer = Answer(p, r)'
    BY <1>8 DEF IInv, Shapes
  <2>3. Answer(p, Request(p))' = Answer(p, r)'
    BY <2>1
  <2>. QED
    BY <1>3, <1>6, <2>1, <2>2, <2>3 DEF Flight, Pack
<1>14. Serving(p)
  <2>1. image[p] \in [Blocks -> Bytes]
    BY <1>7 DEF DeviceType
  <2>. QED
    BY <1>0, <1>1, <1>3, <1>5, <1>9, <2>1 DEF Serving
<1>15. Progress(p)' /\ Slot(p)'
  BY <1>4, <1>14, ServingProgress
<1>16. Verdict(p)'
  BY <1>3 DEF Verdict, Concludes
<1>. QED
  BY <1>10, <1>11, <1>12, <1>13, <1>15, <1>16 DEF IInv, PortInv

-----------------------------------------------------------------------------
\* What the game learns from each answer.
LEMMA AnswerTypes ==
  ASSUME IInv, NEW p \in Ports, NEW b \in Blocks
  PROVE  /\ image[p][b] \in Bytes /\ image[p][b] # NoReply
         /\ Identify(p) \in Banks /\ Identify(p) # NoReply
         /\ cell[p] = 254 => Identify(p) = IF rumble /\ present(p) THEN 128 ELSE 254
         /\ rumble /\ present(p) /\ cell[p] \in {128, 132} => Identify(p) = 128
         /\ cell[p] = 0 => Identify(p) = 0
         /\ NoReply \notin {0, 1}
<1>1. image[p][b] \in Bytes
  BY DEF IInv, TypeOK
<1>2. Identify(p) \in Banks
  BY IdentifyType DEF IInv, TypeOK
<1>3. NoReply \notin Bytes /\ NoReply \notin Banks /\ NoReply \notin {0, 1}
  BY SiPakAssumption DEF Banks
<1>4. /\ cell[p] = 254 => Identify(p) = IF rumble /\ present(p) THEN 128 ELSE 254
      /\ rumble /\ present(p) /\ cell[p] \in {128, 132} => Identify(p) = 128
      /\ cell[p] = 0 => Identify(p) = 0
  BY DEF Identify, kRumbleIdentify
<1>. QED
  BY <1>1, <1>2, <1>3, <1>4

\* A port that waits to take its answer out of the buffer.
Asked(p) ==
  /\ game[p].phase = "asked" /\ game[p].script \in Scripts
  /\ game[p].step \in 1 .. Len(Script(game[p].script))
  /\ Progress(p)

LEMMA AskedServed ==
  ASSUME NEW p \in Ports, Asked(p)
  PROVE  /\ game[p].step \in 1 .. 5
         /\ \A n \in 1 .. 5 : Served(p, n) <=> game[p].step >= n
<1>1. /\ Len(Script(game[p].script)) \in 1 .. 5
      /\ game[p].step \in 1 .. Len(Script(game[p].script))
  BY RequestTypes DEF Asked
<1>2. game[p].step \in 1 .. 5
  <2>1. \A n \in 1 .. 5 : \A k \in 1 .. n : k \in 1 .. 5
    OBVIOUS
  <2>. QED
    BY <1>1, <2>1
<1>. QED
  BY <1>2 DEF Asked, Served

Takes(p) == Refused(game[p].script, game[p].step, Answer(p, Request(p)))

LEMMA TakesCheck ==
  ASSUME IInv, NEW p \in Ports, Asked(p), Kind(p) = "check"
  PROVE  /\ game[p].step \in 1 .. 5
         /\ Takes(p) <=> game[p].step = 1 /\ ~present(p)
         /\ game[p].step >= 2 => present(p)
<1>. DEFINE s == game[p].script
            k == game[p].step
            r == Request(p)
            a == Answer(p, r)
<1>1. AsksCheck(p, k, r) /\ k \in 1 .. 5
  BY RequestTable DEF Asked, AsksCheck
<1>2. /\ k >= 2 => present(p) /\ cell[p] = 0
      /\ k >= 4 => image[p][0] = Pattern
  <2>1. /\ k >= 2 => present(p)
        /\ Served(p, 2) => cell[p] = 0
        /\ Served(p, 4) => image[p][0] = Pattern
    BY DEF Progress, Asked
  <2>. QED
    BY <2>1, AskedServed
<1>3. s[1] = "check" /\ s[1] \notin {"motor", "gbpak"} /\ r = Script(s)[k]
  BY DEF Kind, Request
<1>4. 0 \in Blocks
  BY DEF Blocks
<1>. HIDE DEF s, k, r
<1>5. k = 1 => a = (IF present(p) THEN 1 ELSE 0) /\ r.cmd = "status"
  BY <1>1 DEF Answer, AsksCheck
<1>6. k = 3 => a = 0 /\ r.cmd = "read"
  BY <1>1, <1>2, <1>4, AnswerTypes DEF Answer, AsksCheck, IsRead, IsStorage, kBlockDetect
<1>7. k = 5 => a = Pattern /\ r.cmd = "read" /\ a # NoReply
  BY <1>1, <1>2, <1>4, AnswerTypes DEF Answer, AsksCheck, IsRead, IsStorage, kBlockDetect
<1>8. k \in {2, 4} => r.cmd = "write"
  BY <1>1 DEF AsksCheck, IsWrite
<1>9. Script(s)[2].data = 0 /\ Script(s)[4].data = Pattern
  <2>1. s \in Scripts /\ s[1] = "check"
    BY <1>3 DEF Asked, s
  <2>2. Script(s)[2] = Wr(kBlockDetect, 0) /\ Script(s)[4] = Wr(0, Pattern)
    BY <2>1, ScriptTable
  <2>. QED
    BY <2>2 DEF Wr
<1>. HIDE DEF a
<1>10. NoReply \notin {0, 1}
  BY <1>4, AnswerTypes
<1>11. CASE k = 1
  <2>1. Refused(s, k, a) <=> ~present(p)
    BY <1>3, <1>5, <1>10, <1>11 DEF Refused
  <2>. QED
    BY <1>1, <1>11, <2>1 DEF Takes, s, k, r, a
<1>12. CASE k = 3
  <2>1. ~Refused(s, k, a)
    BY <1>3, <1>6, <1>9, <1>10, <1>12 DEF Refused
  <2>. QED
    BY <1>1, <1>2, <1>12, <2>1 DEF Takes, s, k, r, a
<1>13. CASE k = 5
  <2>1. ~Refused(s, k, a)
    BY <1>3, <1>7, <1>9, <1>13 DEF Refused
  <2>. QED
    BY <1>1, <1>2, <1>13, <2>1 DEF Takes, s, k, r, a
<1>14. CASE k \in {2, 4}
  <2>1. ~Refused(s, k, a)
    BY <1>3, <1>8, <1>14 DEF Refused
  <2>. QED
    BY <1>1, <1>2, <1>14, <2>1 DEF Takes, s, k, r, a
<1>. QED
  BY <1>1, <1>11, <1>12, <1>13, <1>14

LEMMA TakesMotor ==
  ASSUME IInv, NEW p \in Ports, Asked(p), Kind(p) = "motor"
  PROVE  /\ game[p].step \in 1 .. 5 /\ Len(Script(game[p].script)) = 5
         /\ Takes(p) <=> game[p].step = 2 /\ ~(rumble /\ present(p))
         /\ game[p].step >= 3 => rumble /\ present(p)
<1>. DEFINE s == game[p].script
            k == game[p].step
            r == Request(p)
            a == Answer(p, r)
<1>1. AsksMotor(p, k, r) /\ k \in 1 .. 5
  BY RequestTable DEF Asked, AsksMotor
<1>2. /\ k = 2 => cell[p] = 254
      /\ k >= 3 => rumble /\ present(p) /\ cell[p] = 128
  <2>1. /\ Served(p, 1) /\ ~Served(p, 3) => cell[p] = 254
        /\ k >= 3 => rumble /\ present(p)
        /\ Served(p, 3) => cell[p] = 128
    BY DEF Progress, Asked
  <2>. QED
    BY <2>1, AskedServed
<1>3. s[1] = "motor" /\ s \in Scripts /\ r = Script(s)[k]
  BY DEF Kind, Request, Asked
<1>4. 0 \in Blocks
  BY DEF Blocks
<1>. HIDE DEF s, k, r
<1>5. k = 2 => a = (IF rumble /\ present(p) THEN 128 ELSE 254) /\ r.cmd = "read" /\ a # NoReply
  BY <1>1, <1>2, <1>4, AnswerTypes DEF Answer, AsksMotor, IsRead, IsStorage, kBlockDetect
<1>6. k = 4 => a = 128 /\ r.cmd = "read" /\ a # NoReply
  BY <1>1, <1>2, <1>4, AnswerTypes DEF Answer, AsksMotor, IsRead, IsStorage, kBlockDetect
<1>7. k \in {1, 3, 5} => r.cmd = "write"
  BY <1>1 DEF AsksMotor, IsWrite
<1>8. Script(s)[3].data = 128 /\ Len(Script(s)) = 5
  <2>1. Script(s)[3] = Wr(kBlockDetect, 128) /\ Len(Script(s)) = 5
    BY <1>3, ScriptTable
  <2>. QED
    BY <2>1 DEF Wr
<1>. HIDE DEF a
<1>9. CASE k = 2
  <2>1. Refused(s, k, a) <=> ~(rumble /\ present(p))
    BY <1>3, <1>5, <1>9 DEF Refused
  <2>. QED
    BY <1>1, <1>2, <1>8, <1>9, <2>1 DEF Takes, s, k, r, a
<1>10. CASE k = 4
  <2>1. ~Refused(s, k, a)
    BY <1>3, <1>6, <1>8, <1>10 DEF Refused
  <2>. QED
    BY <1>1, <1>2, <1>8, <1>10, <2>1 DEF Takes, s, k, r, a
<1>11. CASE k \in {1, 3, 5}
  <2>1. ~Refused(s, k, a)
    BY <1>3, <1>7, <1>11 DEF Refused
  <2>. QED
    BY <1>1, <1>2, <1>8, <1>11, <2>1 DEF Takes, s, k, r, a
<1>. QED
  BY <1>1, <1>9, <1>10, <1>11

LEMMA TakesGbpak ==
  ASSUME IInv, NEW p \in Ports, Asked(p), Kind(p) = "gbpak"
  PROVE  /\ game[p].step \in 1 .. 4 /\ Len(Script(game[p].script)) = 4
         /\ game[p].step = 2 /\ ~Takes(p) => rumble /\ present(p)
         /\ game[p].step >= 3 => rumble /\ present(p)
         /\ game[p].step = 4 => Takes(p)
<1>. DEFINE s == game[p].script
            k == game[p].step
            r == Request(p)
            a == Answer(p, r)
<1>1. AsksGbpak(p, k, r) /\ k \in 1 .. 4
  BY RequestTable DEF Asked, AsksGbpak
<1>2. /\ k = 2 => cell[p] = 254
      /\ k >= 3 => rumble /\ present(p) /\ cell[p] = 132
  <2>1. /\ Served(p, 1) /\ ~Served(p, 3) => cell[p] = 254
        /\ k >= 3 => rumble /\ present(p)
        /\ Served(p, 3) => cell[p] = 132
    BY DEF Progress, Asked
  <2>. QED
    BY <1>1, <2>1, AskedServed
<1>3. s[1] = "gbpak" /\ s \in Scripts /\ r = Script(s)[k]
  BY DEF Kind, Request, Asked
<1>4. 0 \in Blocks
  BY DEF Blocks
<1>. HIDE DEF s, k, r
<1>5. k = 2 => a = (IF rumble /\ present(p) THEN 128 ELSE 254) /\ r.cmd = "read"
  BY <1>1, <1>2, <1>4, AnswerTypes DEF Answer, AsksGbpak, IsRead, IsStorage, kBlockDetect
<1>6. k = 4 => a = 128 /\ r.cmd = "read"
  BY <1>1, <1>2, <1>4, AnswerTypes DEF Answer, AsksGbpak, IsRead, IsStorage, kBlockDetect
<1>7. Script(s)[3].data = 132 /\ Len(Script(s)) = 4
  <2>1. Script(s)[3] = Wr(kBlockDetect, 132) /\ Len(Script(s)) = 4
    BY <1>3, ScriptTable
  <2>. QED
    BY <2>1 DEF Wr
<1>. HIDE DEF a
<1>8. k = 2 /\ ~Takes(p) => rumble /\ present(p)
  <2>1. k = 2 /\ ~(rumble /\ present(p)) => Refused(s, k, a)
    BY <1>3, <1>5 DEF Refused
  <2>. QED
    BY <2>1 DEF Takes, s, k, r, a
<1>9. k = 4 => Takes(p)
  <2>1. k = 4 => Refused(s, k, a)
    BY <1>3, <1>6, <1>7 DEF Refused
  <2>. QED
    BY <2>1 DEF Takes, s, k, r, a
<1>. QED
  BY <1>1, <1>2, <1>7, <1>8, <1>9 DEF s, k

LEMMA TakesAccess ==
  ASSUME IInv, NEW p \in Ports, Asked(p), Kind(p) \in {"load", "save", "start", "stop"}
  PROVE  /\ game[p].step = 1 /\ Len(Script(game[p].script)) = 1
         /\ ~Takes(p)
         /\ Kind(p) = "load" => Answer(p, Request(p)) = image[p][DataBlock]
<1>. DEFINE s == game[p].script
            k == game[p].step
            r == Request(p)
            a == Answer(p, r)
<1>1. /\ k = 1
      /\ Kind(p) = "load" => IsRead(r, DataBlock)
      /\ Kind(p) # "load" => r.cmd = "write"
  BY RequestTable DEF Asked, AsksLoad, AsksSave, AsksStart, AsksStop, IsWrite
<1>2. s[1] = Kind(p) /\ s \in Scripts /\ r = Script(s)[k]
  BY DEF Kind, Request, Asked
<1>3. Len(Script(s)) = 1
  BY <1>2, ScriptTable
<1>4. DataBlock \in Blocks
  BY DEF Blocks
<1>. HIDE DEF s, k, r
<1>5. Kind(p) = "load" => a = image[p][DataBlock] /\ a # NoReply /\ r.cmd = "read"
  BY <1>1, <1>4, AnswerTypes DEF Answer, IsRead, IsStorage, DataBlock, kBlockDetect
<1>. HIDE DEF a
<1>6. ~Refused(s, k, a)
  BY <1>1, <1>2, <1>5 DEF Refused
<1>. QED
  BY <1>1, <1>3, <1>5, <1>6 DEF Takes, s, k, r, a

\* The device and what the game remembers are as they were.
Still(p) == /\ UNCHANGED <<rumble, device, pif, player>>
            /\ game'[p].script = game[p].script

LEMMA StillFacts ==
  ASSUME NEW p \in Ports, Still(p)
  PROVE  /\ rumble' = rumble /\ cell' = cell /\ motor' = motor /\ image' = image
         /\ touched' = touched /\ found' = found /\ shaking' = shaking /\ wrote' = wrote
         /\ motorized' = motorized /\ pif' = pif
         /\ Kind(p)' = Kind(p) /\ present(p)' = present(p)
  BY DEF Still, device, player, Kind, present

LEMMA AdvanceStep ==
  ASSUME IInv, NEW p \in Ports, Asked(p), Still(p), ~Takes(p),
         game[p].step < Len(Script(game[p].script)),
         game'[p].phase = "want", game'[p].step = game[p].step + 1
  PROVE  PortInv(p)'
<1>. DEFINE k == game[p].step
<1>1. /\ rumble' = rumble /\ cell' = cell /\ motor' = motor /\ image' = image
      /\ touched' = touched /\ found' = found /\ shaking' = shaking /\ wrote' = wrote
      /\ Kind(p)' = Kind(p) /\ present(p)' = present(p)
  BY StillFacts
<1>2. /\ game[p].script \in Scripts /\ game'[p].script = game[p].script
      /\ Len(Script(game[p].script)) \in 1 .. 5
  BY RequestTypes DEF Asked, Still
<1>3. k + 1 \in 1 .. Len(Script(game[p].script)) /\ k \in 1 .. 5
  BY <1>2, AskedServed
<1>4. \A n \in 1 .. 5 : Served(p, n)' <=> Served(p, n)
  <2>1. \A n \in 1 .. 5 : Served(p, n)' <=> k + 1 > n
    BY DEF Served
  <2>2. \A n \in 1 .. 5 : k + 1 > n <=> k >= n
    BY <1>3
  <2>. QED
    BY <2>1, <2>2, AskedServed
<1>5. Progress(p) /\ Slot(p) /\ game[p].phase = "asked"
  BY DEF Asked, IInv, PortInv
<1>6. Kind(p) \in {"check", "motor", "gbpak"}
  <2>1. Kind(p) \notin {"load", "save", "start", "stop"}
    <3>1. SUFFICES ASSUME Kind(p) \in {"load", "save", "start", "stop"}
                   PROVE  FALSE
      OBVIOUS
    <3>2. k = 1 /\ Len(Script(game[p].script)) = 1
      BY <3>1, TakesAccess
    <3>. QED
      BY <3>2
  <2>. QED
    BY <1>2, <2>1, Kinds DEF Kind
<1>7. Progress(p)'
  <2>1. CASE Kind(p) = "check"
    <3>1. present(p)
      BY <2>1, <1>3, TakesCheck
    <3>2. /\ Served(p, 2) => cell[p] = 0
          /\ Served(p, 4) => image[p][0] = Pattern
      BY <1>5, <2>1 DEF Progress
    <3>. QED
      BY <1>1, <1>2, <1>3, <1>4, <2>1, <3>1, <3>2 DEF Progress
  <2>2. CASE Kind(p) = "motor"
    <3>1. k + 1 >= 3 => rumble /\ present(p)
      <4>1. k = 2 \/ k >= 3 => rumble /\ present(p)
        BY <2>2, TakesMotor
      <4>. QED
        BY <1>3, <4>1
    <3>2. /\ Served(p, 1) /\ ~Served(p, 3) => cell[p] = 254
          /\ Served(p, 3) => cell[p] = 128
          /\ Served(p, 5) => p \notin motor
      BY <1>5, <2>2 DEF Progress
    <3>3. game'[p].step >= 3 => rumble' /\ present(p)'
      BY <1>1, <3>1
    <3>. QED
      BY <1>1, <1>2, <1>3, <1>4, <2>2, <3>2, <3>3 DEF Progress
  <2>3. CASE Kind(p) = "gbpak"
    <3>1. k + 1 >= 3 => rumble /\ present(p)
      <4>1. k = 2 \/ k >= 3 => rumble /\ present(p)
        BY <2>3, TakesGbpak
      <4>. QED
        BY <1>3, <4>1
    <3>2. /\ Served(p, 1) /\ ~Served(p, 3) => cell[p] = 254
          /\ Served(p, 3) => cell[p] = 132
      BY <1>5, <2>3 DEF Progress
    <3>3. game'[p].step >= 3 => rumble' /\ present(p)'
      BY <1>1, <3>1
    <3>. QED
      BY <1>1, <1>2, <1>3, <1>4, <2>3, <3>2, <3>3 DEF Progress
  <2>. QED
    BY <1>6, <2>1, <2>2, <2>3
<1>8. Slot(p)'
  BY <1>1, <1>5, <1>6 DEF Slot
<1>9. Verdict(p)' /\ Flight(p)'
  BY DEF Verdict, Concludes, Flight, Flying
<1>. QED
  BY <1>7, <1>8, <1>9 DEF PortInv

LEMMA FinishStep ==
  ASSUME IInv, NEW p \in Ports, Asked(p), Still(p),
         game'[p].phase = "done", game'[p].step = game[p].step,
         Takes(p) => game'[p].verdict = FALSE,
         ~Takes(p) => /\ game[p].step = Len(Script(game[p].script))
                      /\ game'[p].verdict = IF Kind(p) = "load" THEN Answer(p, Request(p))
                                            ELSE TRUE
  PROVE  PortInv(p)'
<1>. DEFINE k == game[p].step
<1>1. /\ rumble' = rumble /\ cell' = cell /\ motor' = motor /\ image' = image
      /\ touched' = touched /\ found' = found /\ shaking' = shaking /\ wrote' = wrote
      /\ Kind(p)' = Kind(p) /\ present(p)' = present(p)
  BY StillFacts
<1>2. /\ game[p].script \in Scripts /\ game'[p].script = game[p].script
      /\ k \in 1 .. Len(Script(game[p].script)) /\ k \in 1 .. 5
  BY AskedServed DEF Asked, Still
<1>3. \A n \in 1 .. 5 : Served(p, n)' <=> Served(p, n)
  BY DEF Served, Asked
<1>4. Progress(p) /\ Slot(p) /\ game[p].phase = "asked"
  BY DEF Asked, IInv, PortInv
<1>5. Kind(p) \in {"check", "motor", "gbpak", "load", "start", "stop", "save"}
  BY <1>2, Kinds DEF Kind
<1>6. Kind(p) = "check" => game'[p].verdict = present(p)
  <2>1. SUFFICES ASSUME Kind(p) = "check"
                 PROVE  game'[p].verdict = present(p)
    OBVIOUS
  <2>2. Len(Script(game[p].script)) = 5
    BY <1>2, <2>1, ScriptTable DEF Kind
  <2>3. CASE Takes(p)
    <3>1. ~present(p)
      BY <2>1, <2>3, TakesCheck
    <3>. QED
      BY <2>3, <3>1, Zenon DEF present
  <2>4. CASE ~Takes(p)
    <3>1. present(p)
      BY <2>1, <2>2, <2>4, TakesCheck
    <3>2. game'[p].verdict = TRUE
      BY <2>1, <2>4
    <3>. QED
      BY <3>1, <3>2, Zenon DEF present
  <2>. QED
    BY <2>3, <2>4
<1>7. Kind(p) = "motor" => game'[p].verdict = (rumble /\ present(p))
  <2>1. SUFFICES ASSUME Kind(p) = "motor"
                 PROVE  game'[p].verdict = (rumble /\ present(p))
    OBVIOUS
  <2>2. CASE Takes(p)
    <3>1. ~(rumble /\ present(p))
      BY <2>1, <2>2, TakesMotor
    <3>. QED
      BY <2>2, <3>1, Zenon DEF present
  <2>3. CASE ~Takes(p)
    <3>1. rumble /\ present(p)
      <4>1. k = 5 /\ (k >= 3 => rumble /\ present(p))
        BY <2>1, <2>3, TakesMotor
      <4>. QED
        BY <4>1
    <3>2. game'[p].verdict = TRUE
      BY <2>1, <2>3
    <3>. QED
      BY <3>1, <3>2, Zenon DEF present
  <2>. QED
    BY <2>2, <2>3
<1>8. Kind(p) = "gbpak" => game'[p].verdict = FALSE
  BY TakesGbpak
<1>9. Kind(p) = "motor" /\ game'[p].verdict = TRUE => k = 5
  <2>1. Kind(p) = "motor" /\ ~Takes(p) => k = 5
    BY TakesMotor
  <2>2. Takes(p) => ~(game'[p].verdict = TRUE)
    BY Zenon
  <2>. QED
    BY <2>1, <2>2
<1>10. Kind(p) = "load" => game'[p].verdict = image[p][DataBlock]
  BY TakesAccess
<1>11. Verdict(p)'
  BY <1>1, <1>6, <1>7, <1>8, Zenon DEF Verdict, Concludes, Kind, present
<1>12. Progress(p)'
  <2>1. CASE Kind(p) = "check"
    BY <1>1, <1>2, <1>3, <1>4, <2>1 DEF Progress
  <2>2. CASE Kind(p) = "motor"
    <3>1. /\ Served(p, 1) /\ ~Served(p, 3) => cell[p] = 254
          /\ k >= 3 => rumble /\ present(p)
          /\ Served(p, 3) => cell[p] = 128
          /\ Served(p, 5) => p \notin motor
      BY <1>4, <2>2 DEF Progress
    <3>2. game'[p].step >= 3 => rumble' /\ present(p)'
      BY <1>1, <3>1
    <3>3. game'[p].verdict = TRUE => game'[p].step = 5
      BY <1>9, <2>2
    <3>. QED
      BY <1>1, <1>2, <1>3, <2>2, <3>1, <3>2, <3>3 DEF Progress
  <2>3. CASE Kind(p) = "gbpak"
    BY <1>1, <1>2, <1>3, <1>4, <2>3 DEF Progress
  <2>4. CASE Kind(p) \in {"load", "save", "start", "stop"}
    BY <1>1, <1>2, <1>3, <1>4, <1>10, <2>4 DEF Progress
  <2>. QED
    BY <1>5, <2>1, <2>2, <2>3, <2>4
<1>13. Slot(p)'
  BY <1>1, <1>3, <1>4 DEF Slot
<1>. QED
  BY <1>11, <1>12, <1>13 DEF PortInv, Flight, Flying

\* What a read transfer's end makes of the script.
Taken(p) ==
  LET g == game[p]
  IN  IF Takes(p) THEN [g EXCEPT !.phase = "done", !.verdict = FALSE]
      ELSE IF g.step < Len(Script(g.script))
        THEN [g EXCEPT !.phase = "want", !.step = g.step + 1]
      ELSE [g EXCEPT !.phase = "done",
                     !.verdict = IF Kind(p) = "load" THEN Answer(p, Request(p)) ELSE TRUE]

\* A port lets the semaphore go, or never had it.
LEMMA RestType ==
  ASSUME IInv, NEW p \in Ports, NEW new \in GameType, game' = [game EXCEPT ![p] = new],
         new.phase \notin Flying,
         \/ game[p].phase \in Flying /\ sem' = Free /\ completions' = 0
         \/ game[p].phase \notin Flying /\ sem' = sem /\ completions' = completions,
         UNCHANGED <<rumble, device, pif>>,
         found' \subseteq Ports, motorized' \subseteq Ports, shaking' \subseteq Ports,
         wrote' \in [Ports -> Bytes \cup {NoReply}]
  PROVE  TypeOK' /\ Shapes'
<1>1. game' \in [Ports -> GameType] /\ game'[p] = new /\ \A q \in Ports \ {p} : game'[q] = game[q]
  BY DEF IInv, Shapes, GameType
<1>2. \A q \in Ports :
        /\ game'[q].script \in Scripts \cup {<<"none">>}
        /\ game'[q].phase \in Phases
        /\ game'[q].phase \in Flying <=> sem' = q
  <2>1. SUFFICES ASSUME NEW q \in Ports
                 PROVE  /\ game'[q].script \in Scripts \cup {<<"none">>}
                        /\ game'[q].phase \in Phases
                        /\ game'[q].phase \in Flying <=> sem' = q
    OBVIOUS
  <2>2. game'[q].script \in Scripts \cup {<<"none">>} /\ game'[q].phase \in Phases
    BY <1>1 DEF GameType
  <2>3. CASE game[p].phase \in Flying /\ sem' = Free
    <3>1. sem = p
      BY <2>3, Holders DEF IInv
    <3>2. game'[q].phase \notin Flying
      BY <1>1, <3>1, Holders DEF IInv
    <3>. QED
      BY <2>2, <2>3, <3>2, SiPakAssumption
  <2>4. CASE game[p].phase \notin Flying /\ sem' = sem
    <3>1. game'[q].phase \in Flying <=> sem' = q
      BY <1>1, <2>4, Holders DEF IInv
    <3>. QED
      BY <2>2, <3>1
  <2>. QED
    BY <2>3, <2>4
<1>3. completions' \in {0, 1} /\ sem' \in Ports \cup {Free}
  BY Holders DEF IInv
<1>4. completions' = 1 => sem' # Free /\ game'[sem'].phase \in {"sent", "asked"}
  <2>1. SUFFICES ASSUME completions' = 1
                 PROVE  sem' # Free /\ game'[sem'].phase \in {"sent", "asked"}
    OBVIOUS
  <2>2. game[p].phase \notin Flying /\ sem' = sem /\ completions = 1
    BY <2>1
  <2>3. sem # Free /\ game[sem].phase \in {"sent", "asked"} /\ sem \in Ports
    BY <2>2, Holders DEF IInv
  <2>4. sem # p
    BY <2>2, <2>3, Holders DEF IInv
  <2>. QED
    BY <1>1, <2>2, <2>3, <2>4
<1>5. TypeOK'
  BY <1>2, <1>3, <1>4 DEF IInv, TypeOK, device, Phases, Flying
<1>6. Shapes'
  BY <1>1 DEF IInv, Shapes, GameType, Data
<1>. QED
  BY <1>5, <1>6

LEMMA ReadDoneStep ==
  ASSUME IInv, NEW p \in Ports, ReadDone(p)
  PROVE  IInv'
<1>1. /\ game[p].phase = "asked" /\ completions > 0
      /\ completions' = completions - 1 /\ sem' = Free
      /\ UNCHANGED <<rumble, device, pif, player>>
  BY DEF ReadDone
<1>2. completions' = 0
  BY <1>1, Holders DEF IInv
<1>3. pif.answer = Answer(p, Request(p))
  BY <1>1 DEF IInv, PortInv, Flight, Flying
<1>4. Asked(p)
  BY <1>1, Running DEF IInv, PortInv, Asked
<1>5. game' = [game EXCEPT ![p] = Taken(p)]
  BY <1>3 DEF ReadDone, Taken, Takes, Kind
<1>6. game \in [Ports -> GameType] /\ game[p] \in GameType
  BY DEF IInv, Shapes, GameType
<1>7. game'[p] = Taken(p) /\ \A q \in Ports \ {p} : game'[q] = game[q]
  BY <1>5, <1>6
<1>8. Taken(p) \in GameType /\ Taken(p).phase \in {"want", "done"}
  <2>1. CASE Takes(p)
    <3>1. Taken(p) = [game[p] EXCEPT !.phase = "done", !.verdict = FALSE]
      BY <2>1 DEF Taken
    <3>2. PICK no : no = FALSE
      OBVIOUS
    <3>3. no \in BOOLEAN \cup Bytes \cup {NoReply}
      BY <3>2, Zenon
    <3>4. [game[p] EXCEPT !.phase = "done", !.verdict = no] \in GameType
      BY <1>6, <3>3 DEF GameType, Phases
    <3>5. [game[p] EXCEPT !.phase = "done", !.verdict = no].phase = "done"
      BY <1>6 DEF GameType
    <3>. QED
      BY <3>1, <3>2, <3>4, <3>5, Zenon
  <2>2. CASE ~Takes(p) /\ game[p].step < Len(Script(game[p].script))
    <3>1. Taken(p) = [game[p] EXCEPT !.phase = "want", !.step = game[p].step + 1]
      BY <2>2 DEF Taken
    <3>2. PICK next \in Nat : next = game[p].step + 1
      BY <1>6 DEF GameType
    <3>3. [game[p] EXCEPT !.phase = "want", !.step = next] \in GameType
      BY <1>6 DEF GameType, Phases
    <3>4. [game[p] EXCEPT !.phase = "want", !.step = next].phase = "want"
      BY <1>6 DEF GameType
    <3>. QED
      BY <3>1, <3>2, <3>3, <3>4
  <2>3. CASE ~Takes(p) /\ ~(game[p].step < Len(Script(game[p].script)))
    <3>1. Kind(p) = "load" => Answer(p, Request(p)) \in Bytes
      <4>1. Kind(p) = "load" => Answer(p, Request(p)) = image[p][DataBlock]
        BY <1>4, TakesAccess
      <4>2. image[p][DataBlock] \in Bytes
        BY DEF IInv, TypeOK, Blocks
      <4>. QED
        BY <4>1, <4>2
    <3>2. Taken(p) = [game[p] EXCEPT !.phase = "done",
                        !.verdict = IF Kind(p) = "load" THEN Answer(p, Request(p)) ELSE TRUE]
      BY <2>3 DEF Taken
    <3>3. (IF Kind(p) = "load" THEN Answer(p, Request(p)) ELSE TRUE)
             \in BOOLEAN \cup Bytes \cup {NoReply}
      BY <3>1
    <3>. QED
      BY <1>6, <3>2, <3>3 DEF GameType, Phases
  <2>. QED
    BY <2>1, <2>2, <2>3
<1>9. TypeOK' /\ Shapes'
  <2>1. Taken(p).phase \notin Flying /\ game[p].phase \in Flying
    BY <1>1, <1>8 DEF Flying
  <2>2. /\ found' \subseteq Ports /\ motorized' \subseteq Ports /\ shaking' \subseteq Ports
        /\ wrote' \in [Ports -> Bytes \cup {NoReply}]
    BY <1>1 DEF IInv, TypeOK, player
  <2>3. UNCHANGED <<rumble, device, pif>>
    BY <1>1
  <2>. QED
    BY <1>1, <1>2, <1>5, <1>8, <2>1, <2>2, <2>3, RestType
<1>10. \A q \in Ports \ {p} : PortInv(q)'
  <2>1. SUFFICES ASSUME NEW q \in Ports \ {p}
                 PROVE  PortInv(q)'
    OBVIOUS
  <2>2. game[q].phase \notin Flying
    BY <1>1, Holders DEF IInv, Flying
  <2>. QED
    BY <1>1, <1>7, <2>2, OthersKeep DEF IInv, Keeps, device, player
<1>11. game'[p].script = game[p].script /\ Still(p)
  <2>1. Taken(p).script = game[p].script
    BY <1>6 DEF Taken, GameType
  <2>. QED
    BY <1>1, <1>7, <2>1 DEF Still
<1>12. PortInv(p)'
  <2>1. CASE Takes(p)
    <3>1. game'[p] = [game[p] EXCEPT !.phase = "done", !.verdict = FALSE]
      BY <1>7, <2>1 DEF Taken
    <3>2. game'[p].phase = "done" /\ game'[p].step = game[p].step /\ game'[p].verdict = FALSE
      BY <1>6, <3>1 DEF GameType
    <3>. QED
      BY <1>4, <1>11, <2>1, <3>2, FinishStep
  <2>2. CASE ~Takes(p) /\ game[p].step < Len(Script(game[p].script))
    <3>1. game'[p] = [game[p] EXCEPT !.phase = "want", !.step = game[p].step + 1]
      BY <1>7, <2>2 DEF Taken
    <3>2. game'[p].phase = "want" /\ game'[p].step = game[p].step + 1
      BY <1>6, <3>1 DEF GameType
    <3>. QED
      BY <1>4, <1>11, <2>2, <3>2, AdvanceStep
  <2>3. CASE ~Takes(p) /\ ~(game[p].step < Len(Script(game[p].script)))
    <3>1. game'[p] = [game[p] EXCEPT !.phase = "done",
                        !.verdict = IF Kind(p) = "load" THEN Answer(p, Request(p)) ELSE TRUE]
      BY <1>7, <2>3 DEF Taken
    <3>2. /\ game'[p].phase = "done" /\ game'[p].step = game[p].step
          /\ game'[p].verdict = IF Kind(p) = "load" THEN Answer(p, Request(p)) ELSE TRUE
      BY <1>6, <3>1 DEF GameType
    <3>3. game[p].step = Len(Script(game[p].script))
      <4>1. /\ Len(Script(game[p].script)) \in Nat
            /\ game[p].step \in 1 .. Len(Script(game[p].script))
        BY <1>4, RequestTypes DEF Asked
      <4>. QED
        BY <2>3, <4>1
    <3>. QED
      BY <1>4, <1>11, <2>3, <3>2, <3>3, FinishStep
  <2>. QED
    BY <2>1, <2>2, <2>3
<1>. QED
  BY <1>9, <1>10, <1>12 DEF IInv

-----------------------------------------------------------------------------
LEMMA BeginStep ==
  ASSUME IInv, NEW p \in Ports, NEW s \in Scripts, Begin(p, s)
  PROVE  IInv'
<1>. DEFINE new == [script |-> s, step |-> 1, phase |-> "want", verdict |-> NoReply]
<1>1. /\ game[p] = Resting
      /\ s[1] \in {"load", "save"} => p \in found
      /\ game' = [game EXCEPT ![p] = new]
      /\ UNCHANGED <<rumble, device, wire, player>>
  BY DEF Begin
<1>2. /\ rumble' = rumble /\ cell' = cell /\ motor' = motor /\ image' = image
      /\ touched' = touched /\ found' = found /\ shaking' = shaking /\ wrote' = wrote
      /\ motorized' = motorized /\ pif' = pif /\ sem' = sem /\ completions' = completions
  BY <1>1 DEF device, wire, player
<1>3. new \in GameType /\ new.phase \notin Flying /\ game[p].phase \notin Flying
  BY <1>1 DEF GameType, Phases, Flying, Resting
<1>4. /\ game'[p].script = s /\ game'[p].step = 1 /\ game'[p].phase = "want"
      /\ \A q \in Ports \ {p} : game'[q] = game[q]
  BY <1>1 DEF IInv, Shapes
<1>5. TypeOK' /\ Shapes'
  <2>1. /\ found' \subseteq Ports /\ motorized' \subseteq Ports /\ shaking' \subseteq Ports
        /\ wrote' \in [Ports -> Bytes \cup {NoReply}]
    BY <1>2 DEF IInv, TypeOK
  <2>2. UNCHANGED <<rumble, device, pif>>
    BY <1>2 DEF device
  <2>. HIDE DEF new
  <2>. QED
    BY <1>1, <1>2, <1>3, <2>1, <2>2, RestType
<1>6. \A q \in Ports \ {p} : PortInv(q)'
  BY <1>2, <1>4, OthersKeep DEF IInv, Keeps
<1>7. Kind(p) = "none" /\ Kind(p)' = s[1]
  BY <1>1, <1>4 DEF Kind, Resting
<1>8. \A n \in 1 .. 5 : ~Served(p, n)'
  BY <1>4 DEF Served
<1>9. Slot(p)'
  BY <1>2, <1>7 DEF IInv, PortInv, Slot, present
<1>10. Progress(p)'
  <2>1. 1 \in 1 .. Len(Script(s))
    BY RequestTypes
  <2>2. s[1] \in {"load", "save"} => present(p)'
    BY <1>1, <1>2 DEF IInv, PortInv, Slot, present
  <2>. QED
    BY <1>4, <1>7, <1>8, <2>1, <2>2 DEF Progress
<1>11. Verdict(p)' /\ Flight(p)'
  BY <1>4 DEF Verdict, Concludes, Flight, Flying
<1>. QED
  BY <1>5, <1>6, <1>9, <1>10, <1>11 DEF IInv, PortInv

LEMMA ConcludeStep ==
  ASSUME IInv, NEW p \in Ports, Conclude(p)
  PROVE  IInv'
<1>. DEFINE s == game[p].script
            yes == game[p].verdict = TRUE
<1>1. /\ game[p].phase = "done"
      /\ found' = IF s[1] # "check" THEN found
                  ELSE IF yes THEN found \cup {p} ELSE found \ {p}
      /\ motorized' = IF s[1] = "motor" /\ yes THEN motorized \cup {p} ELSE motorized
      /\ wrote' = IF s[1] = "save" THEN [wrote EXCEPT ![p] = s[2]] ELSE wrote
      /\ shaking' = IF s[1] = "start" THEN shaking \cup {p}
                    ELSE IF s[1] = "stop" \/ (s[1] = "motor" /\ yes) THEN shaking \ {p}
                    ELSE shaking
      /\ game' = [game EXCEPT ![p] = Resting]
      /\ UNCHANGED <<rumble, device, wire>>
  BY DEF Conclude
<1>2. /\ rumble' = rumble /\ cell' = cell /\ motor' = motor /\ image' = image
      /\ touched' = touched /\ pif' = pif /\ sem' = sem /\ completions' = completions
  BY <1>1 DEF device, wire
<1>3. Progress(p) /\ Slot(p) /\ Verdict(p)
  BY DEF IInv, PortInv
<1>4. /\ s \in Scripts /\ Kind(p) = s[1]
      /\ s[1] = "save" => s[2] \in Bytes
  BY <1>1, <1>3, Running, Kinds DEF Kind
<1>5. /\ Resting \in GameType /\ Resting.phase \notin Flying /\ game[p].phase \notin Flying
  BY <1>1 DEF GameType, Phases, Flying, Resting
<1>6. /\ game'[p] = Resting /\ \A q \in Ports \ {p} : game'[q] = game[q]
  BY <1>1 DEF IInv, Shapes
<1>7. TypeOK' /\ Shapes'
  <2>1. /\ found' \subseteq Ports /\ motorized' \subseteq Ports /\ shaking' \subseteq Ports
    BY <1>1 DEF IInv, TypeOK
  <2>2. wrote' \in [Ports -> Bytes \cup {NoReply}]
    BY <1>1, <1>4 DEF IInv, TypeOK
  <2>3. UNCHANGED <<rumble, device, pif>>
    BY <1>2 DEF device
  <2>. QED
    BY <1>1, <1>2, <1>5, <2>1, <2>2, <2>3, RestType
<1>8. \A q \in Ports \ {p} : PortInv(q)'
  <2>1. SUFFICES ASSUME NEW q \in Ports \ {p}
                 PROVE  PortInv(q)'
    OBVIOUS
  <2>2. /\ q \in found' <=> q \in found
        /\ q \in shaking' <=> q \in shaking
    BY <1>1
  <2>3. wrote'[q] = wrote[q]
    BY <1>1 DEF IInv, TypeOK
  <2>. QED
    BY <1>2, <1>6, <2>2, <2>3, OthersKeep DEF IInv, Keeps
<1>9. p \in found' => present(p)
  <2>1. s[1] = "check" /\ yes => present(p)
    BY <1>1, <1>3, <1>4, Zenon DEF Verdict, Concludes, Kind
  <2>2. p \in found => present(p)
    BY <1>3 DEF Slot
  <2>. QED
    BY <1>1, <2>1, <2>2
<1>10. p \in motor => p \in shaking'
  <2>1. s[1] = "stop" => p \notin motor
    <3>1. s[1] = "stop" => Served(p, 1)
      <4>1. s[1] = "stop" => game[p].step = 1
        BY <1>1, <1>3, <1>4, Running, RequestTable DEF AsksStop
      <4>. QED
        BY <1>1, <4>1 DEF Served
    <3>. QED
      BY <1>1, <1>3, <1>4, <3>1 DEF Progress
  <2>2. s[1] = "motor" /\ yes => p \notin motor
    <3>1. s[1] = "motor" /\ yes => game[p].step = 5
      BY <1>1, <1>3, <1>4 DEF Progress
    <3>2. s[1] = "motor" /\ yes => Served(p, 5)
      BY <1>1, <3>1 DEF Served
    <3>. QED
      BY <1>1, <1>3, <1>4, <3>2 DEF Progress
  <2>3. p \in motor => p \in shaking \/ s[1] = "start"
    BY <1>3, <1>4 DEF Slot
  <2>. QED
    BY <1>1, <2>1, <2>2, <2>3
<1>11. wrote'[p] # NoReply => image[p][DataBlock] = wrote'[p]
  <2>1. CASE s[1] = "save"
    <3>1. game[p].step = 1
      BY <1>1, <1>3, <1>4, <2>1, Running, RequestTable DEF AsksSave
    <3>2. Served(p, 1)
      BY <1>1, <3>1 DEF Served
    <3>3. image[p][DataBlock] = s[2]
      BY <1>1, <1>3, <1>4, <2>1, <3>2 DEF Progress
    <3>4. wrote'[p] = s[2]
      BY <1>1, <2>1 DEF IInv, TypeOK
    <3>. QED
      BY <3>3, <3>4
  <2>2. CASE s[1] # "save"
    BY <1>1, <1>3, <1>4, <2>2 DEF Slot
  <2>. QED
    BY <2>1, <2>2
<1>12. Slot(p)'
  <2>1. Kind(p)' = "none"
    BY <1>6 DEF Kind, Resting
  <2>2. p \in motor => rumble /\ present(p)
    BY <1>3 DEF Slot
  <2>3. p \in touched => present(p)
    BY <1>3 DEF Slot
  <2>4. present(p)' = present(p)
    BY DEF present
  <2>. QED
    BY <1>2, <1>9, <1>10, <1>11, <2>1, <2>2, <2>3, <2>4 DEF Slot
<1>13. Progress(p)' /\ Verdict(p)' /\ Flight(p)'
  BY <1>6 DEF Progress, Verdict, Concludes, Flight, Flying, Resting
<1>. QED
  BY <1>7, <1>8, <1>12, <1>13 DEF IInv, PortInv

LEMMA InitInv ==
  ASSUME Init
  PROVE  IInv
<1>1. /\ \A p \in Ports : game[p] = Resting
      /\ game \in [Ports -> GameType]
  BY DEF Init, GameType, Resting, Phases
<1>2. pif = NoFrame /\ NoFrame \in [bytes : Seq(Nat), block : Nat, data : Data, answer : Data]
  BY DEF Init, NoFrame, Data
<1>3. TypeOK
  <2>1. \A p \in Ports :
          /\ game[p].script \in Scripts \cup {<<"none">>}
          /\ game[p].phase = "rest" /\ sem # p
    BY <1>1, SiPakAssumption DEF Init, Resting
  <2>2. completions = 0 /\ sem = Free
    BY DEF Init
  <2>. QED
    BY <2>1, <2>2 DEF Init, TypeOK, Banks
<1>4. Shapes
  BY <1>1, <1>2 DEF Shapes, GameType
<1>5. ASSUME NEW p \in Ports
      PROVE  PortInv(p)
  <2>1. game[p].phase = "rest" /\ motor = {} /\ touched = {} /\ found = {}
    BY <1>1 DEF Init, Resting
  <2>2. wrote[p] = NoReply
    BY DEF Init
  <2>. QED
    BY <2>1, <2>2 DEF PortInv, Flight, Flying, Progress, Slot, Verdict, Concludes
<1>. QED
  BY <1>3, <1>4, <1>5 DEF IInv

LEMMA NextInv ==
  ASSUME IInv, [Next]_vars
  PROVE  IInv'
<1>1. ASSUME NEW p \in Ports, NEW s \in Scripts, Begin(p, s)
      PROVE  IInv'
  BY <1>1, BeginStep
<1>2. ASSUME NEW p \in Ports, GetAccess(p)
      PROVE  IInv'
  BY <1>2, GetAccessStep
<1>3. ASSUME NEW p \in Ports, WriteHalf(p)
      PROVE  IInv'
  BY <1>3, WriteHalfStep
<1>4. ASSUME NEW p \in Ports, WriteDone(p)
      PROVE  IInv'
  BY <1>4, WriteDoneStep
<1>5. ASSUME NEW p \in Ports, ReadHalf(p)
      PROVE  IInv'
  BY <1>5, ReadHalfStep
<1>6. ASSUME NEW p \in Ports, ReadDone(p)
      PROVE  IInv'
  BY <1>6, ReadDoneStep
<1>7. ASSUME NEW p \in Ports, Conclude(p)
      PROVE  IInv'
  BY <1>7, ConcludeStep
<1>8. CASE Unfocus
  BY <1>8, UnfocusStep
<1>9. CASE UNCHANGED vars
  <2>1. /\ UNCHANGED <<rumble, cell, motor, image, touched, completions, pif, sem, game>>
        /\ UNCHANGED <<found, motorized, wrote, shaking>>
    BY <1>9 DEF vars, device, wire, player
  <2>2. TypeOK'
    BY <2>1 DEF IInv, TypeOK
  <2>3. Shapes'
    BY <2>1 DEF IInv, Shapes, Data
  <2>4. \A q \in Ports : PortInv(q)'
    BY <2>1, OthersKeep DEF IInv, Keeps
  <2>. QED
    BY <2>2, <2>3, <2>4 DEF IInv
<1>. QED
  BY <1>1, <1>2, <1>3, <1>4, <1>5, <1>6, <1>7, <1>8, <1>9 DEF Next, ClientStep

LEMMA Invariant == Spec => []IInv
  BY InitInv, NextInv, PTL DEF Spec

-----------------------------------------------------------------------------
\* Every variable stays in its range, only the port with the semaphore is in a
\* transfer, and no completion is left over for one not yet started.
THEOREM TypeCorrect == Spec => []TypeOK
<1>1. IInv => TypeOK
  BY DEF IInv
<1>. QED
  BY <1>1, Invariant, PTL

\* Whatever the identify register held and however the ports take turns, each
\* check and probe ends with the answer its slot should give.
THEOREM ProbesTell == Spec => []VerdictsRight
<1>1. IInv => VerdictsRight
  BY Zenon DEF IInv, PortInv, Verdict, VerdictsRight
<1>. QED
  BY <1>1, Invariant, PTL

\* The game reads back the notes it saved last: nothing a check or a probe
\* writes, on this port or on another, reaches them.
THEOREM NotesKept == Spec => []LoadsSeeSaves
<1>1. ASSUME IInv, NEW p \in Ports, Concludes(p, "load"), wrote[p] # NoReply
      PROVE  game[p].verdict = wrote[p]
  <2>1. Progress(p) /\ Slot(p)
    BY <1>1 DEF IInv, PortInv
  <2>2. Kind(p) = "load" /\ game[p].phase = "done"
    BY <1>1 DEF Concludes, Kind
  <2>3. game[p].verdict = image[p][DataBlock]
    BY <2>1, <2>2 DEF Progress
  <2>4. image[p][DataBlock] = wrote[p]
    BY <1>1, <2>1, <2>2 DEF Slot
  <2>. QED
    BY <2>3, <2>4
<1>2. IInv => LoadsSeeSaves
  BY <1>1 DEF LoadsSeeSaves
<1>. QED
  BY <1>2, Invariant, PTL

\* The port serves any slot's storage, but the game never asks an empty one.
THEOREM EmptySlotsKept == Spec => []EmptySlotsUntouched
<1>1. IInv => EmptySlotsUntouched
  BY DEF IInv, TypeOK, PortInv, Slot, EmptySlotsUntouched
<1>. QED
  BY <1>1, Invariant, PTL

\* The motor runs only where the game started it and has not stopped it.
THEOREM MotorObeys == Spec => []MotorFollowsGame
<1>1. IInv => MotorFollowsGame
  BY DEF IInv, TypeOK, PortInv, Slot, Kind, MotorFollowsGame
<1>. QED
  BY <1>1, Invariant, PTL
=============================================================================
