---- MODULE DevicesProofs ----
(***************************************************************************)
(* What is proved about the devices of MCDevices, each for its own         *)
(* specification and for any values of its constants, about their          *)
(* composition, and about the frames of OpenTherm.                         *)
(***************************************************************************)
EXTENDS MCDevices, OtFrame, FiniteSetTheorems, WellFoundedInduction, TLAPS

----
\* The frames of OpenTherm, of any number of bits.

\* The line of a frame with the halves of a bit turned around
Noise(f, b, halves) ==
    {h \in FrameBits \X {1, 2} :
        (h \in ManchesterEncode(f, FALSE)) # (h[1] = b /\ h[2] \in halves)}

\* There is noise in one bit at most.
OneNoise ==
    /\ sent \in SUBSET DataBits
    /\ \/ line = ManchesterEncode(FrameEncode(sent), FALSE)
       \/ \E b \in FrameBits, halves \in SUBSET {1, 2} :
             line = Noise(FrameEncode(sent), b, halves)

\* One bit more changes the parity.
LEMMA ParityChanges ==
    ASSUME NEW S, IsFiniteSet(S), NEW x, x \notin S
    PROVE  IsFiniteSet(S \cup {x}) /\ (Odd(S \cup {x}) <=> ~Odd(S))
<1>1. IsFiniteSet(S \cup {x}) /\ Cardinality(S \cup {x}) = Cardinality(S) + 1
  BY FS_AddElement
<1>2. Cardinality(S) \in Nat
  BY FS_CardinalityType
<1>3. \A n \in Nat : (n + 1) % 2 = 1 <=> ~(n % 2 = 1)
  OBVIOUS
<1> QED
  BY <1>1, <1>2, <1>3 DEF Odd

\* A frame that is sent has an even parity.
LEMMA EncodedIsEven ==
    ASSUME NEW d \in SUBSET DataBits
    PROVE  /\ FrameEncode(d) \in SUBSET FrameBits /\ IsFiniteSet(FrameEncode(d))
           /\ FrameValid(FrameEncode(d)) /\ FrameDecode(FrameEncode(d)) = d
<1>1. IsFiniteSet(d) /\ Parity \notin d
  BY FrameAssumption, FS_Subset
<1> QED
  BY <1>1, ParityChanges DEF FrameEncode, FrameBits, FrameValid, FrameDecode

\* The halves of a bit on the line
LEMMA EncodedBit ==
    ASSUME NEW f \in SUBSET FrameBits, NEW b \in FrameBits
    PROVE  /\ <<b, 1>> \in ManchesterEncode(f, FALSE) <=> b \in f
           /\ <<b, 2>> \in ManchesterEncode(f, FALSE) <=> b \notin f
<1>1. <<b, 1>> \in ManchesterEncode(f, FALSE)
          <=> ((<<b, 1>>[2] = 1) # (FALSE # (<<b, 1>>[1] \notin f)))
  BY DEF ManchesterEncode
<1>2. <<b, 2>> \in ManchesterEncode(f, FALSE)
          <=> ((<<b, 2>>[2] = 1) # (FALSE # (<<b, 2>>[1] \notin f)))
  BY DEF ManchesterEncode
<1>3. ((<<b, 1>>[2] = 1) # (FALSE # (<<b, 1>>[1] \notin f))) <=> b \in f
  OBVIOUS
<1>4. ((<<b, 2>>[2] = 1) # (FALSE # (<<b, 2>>[1] \notin f))) <=> b \notin f
  <2>1. (<<b, 2>>[2] = 1) = FALSE /\ <<b, 2>>[1] = b
    OBVIOUS
  <2>2. CASE b \in f
    BY <2>1, <2>2
  <2>3. CASE b \notin f
    BY <2>1, <2>3
  <2> QED
    BY <2>2, <2>3
<1> QED
  BY <1>1, <1>2, <1>3, <1>4

\* A bit that is decoded is the first half of it.
LEMMA DecodedBit ==
    ASSUME NEW l, NEW b \in FrameBits
    PROVE  b \in ManchesterDecode(l, FALSE) <=> <<b, 1>> \in l
<1>1. b \in ManchesterDecode(l, FALSE) <=> ((<<b, 1>> \in l) # FALSE)
  BY DEF ManchesterDecode
<1>2. CASE <<b, 1>> \in l
  BY <1>1, <1>2
<1>3. CASE <<b, 1>> \notin l
  <2>1. (<<b, 1>> \in l) = FALSE
    BY <1>3
  <2> QED
    BY <1>1, <1>3, <2>1
<1> QED
  BY <1>2, <1>3

\* Without noise the frame comes back.
LEMMA DecodeEncode ==
    ASSUME NEW f \in SUBSET FrameBits
    PROVE  /\ ManchesterValid(ManchesterEncode(f, FALSE))
           /\ ManchesterDecode(ManchesterEncode(f, FALSE), FALSE) = f
<1> DEFINE l == ManchesterEncode(f, FALSE)
<1>1. \A b \in FrameBits : (<<b, 1>> \in l <=> b \in f) /\ (<<b, 2>> \in l <=> b \notin f)
  BY EncodedBit
<1> HIDE DEF l
<1>2. ManchesterValid(l)
  BY <1>1 DEF ManchesterValid
<1>4. ManchesterDecode(l, FALSE) = f
  BY <1>1, DecodedBit DEF ManchesterDecode
<1> QED
  BY <1>2, <1>4 DEF l

\* The halves of a bit on a line with noise
LEMMA NoisyBit ==
    ASSUME NEW f \in SUBSET FrameBits, NEW b \in FrameBits, NEW halves \in SUBSET {1, 2},
           NEW a \in FrameBits
    PROVE  /\ <<a, 1>> \in Noise(f, b, halves) <=> ((a \in f) # (a = b /\ 1 \in halves))
           /\ <<a, 2>> \in Noise(f, b, halves) <=> ((a \notin f) # (a = b /\ 2 \in halves))
<1> DEFINE l == ManchesterEncode(f, FALSE)
<1>1. <<a, 1>> \in l <=> a \in f
  BY EncodedBit
<1>2. <<a, 2>> \in l <=> a \notin f
  BY EncodedBit
<1> HIDE DEF l
<1>3. <<a, 1>> \in Noise(f, b, halves)
          <=> ((<<a, 1>> \in l) # (<<a, 1>>[1] = b /\ <<a, 1>>[2] \in halves))
  BY DEF Noise, l
<1>4. <<a, 2>> \in Noise(f, b, halves)
          <=> ((<<a, 2>> \in l) # (<<a, 2>>[1] = b /\ <<a, 2>>[2] \in halves))
  BY DEF Noise, l
<1>5. <<a, 1>>[1] = a /\ <<a, 1>>[2] = 1 /\ <<a, 2>>[1] = a /\ <<a, 2>>[2] = 2
  OBVIOUS
<1>6. <<a, 1>> \in Noise(f, b, halves) <=> ((a \in f) # (a = b /\ 1 \in halves))
  BY <1>1, <1>3, <1>5
<1>7. <<a, 2>> \in Noise(f, b, halves) <=> ((a \notin f) # (a = b /\ 2 \in halves))
  BY <1>2, <1>4, <1>5
<1> QED
  BY <1>6, <1>7

\* A bit turned around as a whole is seen by the parity, a half by the code.
LEMMA NoiseIsSeen ==
    ASSUME NEW f \in SUBSET FrameBits, IsFiniteSet(f), FrameValid(f),
           NEW b \in FrameBits, NEW halves \in SUBSET {1, 2},
           Accepted(Noise(f, b, halves))
    PROVE  ManchesterDecode(Noise(f, b, halves), FALSE) = f
<1> DEFINE l == Noise(f, b, halves)
           d == ManchesterDecode(l, FALSE)
<1>1. (1 \in halves) <=> (2 \in halves)
  <2>1. (<<b, 1>> \in l) # (<<b, 2>> \in l)
    BY DEF Accepted, ManchesterValid
  <2>2. <<b, 1>> \in l <=> ((b \in f) # (b = b /\ 1 \in halves))
    BY NoisyBit
  <2>3. <<b, 2>> \in l <=> ((b \notin f) # (b = b /\ 2 \in halves))
    BY NoisyBit
  <2> HIDE DEF l
  <2> QED
    BY <2>1, <2>2, <2>3
<1>2. \A a \in FrameBits : a \in d <=> <<a, 1>> \in l
  BY DecodedBit
<1>3. \A a \in FrameBits : <<a, 1>> \in l <=> ((a \in f) # (a = b /\ 1 \in halves))
  BY NoisyBit
<1>4. d \subseteq FrameBits /\ FrameValid(d)
  BY DEF ManchesterDecode, Accepted
<1> HIDE DEF l, d
<1>5. CASE 1 \notin halves
  <2>1. \A a \in FrameBits : a \in d <=> a \in f
    <3>1. ASSUME NEW a \in FrameBits PROVE <<a, 1>> \in l <=> a \in f
      <4>1. <<a, 1>> \in l <=> ((a \in f) # FALSE)
        BY <1>3, <1>5
      <4>2. CASE a \in f
        BY <4>1, <4>2
      <4>3. CASE a \notin f
        <5>1. (a \in f) = FALSE
          BY <4>3
        <5> QED
          BY <4>1, <4>3, <5>1
      <4> QED
        BY <4>2, <4>3
    <3> QED
      BY <1>2, <3>1
  <2>2. d = f
    BY <1>4, <2>1
  <2> QED
    BY <2>2 DEF d, l
<1>6. CASE 1 \in halves
  <2>1. \A a \in FrameBits : a \in d <=> ((a \in f) # (a = b))
    BY <1>2, <1>3, <1>6
  <2>2. CASE b \in f
    <3>1. \A a \in FrameBits : a \in d <=> (a \in f /\ a # b)
      BY <2>1, <2>2
    <3>2. f = d \cup {b} /\ b \notin d /\ d \subseteq f
      BY <1>4, <2>2, <3>1
    <3>3. IsFiniteSet(d)
      BY <3>2, FS_Subset
    <3> QED
      BY <1>4, <3>2, <3>3, ParityChanges DEF FrameValid
  <2>3. CASE b \notin f
    <3>1. \A a \in FrameBits : a \in d <=> (a \in f \/ a = b)
      BY <2>1, <2>3
    <3>2. d = f \cup {b}
      BY <1>4, <2>3, <3>1
    <3> QED
      BY <1>4, <2>3, <3>2, ParityChanges DEF FrameValid
  <2> QED
    BY <2>2, <2>3
<1> QED
  BY <1>5, <1>6

\* What opentherm_exchange_run() takes is what the boiler has sent, with noise in
\* any one bit (opentherm_frame_decode, manchester_decode).
THEOREM TakenIsSent == FrameSpec => []AcceptedIsSent
<1>1. FrameInit => OneNoise
  BY DEF FrameInit, OneNoise
<1>2. OneNoise /\ [FrameNext]_frameVars => OneNoise'
  <2> SUFFICES ASSUME OneNoise, [FrameNext]_frameVars PROVE OneNoise'
    OBVIOUS
  <2>1. ASSUME NEW b \in FrameBits, NEW halves \in SUBSET {1, 2}, Corrupt(b, halves)
        PROVE  OneNoise'
    <3>1. line' = Noise(FrameEncode(sent), b, halves) /\ sent' = sent
      BY <2>1 DEF Corrupt, Noise
    <3>2. line' = Noise(FrameEncode(sent'), b, halves)
      BY <3>1
    <3> QED
      BY <3>1, <3>2 DEF OneNoise
  <2>2. CASE UNCHANGED frameVars
    BY <2>2 DEF frameVars, OneNoise
  <2> QED
    BY <2>1, <2>2 DEF FrameNext
<1>3. OneNoise => AcceptedIsSent
  <2> SUFFICES ASSUME OneNoise PROVE AcceptedIsSent
    OBVIOUS
  <2>f. PICK f : f = FrameEncode(sent)
    OBVIOUS
  <2>1. /\ f \in SUBSET FrameBits /\ IsFiniteSet(f)
        /\ FrameValid(f) /\ FrameDecode(f) = sent
    BY <2>f, EncodedIsEven DEF OneNoise
  <2>2. ManchesterValid(ManchesterEncode(f, FALSE))
        /\ ManchesterDecode(ManchesterEncode(f, FALSE), FALSE) = f
    BY <2>1, DecodeEncode
  <2>3. Accepted(line) => ManchesterDecode(line, FALSE) = f
    BY <2>f, <2>1, <2>2, NoiseIsSeen DEF OneNoise
  <2> QED
    BY <2>f, <2>1, <2>2, <2>3 DEF AcceptedIsSent, Accepted, FrameTaken
<1> QED
  BY <1>1, <1>2, <1>3, PTL DEF FrameSpec
----
\* The OpenTherm master.

Boiler == [on : BOOLEAN, knows : BoilerKinds, ch : {0, 1}, tset : Points, astray : BOOLEAN]
Master == [attached : BOOLEAN, age : 0..(Dead + 1), finds : 0..MaxFinds,
           static : BOOLEAN, supported : [Cmds -> 0..Supported]]
Settings == [ch : {0, 1}, desired : SetPoints, actual : Points,
             min : {0, RangeMin}, max : {0, RangeMax}]
Xch == [cmd : Cmds, go : BOOLEAN, send : Points \cup {0, 1}, tries : 1..MaxRetries,
        lost : BOOLEAN, mute : BOOLEAN]

\* What is sent is of the kind the command takes.
Payload(x) ==
    /\ x.cmd = "status" => x.send \in {0, 1}
    /\ x.cmd = "ch" => x.send \in Points

\* An exchange under way: its command has not been written off, and a command that
\* has spoilt an attempt has heard from the boiler, or has not found it dead.
UnderWay ==
    xch # NoXch => /\ Payload(xch)
                   /\ xch.go => ot.supported[xch.cmd] > 0
                   /\ ot.attached /\ xch.lost => ot.age <= Dead

OtInv == OtTypeOK /\ UnderWay

\* The temperatures that a frame can say: 0 is one, and the set point that is asked for
\* becomes one.
LEMMA PointsOfFrames ==
    /\ 0 \in SetPoints /\ 0 \in Points
    /\ \A t \in SetPoints : Fixed(t) \in Points
<1>1. 0 \in SetPoints
  BY DEF SetPoints
<1>2. Fixed(0) = 0
  BY OtAssumption DEF Fixed
<1> QED
  BY <1>1, <1>2 DEF Points

\* The types of the master, by their parts.
LEMMA OtTypes ==
    OtTypeOK <=> /\ boiler \in Boiler /\ ot \in Master /\ set \in Settings
                 /\ xch \in {NoXch} \cup Xch
BY DEF OtTypeOK, Boiler, Master, Settings, Xch

\* The invariant of the master holds at first.
LEMMA OtInvInit == OtInit => OtInv
<1> SUFFICES ASSUME OtInit PROVE OtInv
  OBVIOUS
<1>1. boiler \in Boiler
  BY PointsOfFrames DEF OtInit, Boiler
<1>2. ot \in Master
  <2>1. 0 \in 0..(Dead + 1) /\ 0 \in 0..MaxFinds /\ Supported \in 0..Supported
    BY OtAssumption
  <2>2. [c \in Cmds |-> Supported] \in [Cmds -> 0..Supported]
    BY <2>1
  <2> QED
    BY <2>1, <2>2 DEF OtInit, Master
<1>3. set \in Settings
  BY OtAssumption, PointsOfFrames DEF OtInit, Settings, SetPoints
<1>4. xch = NoXch
  BY DEF OtInit
<1> QED
  BY <1>1, <1>2, <1>3, <1>4, OtTypes DEF OtInv, UnderWay

\* The next exchange of opentherm_dev_run(), if any, is a new one.
LEMMA ExchangeNew ==
    ASSUME ot' \in Master, NEW c \in Cmds, NEW n \in Points \cup {0, 1},
           c = "status" => n \in {0, 1}, c = "ch" => n \in Points
    PROVE  /\ Exchange(c, n) \in Xch /\ Payload(Exchange(c, n))
           /\ Exchange(c, n).go => ot'.supported[Exchange(c, n).cmd] > 0
           /\ Exchange(c, n).lost = FALSE
<1>1. (ot'.attached /\ ot'.supported[c] > 0) \in BOOLEAN
  OBVIOUS
<1>2. MaxRetries \in 1..MaxRetries
  BY OtAssumption
<1> QED
  BY <1>1, <1>2 DEF Exchange, Xch, Payload

\* The exchange that follows, or none, keeps the invariant.
LEMMA AfterNew ==
    ASSUME ot' \in Master, set' \in Settings, boiler' \in Boiler, NEW c \in Cmds, After(c)
    PROVE  OtInv'
<1>1. xch' \in {NoXch} \cup Xch
      /\ (xch' # NoXch => /\ Payload(xch')
                          /\ xch'.go => ot'.supported[xch'.cmd] > 0
                          /\ xch'.lost = FALSE)
  <2>1. CASE xch' = NoXch
    BY <2>1
  <2>2. CASE Reading
    <3>1. PICK r \in {"bounds", "data"} : xch' = Exchange(r, 0)
      BY <2>2 DEF Reading
    <3>2. r \in Cmds
      BY DEF Cmds
    <3> QED
      BY <3>1, <3>2, ExchangeNew
  <2>3. CASE xch' = Exchange("ch", Fixed(set'.desired))
    <3>1. "ch" \in Cmds /\ Fixed(set'.desired) \in Points
      BY PointsOfFrames DEF Cmds, Settings
    <3> QED
      BY <2>3, <3>1, ExchangeNew
  <2> QED
    BY <2>1, <2>2, <2>3 DEF After
<1>2. OtTypeOK'
  BY <1>1 DEF OtTypeOK, Boiler, Master, Settings, Xch
<1> QED
  BY <1>1, <1>2 DEF OtInv, UnderWay, Payload

\* What the boiler makes of a request.
LEMMA HeardType ==
    ASSUME OtInv, xch # NoXch, NEW astray \in BOOLEAN
    PROVE  Heard(xch, astray) \in Boiler
<1>1. boiler \in Boiler /\ Payload(xch)
  BY OtTypes DEF OtInv, UnderWay
<1> QED
  BY <1>1 DEF Boiler, Payload, Heard

\* What the fields of the master may become.
LEMMA MasterTypes ==
    ASSUME OtInv, NEW b \in BOOLEAN
    PROVE  /\ Valid(ot) \in Master /\ Valid(ot).age = 0 /\ Valid(ot).attached = ot.attached
           /\ Valid(ot).supported = ot.supported
           /\ GaveUp(ot) \in Master /\ GaveUp(ot).age = ot.age
           /\ GaveUp(ot).supported = ot.supported
           /\ GaveUp(ot).attached = (ot.attached /\ ot.age <= Dead)
           /\ \A o \in Master : [o EXCEPT !.static = b] \in Master
<1>1. ot \in Master
  BY OtTypes DEF OtInv
<1>2. 0 \in 0..(Dead + 1) /\ (ot.attached /\ ot.age <= Dead) \in BOOLEAN
  BY OtAssumption
<1> QED
  BY <1>1, <1>2 DEF Valid, GaveUp, Master

\* The steps of the main loop.
LEMMA OtMainKeeps == OtInv /\ OtMain => OtInv'
<1> SUFFICES ASSUME OtInv, OtMain PROVE OtInv'
  OBVIOUS
<1>t. boiler \in Boiler /\ ot \in Master /\ set \in Settings /\ xch \in {NoXch} \cup Xch
  BY OtTypes DEF OtInv
<1>x. xch # NoXch => xch \in Xch /\ xch.cmd \in Cmds /\ Payload(xch)
  BY <1>t DEF Xch, OtInv, UnderWay
<1>1. CASE OtFind
  <2>1. UNCHANGED <<boiler, set, xch>> /\ xch = NoXch
    BY <1>1 DEF OtFind
  <2>2. CASE ot' = [Valid(ot) EXCEPT !.attached = TRUE, !.finds = 0]
    <3>1. 0 \in 0..MaxFinds
      BY OtAssumption
    <3>2. ot' \in Master
      BY <2>2, <3>1, MasterTypes DEF Master
    <3> QED
      BY <1>t, <2>1, <3>2 DEF OtInv, UnderWay, OtTypeOK, Boiler, Master, Settings, Xch
  <2>3. CASE ot' = [ot EXCEPT !.finds = @ + 1]
    <3>1. ot.finds + 1 \in 0..MaxFinds
      BY <1>1, <1>t, OtAssumption DEF OtFind, Master
    <3>2. ot' \in Master
      BY <1>t, <2>3, <3>1 DEF Master
    <3> QED
      BY <1>t, <2>1, <3>2 DEF OtInv, UnderWay, OtTypeOK, Boiler, Master, Settings, Xch
  <2> QED
    BY <1>1, <2>2, <2>3 DEF OtFind
<1>2. CASE OtVisit
  <2>1. UNCHANGED <<boiler, ot, set>>
    BY <1>2 DEF OtVisit
  <2>2. {"status", "static"} \subseteq Cmds /\ Wanted \in {0, 1}
    BY <1>t DEF Cmds, Wanted, Settings
  <2>3. /\ xch' \in Xch /\ Payload(xch')
        /\ xch'.go => ot'.supported[xch'.cmd] > 0
        /\ xch'.lost = FALSE
    <3>1. CASE xch' = Exchange("status", Wanted)
      BY <1>t, <2>1, <2>2, <3>1, ExchangeNew
    <3>2. CASE xch' = Exchange("static", 0)
      BY <1>t, <2>1, <2>2, <3>2, ExchangeNew
    <3> QED
      BY <1>2, <3>1, <3>2 DEF OtVisit
  <2> QED
    BY <1>t, <2>1, <2>3 DEF OtInv, UnderWay, Payload, OtTypeOK, Boiler, Master, Settings, Xch
<1>3. CASE XchAnswered
  <2>0. xch # NoXch /\ xch.go /\ After(xch.cmd) /\ Answered(xch)
    BY <1>3 DEF XchAnswered
  <2>1. CASE /\ boiler' = Heard(xch, FALSE)
             /\ set' = CASE xch.cmd = "ch" -> [set EXCEPT !.actual = xch.send]
                         [] xch.cmd = "bounds" -> [set EXCEPT !.min = RangeMin, !.max = RangeMax]
                         [] OTHER -> set
             /\ ot' = [Valid(ot) EXCEPT !.static = @ \/ xch.cmd = "static"]
    <3>1. boiler' \in Boiler
      BY <2>0, <2>1, HeardType
    <3>2. set' \in Settings
      BY <1>t, <1>x, <2>0, <2>1 DEF Settings, Payload
    <3>3. ot' \in Master
      <4>1. (Valid(ot).static \/ xch.cmd = "static") \in BOOLEAN
        OBVIOUS
      <4> QED
        BY <2>1, <4>1, MasterTypes DEF Master
    <3> QED
      BY <1>x, <2>0, <3>1, <3>2, <3>3, AfterNew
  <2>2. CASE /\ ot' = [Valid(ot) EXCEPT !.supported[xch.cmd] = @ - 1, !.static = @ \/ xch.cmd = "static"]
             /\ UNCHANGED <<boiler, set>>
    <3>1. xch.cmd \in Cmds /\ ot.supported[xch.cmd] > 0 /\ ot.supported \in [Cmds -> 0..Supported]
      BY <1>t, <1>x, <2>0 DEF OtInv, UnderWay, Master
    <3>2. ot.supported[xch.cmd] \in Nat /\ ot.supported[xch.cmd] <= Supported
      BY <3>1
    <3>a. ot.supported[xch.cmd] - 1 \in 0..Supported
      BY <3>1, <3>2, OtAssumption
    <3>3. [ot.supported EXCEPT ![xch.cmd] = @ - 1] \in [Cmds -> 0..Supported]
      BY <3>1, <3>a
    <3>4. (Valid(ot).static \/ xch.cmd = "static") \in BOOLEAN
      OBVIOUS
    <3>5. ot' = [Valid(ot) EXCEPT !.supported = [ot.supported EXCEPT ![xch.cmd] = @ - 1],
                                  !.static = @ \/ xch.cmd = "static"]
      BY <2>2, MasterTypes DEF Master
    <3>6. ot' \in Master
      BY <3>3, <3>4, <3>5, MasterTypes DEF Master
    <3> QED
      BY <1>t, <1>x, <2>0, <2>2, <3>6, AfterNew
  <2> QED
    BY <2>0, <2>1, <2>2 DEF Answered
<1>6. CASE XchRefused
  <2>1. xch # NoXch /\ After(xch.cmd) /\ UNCHANGED <<boiler, set>>
        /\ ot' = [Valid(ot) EXCEPT !.static = @ \/ xch.cmd = "static"]
    BY <1>6 DEF XchRefused
  <2>2. (Valid(ot).static \/ xch.cmd = "static") \in BOOLEAN
    OBVIOUS
  <2>3. ot' \in Master
    BY <2>1, <2>2, MasterTypes DEF Master
  <2> QED
    BY <1>t, <1>x, <2>1, <2>3, AfterNew
<1>4. CASE XchFailed
  <2>0. xch # NoXch /\ xch \in Xch /\ UNCHANGED set /\ xch.cmd \in Cmds /\ Payload(xch)
    BY <1>4, <1>x DEF XchFailed, Unanswered
  <2>1. boiler' \in Boiler
    BY <1>4, <1>t, <2>0, HeardType DEF XchFailed
  <2>2. CASE xch.tries > 1
    <3>1. (xch.mute \/ ~xch.lost) \in BOOLEAN /\ xch.tries - 1 \in 1..MaxRetries
      BY <2>0, <2>2, OtAssumption DEF Xch
    <3>2. UNCHANGED ot
          /\ xch' = [xch EXCEPT !.tries = @ - 1, !.lost = FALSE, !.mute = xch.mute \/ ~xch.lost]
      BY <1>4, <2>2 DEF XchFailed
    <3>3. /\ xch' \in Xch /\ Payload(xch') /\ xch'.lost = FALSE /\ xch'.cmd = xch.cmd
          /\ xch'.go = xch.go
      BY <2>0, <3>1, <3>2 DEF Xch, Payload
    <3>4. xch'.go => ot'.supported[xch'.cmd] > 0
      BY <2>0, <3>2, <3>3 DEF OtInv, UnderWay
    <3> QED
      BY <1>t, <2>0, <2>1, <3>2, <3>3, <3>4
      DEF OtInv, UnderWay, Payload, OtTypeOK, Boiler, Master, Settings, Xch
  <2>3. CASE ~(xch.tries > 1)
    <3>1. ot' = [GaveUp(ot) EXCEPT !.static = @ \/ xch.cmd = "static"] /\ After(xch.cmd)
      BY <1>4, <2>3 DEF XchFailed
    <3>2. (GaveUp(ot).static \/ xch.cmd = "static") \in BOOLEAN
      OBVIOUS
    <3>3. ot' \in Master
      BY <3>1, <3>2, MasterTypes DEF Master
    <3> QED
      BY <1>t, <2>0, <2>1, <3>1, <3>3, AfterNew
  <2> QED
    BY <2>2, <2>3
<1>5. CASE XchSkipped
  <2>1. xch # NoXch /\ After(xch.cmd) /\ UNCHANGED <<boiler, set>>
        /\ ot' = [ot EXCEPT !.static = @ \/ xch.cmd = "static"]
    BY <1>5 DEF XchSkipped
  <2>2. (ot.static \/ xch.cmd = "static") \in BOOLEAN
    OBVIOUS
  <2>3. ot' \in Master
    BY <1>t, <2>1, <2>2 DEF Master
  <2> QED
    BY <1>t, <1>x, <2>1, <2>3, AfterNew
<1> QED
  BY <1>1, <1>2, <1>3, <1>4, <1>5, <1>6 DEF OtMain

\* A raw command, answered or not, spoils the attempt of the main loop.
LEMMA RawKeeps ==
    ASSUME OtInv, Raw, boiler' \in Boiler,
           ot' = Valid(ot) \/ ot' = GaveUp(ot)
    PROVE  OtInv'
<1>1. /\ ot' \in Master /\ ot'.supported = ot.supported
      /\ ot'.attached => ot'.age <= Dead
  <2>1. CASE ot' = Valid(ot)
    <3>1. 0 <= Dead
      BY OtAssumption
    <3>2. ot' \in Master /\ ot'.supported = ot.supported /\ ot'.age = 0
      BY <2>1, MasterTypes
    <3> QED
      BY <3>1, <3>2
  <2>2. CASE ot' = GaveUp(ot)
    <3>1. /\ ot' \in Master /\ ot'.supported = ot.supported /\ ot'.age = ot.age
          /\ ot'.attached = (ot.attached /\ ot.age <= Dead)
      BY <2>2, MasterTypes
    <3>2. ot'.attached => ot.age <= Dead
      BY <3>1
    <3> QED
      BY <3>1, <3>2
  <2> QED
    BY <2>1, <2>2
<1>2. set \in Settings /\ UNCHANGED set /\ xch \in {NoXch} \cup Xch
  BY OtTypes DEF OtInv, Raw
<1>3. CASE xch = NoXch
  BY <1>1, <1>2, <1>3
  DEF Raw, OtInv, UnderWay, OtTypeOK, Boiler, Master, Settings, Xch
<1>4. CASE xch # NoXch
  <2>1. xch' = [xch EXCEPT !.lost = TRUE] /\ xch \in Xch
    BY <1>2, <1>4 DEF Raw
  <2>2. xch' \in Xch /\ xch'.cmd = xch.cmd /\ xch'.go = xch.go /\ xch'.send = xch.send
    BY <2>1 DEF Xch
  <2>3. UnderWay'
    BY <1>1, <1>4, <2>2 DEF OtInv, UnderWay, Payload
  <2> QED
    BY <1>1, <1>2, <2>2, <2>3 DEF OtInv, OtTypeOK, Boiler, Master, Settings, Xch
<1> QED
  BY <1>3, <1>4

\* Every step keeps the invariant of the master.
LEMMA OtInvNext == OtInv /\ [OtNext]_otVars => OtInv'
<1> SUFFICES ASSUME OtInv, [OtNext]_otVars PROVE OtInv'
  OBVIOUS
<1>t. boiler \in Boiler /\ ot \in Master /\ set \in Settings /\ xch \in {NoXch} \cup Xch
  BY OtTypes DEF OtInv
<1>1. CASE OtMain
  BY <1>1, OtMainKeeps
<1>2. ASSUME set' \in Settings, UNCHANGED <<boiler, ot, xch>> PROVE OtInv'
  BY <1>t, <1>2 DEF OtInv, UnderWay, Payload, OtTypeOK, Boiler, Master, Settings, Xch
<1>3. ASSUME NEW on \in {0, 1}, SetCh(on) PROVE OtInv'
  BY <1>2, <1>3, <1>t DEF SetCh, Settings
<1>4. ASSUME NEW t \in Temps, SetChTemp(t) PROVE OtInv'
  <2>1. (IF t > set.max THEN set.max ELSE IF t < set.min THEN set.min ELSE t) \in SetPoints
    BY <1>t, OtAssumption DEF Settings, SetPoints
  <2> QED
    BY <1>2, <1>4, <1>t, <2>1 DEF SetChTemp, Settings
<1>5. ASSUME NEW t \in Written, RawWrite(t) PROVE OtInv'
  <2>1. boiler' \in Boiler
    BY <1>5, <1>t, OtAssumption DEF RawWrite, Boiler
  <2> QED
    BY <1>5, <2>1, RawKeeps DEF RawWrite
<1>6. CASE RawAnswered \/ RawFailed
  BY <1>6, <1>t, RawKeeps DEF RawAnswered, RawFailed
<1>7. CASE BoilerSwitch
  <2>1. boiler' \in Boiler /\ UNCHANGED <<ot, set, xch>>
    BY <1>7, <1>t, PointsOfFrames DEF BoilerSwitch, Boiler
  <2> QED
    BY <1>t, <2>1 DEF OtInv, UnderWay, Payload, OtTypeOK, Boiler, Master, Settings, Xch
<1>8. CASE OtTick
  <2>1. ot.age + 1 \in 0..(Dead + 1)
    BY <1>8, <1>t, OtAssumption DEF OtTick, Master
  <2>2. ot' \in Master /\ UNCHANGED <<boiler, set, xch>> /\ xch = NoXch
    BY <1>8, <1>t, <2>1 DEF OtTick, Master
  <2> QED
    BY <1>t, <2>2 DEF OtInv, UnderWay, OtTypeOK, Boiler, Master, Settings, Xch
<1>9. CASE UNCHANGED otVars
  BY <1>9 DEF otVars, OtInv, UnderWay, Payload, OtTypeOK
<1> QED
  BY <1>1, <1>3, <1>4, <1>5, <1>6, <1>7, <1>8, <1>9 DEF OtNext, OtUser

\* A boiler that is given up was off, or silent to a raw command or in an attempt of the
\* main loop that no command had spoilt (opentherm_dev_pio_exchange), for any number of
\* retries, any DEAD_INTERVAL_MS and any commands.
THEOREM GivenUpIfSilent == OtSpec => LostOnlyIfSilent
<1> DEFINE Silent == \/ ~boiler.on
                     \/ RawFailed
                     \/ \E t \in Written : RawWrite(t)
                     \/ xch # NoXch /\ (xch.mute \/ ~xch.lost)
<1>1. ASSUME OtInv, OtNext, ot.attached, ~ot'.attached, boiler.on,
             ~RawFailed, ~(\E t \in Written : RawWrite(t))
      PROVE  xch # NoXch /\ (xch.mute \/ ~xch.lost)
  <2>t. ot \in Master
    BY <1>1, OtTypes DEF OtInv
  <2>1. CASE XchFailed
    <3>1. xch # NoXch /\ ot' = [GaveUp(ot) EXCEPT !.static = @ \/ xch.cmd = "static"]
      BY <1>1, <2>1 DEF XchFailed
    <3>2. GaveUp(ot) \in Master
      BY <1>1, MasterTypes
    <3>3. ot'.attached = GaveUp(ot).attached
      BY <3>1, <3>2 DEF Master
    <3>4. ~(ot.age <= Dead)
      BY <1>1, <3>3, MasterTypes
    <3> QED
      BY <1>1, <3>1, <3>4 DEF OtInv, UnderWay
  <2>2. CASE OtFind \/ OtVisit \/ BoilerSwitch \/ OtTick \/ XchSkipped
    BY <1>1, <2>2, <2>t DEF OtFind, OtVisit, BoilerSwitch, OtTick, XchSkipped, Master
  <2>3. CASE XchAnswered \/ XchRefused
    <3>1. Valid(ot) \in Master /\ Valid(ot).attached = ot.attached
      BY <1>1, MasterTypes
    <3>2. ot'.attached = Valid(ot).attached
      BY <2>3, <3>1 DEF XchAnswered, XchRefused, Answered, Master
    <3> QED
      BY <1>1, <3>1, <3>2
  <2>4. CASE OtUser
    <3>1. ot' = ot \/ ot' = Valid(ot)
      BY <1>1, <2>4 DEF OtUser, SetCh, SetChTemp, RawAnswered
    <3> QED
      BY <1>1, <3>1, MasterTypes
  <2> QED
    BY <1>1, <2>1, <2>2, <2>3, <2>4 DEF OtNext, OtMain
<1>2. OtInv /\ [OtNext]_otVars => [ot.attached /\ ~ot'.attached => Silent]_otVars
  BY <1>1
<1> QED
  BY <1>2, OtInvInit, OtInvNext, PTL DEF OtSpec, LostOnlyIfSilent

----
\* The reader of the inverter.

Reader == [connected : BOOLEAN, busy : BOOLEAN, query : Queries, next : 1..(NQueries + 1)]
Faults == [n : 0..VoMaxFaults, late : BOOLEAN]
Reply(q) == [i \in 1..NReports |-> [q |-> q, i |-> i]]

\* Nothing comes from an inverter that is not mounted, and the commands that are asked
\* again and again stay in the round.
BusInv ==
    /\ usb # "mounted" => reports = <<>> /\ ~mppt.connected
    /\ Queries \ OneTime \subseteq toSend

\* Before the first late reply: what is under way is the rest of the reply that is waited
\* for, and what is in cmd_buff when it comes is the beginning of it.
OneReply ==
    /\ ~mppt.busy \/ age = 2 => reports = <<>>
    /\ \A k \in 1..Len(reports) : /\ reports[k].q = mppt.query
                                  /\ reports[k].i = NReports => k = Len(reports)
    /\ reports # <<>> => \A k \in 1..Len(inBuf) : inBuf[k].q = mppt.query

VoInv == VoTypeOK /\ BusInv /\ (~vfault.late => OneReply) /\ ReplyMatches

\* The scan of mppt_solar_cmd_next() comes around to the nearest command.
LEMMA HasLeast ==
    ASSUME NEW S \in SUBSET Nat, S # {}
    PROVE  \E x \in S : \A y \in S : x <= y
<1> DEFINE R == OpToRel(<, Nat)
<1>1. \A x, y \in Nat : y < x => <<y, x>> \in R
  BY Zenon DEF OpToRel
<1>2. IsWellFoundedOn(R, Nat)
  BY NatLessThanWellFounded, Zenon
<1> HIDE DEF R
<1>3. PICK x \in S : \A y \in S : <<y, x>> \notin R
  BY <1>2, WFMin
<1>4. \A y \in S : ~(y < x)
  BY <1>1, <1>3
<1>5. \A y \in S : x <= y
  BY <1>4
<1> QED
  BY <1>5

\* There is a command that stays in the round.
LEMMA SomeQuery == NQueries \in Nat /\ NQueries > 0 /\ 1 \in Queries /\ Queries \ OneTime # {}
<1>1. NQueries \in Nat /\ OneTime \subseteq Queries /\ OneTime # Queries
  BY VoAssumption DEF Queries
<1>2. PICK q \in Queries : q \notin OneTime
  BY <1>1
<1>3. NQueries > 0
  BY <1>1, <1>2 DEF Queries
<1> QED
  BY <1>1, <1>2, <1>3 DEF Queries

\* mppt_solar_cmd_next() finds a command that is to be sent.
LEMMA CmdNextType ==
    ASSUME VoTypeOK
    PROVE  CmdNext \in toSend /\ CmdNext \in Queries /\ CmdNext + 1 \in 1..(NQueries + 1)
<1> DEFINE Distance(q) == (q + NQueries - mppt.next) % NQueries
           D == {Distance(q) : q \in toSend}
<1>1. toSend \subseteq Queries /\ toSend # {} /\ mppt.next \in 1..(NQueries + 1)
  BY DEF VoTypeOK
<1>2. \A q \in Queries : Distance(q) \in Nat
  BY <1>1, SomeQuery DEF Queries
<1>3. D \in SUBSET Nat /\ D # {}
  BY <1>1, <1>2
<1>4. PICK d \in D : \A e \in D : d <= e
  BY <1>3, HasLeast
<1>5. \E q \in toSend : \A p \in toSend : Distance(q) <= Distance(p)
  BY <1>4
<1>6. CmdNext = CHOOSE q \in toSend : \A p \in toSend : Distance(q) <= Distance(p)
  BY Zenon DEF CmdNext
<1>7. CmdNext \in toSend
  <2> HIDE DEF Distance
  <2> QED
    BY <1>5, <1>6
<1> QED
  BY <1>1, <1>7, SomeQuery DEF Queries

\* The invariant of the reader of the inverter holds at first.
LEMMA VoInvInit == VoInit => VoInv
<1> SUFFICES ASSUME VoInit PROVE VoInv
  OBVIOUS
<1>1. mppt \in Reader
  BY SomeQuery DEF VoInit, Reader
<1>2. vfault \in Faults /\ vdata \in [Queries -> {0} \cup Queries]
  BY VoAssumption DEF VoInit, Faults
<1>3. inBuf \in Seq(Report) /\ Len(inBuf) <= VoRoom /\ reports \in Seq(Report)
  BY VoAssumption DEF VoInit
<1>4. VoTypeOK
  BY <1>1, <1>2, <1>3, SomeQuery DEF VoInit, VoTypeOK, Reader, Faults
<1> QED
  BY <1>4 DEF VoInit, VoInv, BusInv, OneReply, ReplyMatches

\* A reply comes to pieces from its beginning.
LEMMA TailFacts ==
    ASSUME NEW S, NEW s \in Seq(S), s # <<>>
    PROVE  /\ Head(s) \in S /\ Head(s) = s[1] /\ Tail(s) \in Seq(S)
           /\ Len(Tail(s)) = Len(s) - 1 /\ Len(s) \in Nat \ {0}
           /\ \A k \in 1..Len(Tail(s)) : Tail(s)[k] = s[k + 1]
OBVIOUS

\* A fault is counted up to the bound.
LEMMA VoFaultType ==
    ASSUME VoTypeOK, VoFault \/ UNCHANGED vfault
    PROVE  vfault' \in Faults /\ vfault'.late = vfault.late
<1>1. vfault \in Faults
  BY DEF VoTypeOK, Faults
<1>2. vfault.n < VoMaxFaults => vfault.n + 1 \in 0..VoMaxFaults
  BY <1>1, VoAssumption DEF Faults
<1> QED
  BY <1>1, <1>2 DEF VoFault, Faults

\* Some of what is under way is lost.
LEMMA FewerReports ==
    ASSUME VoTypeOK, ~vfault.late => OneReply, reports # <<>>
    PROVE  /\ Tail(reports) \in Seq(Report)
           /\ ~vfault.late =>
                \A k \in 1..Len(Tail(reports)) :
                   /\ Tail(reports)[k].q = mppt.query
                   /\ Tail(reports)[k].i = NReports => k = Len(Tail(reports))
<1>1. reports \in Seq(Report)
  BY DEF VoTypeOK
<1>2. /\ Tail(reports) \in Seq(Report) /\ Len(Tail(reports)) = Len(reports) - 1
      /\ Len(reports) \in Nat \ {0}
      /\ \A k \in 1..Len(Tail(reports)) : Tail(reports)[k] = reports[k + 1]
  BY <1>1, TailFacts
<1>3. ASSUME ~vfault.late, NEW k \in 1..Len(Tail(reports))
      PROVE  /\ Tail(reports)[k].q = mppt.query
             /\ Tail(reports)[k].i = NReports => k = Len(Tail(reports))
  <2>1. k + 1 \in 1..Len(reports) /\ Tail(reports)[k] = reports[k + 1]
    BY <1>2
  <2>2. reports[k + 1].q = mppt.query /\ (reports[k + 1].i = NReports => k + 1 = Len(reports))
    BY <1>3, <2>1 DEF OneReply
  <2> QED
    BY <1>2, <2>1, <2>2
<1> QED
  BY <1>2, <1>3

\* The bus: an inverter comes and goes.
LEMMA BusKeeps ==
    ASSUME VoInv, Attach \/ MountFails \/ Mount \/ Unmount \/ BusRestart
    PROVE  VoInv'
<1>1. vfault' \in Faults /\ vfault'.late = vfault.late
  BY VoFaultType DEF VoInv, Attach, MountFails, Mount, Unmount, BusRestart
<1>2. /\ UNCHANGED <<inBuf, age, vdata>> /\ toSend' \in {toSend, Queries}
      /\ usb' \in {"away", "attached", "deaf", "mounted"}
  BY DEF Attach, MountFails, Mount, Unmount, BusRestart
<1>3. mppt' \in Reader /\ mppt'.query = mppt.query
  BY DEF VoInv, VoTypeOK, Reader, Attach, MountFails, Mount, Unmount, BusRestart
<1>4. reports' = <<>>
  BY DEF VoInv, BusInv, Attach, MountFails, Mount, Unmount, BusRestart
<1>5. usb' # "mounted" => ~mppt'.connected
  BY DEF VoInv, BusInv, VoTypeOK, Attach, MountFails, Mount, Unmount, BusRestart
<1>6. toSend' \in SUBSET Queries /\ toSend' # {} /\ Queries \ OneTime \subseteq toSend'
  BY <1>2, SomeQuery DEF VoInv, VoTypeOK, BusInv
<1>7. reports' \in Seq(Report)
  BY <1>4
<1>8. VoTypeOK'
  BY <1>1, <1>2, <1>3, <1>6, <1>7 DEF VoInv, VoTypeOK, Reader, Faults
<1>9. OneReply'
  BY <1>4 DEF OneReply
<1> QED
  BY <1>1, <1>2, <1>4, <1>5, <1>6, <1>8, <1>9 DEF VoInv, BusInv, ReplyMatches

\* A lost report keeps the invariant.
LEMMA ReportLostKeeps == VoInv /\ ReportLost => VoInv'
<1> SUFFICES ASSUME VoInv, ReportLost PROVE VoInv'
  OBVIOUS
<1>1. vfault' \in Faults /\ vfault'.late = vfault.late
  BY VoFaultType DEF VoInv, ReportLost
<1>2. reports # <<>> /\ reports' = Tail(reports) /\ UNCHANGED <<usb, mppt, toSend, inBuf, age, vdata>>
  BY DEF ReportLost
<1>3. /\ reports' \in Seq(Report)
      /\ ~vfault.late => \A k \in 1..Len(reports') :
                            /\ reports'[k].q = mppt.query
                            /\ reports'[k].i = NReports => k = Len(reports')
  BY <1>2, FewerReports DEF VoInv
<1>4. VoTypeOK'
  BY <1>1, <1>2, <1>3 DEF VoInv, VoTypeOK, Faults
<1>5. ~vfault'.late => OneReply'
  BY <1>1, <1>2, <1>3 DEF VoInv, OneReply
<1>6. BusInv'
  BY <1>2 DEF VoInv, BusInv
<1> QED
  BY <1>1, <1>2, <1>4, <1>5, <1>6 DEF VoInv, ReplyMatches

\* Time passes, with or without a reply that is late.
LEMMA VoTimeKeeps == VoInv /\ (VoTick \/ VoSlow) => VoInv'
<1> SUFFICES ASSUME VoInv, VoTick \/ VoSlow PROVE VoInv'
  OBVIOUS
<1>1. age \in 0..2 /\ age < 2 /\ age' = age + 1
  BY DEF VoInv, VoTypeOK, VoTick, VoSlow
<1>2. UNCHANGED <<usb, mppt, toSend, inBuf, reports, vdata>>
  BY DEF VoTick, VoSlow
<1>3. vfault' \in Faults /\ (~vfault'.late => UNCHANGED vfault /\ VoInTime)
  <2>1. CASE VoTick
    BY <2>1 DEF VoTick, VoInv, VoTypeOK, Faults
  <2>2. CASE VoSlow
    <3>1. vfault.n + 1 \in 0..VoMaxFaults
      BY <2>2, VoAssumption DEF VoSlow, VoInv, VoTypeOK
    <3> QED
      BY <2>2, <3>1 DEF VoSlow, Faults
  <2> QED
    BY <2>1, <2>2
<1>4. VoTypeOK'
  BY <1>1, <1>2, <1>3 DEF VoInv, VoTypeOK, Faults
<1>5. ASSUME VoInTime, age' = 2 PROVE reports = <<>>
  <2>1. Len(reports) <= 0
    BY <1>1, <1>5 DEF VoInTime
  <2> QED
    BY <2>1 DEF VoInv, VoTypeOK
<1>6. ~vfault'.late => OneReply'
  BY <1>2, <1>3, <1>5 DEF VoInv, OneReply
<1>7. ReplyMatches'
  BY <1>2, <1>3 DEF VoInv, ReplyMatches
<1> QED
  BY <1>2, <1>4, <1>6, <1>7 DEF VoInv, BusInv

\* mppt_usb_callback(): a report is dropped, kept, or ends a reply.
LEMMA HidReportKeeps == VoInv /\ HidReport => VoInv'
<1> SUFFICES ASSUME VoInv, HidReport PROVE VoInv'
  OBVIOUS
<1> DEFINE r == Head(reports)
           b == Append(inBuf, r)
<1>0. /\ usb = "mounted" /\ reports # <<>> /\ reports' = Tail(reports)
      /\ UNCHANGED <<usb, age, vfault>>
  BY DEF HidReport
<1>t. /\ reports \in Seq(Report) /\ inBuf \in Seq(Report) /\ mppt \in Reader
      /\ vdata \in [Queries -> {0} \cup Queries] /\ toSend \in SUBSET Queries
      /\ Len(inBuf) <= VoRoom /\ vfault \in Faults /\ mppt.query \in Queries
  BY DEF VoInv, VoTypeOK, Reader, Faults
<1>r. r \in Report /\ r = reports[1] /\ Len(reports) \in Nat \ {0} /\ Len(Tail(reports)) = Len(reports) - 1
  BY <1>0, <1>t, TailFacts
<1>1. /\ reports' \in Seq(Report)
      /\ ~vfault.late => \A k \in 1..Len(reports') :
                            /\ reports'[k].q = mppt.query
                            /\ reports'[k].i = NReports => k = Len(reports')
  BY <1>0, FewerReports DEF VoInv
<1>2. ~vfault.late => mppt.busy /\ age # 2 /\ r.q = mppt.query /\ (r.i = NReports => reports' = <<>>)
  <2> SUFFICES ASSUME ~vfault.late
               PROVE  mppt.busy /\ age # 2 /\ r.q = mppt.query /\ (r.i = NReports => reports' = <<>>)
    OBVIOUS
  <2>1. mppt.busy /\ age # 2
    BY <1>0 DEF VoInv, OneReply
  <2>2. 1 \in 1..Len(reports)
    BY <1>r
  <2>3. r.q = mppt.query /\ (r.i = NReports => 1 = Len(reports))
    BY <1>r, <2>2 DEF VoInv, OneReply
  <2>4. Len(reports') = 0 => reports' = <<>>
    BY <1>1
  <2> QED
    BY <1>0, <1>r, <2>1, <2>3, <2>4
<1> HIDE DEF r
<1>b. /\ b \in Seq(Report) /\ Len(b) = Len(inBuf) + 1
      /\ \A k \in 1..Len(b) : b[k] = IF k = Len(inBuf) + 1 THEN r ELSE inBuf[k]
  BY <1>t, <1>r
<1>q. ~vfault.late => \A k \in 1..Len(b) : b[k].q = mppt.query
  <2> SUFFICES ASSUME ~vfault.late, NEW k \in 1..Len(b) PROVE b[k].q = mppt.query
    OBVIOUS
  <2>1. \A j \in 1..Len(inBuf) : inBuf[j].q = mppt.query
    BY <1>0 DEF VoInv, OneReply
  <2>2. k = Len(inBuf) + 1 \/ k \in 1..Len(inBuf)
    BY <1>b, <1>t
  <2> QED
    BY <1>b, <1>2, <2>1, <2>2
<1> HIDE DEF b
<1>3. CASE UNCHANGED <<mppt, toSend, inBuf, vdata>>
  <2>1. VoTypeOK'
    BY <1>0, <1>1, <1>3 DEF VoInv, VoTypeOK
  <2>2. ~vfault'.late => OneReply'
    BY <1>0, <1>1, <1>2, <1>3 DEF VoInv, OneReply
  <2> QED
    BY <1>0, <1>3, <2>1, <2>2 DEF VoInv, BusInv, ReplyMatches
<1>4. CASE Len(b) <= VoRoom /\ inBuf' = b /\ UNCHANGED <<mppt, toSend, vdata>>
  <2>1. VoTypeOK'
    BY <1>0, <1>1, <1>4, <1>b DEF VoInv, VoTypeOK
  <2>2. ~vfault'.late => OneReply'
    BY <1>0, <1>1, <1>2, <1>4, <1>q DEF VoInv, OneReply
  <2> QED
    BY <1>0, <1>4, <2>1, <2>2 DEF VoInv, BusInv, ReplyMatches
<1>5. CASE /\ r.i = NReports /\ Process(b) /\ inBuf' = <<>>
           /\ mppt' = [mppt EXCEPT !.busy = FALSE]
  <2>1. mppt' \in Reader /\ mppt'.query = mppt.query /\ mppt'.connected = mppt.connected
    BY <1>5, <1>t DEF Reader
  <2>2. /\ toSend' \in SUBSET Queries /\ toSend' # {}
        /\ Queries \ OneTime \subseteq toSend'
    BY <1>5, SomeQuery DEF Process, Remaining, VoInv, BusInv, VoTypeOK
  <2>3. CASE UNCHANGED vdata
    <3>1. VoTypeOK'
      BY <1>0, <1>1, <1>5, <2>1, <2>2, <2>3, VoAssumption DEF VoInv, VoTypeOK, Reader
    <3>2. ~vfault'.late => OneReply'
      BY <1>0, <1>1, <1>2, <1>5 DEF OneReply
    <3> QED
      BY <1>0, <2>1, <2>2, <2>3, <3>1, <3>2 DEF VoInv, BusInv, ReplyMatches
  <2>4. CASE Verified(b) /\ vdata' = Scanned(mppt.query, b)
    <3>1. 1 \in 1..Len(b)
      BY <2>4, VoAssumption DEF Verified
    <3>2. b[1] \in Report /\ (~vfault.late => b[1].q = mppt.query)
      BY <1>b, <1>q, <3>1
    <3>3. b[1].q \in Queries
      BY <3>2 DEF Report
    <3>4. /\ vdata' \in [Queries -> {0} \cup Queries]
          /\ \A q \in Queries : vdata'[q] = IF q = mppt.query THEN b[1].q ELSE vdata[q]
      BY <1>t, <2>4, <3>3 DEF Scanned
    <3>5. VoTypeOK'
      BY <1>0, <1>1, <1>5, <2>1, <2>2, <3>4, VoAssumption DEF VoInv, VoTypeOK, Reader
    <3>6. ~vfault'.late => OneReply'
      BY <1>0, <1>1, <1>2, <1>5 DEF OneReply
    <3>7. ReplyMatches'
      BY <1>0, <3>2, <3>4 DEF VoInv, ReplyMatches
    <3> QED
      BY <1>0, <2>1, <2>2, <3>5, <3>6, <3>7 DEF VoInv, BusInv
  <2> QED
    BY <1>5, <2>3, <2>4 DEF Process
<1> QED
  BY <1>3, <1>4, <1>5, <1>b, <1>t, VoAssumption DEF HidReport, r, b

\* mppt_solar_query(): the next command, or one that cannot be sent.
LEMMA AskKeeps == VoInv /\ Ask => VoInv'
<1> SUFFICES ASSUME VoInv, Ask PROVE VoInv'
  OBVIOUS
<1>0. mppt.connected /\ MayAsk /\ UNCHANGED <<usb, toSend, vdata>>
  BY DEF Ask
<1>1. PICK q \in Queries : q = CmdNext /\ q + 1 \in 1..(NQueries + 1)
  BY CmdNextType DEF VoInv
<1>2. usb = "mounted"
  BY <1>0 DEF VoInv, BusInv
<1>3. ~vfault.late => reports = <<>>
  BY <1>0 DEF MayAsk, VoInv, OneReply
<1>t. /\ mppt \in Reader /\ reports \in Seq(Report) /\ inBuf \in Seq(Report) /\ Len(inBuf) <= VoRoom
      /\ age \in 0..2
  BY DEF VoInv, VoTypeOK, Reader
<1>4. CASE /\ mppt' = [mppt EXCEPT !.query = CmdNext, !.next = CmdNext + 1, !.busy = TRUE]
           /\ inBuf' = <<>> /\ age' = 0
           /\ reports' = reports \o [i \in 1..NReports |-> [q |-> CmdNext, i |-> i]]
           /\ UNCHANGED vfault
  <2>1. mppt' \in Reader /\ mppt'.query = q /\ mppt'.busy = TRUE
    BY <1>1, <1>4, <1>t DEF Reader
  <2>2. Reply(q) \in Seq(Report) /\ Len(Reply(q)) = NReports
    BY VoAssumption DEF Reply, Report
  <2>3. reports' = reports \o Reply(q)
    BY <1>1, <1>4 DEF Reply
  <2>4. reports' \in Seq(Report)
    BY <1>t, <2>2, <2>3
  <2>5. VoTypeOK'
    BY <1>0, <1>4, <2>1, <2>4, VoAssumption DEF VoInv, VoTypeOK, Reader
  <2>6. ~vfault'.late => OneReply'
    <3> SUFFICES ASSUME ~vfault.late PROVE OneReply'
      BY <1>4
    <3>1. reports' = Reply(q)
      BY <1>3, <2>2, <2>3
    <3>2. \A k \in 1..Len(reports') : reports'[k].q = q /\ (reports'[k].i = NReports => k = Len(reports'))
      BY <2>2, <3>1 DEF Reply
    <3>3. Len(inBuf') = 0 /\ age' # 2
      BY <1>4
    <3> QED
      BY <2>1, <3>2, <3>3 DEF OneReply
  <2> QED
    BY <1>0, <1>2, <1>4, <2>5, <2>6 DEF VoInv, BusInv, ReplyMatches
<1>5. CASE /\ VoFault
           /\ mppt' = [mppt EXCEPT !.query = CmdNext, !.next = CmdNext + 1, !.busy = FALSE]
           /\ inBuf' \in {<<>>, inBuf}
           /\ UNCHANGED <<age, reports>>
  <2>1. mppt' \in Reader
    BY <1>1, <1>5, <1>t DEF Reader
  <2>2. vfault' \in Faults /\ vfault'.late = vfault.late
    BY <1>5, VoFaultType DEF VoInv
  <2>3. inBuf' \in Seq(Report) /\ Len(inBuf') <= VoRoom
    <3>1. <<>> \in Seq(Report) /\ Len(<<>>) = 0 /\ 0 <= VoRoom
      BY VoAssumption
    <3> QED
      BY <1>5, <1>t, <3>1
  <2>4. VoTypeOK'
    BY <1>0, <1>5, <2>1, <2>2, <2>3 DEF VoInv, VoTypeOK, Reader, Faults
  <2>5. ~vfault'.late => OneReply'
    BY <1>3, <1>5, <2>2 DEF OneReply
  <2> QED
    BY <1>0, <1>2, <2>2, <2>4, <2>5 DEF VoInv, BusInv, ReplyMatches
<1> QED
  BY <1>4, <1>5 DEF Ask

\* Every step keeps the invariant of the reader of the inverter.
LEMMA VoInvNext == VoInv /\ [VoNext]_voVars => VoInv'
<1> SUFFICES ASSUME VoInv, [VoNext]_voVars PROVE VoInv'
  OBVIOUS
<1>1. CASE Attach \/ MountFails \/ Mount \/ Unmount \/ BusRestart
  BY <1>1, BusKeeps
<1>2. CASE ReportLost
  BY <1>2, ReportLostKeeps
<1>3. CASE VoTick \/ VoSlow
  BY <1>3, VoTimeKeeps
<1>4. CASE HidReport
  BY <1>4, HidReportKeeps
<1>5. CASE Ask
  BY <1>5, AskKeeps
<1>6. CASE UNCHANGED voVars
  BY <1>6 DEF voVars, VoInv, VoTypeOK, BusInv, OneReply, ReplyMatches
<1> QED
  BY <1>1, <1>2, <1>3, <1>4, <1>5, <1>6 DEF VoNext

\* As long as no reply comes later than SENT_WAIT_MS, what mppt_cmd_process() stores for a
\* command is the reply to it, for any number of commands, reports and faults, and any
\* size of cmd_buff that holds a reply.
THEOREM RepliesMatch == VoSpec => []ReplyMatches
<1>1. VoInv => ReplyMatches
  BY DEF VoInv
<1> QED
  BY <1>1, VoInvInit, VoInvNext, PTL DEF VoSpec

----
\* The relays, the thermostats and the remote sensors.

RelayState == [pin : BOOLEAN, actual : BOOLEAN, desired : BOOLEAN,
               time : Times, delay : Times, age : Times,
               asked : {{}, {TRUE}, {FALSE}}, cut : BOOLEAN]
Thermostat == [enable : BOOLEAN, ssr : BOOLEAN, off : Degrees, on : Int]
RemoteSensor == [listens : BOOLEAN, valid : BOOLEAN, val : Degrees]

HeatInv ==
    /\ relay \in [Relays -> RelayState]
    /\ therm \in [Therms -> Thermostat]
    /\ sensor \in [Therms -> RemoteSensor]
    /\ heat \in Visits

\* The invariant is stronger than the types of Heating.
LEMMA HeatTypes == HeatInv => HeatTypeOK
<1> SUFFICES ASSUME HeatInv PROVE HeatTypeOK
  OBVIOUS
<1>1. \A t \in Therms : therm[t] \in Thermostat /\ sensor[t] \in RemoteSensor
  BY DEF HeatInv
<1>2. ASSUME NEW t \in Therms
      PROVE  /\ therm[t].enable \in BOOLEAN /\ therm[t].ssr \in BOOLEAN
             /\ therm[t].off \in Degrees /\ therm[t].on \in Int
             /\ sensor[t].listens \in BOOLEAN /\ sensor[t].valid \in BOOLEAN
             /\ sensor[t].val \in Degrees
  BY <1>1 DEF Thermostat, RemoteSensor
<1> QED
  BY <1>2 DEF HeatInv, HeatTypeOK, RelayState

\* The relays, thermostats and sensors are typed at first.
LEMMA HeatInvInit == HeatInit => HeatInv
<1> SUFFICES ASSUME HeatInit PROVE HeatInv
  OBVIOUS
<1>0. 0 \in Times /\ NoVisit \in Visits
  BY HeatAssumption DEF Times, Visits
<1>1. relay \in [Relays -> RelayState]
  BY <1>0 DEF HeatInit, RelayState
<1>2. therm \in [Therms -> Thermostat]
  <2>1. PICK e \in BOOLEAN, off \in Degrees, h \in Hysts :
          therm = [t \in Therms |-> [enable |-> e, ssr |-> FALSE, off |-> off, on |-> off - h]]
    BY DEF HeatInit
  <2>2. off - h \in Int
    BY HeatAssumption
  <2> QED
    BY <2>1, <2>2 DEF Thermostat
<1>3. sensor \in [Therms -> RemoteSensor]
  BY DEF HeatInit, RemoteSensor
<1> QED
  BY <1>0, <1>1, <1>2, <1>3 DEF HeatInit, HeatInv

\* ssr_state_set()
LEMMA RelayTypes ==
    ASSUME NEW rel \in RelayState, NEW st \in BOOLEAN, NEW time \in Times, NEW delay \in Times
    PROVE  /\ PinSet(rel, st, delay) \in RelayState
           /\ StateStored(rel, st, time, delay) \in RelayState
<1>0. 0 \in Times
  BY HeatAssumption DEF Times
<1>1. \A r \in RelayState : StateStored(r, st, time, delay) \in RelayState
  BY <1>0 DEF StateStored, RelayState
<1>2. PinSet(rel, st, delay) \in RelayState
  BY DEF PinSet, RelayState
<1> QED
  BY <1>1, <1>2

\* What is asked for.
LEMMA AsksTypes ==
    ASSUME NEW rel \in RelayState, NEW st \in BOOLEAN, NEW time \in Times, NEW c
    PROVE  /\ Asks(rel, st, time, c) \in RelayState
           /\ Asks(rel, st, time, c).pin = rel.pin
           /\ Asks(rel, st, time, c).actual = rel.actual
<1>1. (IF time > 0 THEN {st} ELSE {}) \in {{}, {TRUE}, {FALSE}}
  OBVIOUS
<1>2. (time > 0 /\ c) \in BOOLEAN
  OBVIOUS
<1> DEFINE a == IF time > 0 THEN {st} ELSE {}
           k == time > 0 /\ c
<1>3. Asks(rel, st, time, c) = [rel EXCEPT !.asked = a, !.cut = k]
  BY DEF Asks
<1> HIDE DEF a, k
<1> QED
  BY <1>1, <1>2, <1>3 DEF RelayState, a, k

\* ssr_state_set() as a whole
LEMMA StateSetTypes ==
    ASSUME HeatInv, NEW r \in Relays, NEW st \in BOOLEAN, NEW time \in Times, NEW delay \in Times
    PROVE  StateSet(r, st, time, delay) \in RelayState
<1>1. PinSet(relay[r], st, delay) \in RelayState
  BY RelayTypes DEF HeatInv
<1>2. StateStored(PinSet(relay[r], st, delay), st, time, delay) \in RelayState
  BY <1>1, RelayTypes
<1> QED
  BY <1>2, AsksTypes DEF StateSet

\* The main loop sets a pin.
LEMMA SetPinKeeps ==
    ASSUME HeatInv, NEW r \in Relays, NEW st \in BOOLEAN, NEW time \in Times,
           NEW from \in Therms \cup {"ssr"}, SetPin(r, st, time, from)
    PROVE  /\ HeatInv'
           /\ relay'[r].pin = st
           /\ \A q \in Relays \ {r} : relay'[q] = relay[q]
<1>0. 0 \in Times /\ relay \in [Relays -> RelayState]
  BY HeatAssumption DEF Times, HeatInv
<1>1. PinSet(relay[r], st, 0) \in RelayState
  BY <1>0, RelayTypes
<1>2. PinSet(relay[r], st, 0).pin = st
  BY <1>0 DEF PinSet, RelayState
<1> DEFINE put == PinSet(relay[r], st, 0)
           new == IF from = "ssr" THEN put ELSE [put EXCEPT !.asked = {}, !.cut = FALSE]
<1>3. new \in RelayState /\ new.pin = st
  BY <1>1, <1>2 DEF RelayState
<1>4. relay' = [relay EXCEPT ![r] = new]
  BY <1>0 DEF SetPin
<1>5. heat' \in Visits
  BY DEF SetPin, Visits
<1> HIDE DEF new
<1>6. relay' \in [Relays -> RelayState] /\ relay'[r] = new
      /\ \A q \in Relays \ {r} : relay'[q] = relay[q]
  BY <1>0, <1>3, <1>4
<1> QED
  BY <1>3, <1>5, <1>6 DEF SetPin, HeatInv

\* The visits of the main loop keep the types.
LEMMA HeatVisitKeeps == HeatInv /\ HeatVisit => HeatInv'
<1> SUFFICES ASSUME HeatInv, HeatVisit PROVE HeatInv'
  OBVIOUS
<1>0. 0 \in Times
  BY HeatAssumption DEF Times
<1>1. ASSUME NEW r \in Relays, SsrDue(r) PROVE HeatInv'
  BY <1>1 DEF SsrDue, HeatInv, Visits
<1>2. CASE SsrSwitch
  <2>1. heat.r \in Relays
    BY <1>2 DEF SsrSwitch, HeatInv, Visits, NoVisit
  <2>2. relay[heat.r] \in RelayState
    BY <2>1 DEF HeatInv
  <2>3. PICK st \in BOOLEAN, time \in Times : SetPin(heat.r, st, time, "ssr")
    <3>1. /\ relay[heat.r].desired \in BOOLEAN /\ (~relay[heat.r].desired) \in BOOLEAN
          /\ relay[heat.r].time \in Times
      BY <2>2 DEF RelayState
    <3> QED
      BY <1>0, <1>2, <3>1 DEF SsrSwitch
  <2> QED
    BY <2>1, <2>3, SetPinKeeps
<1>3. CASE SetStored
  <2>1. /\ heat.r \in Relays /\ heat.state \in BOOLEAN /\ heat.time \in Times
        /\ heat.from \in Therms \cup {"ssr"}
    BY <1>3 DEF SetStored, HeatInv, Visits, NoVisit
  <2>2. StateStored(relay[heat.r], heat.state, heat.time, 0) \in RelayState
    BY <1>0, <2>1, RelayTypes DEF HeatInv
  <2>3. relay' \in [Relays -> RelayState]
    BY <1>3, <2>2 DEF SetStored, HeatInv
  <2>4. therm' \in [Therms -> Thermostat]
    <3>1. CASE therm' = therm
      BY <3>1 DEF HeatInv
    <3>2. CASE heat.from # "ssr" /\ therm' = [therm EXCEPT ![heat.from].ssr = heat.state]
      <4>1. heat.from \in Therms /\ therm \in [Therms -> Thermostat]
        BY <2>1, <3>2 DEF HeatInv
      <4>2. [therm[heat.from] EXCEPT !.ssr = heat.state] \in Thermostat
        BY <2>1, <4>1 DEF Thermostat
      <4>3. therm' = [therm EXCEPT ![heat.from] = [therm[heat.from] EXCEPT !.ssr = heat.state]]
        BY <3>2, <4>1
      <4> QED
        BY <4>1, <4>2, <4>3
    <3> QED
      BY <1>3, <3>1, <3>2 DEF SetStored
  <2>5. heat' \in Visits
    BY <1>3 DEF SetStored, Visits
  <2> QED
    BY <1>3, <2>3, <2>4, <2>5 DEF SetStored, HeatInv
<1>4. ASSUME NEW t \in Therms, ThermFollow(t) PROVE HeatInv'
  <2>1. relay[RelayOf[t]].actual \in BOOLEAN
    BY HeatAssumption DEF HeatInv, RelayState
  <2> QED
    BY <1>4, <2>1 DEF ThermFollow, HeatInv, Thermostat
<1>5. ASSUME NEW t \in Therms, ThermMeasure(t) PROVE HeatInv'
  <2>1. Heats(t) \in BOOLEAN
    <3>1. therm[t].ssr \in BOOLEAN
      BY DEF HeatInv, Thermostat
    <3> QED
      BY <3>1 DEF Heats
  <2>2. heat' \in Visits
    BY <1>5, <2>1 DEF ThermMeasure, Visits
  <2> QED
    BY <1>5, <2>2 DEF ThermMeasure, HeatInv
<1>6. CASE ThermSwitch
  <2>1. heat.t \in Therms /\ heat.state \in BOOLEAN
    BY <1>6 DEF ThermSwitch, HeatInv, Visits, NoVisit
  <2>2. RelayOf[heat.t] \in Relays
    BY <2>1, HeatAssumption
  <2> QED
    BY <1>0, <1>6, <2>1, <2>2, SetPinKeeps DEF ThermSwitch
<1>7. ASSUME NEW t \in Therms, RsensListen(t) \/ RsensBad(t) PROVE HeatInv'
  BY <1>7 DEF RsensListen, RsensBad, HeatInv, RemoteSensor
<1>8. ASSUME NEW t \in Therms, NEW d \in Degrees, RsensData(t, d) PROVE HeatInv'
  BY <1>8 DEF RsensData, HeatInv, RemoteSensor
<1> QED
  BY <1>1, <1>2, <1>3, <1>4, <1>5, <1>6, <1>7, <1>8 DEF HeatVisit

\* The commands, and the values that are received, keep the types.
LEMMA HeatCommandKeeps == HeatInv /\ HeatCommand => HeatInv'
<1> SUFFICES ASSUME HeatInv, HeatCommand PROVE HeatInv'
  OBVIOUS
<1>0. 0 \in Times
  BY HeatAssumption DEF Times
<1>1. ASSUME NEW r \in Relays, NEW st \in BOOLEAN, NEW time \in Times, NEW delay \in Times,
             SsrSet(r, st, time, delay)
      PROVE  HeatInv'
  <2>1. StateSet(r, st, time, delay) \in RelayState
    BY StateSetTypes
  <2> QED
    BY <1>1, <2>1 DEF SsrSet, HeatInv
<1>2. CASE SsrReset
  <2>1. \A r \in Relays : StateSet(r, FALSE, 0, 0) \in RelayState
    BY <1>0, StateSetTypes
  <2> QED
    BY <1>2, <2>1 DEF SsrReset, HeatInv
<1>3. ASSUME NEW T, NEW st \in BOOLEAN, ThermState(T, st) PROVE HeatInv'
  <2>1. \A r \in Relays : StateSet(r, FALSE, 0, 0) \in RelayState
    BY <1>0, StateSetTypes
  <2>2. relay' \in [Relays -> RelayState]
    BY <1>3, <2>1 DEF ThermState, HeatInv
  <2>3. ASSUME NEW t \in Therms
        PROVE  [therm[t] EXCEPT !.enable = st,
                                !.ssr = st /\ relay[RelayOf[t]].actual] \in Thermostat
    <3>1. (st /\ relay[RelayOf[t]].actual) \in BOOLEAN
      OBVIOUS
    <3> QED
      BY <3>1 DEF HeatInv, Thermostat
  <2>4. therm' \in [Therms -> Thermostat]
    BY <1>3, <2>3 DEF ThermState, HeatInv
  <2> QED
    BY <1>3, <2>2, <2>4 DEF ThermState, HeatInv
<1>4. ASSUME NEW t \in Therms, NEW d \in Degrees, ThermTemperature(t, d) PROVE HeatInv'
  <2>1. therm[t] \in Thermostat
    BY DEF HeatInv
  <2>2. d - (therm[t].off - therm[t].on) \in Int
    <3>1. d \in Int /\ therm[t].off \in Int /\ therm[t].on \in Int
      BY <2>1, HeatAssumption DEF Thermostat
    <3> QED
      BY <3>1
  <2> QED
    BY <1>4, <2>1, <2>2 DEF ThermTemperature, HeatInv, Thermostat
<1>5. ASSUME NEW t \in Therms, NEW h \in Hysts, ThermHysteresis(t, h) PROVE HeatInv'
  <2>1. therm[t] \in Thermostat
    BY DEF HeatInv
  <2>2. therm[t].off - h \in Int
    <3>1. h \in Int /\ therm[t].off \in Int
      BY <2>1, HeatAssumption DEF Thermostat
    <3> QED
      BY <3>1
  <2> QED
    BY <1>5, <2>1, <2>2 DEF ThermHysteresis, HeatInv, Thermostat
<1> QED
  BY <1>1, <1>2, <1>3, <1>4, <1>5 DEF HeatCommand

\* Every step of Heating keeps the types.
LEMMA HeatInvNext == HeatInv /\ [HeatNext]_heatVars => HeatInv'
<1> SUFFICES ASSUME HeatInv, [HeatNext]_heatVars PROVE HeatInv'
  OBVIOUS
<1>1. CASE HeatTick
  <2>1. ASSUME NEW r \in Relays
        PROVE  [relay[r] EXCEPT !.age = IF @ < MaxTime THEN @ + 1 ELSE @] \in RelayState
    <3>1. relay[r] \in RelayState
      BY DEF HeatInv
    <3>2. relay[r].age \in Times
      BY <3>1 DEF RelayState
    <3>3. (IF relay[r].age < MaxTime THEN relay[r].age + 1 ELSE relay[r].age) \in Times
      BY <3>2, HeatAssumption DEF Times
    <3> QED
      BY <3>1, <3>3 DEF RelayState
  <2> QED
    BY <1>1, <2>1 DEF HeatTick, HeatInv
<1>2. CASE UNCHANGED heatVars
  BY <1>2 DEF heatVars, HeatInv
<1> QED
  BY <1>1, <1>2, HeatVisitKeeps, HeatCommandKeeps DEF HeatNext

\* The output of a relay is what the program reports of it and thermostats follow, except
\* for the one whose ssr_state_set() is between its gpio_put() and its stores.
PinShown ==
    \A r \in Relays : relay[r].pin = relay[r].actual \/ (heat.at = "set" /\ heat.r = r)

\* In between the pin is as it was decided.
PinDecided == heat.at = "set" => relay[heat.r].pin = heat.state

\* No command switches a relay in the middle of its own ssr_state_set().
NoneBetween ==
    [][heat.at = "set" /\ heat'.at = "set" => relay'[heat.r].pin = relay[heat.r].pin]_heatVars

\* A relay is left as it is, or pin and state are set together.
Together(old, new) ==
    \/ new.pin = old.pin /\ new.actual = old.actual
    \/ new.pin = new.actual

\* ssr_state_set() as a whole sets pin and state together.
LEMMA SetTogether ==
    ASSUME HeatInv, NEW r \in Relays, NEW st \in BOOLEAN, NEW time \in Times, NEW delay \in Times
    PROVE  Together(relay[r], StateSet(r, st, time, delay))
<1> DEFINE put == PinSet(relay[r], st, delay)
           stored == StateStored(put, st, time, delay)
<1>1. relay[r] \in RelayState /\ put \in RelayState /\ stored \in RelayState
  BY RelayTypes DEF HeatInv
<1>2. stored.pin = put.pin /\ stored.actual = IF delay = 0 THEN st ELSE put.actual
  BY <1>1 DEF StateStored, RelayState
<1>3. put.pin = (IF delay = 0 THEN st ELSE relay[r].pin) /\ put.actual = relay[r].actual
  BY <1>1 DEF PinSet, RelayState
<1>4. Together(relay[r], stored)
  BY <1>2, <1>3 DEF Together
<1>5. StateSet(r, st, time, delay).pin = stored.pin
      /\ StateSet(r, st, time, delay).actual = stored.actual
  BY <1>1, AsksTypes DEF StateSet
<1> QED
  BY <1>4, <1>5 DEF Together

\* So do the commands, and time leaves both alone; neither is a step of the visit.
LEMMA CommandTogether ==
    ASSUME HeatInv, HeatCommand \/ HeatTick
    PROVE  heat' = heat /\ \A r \in Relays : Together(relay[r], relay'[r])
<1>0. 0 \in Times
  BY HeatAssumption DEF Times
<1>t. relay \in [Relays -> RelayState]
  BY DEF HeatInv
<1>k. \A rel : Together(rel, rel)
  BY DEF Together
<1>1. ASSUME NEW r \in Relays, NEW st \in BOOLEAN, NEW time \in Times, NEW delay \in Times,
             SsrSet(r, st, time, delay)
      PROVE  heat' = heat /\ \A q \in Relays : Together(relay[q], relay'[q])
  <2>1. Together(relay[r], StateSet(r, st, time, delay))
    BY SetTogether
  <2>2. relay'[r] = StateSet(r, st, time, delay)
    BY <1>1, <1>t DEF SsrSet
  <2>3. \A q \in Relays \ {r} : relay'[q] = relay[q]
    BY <1>1, <1>t DEF SsrSet
  <2> QED
    BY <1>1, <1>k, <2>1, <2>2, <2>3 DEF SsrSet
<1>2. CASE SsrReset
  <2>1. \A q \in Relays : relay'[q] = StateSet(q, FALSE, 0, 0)
    BY <1>2 DEF SsrReset
  <2> QED
    BY <1>0, <1>2, <1>t, <2>1, SetTogether DEF SsrReset
<1>3. ASSUME NEW T, NEW st \in BOOLEAN, ThermState(T, st)
      PROVE  heat' = heat /\ \A q \in Relays : Together(relay[q], relay'[q])
  <2>1. \A q \in Relays : relay'[q] = StateSet(q, FALSE, 0, 0) \/ relay'[q] = relay[q]
    BY <1>3 DEF ThermState
  <2>2. \A q \in Relays : Together(relay[q], StateSet(q, FALSE, 0, 0))
    BY <1>0, <1>t, SetTogether
  <2> QED
    BY <1>3, <1>k, <2>1, <2>2 DEF ThermState
<1>4. ASSUME NEW t \in Therms, NEW d \in Degrees, ThermTemperature(t, d)
      PROVE  heat' = heat /\ \A q \in Relays : Together(relay[q], relay'[q])
  BY <1>4, <1>k DEF ThermTemperature
<1>5. ASSUME NEW t \in Therms, NEW h \in Hysts, ThermHysteresis(t, h)
      PROVE  heat' = heat /\ \A q \in Relays : Together(relay[q], relay'[q])
  BY <1>5, <1>k DEF ThermHysteresis
<1>6. CASE HeatTick
  <2>1. \A q \in Relays : relay'[q].pin = relay[q].pin /\ relay'[q].actual = relay[q].actual
    BY <1>6, <1>t DEF HeatTick, RelayState
  <2> QED
    BY <1>6, <2>1 DEF HeatTick, Together
<1>7. CASE HeatCommand
  BY <1>1, <1>2, <1>3, <1>4, <1>5, <1>7, Zenon DEF HeatCommand
<1> QED
  BY <1>6, <1>7

\* Every step keeps it, unless a command switches the relay in between.
LEMMA PinShownStep ==
    ASSUME HeatInv, PinShown, PinDecided, [HeatNext]_heatVars,
           [heat.at = "set" /\ heat'.at = "set" => relay'[heat.r].pin = relay[heat.r].pin]_heatVars
    PROVE  PinShown' /\ PinDecided'
<1>t. relay \in [Relays -> RelayState]
  BY DEF HeatInv
<1>1. CASE UNCHANGED heatVars
  BY <1>1 DEF heatVars, PinShown, PinDecided
<1>2. CASE (HeatCommand \/ HeatTick) /\ ~UNCHANGED heatVars
  <2>1. heat' = heat /\ \A r \in Relays : Together(relay[r], relay'[r])
    BY <1>2, CommandTogether
  <2>2. heat.at = "set" => relay'[heat.r].pin = relay[heat.r].pin
    BY <1>2, <2>1
  <2>3. PinDecided'
    BY <2>1, <2>2 DEF PinDecided
  <2>4. ASSUME NEW r \in Relays, ~(heat.at = "set" /\ heat.r = r)
        PROVE  relay'[r].pin = relay'[r].actual
    BY <2>1, <2>4 DEF PinShown, Together
  <2> QED
    BY <2>1, <2>3, <2>4 DEF PinShown
<1>3. ASSUME heat.at # "set", UNCHANGED relay, heat'.at # "set" PROVE PinShown' /\ PinDecided'
  BY <1>3 DEF PinShown, PinDecided
<1>4. ASSUME NEW r \in Relays, NEW st \in BOOLEAN, NEW time \in Times,
             NEW from \in Therms \cup {"ssr"}, heat.at # "set",
             SetPin(r, st, time, from)
      PROVE  PinShown' /\ PinDecided'
  <2>1. heat'.at = "set" /\ heat'.r = r /\ heat'.state = st
    BY <1>4 DEF SetPin
  <2>2. relay'[r].pin = st
    BY <1>4, SetPinKeeps
  <2>3. \A q \in Relays \ {r} : relay'[q] = relay[q]
    BY <1>4, SetPinKeeps
  <2>4. \A q \in Relays \ {r} : relay'[q].pin = relay'[q].actual
    BY <1>4, <2>3 DEF PinShown
  <2> QED
    BY <2>1, <2>2, <2>4 DEF PinShown, PinDecided
<1>5. CASE SetStored
  <2>1. heat.at = "set" /\ heat.r \in Relays /\ heat'.at = "idle"
    BY <1>5 DEF SetStored, HeatInv, Visits, NoVisit
  <2>2. relay'[heat.r].pin = relay[heat.r].pin
    BY <1>5, <1>t, <2>1 DEF SetStored, StateStored, RelayState
  <2>3. relay'[heat.r].actual = heat.state
    BY <1>5, <1>t, <2>1 DEF SetStored, StateStored, RelayState
  <2>4. \A q \in Relays \ {heat.r} : relay'[q] = relay[q]
    BY <1>5, <1>t DEF SetStored
  <2>5. \A q \in Relays : relay'[q].pin = relay'[q].actual
    BY <2>1, <2>2, <2>3, <2>4 DEF PinShown, PinDecided
  <2> QED
    BY <2>1, <2>5 DEF PinShown, PinDecided
<1>6. CASE SsrSwitch
  <2>1. heat.r \in Relays /\ heat.at # "set"
    BY <1>6 DEF SsrSwitch, HeatInv, Visits, NoVisit
  <2>2. /\ relay[heat.r].desired \in BOOLEAN /\ (~relay[heat.r].desired) \in BOOLEAN
        /\ relay[heat.r].time \in Times
    BY <1>t, <2>1 DEF RelayState
  <2>0. 0 \in Times
    BY HeatAssumption DEF Times
  <2>3. PICK st \in BOOLEAN, time \in Times : SetPin(heat.r, st, time, "ssr")
    <3>1. CASE SetPin(heat.r, relay[heat.r].desired, relay[heat.r].time, "ssr")
      BY <2>2, <3>1, Zenon
    <3>2. CASE SetPin(heat.r, ~relay[heat.r].desired, 0, "ssr")
      BY <2>0, <2>2, <3>2, Zenon
    <3> QED
      BY <1>6, <3>1, <3>2 DEF SsrSwitch
  <2> QED
    BY <1>4, <2>1, <2>3
<1>7. CASE ThermSwitch
  <2>1. heat.t \in Therms /\ heat.state \in BOOLEAN /\ heat.at # "set"
    BY <1>7 DEF ThermSwitch, HeatInv, Visits, NoVisit
  <2>2. RelayOf[heat.t] \in Relays /\ 0 \in Times
    BY <2>1, HeatAssumption DEF Times
  <2> QED
    BY <1>4, <1>7, <2>1, <2>2 DEF ThermSwitch
<1>8. ASSUME \/ \E r \in Relays : SsrDue(r)
             \/ \E t \in Therms :
                  \/ ThermFollow(t) \/ ThermMeasure(t) \/ RsensListen(t)
                  \/ \E d \in Degrees : RsensData(t, d)
                  \/ RsensBad(t)
      PROVE  PinShown' /\ PinDecided'
  <2>1. NoVisit.at # "set"
    BY DEF NoVisit
  <2>2. heat = NoVisit /\ UNCHANGED relay
    BY <1>8, Zenon DEF SsrDue, ThermFollow, ThermMeasure, RsensListen, RsensData, RsensBad
  <2>3. ASSUME NEW r \in Relays, SsrDue(r) PROVE heat'.at # "set"
    BY <2>3 DEF SsrDue
  <2>4. ASSUME NEW t \in Therms, ThermMeasure(t) PROVE heat'.at # "set"
    BY <2>4 DEF ThermMeasure
  <2>5. ASSUME NEW t \in Therms, \/ ThermFollow(t) \/ RsensListen(t) \/ RsensBad(t)
                                \/ \E d \in Degrees : RsensData(t, d)
        PROVE  heat' = heat
    BY <2>5, Zenon DEF ThermFollow, RsensListen, RsensData, RsensBad
  <2> QED
    BY <1>3, <1>8, <2>1, <2>2, <2>3, <2>4, <2>5
<1> QED
  BY <1>1, <1>2, <1>5, <1>6, <1>7, <1>8 DEF HeatNext, HeatVisit

\* A web command that switches a relay between the gpio_put() and the stores of a
\* ssr_state_set() of the main loop is the only way in which a relay is not what the
\* program reports of it and what disabled thermostats follow: without one, all relays
\* are as they are shown, for any number of relays, thermostats and commands.
THEOREM OnlyMidSetHides == HeatSpec /\ NoneBetween => []PinShown
<1>1. HeatInit => PinShown /\ PinDecided
  <2> SUFFICES ASSUME HeatInit PROVE PinShown /\ PinDecided
    OBVIOUS
  <2>1. heat.at # "set"
    BY DEF HeatInit, NoVisit
  <2>2. \A r \in Relays : relay[r].pin = relay[r].actual
    BY DEF HeatInit
  <2> QED
    BY <2>1, <2>2 DEF PinShown, PinDecided
<1>2. /\ HeatInv /\ PinShown /\ PinDecided /\ [HeatNext]_heatVars
      /\ [heat.at = "set" /\ heat'.at = "set" => relay'[heat.r].pin = relay[heat.r].pin]_heatVars
      => PinShown' /\ PinDecided'
  BY PinShownStep
<1> QED
  BY <1>1, <1>2, HeatInvInit, HeatInvNext, PTL DEF HeatSpec, NoneBetween

----
\* The SHT20 sensors.

Sht == [power : DOMAIN Powers, conn : BOOLEAN, req : BOOLEAN, n : 0..NSamples,
        cmd : Kinds, valid : SUBSET Kinds, err : BOOLEAN, errs : 0..(ErrThr - 1)]

\* The power states are numbered from 1 to 4.
LEMMA PowerStates == DOMAIN Powers = 1..4
BY DEF Powers

\* The sensors are typed at first.
LEMMA ShtTypesInit == ShtInit => ShtTypeOK
<1> SUFFICES ASSUME ShtInit PROVE ShtTypeOK
  OBVIOUS
<1>0. /\ 0 \in 0..NSamples /\ 0 \in 0..(ErrThr - 1) /\ 0 \in 0..ShtMaxFaults
      /\ 1 \in DOMAIN Powers /\ 1 \in 1..(NSensors + 1)
  BY ShtAssumption, PowerStates
<1>1. sht \in [Sensors -> Sht]
  BY <1>0 DEF ShtInit, Sht, Kinds
<1>2. timers \in SUBSET Timer
  BY DEF ShtInit, Timer
<1> QED
  BY <1>0, <1>1, <1>2 DEF ShtInit, ShtTypeOK, Sht

\* A sensor with its power down, and one that is configured or not.
LEMMA SensorTypes ==
    ASSUME NEW d \in Sht
    PROVE  Down(d) \in Sht
<1>1. 1 \in DOMAIN Powers
  BY PowerStates
<1> QED
  BY <1>1 DEF Down, Sht

\* A sensor whose initialisation has been tried is typed.
LEMMA InitedType ==
    ASSUME ShtTypeOK, shtIdx \in Sensors, NEW ok \in BOOLEAN
    PROVE  Inited(ok) \in Sht
<1>1. Sensor \in Sht
  BY DEF ShtTypeOK, Sht, Sensor, Visited
<1>2. 0 \in 0..(ErrThr - 1) /\ (Sensor.errs + 1) % ErrThr \in 0..(ErrThr - 1)
      /\ (Sensor.errs + 1 = ErrThr) \in BOOLEAN
  BY <1>1, ShtAssumption DEF Sht
<1> QED
  BY <1>1, <1>2 DEF Inited, Sht

\* A visit changes the sensor at idx, and starts timers.
LEMMA VisitKeeps ==
    ASSUME ShtTypeOK, shtIdx \in Sensors, NEW d \in Sht, Is(d),
           shtIdx' \in {shtIdx, shtIdx + 1}, timers' \in SUBSET Timer,
           buses' \in SUBSET Buses, shtFaults' \in 0..ShtMaxFaults
    PROVE  ShtTypeOK'
<1>1. sht' \in [Sensors -> Sht]
  BY DEF Is, Visited, ShtTypeOK, Sht
<1>2. shtIdx' \in 1..(NSensors + 1)
  BY ShtAssumption DEF Sensors
<1> QED
  BY <1>1, <1>2 DEF ShtTypeOK, Sht

\* Every step of Sht20 keeps the types.
LEMMA ShtTypesNext == ShtTypeOK /\ [ShtNext]_shtVars => ShtTypeOK'
<1> SUFFICES ASSUME ShtTypeOK, [ShtNext]_shtVars PROVE ShtTypeOK'
  OBVIOUS
<1>f. ASSUME NEW ok \in BOOLEAN, ShtTry(ok) PROVE shtFaults' \in 0..ShtMaxFaults
  BY <1>f, ShtAssumption DEF ShtTry, ShtTypeOK
<1>s. shtIdx \in Sensors => Sensor \in Sht
  BY DEF ShtTypeOK, Sht, Sensor, Visited
<1>v. ASSUME shtIdx \in Sensors
      PROVE  \A w \in {"power", "measure", "err"} : <<w, Visited>> \in Timer
  BY <1>v DEF Timer, Visited
<1>w. ASSUME NEW S \in SUBSET Timer, VisitEnds(S)
      PROVE  shtIdx' = shtIdx + 1 /\ timers' \in SUBSET Timer
  BY <1>w DEF VisitEnds, ShtTypeOK, Timer
<1>d. ASSUME shtIdx \in Sensors, NEW dev
      PROVE  DownDelay \in SUBSET Timer /\ ErrDelay(dev) \in SUBSET Timer
             /\ {<<"measure", Visited>>} \cup ErrDelay(dev) \in SUBSET Timer
             /\ DownDelay \cup ErrDelay(dev) \in SUBSET Timer
  BY <1>d, <1>v DEF DownDelay, ErrDelay
<1>b. ASSUME shtIdx \in Sensors
      PROVE  /\ buses \in SUBSET Buses /\ Bus \in Buses
             /\ \A d : PowerDown(d) => Is(Down(d)) /\ buses' \in SUBSET Buses
  BY <1>b DEF ShtTypeOK, Bus, Buses, Visited, PowerDown
<1>1. CASE ErrWait
  <2>1. [Sensor EXCEPT !.err = Waits("err")] \in Sht
    <3>1. Waits("err") \in BOOLEAN
      BY DEF Waits
    <3> QED
      BY <1>1, <1>s, <3>1 DEF ErrWait, Sht
  <2>2. {} \in SUBSET Timer
    OBVIOUS
  <2> QED
    BY <1>1, <1>w, <1>b, <2>1, <2>2, VisitKeeps DEF ErrWait, ShtTypeOK
<1>2. CASE Sample
  <2>0. shtIdx \in Sensors /\ Sensor \in Sht /\ Sensor.n + 1 < NSamples
    BY <1>2, <1>s DEF Sample
  <2>1. Sensor.n + 1 \in 0..NSamples
    BY <2>0, ShtAssumption DEF Sht
  <2>2. [Sensor EXCEPT !.n = @ + 1] \in Sht
    BY <2>0, <2>1 DEF Sht
  <2>3. timers' \in SUBSET Timer
    BY <1>2, <1>v, <2>0 DEF Sample, Start, ShtTypeOK
  <2>4. shtFaults' \in 0..ShtMaxFaults
    BY <1>2, <1>f DEF Sample
  <2> QED
    BY <1>2, <1>b, <2>0, <2>2, <2>3, <2>4, VisitKeeps DEF Sample
<1>3. CASE Measured
  <2>0. shtIdx \in Sensors /\ Sensor \in Sht
    BY <1>3, <1>s DEF Measured
  <2>1. /\ 0 \in 0..NSamples /\ Sensor.valid \cup {Sensor.cmd} \in SUBSET Kinds
        /\ (CHOOSE k \in Kinds : k # Sensor.cmd) \in Kinds
    BY <2>0, ShtAssumption DEF Sht, Kinds
  <2>2. Down([Sensor EXCEPT !.n = 0, !.valid = @ \cup {Sensor.cmd},
                            !.cmd = CHOOSE k \in Kinds : k # Sensor.cmd]) \in Sht
    <3>1. [Sensor EXCEPT !.n = 0, !.valid = @ \cup {Sensor.cmd},
                         !.cmd = CHOOSE k \in Kinds : k # Sensor.cmd] \in Sht
      BY <2>0, <2>1 DEF Sht
    <3> QED
      BY <3>1, SensorTypes
  <2>3. shtFaults' \in 0..ShtMaxFaults
    BY <1>3, <1>f DEF Measured
  <2> QED
    BY <1>3, <1>w, <1>d, <1>b, <2>0, <2>2, <2>3, VisitKeeps DEF Measured
<1>4. CASE SampleFails
  <2>0. shtIdx \in Sensors /\ Sensor \in Sht
    BY <1>4, <1>s DEF SampleFails
  <2>1. 0 \in 0..NSamples /\ Sensor.valid \ {Sensor.cmd} \in SUBSET Kinds
    BY <2>0, ShtAssumption DEF Sht
  <2>2. Down([Sensor EXCEPT !.n = 0, !.valid = @ \ {Sensor.cmd}]) \in Sht
    <3>1. [Sensor EXCEPT !.n = 0, !.valid = @ \ {Sensor.cmd}] \in Sht
      BY <2>0, <2>1 DEF Sht
    <3> QED
      BY <3>1, SensorTypes
  <2>3. shtFaults' \in 0..ShtMaxFaults
    <3>1. (Bus \notin buses) \in BOOLEAN
      OBVIOUS
    <3> QED
      BY <1>4, <1>f, <3>1 DEF SampleFails
  <2> QED
    BY <1>4, <1>w, <1>d, <1>b, <2>0, <2>2, <2>3, VisitKeeps DEF SampleFails
<1>5. CASE PowerUp
  <2>0. shtIdx \in Sensors /\ Sensor \in Sht
    BY <1>5, <1>s DEF PowerUp, Connecting
  <2>1. PICK p \in (Sensor.power + 1)..3 : Is([Sensor EXCEPT !.power = p, !.conn = FALSE])
    BY <1>5 DEF PowerUp
  <2>2. p \in DOMAIN Powers
    BY <2>0, PowerStates DEF Sht
  <2>3. [Sensor EXCEPT !.power = p, !.conn = FALSE] \in Sht
    BY <2>0, <2>2 DEF Sht
  <2>4. timers' \in SUBSET Timer
    BY <1>5, <1>v, <2>0 DEF PowerUp, Start, ShtTypeOK
  <2> QED
    BY <1>5, <1>b, <2>0, <2>1, <2>3, <2>4, VisitKeeps DEF PowerUp, ShtTypeOK
<1>6. CASE Asked
  <2>0. shtIdx \in Sensors
    BY <1>6 DEF Asked, Connecting
  <2>1. PICK init \in BOOLEAN :
          /\ ShtTry(init)
          /\ Is([Inited(init) EXCEPT !.power = 4, !.conn = TRUE, !.req = TRUE])
          /\ VisitEnds({<<"measure", Visited>>} \cup ErrDelay(Inited(init)))
    BY <1>6 DEF Asked
  <2>2. [Inited(init) EXCEPT !.power = 4, !.conn = TRUE, !.req = TRUE] \in Sht
    <3>1. 4 \in DOMAIN Powers
      BY PowerStates
    <3> QED
      BY <2>0, <3>1, InitedType DEF Sht
  <2> QED
    BY <1>6, <1>f, <1>w, <1>d, <1>b, <2>0, <2>1, <2>2, VisitKeeps DEF Asked
<1>7. CASE NotAsked
  <2>0. shtIdx \in Sensors /\ ShtTry(FALSE)
    BY <1>7 DEF NotAsked, Connecting
  <2>1. PICK init \in BOOLEAN, found \in BOOLEAN :
          /\ PowerDown([Inited(init) EXCEPT !.conn = found])
          /\ VisitEnds(DownDelay \cup ErrDelay(Inited(init)))
    BY <1>7 DEF NotAsked
  <2>2. [Inited(init) EXCEPT !.conn = found] \in Sht
    BY <2>0, InitedType DEF Sht
  <2> QED
    BY <1>f, <1>w, <1>d, <1>b, <2>0, <2>1, <2>2, SensorTypes, VisitKeeps
<1>8. CASE NextRound
  BY <1>8, ShtAssumption DEF NextRound, ShtTypeOK
<1>9. CASE \E t \in timers : ShtTime(t)
  BY <1>9 DEF ShtTime, ShtTypeOK
<1>10. CASE UNCHANGED shtVars
  BY <1>10 DEF shtVars, ShtTypeOK
<1> QED
  BY <1>1, <1>2, <1>3, <1>4, <1>5, <1>6, <1>7, <1>8, <1>9, <1>10 DEF ShtNext, ShtRun

\* A sensor is fully powered exactly while its measurement runs.
PowerSteady(d) ==
    /\ d.req => d.power = 4 /\ d.conn
    /\ d.power = 4 => d.req

\* Besides, only the sensor that is visited is being powered up.
PowerFollows ==
    \A s \in Sensors :
        /\ PowerSteady(sht[s])
        /\ sht[s].power \in {2, 3} => s = shtIdx /\ ~sht[s].err

\* No sensor is asked while the measurement of another one on its bus runs.
NoOverlap ==
    [][\A s \in Sensors : sht'[s].req /\ ~sht[s].req =>
         \A o \in Sensors \ {s} : BusOf[o] = BusOf[s] => ~sht[o].req]_shtVars

\* A visit that leaves its sensor steady, and that goes on to the next one only with the
\* sensor down or fully powered.
LEMMA VisitPower ==
    ASSUME ShtTypeOK, PowerFollows, shtIdx \in Sensors, NEW d, Is(d), PowerSteady(d),
           d.power \in {2, 3} => shtIdx' = shtIdx /\ ~d.err
    PROVE  PowerFollows'
<1>1. /\ sht'[shtIdx] = d
      /\ \A s \in Sensors \ {shtIdx} : sht'[s] = sht[s]
  BY DEF Is, Visited, ShtTypeOK
<1>2. \A s \in Sensors \ {shtIdx} : PowerSteady(sht[s]) /\ sht[s].power \notin {2, 3}
  BY DEF PowerFollows
<1>3. \A s \in Sensors : PowerSteady(sht'[s])
  BY <1>1, <1>2
<1>4. \A s \in Sensors : sht'[s].power \in {2, 3} => s = shtIdx' /\ ~sht'[s].err
  BY <1>1, <1>2
<1> QED
  BY <1>3, <1>4 DEF PowerFollows, PowerSteady

\* sht20_power_down() leaves a steady sensor.
LEMMA DownSteady ==
    ASSUME NEW d \in Sht
    PROVE  PowerSteady(Down(d)) /\ Down(d).power = 1 /\ ~Down(d).req
BY DEF PowerSteady, Down, Sht

\* Every step of the sensors keeps it; only sht20_sensor_request_data() asks a sensor.
LEMMA PowerStep ==
    ASSUME ShtTypeOK, PowerFollows, [ShtNext]_shtVars
    PROVE  /\ PowerFollows'
           /\ \A s \in Sensors : sht'[s].req /\ ~sht[s].req =>
                s = shtIdx /\ \A o \in Sensors \ {s} : sht'[o] = sht[o]
<1> DEFINE OneAsked == \A s \in Sensors : sht'[s].req /\ ~sht[s].req =>
                     s = shtIdx /\ \A o \in Sensors \ {s} : sht'[o] = sht[o]
<1>s. shtIdx \in Sensors => Sensor \in Sht /\ PowerSteady(Sensor) /\ Sensor = sht[shtIdx]
  BY DEF ShtTypeOK, Sht, Sensor, Visited, PowerFollows
<1>a. ASSUME shtIdx \in Sensors, NEW d, Is(d) PROVE OneAsked
  BY <1>a DEF Is, Visited, ShtTypeOK
<1>1. CASE ErrWait
  <2>0. shtIdx \in Sensors /\ Sensor \in Sht /\ PowerSteady(Sensor) /\ Sensor.err
    BY <1>1, <1>s DEF ErrWait
  <2>1. PICK e \in BOOLEAN : Is([Sensor EXCEPT !.err = e])
    <3>1. Waits("err") \in BOOLEAN
      BY DEF Waits
    <3> QED
      BY <1>1, <3>1 DEF ErrWait
  <2>2. /\ PowerSteady([Sensor EXCEPT !.err = e])
        /\ [Sensor EXCEPT !.err = e].power = Sensor.power
    BY <2>0 DEF PowerSteady, Sht
  <2>3. Sensor.power \notin {2, 3}
    BY <1>s, <2>0 DEF PowerFollows
  <2> QED
    BY <1>a, <2>0, <2>1, <2>2, <2>3, VisitPower
<1>2. CASE Sample
  <2>0. shtIdx \in Sensors /\ Sensor \in Sht /\ PowerSteady(Sensor) /\ Sensor.req
    BY <1>2, <1>s DEF Sample
  <2>1. /\ PowerSteady([Sensor EXCEPT !.n = @ + 1])
        /\ [Sensor EXCEPT !.n = @ + 1].power \notin {2, 3}
    BY <2>0 DEF PowerSteady, Sht
  <2>2. Is([Sensor EXCEPT !.n = @ + 1])
    BY <1>2 DEF Sample
  <2> QED
    BY <1>a, <2>0, <2>1, <2>2, VisitPower
<1>3. ASSUME shtIdx \in Sensors, NEW d \in Sht, PowerDown(d) PROVE PowerFollows' /\ OneAsked
  BY <1>3, <1>a, DownSteady, VisitPower DEF PowerDown
<1>4. CASE Measured
  <2>0. shtIdx \in Sensors /\ Sensor \in Sht
    BY <1>4, <1>s DEF Measured
  <2>1. /\ 0 \in 0..NSamples /\ Sensor.valid \cup {Sensor.cmd} \in SUBSET Kinds
        /\ (CHOOSE k \in Kinds : k # Sensor.cmd) \in Kinds
    BY <2>0, ShtAssumption DEF Sht, Kinds
  <2>2. [Sensor EXCEPT !.n = 0, !.valid = @ \cup {Sensor.cmd},
                       !.cmd = CHOOSE k \in Kinds : k # Sensor.cmd] \in Sht
    BY <2>0, <2>1 DEF Sht
  <2> QED
    BY <1>3, <1>4, <2>0, <2>2 DEF Measured
<1>5. CASE SampleFails
  <2>0. shtIdx \in Sensors /\ Sensor \in Sht
    BY <1>5, <1>s DEF SampleFails
  <2>1. 0 \in 0..NSamples /\ Sensor.valid \ {Sensor.cmd} \in SUBSET Kinds
    BY <2>0, ShtAssumption DEF Sht
  <2>2. [Sensor EXCEPT !.n = 0, !.valid = @ \ {Sensor.cmd}] \in Sht
    BY <2>0, <2>1 DEF Sht
  <2> QED
    BY <1>3, <1>5, <2>0, <2>2 DEF SampleFails
<1>6. CASE PowerUp
  <2>0. /\ shtIdx \in Sensors /\ Sensor \in Sht /\ PowerSteady(Sensor) /\ ~Sensor.err
        /\ ~(Sensor.conn /\ Sensor.req) /\ shtIdx' = shtIdx
    BY <1>6, <1>s DEF PowerUp, Connecting
  <2>1. PICK p \in (Sensor.power + 1)..3 : Is([Sensor EXCEPT !.power = p, !.conn = FALSE])
    BY <1>6 DEF PowerUp
  <2>2. p # 4
    BY <2>1
  <2>3. ~Sensor.req
    BY <2>0 DEF PowerSteady
  <2>4. /\ PowerSteady([Sensor EXCEPT !.power = p, !.conn = FALSE])
        /\ ~[Sensor EXCEPT !.power = p, !.conn = FALSE].err
    BY <2>0, <2>2, <2>3 DEF PowerSteady, Sht
  <2> QED
    BY <1>a, <2>0, <2>1, <2>4, VisitPower
<1>7. CASE Asked
  <2>0. shtIdx \in Sensors
    BY <1>7 DEF Asked, Connecting
  <2>1. PICK init \in BOOLEAN :
          Is([Inited(init) EXCEPT !.power = 4, !.conn = TRUE, !.req = TRUE])
    BY <1>7 DEF Asked
  <2>2. /\ PowerSteady([Inited(init) EXCEPT !.power = 4, !.conn = TRUE, !.req = TRUE])
        /\ [Inited(init) EXCEPT !.power = 4, !.conn = TRUE, !.req = TRUE].power \notin {2, 3}
    BY <2>0, InitedType DEF PowerSteady, Sht
  <2> QED
    BY <1>a, <2>0, <2>1, <2>2, VisitPower
<1>8. CASE NotAsked
  <2>0. shtIdx \in Sensors
    BY <1>8 DEF NotAsked, Connecting
  <2>1. PICK init \in BOOLEAN, found \in BOOLEAN : PowerDown([Inited(init) EXCEPT !.conn = found])
    BY <1>8 DEF NotAsked
  <2>2. [Inited(init) EXCEPT !.conn = found] \in Sht
    BY <2>0, InitedType DEF Sht
  <2> QED
    BY <1>3, <2>0, <2>1, <2>2
<1>9. CASE NextRound
  <2>1. \A s \in Sensors : s # shtIdx
    BY <1>9, ShtAssumption DEF NextRound, Sensors
  <2> QED
    BY <1>9, <2>1 DEF NextRound, PowerFollows, PowerSteady
<1>10. CASE (\E t \in timers : ShtTime(t)) \/ UNCHANGED shtVars
  <2>1. UNCHANGED <<sht, shtIdx>>
    BY <1>10 DEF ShtTime, shtVars
  <2> QED
    BY <2>1 DEF PowerFollows, PowerSteady
<1> QED
  BY <1>1, <1>2, <1>4, <1>5, <1>6, <1>7, <1>8, <1>9, <1>10 DEF ShtNext, ShtRun

\* A sensor is fully powered exactly while its measurement runs, and the sensor that is
\* visited is the only one being powered up, through failed requests, error states and
\* skipped delays (sht20_power_up, sht20_power_down), for any number of sensors.
THEOREM PowerFollowsMeasurement == ShtSpec => []PowerFollows
<1>1. ShtInit => PowerFollows
  BY DEF ShtInit, PowerFollows, PowerSteady
<1>2. ShtTypeOK /\ PowerFollows /\ [ShtNext]_shtVars => PowerFollows'
  BY PowerStep
<1> QED
  BY <1>1, <1>2, ShtTypesInit, ShtTypesNext, PTL DEF ShtSpec

\* The measurement that is left running when the next sensor of the bus is asked is the
\* only way in which a sensor shares its bus with a powered one (sht20_run): without such
\* an overlap PoweredAlone holds.
THEOREM OnlyOverlapSharesBus == ShtSpec /\ NoOverlap => PoweredAlone
<1>1. /\ ShtTypeOK /\ PowerFollows /\ [ShtNext]_shtVars
      /\ [\A s \in Sensors : sht'[s].req /\ ~sht[s].req =>
            \A o \in Sensors \ {s} : BusOf[o] = BusOf[s] => ~sht[o].req]_shtVars
      => [\A s \in Sensors : sht'[s].req /\ ~sht[s].req =>
            \A o \in Sensors \ {s} : BusOf[o] = BusOf[s] => sht'[o].power = 1]_shtVars
  <2> SUFFICES ASSUME ShtTypeOK, PowerFollows, [ShtNext]_shtVars,
                      NEW s \in Sensors, sht'[s].req, ~sht[s].req,
                      NEW o \in Sensors \ {s}, ~sht[o].req
               PROVE  sht'[o].power = 1
    OBVIOUS
  <2>1. s = shtIdx /\ sht'[o] = sht[o]
    BY PowerStep
  <2>2. sht[o].power \in 1..4
    BY PowerStates DEF ShtTypeOK
  <2>3. sht[o].power # 4 /\ sht[o].power \notin {2, 3}
    BY <2>1 DEF PowerFollows, PowerSteady
  <2> QED
    BY <2>1, <2>2, <2>3
<1> QED
  BY <1>1, PowerFollowsMeasurement, ShtTypesInit, ShtTypesNext, PTL
  DEF ShtSpec, NoOverlap, PoweredAlone

----
\* The composition.

\* A step of one device leaves the others alone.
LEMMA DevicesStep ==
    [DevNext]_devVars =>
        [HeatNext]_heatVars /\ [OtNext]_otVars /\ [VoNext]_voVars /\ [ShtNext]_shtVars
<1> SUFFICES ASSUME [DevNext]_devVars
             PROVE  [HeatNext]_heatVars /\ [OtNext]_otVars /\ [VoNext]_voVars /\ [ShtNext]_shtVars
  OBVIOUS
<1>1. CASE HeatPart(HeatCommand) \/ HeatPart(HeatVisit) \/ HeatPart(HeatTick)
  BY <1>1 DEF HeatPart, HeatNext
<1>2. CASE \/ BoilerPart(OtMain) \/ BoilerPart(OtUser) \/ BoilerPart(BoilerSwitch)
           \/ BoilerPart(OtTick)
  BY <1>2 DEF BoilerPart, OtNext
<1>3. CASE \/ InverterPart(Attach) \/ InverterPart(MountFails) \/ InverterPart(Mount)
           \/ InverterPart(Unmount) \/ InverterPart(ReportLost) \/ InverterPart(VoTick)
           \/ InverterPart(VoSlow) \/ InverterPart(HidReport) \/ InverterPart(BusRestart)
           \/ InverterPart(Ask)
  BY <1>3 DEF InverterPart, VoNext
<1>4. CASE ShtPart(ShtRun) \/ \E t \in timers : ShtPart(ShtTime(t))
  BY <1>4 DEF ShtPart, ShtNext
<1>5. CASE UNCHANGED devVars
  BY <1>5 DEF devVars
<1> QED
  BY <1>1, <1>2, <1>3, <1>4, <1>5 DEF DevNext

\* The devices keep their types, for any numbers of relays, thermostats, commands, sensors,
\* samples and retries: a command of the inverter is always left to send, what is under way
\* fits its buffer, an OpenTherm command is not written off more often than it may be, and
\* every timer and counter stays within its bound.
THEOREM DevicesTypes == DevSpec => []DevTypeOK
<1> DEFINE Inv == HeatInv /\ OtInv /\ VoInv /\ ShtTypeOK
<1>1. DevInit => Inv
  BY HeatInvInit, OtInvInit, VoInvInit, ShtTypesInit DEF DevInit
<1>2. Inv /\ [DevNext]_devVars => Inv'
  BY DevicesStep, HeatInvNext, OtInvNext, VoInvNext, ShtTypesNext
<1>3. Inv => DevTypeOK
  BY HeatTypes DEF OtInv, VoInv, DevTypeOK
<1> QED
  BY <1>1, <1>2, <1>3, PTL DEF DevSpec
====
