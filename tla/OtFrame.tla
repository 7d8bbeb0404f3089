---- MODULE OtFrame ----
(***************************************************************************)
(* The frames of OpenTherm (opentherm_pio.c) and their Manchester code     *)
(* (manchester_code.c): a frame is the set of its bits that are 1, the     *)
(* line the set of the half bits <<bit, half>> that are high.              *)
(***************************************************************************)
EXTENDS Naturals, FiniteSets

CONSTANTS
    DataBits,   \* the type, the id and the value
    Parity      \* 0x80000000

ASSUME FrameAssumption == IsFiniteSet(DataBits) /\ Parity \notin DataBits

FrameBits == DataBits \cup {Parity}
Odd(S) == Cardinality(S) % 2 = 1

\* opentherm_frame_encode()
FrameEncode_NoParity(data) == data

FrameEncode(data) == IF Odd(data) THEN data \cup {Parity} ELSE data

\* opentherm_frame_decode(): the parity, then the data.
FrameValid(frame) == ~Odd(frame)
FrameDecode(frame) == frame \ {Parity}

\* manchester_encode(): a 1 is high and low, or low and high when inverted.
ManchesterEncode(frame, invert) ==
    {h \in FrameBits \X {1, 2} : (h[2] = 1) # (invert # (h[1] \notin frame))}

\* manchester_decode(): of the halves of a bit one is high; inverted or not
\* the bit is set when it is, or when it is not, the first one.
ManchesterValid(line) == \A b \in FrameBits : (<<b, 1>> \in line) # (<<b, 2>> \in line)
ManchesterDecode(line, invert) == {b \in FrameBits : (<<b, 1>> \in line) # invert}

VARIABLES
    sent,       \* the data of a frame of the boiler
    line        \* the half bits that arrive

frameVars == <<sent, line>>

\* The boiler, which speaks the code without inversion, as
\* opentherm_exchange_run() expects it.
FrameInit ==
    /\ sent \in SUBSET DataBits
    /\ line = ManchesterEncode(FrameEncode(sent), FALSE)

\* Noise turns the halves of a bit around, one or both.
Corrupt(b, halves) ==
    /\ line = ManchesterEncode(FrameEncode(sent), FALSE)
    /\ line' = {h \in FrameBits \X {1, 2} :
                  (h \in line) # (h[1] = b /\ h[2] \in halves)}
    /\ UNCHANGED sent

FrameNext == \E b \in FrameBits, halves \in SUBSET {1, 2} : Corrupt(b, halves)

FrameSpec == FrameInit /\ [][FrameNext]_frameVars

\* opentherm_exchange_run(): the frame that is taken.
Accepted(l) == ManchesterValid(l) /\ FrameValid(ManchesterDecode(l, FALSE))
FrameTaken(l) == FrameDecode(ManchesterDecode(l, FALSE))

\* With noise in any one bit what is accepted is what was sent, as the parity
\* sees a bit that is turned around and the Manchester code a half of one; and
\* a frame without noise is accepted (opentherm_frame_decode,
\* manchester_decode).
AcceptedIsSent ==
    /\ Accepted(line) => FrameTaken(line) = sent
    /\ line = ManchesterEncode(FrameEncode(sent), FALSE) => Accepted(line)
====
