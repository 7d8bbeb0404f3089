---- MODULE BmsProofs ----
(***************************************************************************)
(* What is proved about the reader of the battery, for any number of       *)
(* chunks in a frame, frames, services and lost connections, and about the *)
(* types of MCSafety.                                                      *)
(***************************************************************************)
EXTENDS MCSafety, CfgProofs, MqttListenProofs, SequenceTheorems, TLAPS

Piece == [f : Nat, i : 0..NChunks]
NBuff == [data : [1..NChunks -> Piece], curr : 0..NChunks, ready : BOOLEAN]

ReaderTypes ==
    /\ nbuff \in NBuff
    /\ air \in [chunks : Seq(Piece), read : BOOLEAN]
    /\ peer \in [frame : Nat, asked : BOOLEAN]
    /\ jk \in [state : {"off", "connected", "ready"},
               valid : BOOLEAN, notify : BOOLEAN, wait : BOOLEAN]
    /\ cells \in [first : Nat, second : Nat, n : Nat]

\* What is in the air is the rest of the last frame.
RestOfFrame ==
    /\ Len(air.chunks) <= NChunks
    /\ \A j \in 1..Len(air.chunks) :
          air.chunks[j] = [f |-> peer.frame, i |-> NChunks - Len(air.chunks) + j]

\* Chunk c has been sent before the last n of the last frame.
Past(c, n) ==
    /\ c.f <= peer.frame
    /\ c.f = peer.frame /\ n # 0 => c.i <= NChunks - n

\* A frame that is still in the air has not been handled.
HandledIsPast ==
    /\ cells.second <= peer.frame
    /\ air.chunks # <<>> => cells.second < peer.frame

\* NBuff b holds chunks that have been sent before the last n.  It is ready with a
\* frame only.
BufferOK(b, n) ==
    /\ b \in NBuff
    /\ \A j \in 1..NChunks : Past(b.data[j], n)
    /\ b.ready => IsFrame(b.data)

\* A frame that has begun in the buffer is later than the one last handled.
Fresh(b) == b.curr > 0 /\ b.data[1].i = 1 => b.data[1].f > cells.second

\* The timeout resets nbuff_curr and nbuff_ready one after the other.
FullWhenReady(b) == b.ready => b.curr = NChunks

\* From the first part of the readings on nothing is written into the buffer.
Reading ==
    /\ bpc \in {"second", "free"} => nbuff.ready \/ jk.state # "ready"
    /\ bpc = "second" => /\ IsFrame(nbuff.data) /\ cells.first = nbuff.data[1].f
                         /\ nbuff.data[1].f > cells.second

ReaderInv ==
    /\ ReaderTypes /\ RestOfFrame /\ HandledIsPast
    /\ BufferOK(nbuff, Len(air.chunks))
    /\ bpc # "free" => Fresh(nbuff)
    /\ bpc # "reset" => FullWhenReady(nbuff)
    /\ Reading
    /\ CellsWhole

----
\* The chunks of a frame.
LEMMA FrameChunks ==
    ASSUME NEW d, IsFrame(d), NEW j \in 1..NChunks
    PROVE  d[j].i = j /\ d[j].f = d[1].f
<1>1. d[j] = [f |-> d[1].f, i |-> j]
  BY DEF IsFrame
<1> QED
  BY <1>1

\* The chunk at the head of the air.
LEMMA HeadOfAir ==
    ASSUME ReaderInv, air.chunks # <<>>
    PROVE  /\ Len(air.chunks) \in 1..NChunks
           /\ Head(air.chunks) = [f |-> peer.frame, i |-> NChunks - Len(air.chunks) + 1]
           /\ peer.frame > cells.second
<1>1. Len(air.chunks) \in Nat \ {0} /\ Head(air.chunks) = air.chunks[1]
  BY DEF ReaderInv, ReaderTypes
<1>5. Len(air.chunks) <= NChunks
  BY DEF ReaderInv, RestOfFrame
<1>2. Len(air.chunks) \in 1..NChunks
  BY <1>1, <1>5, BmsAssumption
<1>3. 1 \in 1..Len(air.chunks)
  BY <1>1
<1>4. air.chunks[1] = [f |-> peer.frame, i |-> NChunks - Len(air.chunks) + 1]
  BY <1>3 DEF ReaderInv, RestOfFrame
<1> QED
  BY <1>1, <1>2, <1>4 DEF ReaderInv, ReaderTypes, HandledIsPast

\* jk_bt_process_terminal() with a chunk that has been sent and, if it begins a
\* frame, is of one not handled.
LEMMA TerminalKeeps ==
    ASSUME ReaderInv, NEW n \in Nat, BufferOK(nbuff, n),
           NEW c \in Piece, Past(c, n), c.i = 1 => c.f > cells.second
    PROVE  /\ BufferOK(Assembled(c), n)
           /\ bpc # "free" => Fresh(Assembled(c))
           /\ FullWhenReady(Assembled(c))
<1> DEFINE b == Assembled(c)
<1>1. nbuff \in NBuff /\ nbuff.curr \in 0..NChunks
  BY DEF ReaderInv, ReaderTypes, NBuff
<1>2. At(c) \in 0..NChunks /\ Curr(c) \in 1..NChunks
  BY <1>1, BmsAssumption DEF At, Curr, Piece
<1>3. BufData(c) \in [1..NChunks -> Piece]
  BY <1>1, <1>2, BmsAssumption DEF BufData, NBuff
<1>4. \A j \in 1..NChunks : BufData(c)[j] = c \/ BufData(c)[j] = nbuff.data[j]
  BY <1>1, <1>2, BmsAssumption DEF BufData, NBuff
<1>5. /\ b.data = BufData(c)
      /\ b.curr \in {0, Curr(c)}
      /\ b.ready => b.curr = NChunks /\ IsFrame(BufData(c))
      /\ b \in NBuff
  <2>1. CASE Curr(c) = NChunks /\ IsFrame(BufData(c))
    <3>1. b = [data |-> BufData(c), curr |-> Curr(c), ready |-> TRUE]
      BY <2>1 DEF Assembled
    <3> QED
      BY <1>2, <1>3, <2>1, <3>1 DEF NBuff
  <2>2. CASE Curr(c) = NChunks /\ ~IsFrame(BufData(c))
    <3>1. b = [data |-> BufData(c), curr |-> 0, ready |-> FALSE]
      BY <2>2 DEF Assembled
    <3> QED
      BY <1>3, <3>1, BmsAssumption DEF NBuff
  <2>3. CASE Curr(c) # NChunks
    <3>1. b = [data |-> BufData(c), curr |-> Curr(c), ready |-> FALSE]
      BY <2>3 DEF Assembled
    <3> QED
      BY <1>2, <1>3, <3>1 DEF NBuff
  <2> QED
    BY <2>1, <2>2, <2>3
<1>6. BufferOK(b, n)
  <2>1. \A j \in 1..NChunks : Past(nbuff.data[j], n)
    BY DEF BufferOK
  <2>2. \A j \in 1..NChunks : Past(BufData(c)[j], n)
    BY <1>4, <2>1
  <2> QED
    BY <1>5, <2>2 DEF BufferOK
<1>7. ASSUME bpc # "free" PROVE Fresh(b)
  <2>1. CASE At(c) = 0
    <3>1. BufData(c)[1] = c
      BY <1>1, <2>1, BmsAssumption DEF BufData, NBuff
    <3> QED
      BY <1>5, <3>1 DEF Fresh
  <2>2. CASE At(c) # 0
    <3>1. BufData(c)[1] = nbuff.data[1]
      BY <1>1, <1>2, <2>2, BmsAssumption DEF BufData, NBuff
    <3>2. nbuff.curr > 0
      BY <1>1, <2>2 DEF At
    <3>3. Fresh(nbuff)
      BY <1>7 DEF ReaderInv
    <3> QED
      BY <1>5, <3>1, <3>2, <3>3 DEF Fresh
  <2> QED
    BY <2>1, <2>2
<1> QED
  BY <1>5, <1>6, <1>7 DEF FullWhenReady

\* BT_VALUE_RECEIVED of such a chunk.  Notified and ReadAnswered are this.
LEMMA ValueKeeps ==
    ASSUME ReaderInv, NEW n \in Nat, BufferOK(nbuff, n),
           NEW c \in Piece, Past(c, n), c.i = 1 => c.f > cells.second,
           nbuff' = ValueReceived(c), UNCHANGED <<jk, cells, peer, bpc>>
    PROVE  /\ nbuff' \in NBuff
           /\ BufferOK(nbuff, n)'
           /\ (bpc # "free" => Fresh(nbuff))'
           /\ (bpc # "reset" => FullWhenReady(nbuff))'
           /\ Reading'
<1>1. CASE nbuff' = nbuff
  BY <1>1 DEF ReaderInv, ReaderTypes, BufferOK, Past, Fresh, FullWhenReady, Reading
<1>2. CASE nbuff' = Assembled(c) /\ jk.state = "ready" /\ ~nbuff.ready
  <2>1. /\ BufferOK(Assembled(c), n)
        /\ bpc # "free" => Fresh(Assembled(c))
        /\ FullWhenReady(Assembled(c))
    BY TerminalKeeps
  <2>2. bpc \notin {"second", "free"}
    BY <1>2 DEF ReaderInv, Reading
  <2> QED
    BY <1>2, <2>1, <2>2 DEF BufferOK, Past, Fresh, FullWhenReady, Reading
<1> QED
  BY <1>1, <1>2 DEF ValueReceived, Terminal

----
\* What the actions on the discovery leave alone.
LEMMA IdleKeeps ==
    ASSUME ReaderInv, UNCHANGED <<nbuff, cells>>,
           air'.chunks = air.chunks, air' \in [chunks : Seq(Piece), read : BOOLEAN],
           peer'.frame = peer.frame, peer' \in [frame : Nat, asked : BOOLEAN],
           jk' \in [state : {"off", "connected", "ready"},
                   valid : BOOLEAN, notify : BOOLEAN, wait : BOOLEAN],
           \/ bpc' = bpc /\ (jk'.state = "ready" => jk.state = "ready")
           \/ bpc \notin {"second", "free", "reset"} /\ bpc' \notin {"second", "free"}
    PROVE  ReaderInv'
<1>1. ReaderTypes' /\ RestOfFrame' /\ HandledIsPast'
  BY DEF ReaderInv, ReaderTypes, RestOfFrame, HandledIsPast
<1>2. BufferOK(nbuff, Len(air.chunks))'
  BY DEF ReaderInv, BufferOK, Past
<1>3. (bpc # "free" => Fresh(nbuff))' /\ (bpc # "reset" => FullWhenReady(nbuff))'
  BY DEF ReaderInv, Fresh, FullWhenReady
<1>4. Reading' /\ CellsWhole'
  BY DEF ReaderInv, Reading, CellsWhole
<1> QED
  BY <1>1, <1>2, <1>3, <1>4 DEF ReaderInv

\* charc_reset() of jk_bt_event(), with the chunks that are lost.
LEMMA ResetKeeps ==
    ASSUME ReaderInv, NEW s \in {"off", "connected"}, jk' = JkReset(s),
           nbuff' = BufReset, UNCHANGED <<cells, bpc>>,
           air'.chunks \in {air.chunks, <<>>}, air' \in [chunks : Seq(Piece), read : BOOLEAN],
           peer'.frame = peer.frame, peer' \in [frame : Nat, asked : BOOLEAN]
    PROVE  ReaderInv'
<1>1. /\ nbuff' \in NBuff /\ nbuff'.data = nbuff.data
      /\ nbuff'.curr = 0 /\ nbuff'.ready = FALSE
  <2>1. nbuff \in NBuff /\ 0 \in 0..NChunks
    BY BmsAssumption DEF ReaderInv, ReaderTypes
  <2> QED
    BY <2>1 DEF BufReset, NBuff
<1>2. /\ jk' \in [state : {"off", "connected", "ready"},
                  valid : BOOLEAN, notify : BOOLEAN, wait : BOOLEAN]
      /\ jk'.state # "ready"
  BY DEF JkReset, ReaderInv, ReaderTypes
<1>3. ReaderTypes'
  BY <1>1, <1>2 DEF ReaderInv, ReaderTypes
<1>4. RestOfFrame' /\ HandledIsPast'
  <2>1. CASE air'.chunks = air.chunks
    BY <2>1 DEF ReaderInv, RestOfFrame, HandledIsPast
  <2>2. CASE air'.chunks = <<>>
    <3>1. Len(air'.chunks) = 0
      BY <2>2
    <3> QED
      BY <2>2, <3>1, BmsAssumption DEF ReaderInv, RestOfFrame, HandledIsPast
  <2> QED
    BY <2>1, <2>2
<1>5. BufferOK(nbuff, Len(air.chunks))'
  BY <1>1 DEF ReaderInv, BufferOK, Past
<1>6. (bpc # "free" => Fresh(nbuff))' /\ (bpc # "reset" => FullWhenReady(nbuff))'
  BY <1>1 DEF Fresh, FullWhenReady
<1>7. Reading' /\ CellsWhole'
  BY <1>1, <1>2 DEF ReaderInv, Reading, CellsWhole
<1> QED
  BY <1>3, <1>4, <1>5, <1>6, <1>7 DEF ReaderInv

\* The invariant holds at first.
LEMMA ReaderInit == BmsInit => ReaderInv
<1> SUFFICES ASSUME BmsInit PROVE ReaderInv
  OBVIOUS
<1>1. ReaderTypes /\ nbuff \in NBuff
  BY BmsAssumption DEF BmsInit, ReaderTypes, NBuff, Piece, NoChunk
<1>2. RestOfFrame /\ HandledIsPast
  BY BmsAssumption DEF BmsInit, RestOfFrame, HandledIsPast
<1>3. BufferOK(nbuff, Len(air.chunks))
  BY <1>1 DEF BmsInit, BufferOK, Past, NoChunk
<1> QED
  BY <1>1, <1>2, <1>3
  DEF BmsInit, ReaderInv, Fresh, FullWhenReady, Reading, CellsWhole

\* A notification takes the head of the air.
LEMMA NotifiedKeeps == ReaderInv /\ Notified => ReaderInv'
<1> SUFFICES ASSUME ReaderInv, Notified PROVE ReaderInv'
  OBVIOUS
<1>n. PICK n : n = Len(air.chunks)
  OBVIOUS
<1>c. PICK c : c = Head(air.chunks)
  OBVIOUS
<1>1. /\ n \in 1..NChunks /\ c = [f |-> peer.frame, i |-> NChunks - n + 1]
      /\ peer.frame > cells.second
  BY <1>n, <1>c, HeadOfAir DEF Notified
<1>2. air.chunks \in Seq(Piece) /\ peer.frame \in Nat
  BY DEF ReaderInv, ReaderTypes
<1>3. /\ air'.chunks = Tail(air.chunks)
      /\ air' \in [chunks : Seq(Piece), read : BOOLEAN]
  <2>1. air.chunks # <<>> /\ air' = [air EXCEPT !.chunks = Tail(air.chunks)]
    BY DEF Notified
  <2>2. Tail(air.chunks) \in Seq(Piece)
    BY <1>2, <2>1
  <2> QED
    BY <2>1, <2>2 DEF ReaderInv, ReaderTypes
<1>4. /\ Len(air'.chunks) = n - 1
      /\ \A j \in 1..(n - 1) : air'.chunks[j] = air.chunks[j + 1]
  BY <1>n, <1>1, <1>2, <1>3
<1>5. c \in Piece /\ Past(c, n - 1)
  <2>1. NChunks - n + 1 \in 1..NChunks /\ NChunks - n + 1 = NChunks - (n - 1)
    BY <1>1, BmsAssumption
  <2> QED
    BY <1>1, <1>2, <2>1, BmsAssumption DEF Piece, Past
<1>6. BufferOK(nbuff, n - 1)
  <2>1. ASSUME NEW j \in 1..NChunks PROVE Past(nbuff.data[j], n - 1)
    <3>1. nbuff.data[j] \in Piece /\ Past(nbuff.data[j], n)
      BY <1>n DEF ReaderInv, ReaderTypes, NBuff, BufferOK
    <3>2. nbuff.data[j].i \in Nat /\ NChunks - n <= NChunks - (n - 1) /\ n # 0
      BY <1>1, <3>1, BmsAssumption DEF Piece
    <3>3. NChunks - n \in Int /\ NChunks - (n - 1) \in Int
      BY <1>1, BmsAssumption
    <3> QED
      BY <3>1, <3>2, <3>3 DEF Past
  <2> QED
    BY <2>1 DEF BufferOK, ReaderInv
<1>7. /\ nbuff' \in NBuff
      /\ BufferOK(nbuff, n - 1)'
      /\ (bpc # "free" => Fresh(nbuff))'
      /\ (bpc # "reset" => FullWhenReady(nbuff))'
      /\ Reading'
  <2>1. n - 1 \in Nat /\ (c.i = 1 => c.f > cells.second)
    BY <1>1
  <2>2. nbuff' = ValueReceived(c) /\ UNCHANGED <<jk, cells, peer, bpc>>
    BY <1>c DEF Notified
  <2> QED
    BY <1>5, <1>6, <2>1, <2>2, ValueKeeps
<1>8. ReaderTypes'
  BY <1>3, <1>7 DEF Notified, ReaderInv, ReaderTypes
<1>9. RestOfFrame'
  <2>1. ASSUME NEW j \in 1..(n - 1)
        PROVE  air'.chunks[j] = [f |-> peer'.frame, i |-> NChunks - (n - 1) + j]
    <3>1. j + 1 \in 1..n /\ NChunks - n + (j + 1) = NChunks - (n - 1) + j
      BY <1>1, BmsAssumption
    <3>2. air.chunks[j + 1] = [f |-> peer.frame, i |-> NChunks - n + (j + 1)]
      BY <1>n, <3>1 DEF ReaderInv, RestOfFrame
    <3> QED
      BY <1>4, <3>1, <3>2 DEF Notified
  <2>2. n - 1 <= NChunks
    BY <1>1, BmsAssumption
  <2> QED
    BY <1>4, <2>1, <2>2 DEF RestOfFrame
<1>10. HandledIsPast' /\ CellsWhole'
  BY <1>1 DEF Notified, ReaderInv, HandledIsPast, CellsWhole
<1>11. BufferOK(nbuff, Len(air.chunks))'
  BY <1>4, <1>7 DEF BufferOK, Past
<1> QED
  BY <1>7, <1>8, <1>9, <1>10, <1>11 DEF ReaderInv

\* A read brings the chunk before the head once more, or the last one of a frame.
LEMMA ReadKeeps == ReaderInv /\ ReadAnswered => ReaderInv'
<1> SUFFICES ASSUME ReaderInv, ReadAnswered PROVE ReaderInv'
  OBVIOUS
<1>n. PICK n : n = Len(air.chunks)
  OBVIOUS
<1>c. PICK c : c = LastValue
  OBVIOUS
<1>1. air.chunks \in Seq(Piece) /\ peer.frame \in Nat /\ n \in Nat
  BY <1>n DEF ReaderInv, ReaderTypes
<1>2. c \in Piece /\ Past(c, n) /\ (c.i = 1 => c.f > cells.second)
  <2>1. CASE air.chunks = <<>>
    <3>1. c = [f |-> peer.frame, i |-> NChunks] /\ n = 0
      BY <1>n, <1>c, <2>1 DEF LastValue
    <3> QED
      BY <1>1, <3>1, BmsAssumption DEF Piece, Past
  <2>2. CASE air.chunks # <<>>
    <3>1. /\ n \in 1..NChunks
          /\ Head(air.chunks) = [f |-> peer.frame, i |-> NChunks - n + 1]
          /\ peer.frame > cells.second
      BY <1>n, <2>2, HeadOfAir
    <3>2. CASE NChunks - n + 1 > 1
      <4>1. c = [f |-> peer.frame, i |-> NChunks - n]
        BY <1>c, <2>2, <3>1, <3>2, BmsAssumption DEF LastValue
      <4> QED
        BY <1>1, <3>1, <3>2, <4>1, BmsAssumption DEF Piece, Past
    <3>3. CASE ~(NChunks - n + 1 > 1)
      <4>1. c = [f |-> peer.frame - 1, i |-> NChunks]
        BY <1>c, <2>2, <3>1, <3>3 DEF LastValue
      <4>2. c.f > 0
        BY <1>c DEF ReadAnswered
      <4> QED
        BY <1>1, <4>1, <4>2, BmsAssumption DEF Piece, Past
    <3> QED
      BY <3>2, <3>3
  <2> QED
    BY <2>1, <2>2
<1>3. /\ nbuff' \in NBuff
      /\ BufferOK(nbuff, n)'
      /\ (bpc # "free" => Fresh(nbuff))'
      /\ (bpc # "reset" => FullWhenReady(nbuff))'
      /\ Reading'
  <2>1. BufferOK(nbuff, n)
    BY <1>n DEF ReaderInv
  <2>2. nbuff' = ValueReceived(c) /\ UNCHANGED <<jk, cells, peer, bpc>>
    BY <1>c DEF ReadAnswered
  <2> QED
    BY <1>1, <1>2, <2>1, <2>2, ValueKeeps
<1>4. air'.chunks = air.chunks /\ air' \in [chunks : Seq(Piece), read : BOOLEAN]
  BY DEF ReadAnswered, ReaderInv, ReaderTypes
<1>5. ReaderTypes'
  BY <1>3, <1>4 DEF ReadAnswered, ReaderInv, ReaderTypes
<1>6. RestOfFrame' /\ HandledIsPast' /\ CellsWhole'
  BY <1>4 DEF ReadAnswered, ReaderInv, RestOfFrame, HandledIsPast, CellsWhole
<1>7. BufferOK(nbuff, Len(air.chunks))'
  BY <1>n, <1>3, <1>4 DEF BufferOK, Past
<1> QED
  BY <1>3, <1>5, <1>6, <1>7 DEF ReaderInv

\* A new frame comes when the one before it has left the air.
LEMMA AnswerKeeps == ReaderInv /\ Answer => ReaderInv'
<1> SUFFICES ASSUME ReaderInv, Answer PROVE ReaderInv'
  OBVIOUS
<1>f. PICK f : f = peer.frame + 1
  OBVIOUS
<1> DEFINE fr == [i \in 1..NChunks |-> [f |-> f, i |-> i]]
<1>1. f \in Nat /\ f > peer.frame /\ peer.frame \in Nat
  BY <1>f DEF ReaderInv, ReaderTypes
<1>2. fr \in Seq(Piece) /\ Len(fr) = NChunks /\ \A j \in 1..NChunks : fr[j] = [f |-> f, i |-> j]
  <2>1. \A j \in 1..NChunks : [f |-> f, i |-> j] \in Piece
    BY <1>1 DEF Piece
  <2>2. NChunks \in Nat
    BY BmsAssumption
  <2> QED
    BY <2>1, <2>2
<1>3. /\ peer'.frame = f /\ peer' \in [frame : Nat, asked : BOOLEAN]
      /\ air'.chunks = fr /\ air' \in [chunks : Seq(Piece), read : BOOLEAN]
  BY <1>f, <1>1, <1>2 DEF Answer, ReaderInv, ReaderTypes
<1> HIDE DEF fr
<1>4. ReaderTypes'
  BY <1>3 DEF Answer, ReaderInv, ReaderTypes
<1>5. RestOfFrame'
  BY <1>2, <1>3, BmsAssumption DEF RestOfFrame
<1>6. HandledIsPast' /\ CellsWhole'
  BY <1>1, <1>3 DEF Answer, ReaderInv, ReaderTypes, HandledIsPast, CellsWhole
<1>7. BufferOK(nbuff, Len(air.chunks))'
  <2>1. ASSUME NEW j \in 1..NChunks PROVE nbuff.data[j].f \in Nat /\ nbuff.data[j].f < f
    <3>1. nbuff.data[j] \in Piece /\ Past(nbuff.data[j], Len(air.chunks))
      BY DEF ReaderInv, ReaderTypes, NBuff, BufferOK
    <3> QED
      BY <1>1, <3>1 DEF Piece, Past
  <2> QED
    BY <1>1, <1>3, <2>1 DEF Answer, ReaderInv, BufferOK, Past
<1>8. (bpc # "free" => Fresh(nbuff))' /\ (bpc # "reset" => FullWhenReady(nbuff))' /\ Reading'
  BY DEF Answer, ReaderInv, Fresh, FullWhenReady, Reading
<1> QED
  BY <1>4, <1>5, <1>6, <1>7, <1>8 DEF ReaderInv

\* The main loop gives the buffer free: by the two steps of a timeout, or when the
\* frame has been handled.
LEMMA FreeKeeps ==
    ASSUME ReaderInv, JkTimeout \/ JkTimeoutReset \/ FrameFree
    PROVE  ReaderInv'
<1>1. /\ nbuff' \in NBuff /\ nbuff'.data = nbuff.data
      /\ nbuff'.ready => nbuff.ready
      /\ nbuff'.curr \in {0, nbuff.curr}
      /\ bpc' \notin {"second", "free"} /\ bpc # "second"
      /\ bpc' # "reset" => nbuff'.ready = FALSE
      /\ bpc = "free" => nbuff'.curr = 0
  <2>1. nbuff \in NBuff /\ 0 \in 0..NChunks
    BY BmsAssumption DEF ReaderInv, ReaderTypes
  <2> QED
    BY <2>1 DEF JkTimeout, JkTimeoutReset, FrameFree, NBuff
<1>2. /\ jk' \in [state : {"off", "connected", "ready"},
                  valid : BOOLEAN, notify : BOOLEAN, wait : BOOLEAN]
      /\ UNCHANGED <<cells, air, peer>>
  BY DEF JkTimeout, JkTimeoutReset, FrameFree, ReaderInv, ReaderTypes
<1>3. ReaderTypes' /\ RestOfFrame' /\ HandledIsPast'
  BY <1>1, <1>2 DEF ReaderInv, ReaderTypes, RestOfFrame, HandledIsPast
<1>4. BufferOK(nbuff, Len(air.chunks))'
  BY <1>1, <1>2 DEF ReaderInv, BufferOK, Past
<1>5. (bpc # "free" => Fresh(nbuff))' /\ (bpc # "reset" => FullWhenReady(nbuff))'
  BY <1>1, <1>2 DEF ReaderInv, Fresh, FullWhenReady
<1>6. Reading' /\ CellsWhole'
  BY <1>1, <1>2 DEF ReaderInv, Reading, CellsWhole
<1> QED
  BY <1>3, <1>4, <1>5, <1>6 DEF ReaderInv

\* The first part is read from a full buffer.
LEMMA FirstKeeps == ReaderInv /\ FrameFirst => ReaderInv'
<1> SUFFICES ASSUME ReaderInv, FrameFirst PROVE ReaderInv'
  OBVIOUS
<1>1. CASE ~nbuff.ready
  <2>1. UNCHANGED <<jk, nbuff, cells, air, peer>> /\ bpc = "frame" /\ bpc' = "bt"
    BY <1>1 DEF FrameFirst
  <2> QED
    BY <2>1, IdleKeeps DEF ReaderInv, ReaderTypes
<1>2. CASE nbuff.ready
  <2>1. /\ UNCHANGED <<jk, nbuff, air, peer>> /\ bpc = "frame" /\ bpc' = "second"
        /\ cells' = [cells EXCEPT !.first = nbuff.data[1].f]
    BY <1>2 DEF FrameFirst
  <2>2. /\ IsFrame(nbuff.data) /\ nbuff.curr = NChunks /\ 1 \in 1..NChunks
        /\ nbuff.data[1] \in Piece
    BY <1>2, <2>1, BmsAssumption
    DEF ReaderInv, ReaderTypes, NBuff, BufferOK, FullWhenReady
  <2>3. nbuff.data[1].i = 1
    BY <2>2, FrameChunks
  <2>4. nbuff.data[1].f > cells.second /\ nbuff.data[1].f \in Nat
    BY <2>1, <2>2, <2>3, BmsAssumption DEF ReaderInv, Fresh, Piece
  <2>5. /\ cells' \in [first : Nat, second : Nat, n : Nat]
        /\ cells'.first = nbuff.data[1].f /\ cells'.second = cells.second
    BY <2>1, <2>4 DEF ReaderInv, ReaderTypes
  <2>6. ReaderTypes' /\ RestOfFrame' /\ HandledIsPast'
    BY <2>1, <2>5 DEF ReaderInv, ReaderTypes, RestOfFrame, HandledIsPast
  <2>7. BufferOK(nbuff, Len(air.chunks))'
    BY <2>1 DEF ReaderInv, BufferOK, Past
  <2>8. (bpc # "free" => Fresh(nbuff))' /\ (bpc # "reset" => FullWhenReady(nbuff))'
    BY <2>1, <2>5 DEF ReaderInv, Fresh, FullWhenReady
  <2>9. Reading' /\ CellsWhole'
    BY <1>2, <2>1, <2>2, <2>4, <2>5 DEF Reading, CellsWhole
  <2> QED
    BY <2>6, <2>7, <2>8, <2>9 DEF ReaderInv
<1> QED
  BY <1>1, <1>2

\* The frame whose second part is read: it has been sent as a whole, after the one
\* handled before.
LEMMA FrameHandled ==
    ASSUME ReaderInv, FrameSecond
    PROVE  /\ cells'.second = nbuff.data[1].f /\ cells'.second \in Nat
           /\ cells'.first = cells'.second /\ cells'.n = cells.n + 1
           /\ cells' \in [first : Nat, second : Nat, n : Nat]
           /\ cells'.second > cells.second
           /\ cells'.second <= peer.frame
           /\ air.chunks # <<>> => cells'.second < peer.frame
<1>1. /\ IsFrame(nbuff.data) /\ cells.first = nbuff.data[1].f
      /\ nbuff.data[1].f > cells.second
  BY DEF ReaderInv, Reading, FrameSecond
<1>2. NChunks \in 1..NChunks /\ 1 \in 1..NChunks
  BY BmsAssumption
<1>3. /\ nbuff.data[NChunks].f = nbuff.data[1].f /\ nbuff.data[NChunks].i = NChunks
      /\ nbuff.data[1].f \in Nat
  <2>1. nbuff.data[1] \in Piece
    BY <1>2 DEF ReaderInv, ReaderTypes, NBuff
  <2> QED
    BY <1>1, <1>2, <2>1, FrameChunks DEF Piece
<1>4. Past(nbuff.data[NChunks], Len(air.chunks))
  BY <1>2 DEF ReaderInv, BufferOK
<1>5. air.chunks # <<>> => Len(air.chunks) \in 1..NChunks
  BY HeadOfAir
<1>6. air.chunks # <<>> => ~(NChunks <= NChunks - Len(air.chunks)) /\ Len(air.chunks) # 0
  BY <1>5, BmsAssumption
<1>7. /\ nbuff.data[1].f <= peer.frame
      /\ air.chunks # <<>> => nbuff.data[1].f # peer.frame
  BY <1>3, <1>4, <1>6 DEF Past
<1>8. cells' = [cells EXCEPT !.second = nbuff.data[1].f, !.n = cells.n + 1]
  BY <1>3 DEF FrameSecond
<1>9. cells \in [first : Nat, second : Nat, n : Nat] /\ peer.frame \in Nat
  BY DEF ReaderInv, ReaderTypes
<1>10. /\ cells'.second = nbuff.data[1].f /\ cells'.first = cells.first
       /\ cells'.n = cells.n + 1 /\ cells' \in [first : Nat, second : Nat, n : Nat]
  <2>1. nbuff.data[1].f \in Nat /\ cells.n + 1 \in Nat
    BY <1>3, <1>9
  <2> QED
    BY <1>8, <1>9, <2>1
<1> QED
  BY <1>1, <1>3, <1>7, <1>9, <1>10

\* The second part of the readings keeps the invariant.
LEMMA SecondKeeps == ReaderInv /\ FrameSecond => ReaderInv'
<1> SUFFICES ASSUME ReaderInv, FrameSecond PROVE ReaderInv'
  OBVIOUS
<1>1. /\ cells'.first = cells'.second
      /\ cells' \in [first : Nat, second : Nat, n : Nat]
      /\ cells'.second <= peer.frame
      /\ air.chunks # <<>> => cells'.second < peer.frame
  BY FrameHandled
<1>2. UNCHANGED <<jk, nbuff, air, peer>> /\ bpc = "second" /\ bpc' = "free"
  BY DEF FrameSecond
<1>3. ReaderTypes' /\ RestOfFrame' /\ HandledIsPast'
  BY <1>1, <1>2 DEF ReaderInv, ReaderTypes, RestOfFrame, HandledIsPast
<1>4. BufferOK(nbuff, Len(air.chunks))' /\ (bpc # "reset" => FullWhenReady(nbuff))'
  BY <1>2 DEF ReaderInv, BufferOK, Past, FullWhenReady
<1>5. Reading' /\ CellsWhole' /\ bpc' = "free"
  BY <1>1, <1>2 DEF ReaderInv, Reading, CellsWhole
<1> QED
  BY <1>3, <1>4, <1>5 DEF ReaderInv

\* Every action keeps the invariant.
LEMMA ReaderNext == ReaderInv /\ [BmsNext]_bmsVars => ReaderInv'
<1> SUFFICES ASSUME ReaderInv, [BmsNext]_bmsVars PROVE ReaderInv'
  OBVIOUS
<1>0. /\ air \in [chunks : Seq(Piece), read : BOOLEAN]
      /\ peer \in [frame : Nat, asked : BOOLEAN]
      /\ jk \in [state : {"off", "connected", "ready"},
                 valid : BOOLEAN, notify : BOOLEAN, wait : BOOLEAN]
  BY DEF ReaderInv, ReaderTypes
<1>1. CASE Advertised \/ ServiceFound \/ QueryComplete \/ UNCHANGED bmsVars
  <2>1. UNCHANGED <<jk, nbuff, cells, air, peer, bpc>>
    BY <1>1 DEF Advertised, ServiceFound, QueryComplete, bmsVars
  <2> QED
    BY <1>0, <2>1, IdleKeeps
<1>2. CASE LinkConnected
  BY <1>0, <1>2, ResetKeeps DEF LinkConnected
<1>3. CASE LinkDropped
  <2>1. /\ peer'.frame = peer.frame /\ peer' \in [frame : Nat, asked : BOOLEAN]
        /\ air' \in [chunks : Seq(Piece), read : BOOLEAN] /\ air'.chunks = <<>>
    <3>1. peer' = [peer EXCEPT !.asked = FALSE] /\ air' = [chunks |-> <<>>, read |-> FALSE]
      BY <1>3 DEF LinkDropped
    <3>2. <<>> \in Seq(Piece)
      OBVIOUS
    <3>3. peer'.frame = peer.frame /\ peer' \in [frame : Nat, asked : BOOLEAN]
      BY <1>0, <3>1
    <3>4. air' \in [chunks : Seq(Piece), read : BOOLEAN] /\ air'.chunks = <<>>
      BY <3>1, <3>2
    <3> QED
      BY <3>3, <3>4
  <2> QED
    BY <1>3, <2>1, ResetKeeps DEF LinkDropped
<1>4. CASE CharFound
  <2>1. /\ jk' \in [state : {"off", "connected", "ready"},
                    valid : BOOLEAN, notify : BOOLEAN, wait : BOOLEAN]
        /\ jk'.state = jk.state
    BY <1>0, <1>4 DEF CharFound
  <2> QED
    BY <1>0, <1>4, <2>1, IdleKeeps DEF CharFound
<1>5. CASE Notified
  BY <1>5, NotifiedKeeps
<1>6. CASE ReadAnswered
  BY <1>6, ReadKeeps
<1>7. CASE Answer
  BY <1>7, AnswerKeeps
<1>8. CASE BtRestart \/ BtIdle \/ DiscoverPrimary \/ DiscoverSecondary \/ SetDiscovering
           \/ DiscoverChars \/ Discovered \/ SetReady \/ JkWait
  <2>1. /\ UNCHANGED <<jk, nbuff, cells, air, peer>>
        /\ bpc \notin {"second", "free", "reset"} /\ bpc' \notin {"second", "free"}
    BY <1>8 DEF BtRestart, BtIdle, DiscoverPrimary, DiscoverSecondary, SetDiscovering,
                DiscoverChars, Discovered, SetReady, JkWait, BtGo
  <2> QED
    BY <1>0, <2>1, IdleKeeps
<1>9. CASE ReadyCallback
  <2>1. /\ jk' \in [state : {"off", "connected", "ready"},
                    valid : BOOLEAN, notify : BOOLEAN, wait : BOOLEAN]
        /\ UNCHANGED <<nbuff, cells, air, peer>> /\ bpc = "callback" /\ bpc' = "jk"
    BY <1>0, <1>9 DEF ReadyCallback
  <2> QED
    BY <1>0, <2>1, IdleKeeps
<1>10. CASE JkRequest
  <2>1. PICK ok \in BOOLEAN :
            /\ jk' = [jk EXCEPT !.wait = TRUE, !.notify = @ \/ ok]
            /\ peer' = [peer EXCEPT !.asked = @ \/ ok]
            /\ air' = [air EXCEPT !.read = @ \/ ok]
    BY <1>10 DEF JkRequest
  <2>2. (jk.notify \/ ok) \in BOOLEAN /\ (peer.asked \/ ok) \in BOOLEAN
        /\ (air.read \/ ok) \in BOOLEAN
    OBVIOUS
  <2>3. jk' \in [state : {"off", "connected", "ready"},
                 valid : BOOLEAN, notify : BOOLEAN, wait : BOOLEAN]
    BY <1>0, <2>1, <2>2
  <2>4. peer'.frame = peer.frame /\ peer' \in [frame : Nat, asked : BOOLEAN]
    BY <1>0, <2>1, <2>2
  <2>5. air'.chunks = air.chunks /\ air' \in [chunks : Seq(Piece), read : BOOLEAN]
    BY <1>0, <2>1, <2>2
  <2>6. UNCHANGED <<nbuff, cells>> /\ bpc = "jk" /\ bpc' = "frame"
    BY <1>10 DEF JkRequest
  <2> QED
    BY <2>3, <2>4, <2>5, <2>6, IdleKeeps
<1>11. CASE JkTimeout \/ JkTimeoutReset \/ FrameFree
  BY <1>11, FreeKeeps
<1>12. CASE FrameFirst
  BY <1>12, FirstKeeps
<1>13. CASE FrameSecond
  BY <1>13, SecondKeeps
<1> QED
  BY <1>1, <1>2, <1>3, <1>4, <1>5, <1>6, <1>7, <1>8, <1>9, <1>10, <1>11, <1>12, <1>13
  DEF BmsNext, Events, MainLoop

\* The readings are from one frame, although events change the buffer, the link and
\* the state of the device between the two parts that are read
\* (jk_bt_process_cell_frame, jk_bt_process_terminal).
THEOREM ReadingsAreWhole == BmsSpec => []CellsWhole
<1>1. ReaderInv => CellsWhole
  BY DEF ReaderInv
<1> QED
  BY <1>1, ReaderInit, ReaderNext, PTL DEF BmsSpec

\* The reader implements the channel of frames: what is handled was sent as a whole
\* and after all that was handled before (bms_jk_frame_process).
THEOREM ReaderIsChannel == BmsSpec => ChannelSpec
<1>1. BmsInit => Channel!ChInit
  BY DEF BmsInit, Channel!ChInit
<1>2. ReaderInv /\ [BmsNext]_bmsVars =>
          [Channel!ChNext]_<<peer.frame, cells.second, cells.n>>
  <2> SUFFICES ASSUME ReaderInv, [BmsNext]_bmsVars
               PROVE  Channel!ChNext \/ UNCHANGED <<peer.frame, cells.second, cells.n>>
    OBVIOUS
  <2>0. /\ peer \in [frame : Nat, asked : BOOLEAN]
        /\ cells \in [first : Nat, second : Nat, n : Nat]
    BY DEF ReaderInv, ReaderTypes
  <2>1. CASE Answer
    <3>1. peer'.frame = peer.frame + 1 /\ UNCHANGED cells
      BY <2>0, <2>1 DEF Answer
    <3> QED
      BY <3>1 DEF Channel!ChNext, Channel!ChSend
  <2>2. CASE FrameSecond
    <3>1. /\ cells'.second \in Nat /\ cells'.n = cells.n + 1
          /\ cells'.second > cells.second /\ cells'.second <= peer.frame
      BY <2>2, FrameHandled
    <3>2. cells'.second \in (cells.second + 1)..peer.frame
      BY <2>0, <3>1
    <3>3. UNCHANGED peer.frame
      BY <2>2 DEF FrameSecond
    <3> QED
      BY <3>1, <3>2, <3>3 DEF Channel!ChNext, Channel!ChDeliver
  <2>3. CASE FrameFirst
    <3>1. cells'.second = cells.second /\ cells'.n = cells.n /\ UNCHANGED peer
      BY <2>0, <2>3 DEF FrameFirst
    <3> QED
      BY <3>1
  <2>4. CASE LinkDropped \/ JkRequest
    <3>1. peer'.frame = peer.frame /\ UNCHANGED cells
      BY <2>0, <2>4 DEF LinkDropped, JkRequest
    <3> QED
      BY <3>1
  <2>5. CASE UNCHANGED <<peer, cells>>
    BY <2>5
  <2> QED
    BY <2>1, <2>2, <2>3, <2>4, <2>5
    DEF BmsNext, Events, MainLoop, bmsVars, Advertised, LinkConnected, ServiceFound,
        CharFound, QueryComplete, Notified, ReadAnswered, BtRestart, BtIdle,
        DiscoverPrimary, DiscoverSecondary, SetDiscovering, DiscoverChars, Discovered,
        SetReady, ReadyCallback, JkTimeout, JkTimeoutReset, JkWait, FrameFree
<1> QED
  BY <1>1, <1>2, ReaderInit, ReaderNext, PTL DEF BmsSpec, ChannelSpec, Channel!ChSpec

----
\* The types of the reader and of the Bluetooth wrapper.

Data == [1..NChunks -> Chunk \cup {NoChunk}]

\* A frame is handled at most once.
TypesInv == BmsTypeOK /\ cells.n <= cells.second

\* The types hold at first.
LEMMA TypesInit == BmsInit => TypesInv
<1> SUFFICES ASSUME BmsInit PROVE TypesInv
  OBVIOUS
<1>1. 0 \in 0..NServices /\ 0 \in 0..(NServices + 1) /\ 0 \in 0..MaxDrops
      /\ 0 \in 0..NChunks /\ 0 \in 0..MaxFrames /\ <<>> \in Seq(Chunk)
  BY BmsAssumption
<1>2. [i \in 1..NChunks |-> NoChunk] \in Data
  BY DEF Data
<1>3. BmsTypeOK
  BY <1>1, <1>2 DEF BmsInit, BmsTypeOK, Data
<1>4. cells.n <= cells.second
  BY DEF BmsInit
<1> QED
  BY <1>3, <1>4 DEF TypesInv

\* A chunk goes into its place of the buffer, whatever place that is.
LEMMA ValueType ==
    ASSUME BmsTypeOK, NEW c \in Chunk
    PROVE  ValueReceived(c) \in [data : Data, curr : 0..NChunks, ready : BOOLEAN]
<1>0. nbuff \in [data : Data, curr : 0..NChunks, ready : BOOLEAN] /\ NChunks \in Nat
  BY BmsAssumption DEF BmsTypeOK, Data
<1>1. At(c) \in 0..NChunks
  BY <1>0 DEF At
<1>2. Curr(c) \in 0..NChunks
  BY <1>0, <1>1 DEF Curr
<1>3. BufData(c) \in Data
  BY <1>0, <1>1 DEF BufData, Data
<1>4. (IF Curr(c) = NChunks /\ ~IsFrame(BufData(c)) THEN 0 ELSE Curr(c)) \in 0..NChunks
  BY <1>0, <1>2
<1>5. (Curr(c) = NChunks /\ IsFrame(BufData(c))) \in BOOLEAN
  BY DEF IsFrame
<1>6. Assembled(c) \in [data : Data, curr : 0..NChunks, ready : BOOLEAN]
  BY <1>3, <1>4, <1>5 DEF Assembled
<1> QED
  BY <1>0, <1>6 DEF ValueReceived, Terminal

\* Every step keeps the types.
LEMMA TypesNext == ReaderInv /\ TypesInv /\ [BmsNext]_bmsVars => TypesInv'
<1> SUFFICES ASSUME ReaderInv, TypesInv, [BmsNext]_bmsVars PROVE TypesInv'
  OBVIOUS
<1> DEFINE BtType == [state : {"off", "connected", "ready"} \cup Discovering,
                      busy : BOOLEAN, svcs : 0..NServices, cur : 0..(NServices + 1)]
           LinkType == [up : BOOLEAN, pending : BOOLEAN, drops : 0..MaxDrops,
                        query : {"none", "primary", "secondary", "chars"},
                        left : 0..NServices]
           JkType == [state : {"off", "connected", "ready"},
                      valid : BOOLEAN, notify : BOOLEAN, wait : BOOLEAN]
           BufType == [data : Data, curr : 0..NChunks, ready : BOOLEAN]
           CellsType == [first : 0..MaxFrames, second : 0..MaxFrames, n : 0..MaxFrames]
           AirType == [chunks : Seq(Chunk), read : BOOLEAN]
           PeerType == [frame : 0..MaxFrames, asked : BOOLEAN]
           Pcs == {"bt", "primary", "secondary", "ready", "callback", "jk", "reset",
                   "frame", "second", "free"}
<1>0. /\ bt \in BtType /\ link \in LinkType /\ jk \in JkType /\ nbuff \in BufType
      /\ cells \in CellsType /\ air \in AirType /\ peer \in PeerType /\ bpc \in Pcs
      /\ cells.n <= cells.second
  BY DEF TypesInv, BmsTypeOK, Data
<1>z. /\ 0 \in 0..NServices /\ 0 \in 0..(NServices + 1) /\ 0 \in 0..NChunks
      /\ NServices \in 0..NServices /\ NChunks \in Nat /\ MaxFrames \in Nat
      /\ NServices \in Nat /\ MaxDrops \in Nat /\ NChunks > 1
  BY BmsAssumption
<1>g. ASSUME bt' \in BtType, link' \in LinkType, jk' \in JkType, nbuff' \in BufType,
             cells' \in CellsType, air' \in AirType, peer' \in PeerType, bpc' \in Pcs,
             cells'.n <= cells'.second
      PROVE  TypesInv'
  BY <1>g DEF TypesInv, BmsTypeOK, Data
<1>r. (\A s \in {"off", "connected", "ready"} : JkReset(s) \in JkType) /\ BufReset \in BufType
  BY <1>0, <1>z DEF JkReset, BufReset
<1> HIDE DEF BtType, LinkType, JkType, BufType, CellsType, AirType, PeerType, Pcs
<1>1. CASE Advertised
  <2>1. link' \in LinkType
    BY <1>0, <1>1 DEF Advertised, LinkType
  <2> QED
    BY <1>0, <1>1, <1>g, <2>1 DEF Advertised
<1>2. CASE LinkConnected
  <2>1. link' \in LinkType
    BY <1>0, <1>2 DEF LinkConnected, LinkType
  <2>2. bt' \in BtType
    BY <1>0, <1>2, <1>z DEF LinkConnected, BtType
  <2> QED
    BY <1>0, <1>2, <1>g, <1>r, <2>1, <2>2 DEF LinkConnected
<1>3. CASE LinkDropped
  <2>0. link.drops + 1 \in 0..MaxDrops
    BY <1>0, <1>3, <1>z DEF LinkDropped, LinkType
  <2>1. link' \in LinkType
    BY <1>0, <1>3, <1>z, <2>0 DEF LinkDropped, LinkType
  <2>2. bt' \in BtType
    BY <1>3, <1>z DEF LinkDropped, BtType
  <2>3. air' \in AirType
    <3>1. <<>> \in Seq(Chunk)
      OBVIOUS
    <3> QED
      BY <1>3, <3>1 DEF LinkDropped, AirType
  <2>4. peer' \in PeerType
    BY <1>0, <1>3 DEF LinkDropped, PeerType
  <2> QED
    BY <1>0, <1>3, <1>g, <1>r, <2>1, <2>2, <2>3, <2>4 DEF LinkDropped
<1>4. CASE ServiceFound
  <2>1. link.left - 1 \in 0..NServices
    BY <1>0, <1>4, <1>z DEF ServiceFound, LinkType
  <2>2. link' \in LinkType
    BY <1>0, <1>4, <2>1 DEF ServiceFound, LinkType
  <2>3. bt.svcs < NServices => bt.svcs + 1 \in 0..NServices
    BY <1>0, <1>z DEF BtType
  <2>4. bt' \in BtType
    BY <1>0, <1>4, <2>3 DEF ServiceFound, BtType
  <2> QED
    BY <1>0, <1>4, <1>g, <2>2, <2>4 DEF ServiceFound
<1>5. CASE CharFound
  <2>1. link' \in LinkType /\ jk' \in JkType
    BY <1>0, <1>5, <1>z DEF CharFound, LinkType, JkType
  <2> QED
    BY <1>0, <1>5, <1>g, <2>1 DEF CharFound
<1>6. CASE QueryComplete
  <2>1. link' \in LinkType /\ bt' \in BtType
    BY <1>0, <1>6 DEF QueryComplete, LinkType, BtType
  <2> QED
    BY <1>0, <1>6, <1>g, <2>1 DEF QueryComplete
<1>7. CASE Notified
  <2>1. air.chunks \in Seq(Chunk) /\ air.chunks # <<>>
    BY <1>0, <1>7 DEF Notified, AirType
  <2>2. Head(air.chunks) \in Chunk /\ Tail(air.chunks) \in Seq(Chunk)
    BY <2>1
  <2>3. nbuff' \in BufType
    BY <1>7, <2>2, ValueType DEF Notified, BufType, TypesInv
  <2>4. air' \in AirType
    BY <1>0, <1>7, <2>2 DEF Notified, AirType
  <2> QED
    BY <1>0, <1>7, <1>g, <2>3, <2>4 DEF Notified
<1>8. CASE ReadAnswered
  <2>1. LastValue \in Chunk
    <3>0. peer.frame \in 0..MaxFrames /\ LastValue.f > 0 /\ NChunks \in 1..NChunks
      BY <1>0, <1>8, <1>z DEF ReadAnswered, PeerType
    <3>1. CASE air.chunks = <<>>
      BY <1>z, <3>0, <3>1 DEF LastValue, Chunk
    <3>2. CASE air.chunks # <<>> /\ Head(air.chunks).i > 1
      <4>1. Head(air.chunks) \in Chunk
        BY <1>0, <3>2 DEF AirType
      <4>2. Head(air.chunks).i - 1 \in 1..NChunks
        BY <1>z, <3>2, <4>1 DEF Chunk
      <4> QED
        BY <3>2, <4>1, <4>2 DEF LastValue, Chunk
    <3>3. CASE air.chunks # <<>> /\ ~(Head(air.chunks).i > 1)
      BY <1>z, <3>0, <3>3 DEF LastValue, Chunk
    <3> QED
      BY <3>1, <3>2, <3>3
  <2>2. nbuff' \in BufType
    BY <1>8, <2>1, ValueType DEF ReadAnswered, BufType, TypesInv
  <2>3. air' \in AirType
    BY <1>0, <1>8 DEF ReadAnswered, AirType
  <2> QED
    BY <1>0, <1>8, <1>g, <2>2, <2>3 DEF ReadAnswered
<1>9. CASE Answer
  <2>1. peer.frame + 1 \in 1..MaxFrames /\ peer.frame + 1 \in 0..MaxFrames
    BY <1>0, <1>9, <1>z DEF Answer, PeerType
  <2>2. peer' \in PeerType
    BY <1>0, <1>9, <2>1 DEF Answer, PeerType
  <2>3. \A i \in 1..NChunks : [f |-> peer.frame + 1, i |-> i] \in Chunk
    BY <2>1 DEF Chunk
  <2>4. [i \in 1..NChunks |-> [f |-> peer.frame + 1, i |-> i]] \in Seq(Chunk)
    BY <1>z, <2>3
  <2>5. air' \in AirType
    BY <1>0, <1>9, <2>4 DEF Answer, AirType
  <2> QED
    BY <1>0, <1>9, <1>g, <2>2, <2>5 DEF Answer
<1>10. CASE BtRestart \/ BtIdle \/ SetReady
  <2>1. bt' \in BtType
    <3>1. CASE BtRestart
      BY <1>z, <3>1 DEF BtRestart, BtType
    <3>2. CASE SetReady
      BY <1>0, <1>z, <3>2 DEF SetReady, BtType
    <3> QED
      BY <1>0, <1>10, <3>1, <3>2 DEF BtIdle
  <2>2. bpc' \in Pcs
    BY <1>10 DEF BtRestart, BtIdle, SetReady, BtGo, Pcs
  <2> QED
    BY <1>0, <1>10, <1>g, <2>1, <2>2 DEF BtRestart, BtIdle, SetReady
<1>11. CASE DiscoverPrimary \/ DiscoverSecondary
  <2>1. link' \in LinkType
    BY <1>0, <1>11, <1>z DEF DiscoverPrimary, DiscoverSecondary, Query, LinkType
  <2>2. bt' \in BtType
    BY <1>0, <1>11 DEF DiscoverPrimary, DiscoverSecondary, BtType
  <2>3. bpc' \in Pcs
    BY <1>11 DEF DiscoverPrimary, DiscoverSecondary, BtGo, Pcs
  <2> QED
    BY <1>0, <1>11, <1>g, <2>1, <2>2, <2>3 DEF DiscoverPrimary, DiscoverSecondary
<1>12. CASE SetDiscovering
  <2>1. bt' \in BtType /\ bpc' \in Pcs
    BY <1>0, <1>12 DEF SetDiscovering, BtType, Pcs, Discovering
  <2> QED
    BY <1>0, <1>12, <1>g, <2>1 DEF SetDiscovering
<1>13. CASE DiscoverChars
  <2>1. NextCur \in 0..NServices /\ NextCur \in 0..(NServices + 1)
    BY <1>0, <1>13, <1>z DEF DiscoverChars, NextCur, BtType
  <2>2. link' \in LinkType
    BY <1>0, <1>13, <2>1 DEF DiscoverChars, Query, LinkType
  <2>3. bt' \in BtType /\ bpc' \in Pcs
    BY <1>0, <1>13, <2>1 DEF DiscoverChars, BtGo, BtType, Pcs, Discovering
  <2> QED
    BY <1>0, <1>13, <1>g, <2>2, <2>3 DEF DiscoverChars
<1>14. CASE Discovered \/ JkWait
  <2>1. bpc' \in Pcs
    BY <1>14 DEF Discovered, JkWait, BtGo, Pcs
  <2> QED
    BY <1>0, <1>14, <1>g, <2>1 DEF Discovered, JkWait
<1>15. CASE ReadyCallback
  <2>1. jk' \in JkType /\ bpc' \in Pcs
    BY <1>0, <1>15 DEF ReadyCallback, JkType, Pcs
  <2> QED
    BY <1>0, <1>15, <1>g, <2>1 DEF ReadyCallback
<1>16. CASE JkRequest
  <2>1. PICK ok \in BOOLEAN :
            /\ jk' = [jk EXCEPT !.wait = TRUE, !.notify = @ \/ ok]
            /\ peer' = [peer EXCEPT !.asked = @ \/ ok]
            /\ air' = [air EXCEPT !.read = @ \/ ok]
    BY <1>16 DEF JkRequest
  <2>2. (jk.notify \/ ok) \in BOOLEAN /\ (peer.asked \/ ok) \in BOOLEAN
        /\ (air.read \/ ok) \in BOOLEAN
    OBVIOUS
  <2>3. jk' \in JkType /\ peer' \in PeerType /\ air' \in AirType
    BY <1>0, <2>1, <2>2 DEF JkType, PeerType, AirType
  <2>4. bpc' \in Pcs
    BY <1>16 DEF JkRequest, Pcs
  <2> QED
    BY <1>0, <1>16, <1>g, <2>3, <2>4 DEF JkRequest
<1>17. CASE JkTimeout \/ JkTimeoutReset \/ FrameFree
  <2>1. nbuff' \in BufType
    BY <1>0, <1>17, <1>z DEF JkTimeout, JkTimeoutReset, FrameFree, BufType
  <2>2. jk' \in JkType
    BY <1>0, <1>17 DEF JkTimeout, JkTimeoutReset, FrameFree, JkType
  <2>3. bpc' \in Pcs
    BY <1>17 DEF JkTimeout, JkTimeoutReset, FrameFree, Pcs
  <2> QED
    BY <1>0, <1>17, <1>g, <2>1, <2>2, <2>3 DEF JkTimeout, JkTimeoutReset, FrameFree
<1>18. CASE FrameFirst
  <2>1. nbuff.data[1] \in Chunk \cup {NoChunk}
    BY <1>0, <1>z DEF BufType, Data
  <2>2. nbuff.data[1].f \in 0..MaxFrames
    BY <1>z, <2>1 DEF Chunk, NoChunk
  <2>3. cells' \in CellsType /\ cells'.n = cells.n /\ cells'.second = cells.second
    BY <1>0, <1>18, <2>2 DEF FrameFirst, CellsType
  <2>4. bpc' \in Pcs
    BY <1>18 DEF FrameFirst, Pcs
  <2> QED
    BY <1>0, <1>18, <1>g, <2>3, <2>4 DEF FrameFirst
<1>19. CASE FrameSecond
  <2>1. /\ cells'.second \in Nat /\ cells'.n = cells.n + 1
        /\ cells'.second > cells.second /\ cells'.second <= peer.frame
    BY <1>19, FrameHandled
  <2>2. /\ cells'.second \in 0..MaxFrames /\ cells'.n \in 0..MaxFrames
        /\ cells'.n <= cells'.second
    BY <1>0, <1>z, <2>1 DEF CellsType, PeerType
  <2>3. cells' \in CellsType
    BY <1>0, <1>19, <2>2 DEF FrameSecond, CellsType
  <2>4. bpc' \in Pcs
    BY <1>19 DEF FrameSecond, Pcs
  <2> QED
    BY <1>0, <1>19, <1>g, <2>2, <2>3, <2>4 DEF FrameSecond
<1>20. CASE UNCHANGED bmsVars
  BY <1>0, <1>20, <1>g DEF bmsVars
<1> QED
  BY <1>1, <1>2, <1>3, <1>4, <1>5, <1>6, <1>7, <1>8, <1>9, <1>10, <1>11, <1>12, <1>13,
     <1>14, <1>15, <1>16, <1>17, <1>18, <1>19, <1>20
  DEF BmsNext, Events, MainLoop

\* A step of one part of MCSafety is a step of the store, of the reader, of the
\* received messages, or of none of them.
LEMMA SafetyStep ==
    [SafNext]_safVars => [CfgNext]_cfgVars /\ [BmsNext]_bmsVars /\ [ListenNext]_listenVars
<1> SUFFICES ASSUME [SafNext]_safVars
             PROVE  [CfgNext]_cfgVars /\ [BmsNext]_bmsVars /\ [ListenNext]_listenVars
  OBVIOUS
<1>1. CASE CfgPart(CfgMain) \/ CfgPart(CfgWeb) \/ CfgPart(PowerFails) \/ CfgPart(CfgWatchdog)
  BY <1>1 DEF CfgPart, CfgNext
<1>2. CASE BmsPart(Events) \/ BmsPart(MainLoop)
  BY <1>2 DEF BmsPart, BmsNext
<1>3. CASE \/ \E m \in Msgs : ListenPart(Publish(m))
           \/ \E n \in 1..Ring : ListenPart(Payload(n))
           \/ ListenPart(Lost) \/ ListenPart(CallHooks) \/ ListenPart(ClearInProgress)
           \/ ListenPart(ClearReady) \/ ListenPart(ClearRest)
  BY <1>3 DEF ListenPart, ListenNext
<1>4. CASE UNCHANGED <<cfgVars, bmsVars, listenVars>>
  BY <1>4
<1> QED
  BY <1>1, <1>2, <1>3, <1>4 DEF SafNext, safVars, OtaPart, CronPart, FramePart

\* The configuration store, the reader of the battery and the received messages keep
\* their types, for any number of parameters, chunks, services, frames and buffers: the
\* table of the parameters, the list of the services, the buffer of the notifications
\* and the buffers of the messages are never left, and no more frames are handled than
\* were sent.
THEOREM SafetyTypes == SafSpec => []SafTypeOK
<1> DEFINE Inv == CfgInv /\ ReaderInv /\ TypesInv /\ ListenInv
<1>1. SafInit => Inv
  BY CfgInvInit, ReaderInit, TypesInit, InitInv DEF SafInit
<1>2. Inv /\ [SafNext]_safVars => Inv'
  BY SafetyStep, CfgInvNext, ReaderNext, TypesNext, TypeStep, OwnedStep DEF ListenInv
<1>3. Inv => SafTypeOK
  BY DEF CfgInv, TypesInv, ListenInv, SafTypeOK
<1> QED
  BY <1>1, <1>2, <1>3, PTL DEF SafSpec
====
