----------------------------- MODULE ReadBuffer -----------------------------
(***************************************************************************)
(* The bytes of one peer on their way to the parser: recv() in             *)
(* Server::receiveData, the read buffer of the Client, popLine and the     *)
(* limit on what may wait for a newline.  The network decides where the    *)
(* stream is cut into calls of recv().                                     *)
(***************************************************************************)
EXTENDS IrcText

CONSTANTS
  Data,       \* the bytes the peer sends
  RecvSize,   \* 1024: sizeof(buffer)
  InMax,      \* 8192: bytes that may wait for a newline
  MaxStream   \* bound: bytes one connection sends

ASSUME DataAssumption == Data \subseteq Byte
ASSUME RecvAssumption == RecvSize \in Nat \ {0} /\ InMax \in Nat /\ MaxStream \in Nat
(* What follows the newlines of one recv() never overflows by itself.      *)
ASSUME LimitsAssumption == RecvSize <= InMax + 1

VARIABLES
  _read_buffer,
  popping,   \* receiveData is in its while loop
  inLink,    \* "open", "closing" (_closing) or "overflow" (marked)
  stream,    \* history: what recv() has returned while the link was open
  popped     \* history: what popLine has returned

readVars == <<_read_buffer, popping, inLink, stream, popped>>

ReadInit ==
  /\ _read_buffer = <<>> /\ popping = FALSE /\ inLink = "open"
  /\ stream = <<>> /\ popped = <<>>

hasCompleteLine(s) == Occurs(LF, s)

(* Mutant: a buffer that is full of complete lines overflows as well.      *)
overflowsFull(s) == Len(s) > InMax

(* Too many bytes without a newline.                                       *)
overflows(s) == Len(s) > InMax /\ ~hasCompleteLine(s)

-----------------------------------------------------------------------------
(* recv() returns `chunk'.  (The bytes of a closing client are received    *)
(* and thrown away: no step of this module.)                               *)
receiveData(chunk) ==
  /\ inLink = "open" /\ ~popping
  /\ Len(chunk) \in 1..RecvSize /\ Len(stream) + Len(chunk) <= MaxStream
  /\ _read_buffer' = _read_buffer \o chunk
  /\ stream' = stream \o chunk
  /\ IF overflows(_read_buffer')
     THEN inLink' = "overflow" /\ UNCHANGED popping
     ELSE popping' = TRUE /\ UNCHANGED inLink
  /\ UNCHANGED popped

Newline == find(_read_buffer, LF, 1)

(* A line without the CR that may come before its newline.                 *)
withoutCR(s) ==
  IF Len(s) > 0 /\ s[Len(s)] = CR THEN SubSeq(s, 1, Len(s) - 1) ELSE s

(* Mutant: what came in the same recv() as the line is dropped with it.    *)
eraseAll == <<>>

(* What popLine leaves.                                                    *)
erase == SubSeq(_read_buffer, Newline + 1, Len(_read_buffer))

(* popLine and the handler of the line, which may close the link; an empty *)
(* line is not even parsed.                                                *)
popLine(closes) ==
  LET line == withoutCR(substr(_read_buffer, 1, Newline))
  IN  /\ popping /\ inLink = "open" /\ hasCompleteLine(_read_buffer)
      /\ closes => line # <<>>
      /\ popped' = Append(popped, line)
      /\ _read_buffer' = erase
      /\ inLink' = IF closes THEN "closing" ELSE "open"
      /\ UNCHANGED <<popping, stream>>

(* The while loop ends; the lines of a closing client stay unread.         *)
loopEnds ==
  /\ popping /\ (inLink = "closing" \/ ~hasCompleteLine(_read_buffer))
  /\ popping' = FALSE
  /\ UNCHANGED <<_read_buffer, inLink, stream, popped>>

(* checkIdleClients may close the link between two calls (Ping timeout).   *)
closeLink ==
  /\ inLink = "open" /\ ~popping
  /\ inLink' = "closing"
  /\ UNCHANGED <<_read_buffer, popping, stream, popped>>

Chunk == UNION {[1..n -> Data] : n \in 1..RecvSize}

ReadNext ==
  \/ \E chunk \in Chunk : receiveData(chunk)
  \/ \E closes \in BOOLEAN : popLine(closes)
  \/ loopEnds
  \/ closeLink

ReadSpec == ReadInit /\ [][ReadNext]_readVars

-----------------------------------------------------------------------------
(* The n-th line of s.                                                     *)
StreamLine(s, n) == withoutCR(SubSeq(s, NthNewline(s, n - 1) + 1, NthNewline(s, n) - 1))

(* How the network cuts the stream does not matter: the lines taken so far *)
(* are the first lines of the stream, in order and whole, the buffer is    *)
(* exactly what comes after them, and between two calls of recv() no       *)
(* complete line waits for the peer to send something more (README: "a     *)
(* command can be sent in pieces").                                        *)
ChunkingInvisible ==
  /\ \A n \in 1..Len(popped) : popped[n] = StreamLine(stream, n)
  /\ _read_buffer = SubSeq(stream, NthNewline(stream, Len(popped)) + 1, Len(stream))
  /\ inLink = "open" /\ ~popping => Len(popped) = Cardinality(Newlines(stream))

(* A connection holds at most InMax bytes between two events, and RecvSize *)
(* more while it works on them; yet a peer that ends its lines in time is  *)
(* never closed for flooding: the mark is only set when the last InMax + 1 *)
(* bytes hold no newline (receiveData).                                    *)
FloodLimit ==
  /\ Len(_read_buffer) <= InMax + RecvSize
  /\ inLink = "open" /\ ~popping => Len(_read_buffer) <= InMax
  /\ inLink = "overflow" =>
       /\ Len(stream) > InMax
       /\ \A i \in (Len(stream) - InMax)..Len(stream) : stream[i] # LF

(* The inductive form of ChunkingInvisible and FloodLimit: the buffer is   *)
(* what follows the last newline taken, every line popped has its newline  *)
(* in the stream, and what an open link may be left with after its last    *)
(* newline is within the limit.                                            *)
Taken == Len(stream) - Len(_read_buffer)

PoppedInOrder ==
  \A n \in 1..Len(popped) :
    /\ \E i \in Newlines(stream) : Cardinality(NewlinesUpTo(stream, i)) = n
    /\ popped[n] = StreamLine(stream, n)

ShortTails(s) ==
  \A i \in 1..Len(s) : (\A j \in i..Len(s) : s[j] # LF) => Len(s) - i + 1 <= InMax

ReadInv ==
  /\ stream \in Txt /\ _read_buffer \in Txt /\ popped \in Seq(Txt)
  /\ Len(_read_buffer) <= Len(stream)
  /\ _read_buffer = SubSeq(stream, Taken + 1, Len(stream))
  /\ Taken = 0 \/ Taken \in Newlines(stream)
  /\ Cardinality(NewlinesUpTo(stream, Taken)) = Len(popped)
  /\ PoppedInOrder
  /\ Len(_read_buffer) <= InMax + RecvSize
  /\ inLink = "open" => ShortTails(_read_buffer)
  /\ inLink = "open" /\ ~popping => ~hasCompleteLine(_read_buffer)
  /\ inLink = "overflow" => overflows(_read_buffer)

=============================================================================
