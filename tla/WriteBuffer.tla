---------------------------- MODULE WriteBuffer -----------------------------
(***************************************************************************)
(* The bytes of one client's replies on their way to its peer:             *)
(* Client::sendReply, the write buffer, send() in Server::sendData, and    *)
(* the closing of a link that waits for the buffer to be written           *)
(* (disconnectAfterFlush).  The kernel decides how many bytes a send()     *)
(* takes.                                                                  *)
(***************************************************************************)
EXTENDS IrcText

CONSTANTS
  Reply,      \* the texts handed to sendReply
  ErrorLine,  \* "ERROR :Closing Link: ..."
  MAX_SENDQ,  \* bytes that may wait for the peer
  MaxReplies  \* bound: replies to one client

(* Replies are put together from parameters and names, which hold neither  *)
(* CR nor LF (CleanMessage of MessageParser).                              *)
ASSUME ReplyAssumption ==
  Reply \cup {ErrorLine} \subseteq {s \in Txt : ~Occurs(LF, s) /\ ~Occurs(CR, s)}
ASSUME LimitAssumption ==
  MAX_SENDQ \in Nat /\ MaxReplies \in Nat

VARIABLES
  _write_buffer,
  link,     \* "open", "closing", or why it is marked: "flushed", "SendQ", "error"
  wire,     \* history: what send() has taken
  replies   \* history: what sendReply was given

writeVars == <<_write_buffer, link, wire, replies>>

WriteInit == _write_buffer = <<>> /\ link = "open" /\ wire = <<>> /\ replies = <<>>

Marked == {"flushed", "SendQ", "error"}
CRLF == <<CR, LF>>

-----------------------------------------------------------------------------
(* The bytes of a reply.                                                   *)
format(m) == cutLine(m, MaxLine) \o CRLF

write(m) ==
  /\ Len(replies) < MaxReplies
  /\ _write_buffer' = _write_buffer \o format(m)
  /\ replies' = Append(replies, m)

(* A closing or marked client is still a member of its channels and gets   *)
(* what is sent to them.                                                   *)
sendReply(m) == write(m) /\ UNCHANGED <<link, wire>>

disconnectAfterFlush ==
  /\ link = "open"
  /\ write(ErrorLine)
  /\ link' = "closing"
  /\ UNCHANGED wire

(* Mutant: the buffer is dropped when send() was called, not when it is    *)
(* empty.                                                                  *)
closesAtOnce(n) == link = "closing"

(* The buffer of a closing client is empty after n bytes.                  *)
closes(n) == link = "closing" /\ n = Len(_write_buffer)

(* Mutant: the whole buffer is taken to be sent.                           *)
restNone(n) == <<>>

(* write_buffer.erase(0, bytes_sent)                                       *)
rest(n) == SubSeq(_write_buffer, n + 1, Len(_write_buffer))

(* send() takes n bytes.  The buffer may have grown over MAX_SENDQ since   *)
(* refreshPollEvents asked for POLLOUT.                                    *)
sendData(n) ==
  /\ link \notin Marked /\ n \in 1..Len(_write_buffer)
  /\ wire' = wire \o SubSeq(_write_buffer, 1, n)
  /\ _write_buffer' = rest(n)
  /\ link' = IF closes(n) THEN "flushed" ELSE link
  /\ UNCHANGED replies

sendFails ==
  /\ link \notin Marked /\ _write_buffer # <<>>
  /\ link' = "error"
  /\ UNCHANGED <<_write_buffer, wire, replies>>

(* refreshPollEvents                                                       *)
sendQExceeded ==
  /\ link \notin Marked /\ Len(_write_buffer) > MAX_SENDQ
  /\ link' = "SendQ"
  /\ UNCHANGED <<_write_buffer, wire, replies>>

WriteNext ==
  \/ \E m \in Reply : sendReply(m)
  \/ disconnectAfterFlush
  \/ \E n \in 1..Len(_write_buffer) : sendData(n)
  \/ sendFails
  \/ sendQExceeded

WriteSpec == WriteInit /\ [][WriteNext]_writeVars

-----------------------------------------------------------------------------
(* The n-th line the peer reads, with its end.                             *)
WireLine(s, n) == SubSeq(s, NthNewline(s, n - 1) + 1, NthNewline(s, n))

(* However the bytes are taken by the kernel, the n-th line the peer reads *)
(* is the n-th reply, shortened to whole characters and at most 512 bytes  *)
(* with its CR-LF (README: "Truncation never splits a UTF-8 character"),   *)
(* and every reply is on the wire or in the buffer.                        *)
PeerReadsReplies ==
  /\ Cardinality(Newlines(wire \o _write_buffer)) = Len(replies)
  /\ \A n \in 1..Cardinality(Newlines(wire)) :
       LET line == WireLine(wire, n)
           text == SubSeq(line, 1, Len(line) - 2)
       IN  /\ Len(line) \in 2..(MaxLine + 2)
           /\ SubSeq(line, Len(line) - 1, Len(line)) = CRLF
           /\ text = SubSeq(replies[n], 1, Len(text))
           /\ text = replies[n] \/ Len(text) >= MaxLine - 3
           /\ IsUtf8(replies[n]) => IsUtf8(text)

(* A link that is closed because its buffer was written has the ERROR line *)
(* on the wire, whole (README: "first sends ERROR ... and closes after the *)
(* buffer is flushed").                                                    *)
FlushedHasError ==
  link = "flushed" =>
    \E n \in 1..Cardinality(Newlines(wire)) : WireLine(wire, n) = format(ErrorLine)

(* The inductive form of both: every reply is a line of what is on the     *)
(* wire and in the buffer together, in order, and a closing client has the *)
(* ERROR line among its replies, a flushed one among those on the wire.    *)
AsLines(s, r) ==
  /\ Cardinality(Newlines(s)) = Len(r)
  /\ s # <<>> => s[Len(s)] = LF
  /\ \A n \in 1..Len(r) :
       /\ \E i \in Newlines(s) : Cardinality(NewlinesUpTo(s, i)) = n
       /\ WireLine(s, n) = format(r[n])

WriteInv ==
  /\ _write_buffer \in Txt /\ wire \in Txt /\ replies \in Seq(Reply \cup {ErrorLine})
  /\ AsLines(wire \o _write_buffer, replies)
  /\ link = "closing" => \E n \in 1..Len(replies) : replies[n] = ErrorLine
  /\ link = "flushed" => \E n \in 1..Len(replies) :
       n <= Cardinality(Newlines(wire)) /\ replies[n] = ErrorLine

=============================================================================
