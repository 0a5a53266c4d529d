---------------------------- MODULE PartsProofs -----------------------------
(***************************************************************************)
(* What the parts of MCParts promise, for texts, buffers, lines and        *)
(* channels of any size: the functions of IrcText, the parser, the read    *)
(* and the write buffer of a client, the list of names and the process.    *)
(***************************************************************************)
EXTENDS Replies, ReadBuffer, WriteBuffer, Naming, NameList, Lifecycle,
        SequenceTheorems, FiniteSetTheorems, RecursionProofs, TLAPS

-----------------------------------------------------------------------------
(* The process.                                                            *)

(* Whichever system call of init fails and whenever a signal comes, the    *)
(* process leaves no descriptor open, and it serves on the port asked for. *)
THEOREM NothingLeftOpen == LifeSpec => []ClosedAtExit
  <1> USE DEF LifeInv, validPort, None, InitCall, Serving
  <1>1. LifeInit => LifeInv
    BY DEF LifeInit
  <1>2. ASSUME LifeInv, [LifeNext]_lifeVars
        PROVE  LifeInv'
    <2>1. CASE UNCHANGED lifeVars
      BY <1>2, <2>1 DEF lifeVars
    <2>2. CASE installHandlers \/ initThrows \/ openSocket
      BY <1>2, <2>2 DEF installHandlers, initThrows, openSocket
    <2>3. ASSUME NEW ok \in BOOLEAN, NEW port \in Port, checkArguments(ok, port)
          PROVE  LifeInv'
      <3>1. port \in Int
        BY PortAssumption
      <3> QED BY <1>2, <2>3, <3>1 DEF checkArguments
    <2>4. CASE setOptions \/ startListening
      BY <1>2, <2>4 DEF setOptions, startListening
    <2>5. CASE bindPort
      <3>1. _port % 65536 = _port
        BY <1>2, <2>5 DEF bindPort
      <3> QED BY <1>2, <2>5, <3>1 DEF bindPort
    <2>6. CASE testStop \/ enterPoll \/ pollTimeout \/ pollReady \/ pollFails
      BY <1>2, <2>6 DEF testStop, enterPoll, pollTimeout, pollReady, pollFails
    <2>7. ASSUME NEW open \in SUBSET Fd, handle(open)
          PROVE  LifeInv'
      BY <1>2, <2>7 DEF handle
    <2>8. CASE destroy
      BY <1>2, <2>8 DEF destroy, closeServer
    <2>9. CASE Signal
      BY <1>2, <2>9 DEF Signal
    <2> QED
      BY <1>2, <2>1, <2>2, <2>3, <2>4, <2>5, <2>6, <2>7, <2>8, <2>9 DEF LifeNext, Run
  <1>3. LifeInv => ClosedAtExit
    BY DEF ClosedAtExit
  <1> QED BY <1>1, <1>2, <1>3, PTL DEF LifeSpec

-----------------------------------------------------------------------------
(* The list of names.                                                      *)

(* One entry more of a list whose first entries are on the lines.          *)
LEMMA OneMoreEntry ==
  ASSUME NEW S, NEW m \in Seq(S), NEW s \in Seq(S), NEW t \in Seq(S), NEW n \in 1..Len(m)
  PROVE  s \o t = SubSeq(m, 1, n - 1) =>
           /\ s \o Append(t, m[n]) = SubSeq(m, 1, n)
           /\ (s \o t) \o <<m[n]>> = SubSeq(m, 1, n)
  <1> DEFINE u == <<m[n]>>
  <1>1. m[n] \in S /\ u \in Seq(S)
    OBVIOUS
  <1>2. Append(t, m[n]) = t \o u
    BY <1>1, AppendIsConcat
  <1>3. SubSeq(m, 1, n) = SubSeq(m, 1, n - 1) \o u
    <2>1. 1 \in 1..Len(m) /\ n \in 1..Len(m)
      OBVIOUS
    <2> QED BY <2>1, SubSeqRecursiveSecond
  <1> HIDE DEF u
  <1>4. s \o (t \o u) = (s \o t) \o u
    BY <1>1
  <1> QED BY <1>2, <1>3, <1>4 DEF u

(* A line of the list has a name and room for all its names.               *)
LEMMA LineSent ==
  ASSUME ListInv, size > 0, sendToOne
  PROVE  /\ lines' \in Seq(Nat) /\ listed' \in Seq(Entry)
         /\ \A n \in 1..Len(lines') : lines'[n] \in (prefixSize + 1)..MaxLine
  <1>1. prefixSize \in Nat /\ size \in 1..(MaxLine - prefixSize) /\ MaxLine \in Nat
    BY EntryAssumption, MaxLineAssumption DEF ListInv, limit
  <1>2. prefixSize + size \in Nat /\ prefixSize + size \in (prefixSize + 1)..MaxLine
    BY <1>1
  <1>3. /\ lines \in Seq(Nat) /\ listed \in Seq(Entry) /\ users \in Seq(Entry)
        /\ \A n \in 1..Len(lines) : lines[n] \in (prefixSize + 1)..MaxLine
    BY DEF ListInv, EveryoneListed
  <1> DEFINE b == prefixSize + size
             I == (prefixSize + 1)..MaxLine
  <1>4. lines' = Append(lines, b) /\ listed' = listed \o users /\ b \in Nat /\ b \in I
    BY <1>2 DEF sendToOne
  <1>5. \A n \in 1..Len(lines) : lines[n] \in I
    BY <1>3
  <1> HIDE DEF b, I
  <1>6. lines' \in Seq(Nat) /\ listed' \in Seq(Entry)
    BY <1>3, <1>4
  <1>7. \A n \in 1..Len(lines') : lines'[n] \in I
    BY <1>3, <1>4, <1>5
  <1> QED BY <1>6, <1>7 DEF I

(* However many members a channel has, a JOIN lists each of them once, in  *)
(* order, and sendReply cuts none of the lines (EveryoneListed).           *)
THEOREM NoNameIsLost == ListSpec => []EveryoneListed
  <1>1. ListInit => ListInv
    <2> SUFFICES ASSUME ListInit PROVE ListInv
      OBVIOUS
    <2>1. prefixSize \in Nat /\ prefixSize + MaxEntry <= MaxLine /\ MaxEntry \in Nat
      BY EntryAssumption DEF ListInit
    <2>2. _members \in Seq(Entry)
      BY EntryAssumption DEF ListInit
    <2>3. <<>> \o <<>> = SubSeq(_members, 1, 1 - 1)
      BY <2>2, SubSeqEmpty, ConcatEmptySeq, EmptySeq
    <2> QED BY <2>1, <2>2, <2>3, MaxLineAssumption DEF ListInit, ListInv, EveryoneListed, limit
  <1>2. ASSUME ListInv, [ListNext]_listVars
        PROVE  ListInv'
    <2>0. /\ _members \in Seq(Entry) /\ prefixSize \in Nat /\ MaxEntry \in Nat
          /\ prefixSize + MaxEntry <= MaxLine /\ MaxLine \in Nat /\ size \in Nat
          /\ limit = MaxLine - prefixSize /\ size <= limit
          /\ i \in 1..(Len(_members) + 1)
          /\ listed \o users = SubSeq(_members, 1, i - 1)
          /\ users \in Seq(Entry) /\ listed \in Seq(Entry)
      BY <1>2, EntryAssumption, MaxLineAssumption DEF ListInv, limit, EveryoneListed
    <2> DEFINE e == _members[i]
    <2>1. ASSUME i <= Len(_members)
          PROVE  /\ i \in 1..Len(_members) /\ e \in Entry /\ Size(e) \in Nat
                 /\ Size(e) <= limit
                 /\ listed \o Append(users, e) = SubSeq(_members, 1, i)
                 /\ (listed \o users) \o <<e>> = SubSeq(_members, 1, i)
      <3>1. i \in 1..Len(_members)
        BY <2>0, <2>1
      <3>2. e \in Entry
        BY <2>0, <3>1
      <3>3. Size(e) \in 1..MaxEntry
        BY <3>2, EntryAssumption
      <3>4. /\ listed \o Append(users, e) = SubSeq(_members, 1, i)
            /\ (listed \o users) \o <<e>> = SubSeq(_members, 1, i)
        BY <2>0, <3>1, OneMoreEntry
      <3>5. Size(e) \in Nat /\ Size(e) <= limit
        BY <2>0, <3>3
      <3> QED BY <3>1, <3>2, <3>4, <3>5
    <2>2. CASE UNCHANGED listVars
      BY <1>2, <2>2 DEF listVars, ListInv, EveryoneListed, limit
    <2>3. CASE Flush
      <3>1. i <= Len(_members) /\ sendToOne /\ size > 0
        BY <2>3 DEF Flush, AddToNewLine, breaks
      <3>2. /\ users' = <<e>> /\ size' = Size(e) /\ i' = i + 1
            /\ _members' = _members /\ prefixSize' = prefixSize
            /\ listed' = listed \o users
        BY <2>3 DEF Flush, AddToNewLine, sendToOne
      <3>3. users' \in Seq(Entry) /\ size' \in 0..limit' /\ i' \in 1..(Len(_members) + 1)
        BY <2>0, <2>1, <3>1, <3>2 DEF limit
      <3>4. listed' \o users' = SubSeq(_members, 1, i' - 1)
        BY <2>0, <2>1, <3>1, <3>2
      <3> QED BY <1>2, <3>1, <3>2, <3>3, <3>4, LineSent DEF ListInv, EveryoneListed
    <2>4. CASE Add
      <3>1. i <= Len(_members) /\ ~breaks(e)
        BY <2>4 DEF Add
      <3>2. /\ users' = Append(users, e) /\ i' = i + 1
            /\ size' = IF size = 0 THEN Size(e) ELSE size + 1 + Size(e)
            /\ _members' = _members /\ prefixSize' = prefixSize
            /\ listed' = listed /\ lines' = lines
        BY <2>4 DEF Add, AddToLine
      <3>3. size' \in 0..limit'
        BY <2>0, <2>1, <3>1, <3>2 DEF limit, breaks
      <3>4. users' \in Seq(Entry) /\ i' \in 1..(Len(_members) + 1)
        BY <2>0, <2>1, <3>1, <3>2
      <3>5. listed' \o users' = SubSeq(_members, 1, i' - 1)
        BY <2>0, <2>1, <3>1, <3>2
      <3> QED BY <1>2, <3>2, <3>3, <3>4, <3>5 DEF ListInv, EveryoneListed
    <2>5. CASE Finish
      <3>1. size > 0 /\ sendToOne
        BY <2>5 DEF Finish
      <3>2. /\ users' = <<>> /\ size' = 0 /\ i' = i
            /\ _members' = _members /\ prefixSize' = prefixSize
            /\ listed' = listed \o users
        BY <2>5 DEF Finish, sendToOne
      <3>3. listed' \in Seq(Entry)
        BY <1>2, <3>1, LineSent
      <3>4. listed' \o users' = SubSeq(_members, 1, i' - 1)
        BY <2>0, <3>2, <3>3, ConcatEmptySeq
      <3>5. size' \in 0..limit'
        BY <2>0, <3>2 DEF limit
      <3> QED BY <1>2, <3>1, <3>2, <3>4, <3>5, LineSent DEF ListInv, EveryoneListed
    <2> QED BY <1>2, <2>2, <2>3, <2>4, <2>5 DEF ListNext
  <1>3. ListInv => EveryoneListed
    BY DEF ListInv
  <1> QED BY <1>1, <1>2, <1>3, PTL DEF ListSpec

-----------------------------------------------------------------------------
(* Positions in a text.                                                    *)

(* find and skipSpaces stop at the first byte that ends the search.        *)
LEMMA FindStops ==
  ASSUME NEW S, NEW s \in Seq(S), NEW b, NEW from \in 1..(Len(s) + 1)
  PROVE  LET f == find(s, b, from) IN
         /\ f \in from..(Len(s) + 1)
         /\ f <= Len(s) => s[f] = b
         /\ \A j \in from..(f - 1) : s[j] # b
  <1> DEFINE T == {n \in from..(Len(s) + 1) : n = Len(s) + 1 \/ s[n] = b}
  <1>0. Len(s) \in Nat
    OBVIOUS
  <1>1. T # {} /\ T \subseteq Nat
    BY <1>0
  <1>2. PICK x \in T : \A y \in T : x <= y
    <2> HIDE DEF T
    <2> QED BY <1>1, FirstOf
  <1>3. /\ x \in 1..(Len(s) + 1) /\ from <= x
        /\ x <= Len(s) => s[x] = b
        /\ \A j \in 1..Len(s) : from <= j /\ j < x => s[j] # b
    BY <1>0, <1>2
  <1>4. LET f == find(s, b, from) IN
        /\ f \in 1..(Len(s) + 1) /\ from <= f
        /\ f <= Len(s) => s[f] = b
        /\ \A j \in 1..Len(s) : from <= j /\ j < f => s[j] # b
    BY <1>3 DEF find
  <1> QED BY <1>0, <1>4

LEMMA SkipStops ==
  ASSUME NEW S, NEW s \in Seq(S), NEW from \in 1..(Len(s) + 1)
  PROVE  LET f == skipSpaces(s, from) IN
         /\ f \in from..(Len(s) + 1)
         /\ f <= Len(s) => s[f] # SPACE
         /\ \A j \in from..(f - 1) : s[j] = SPACE
  <1> DEFINE T == {n \in from..(Len(s) + 1) : n = Len(s) + 1 \/ s[n] # SPACE}
  <1>0. Len(s) \in Nat
    OBVIOUS
  <1>1. T # {} /\ T \subseteq Nat
    BY <1>0
  <1>2. PICK x \in T : \A y \in T : x <= y
    <2> HIDE DEF T
    <2> QED BY <1>1, FirstOf
  <1>3. /\ x \in 1..(Len(s) + 1) /\ from <= x
        /\ x <= Len(s) => s[x] # SPACE
        /\ \A j \in 1..Len(s) : from <= j /\ j < x => s[j] = SPACE
    BY <1>0, <1>2
  <1>4. LET f == skipSpaces(s, from) IN
        /\ f \in 1..(Len(s) + 1) /\ from <= f
        /\ f <= Len(s) => s[f] # SPACE
        /\ \A j \in 1..Len(s) : from <= j /\ j < f => s[j] = SPACE
    BY <1>3 DEF skipSpaces
  <1> QED BY <1>0, <1>4

(* cutAt gives up the bytes that continue a character, down to its floor.  *)
LEMMA CutStops ==
  ASSUME NEW S, NEW s \in Seq(S), NEW max \in Nat, NEW floor \in 0..max, Len(s) > max
  PROVE  LET n == cutAt(s, max, floor) IN
         /\ n \in floor..max
         /\ n = floor \/ ~isContinuation(s[n + 1])
         /\ \A m \in (n + 1)..max : isContinuation(s[m + 1])
  <1> DEFINE T == {n \in floor..max : n = floor \/ ~isContinuation(s[n + 1])}
  <1>1. T # {} /\ T \subseteq 0..max
    OBVIOUS
  <1>2. PICK x \in T : \A y \in T : y <= x
    <2> HIDE DEF T
    <2> QED BY <1>1, LastOf
  <1>3. /\ x \in 0..max
        /\ x = floor \/ (x > floor /\ ~isContinuation(s[x + 1]))
        /\ \A m \in 1..max : m > x => isContinuation(s[m + 1])
    BY <1>2
  <1>4. LET n == cutAt(s, max, floor) IN
        /\ n \in 0..max
        /\ n = floor \/ (n > floor /\ ~isContinuation(s[n + 1]))
        /\ \A m \in 1..max : m > n => isContinuation(s[m + 1])
    BY <1>3 DEF cutAt
  <1> QED BY <1>4

-----------------------------------------------------------------------------
(* Characters.                                                             *)

LEMMA WidthType == \A b : Width(b) \in 1..4
  BY DEF Width

(* A text of whole characters that is cut before bytes that begin one      *)
(* keeps whole characters.                                                 *)
LEMMA Slice ==
  ASSUME NEW S, NEW s \in Seq(S), IsUtf8(s),
         NEW a \in 1..(Len(s) + 1), NEW z \in (a - 1)..Len(s),
         a <= z => ~isContinuation(s[a]), z < Len(s) => ~isContinuation(s[z + 1])
  PROVE  IsUtf8(SubSeq(s, a, z))
  <1> DEFINE t == SubSeq(s, a, z)
             n == Len(s)
  <1>1. n \in Nat /\ Len(t) = z - a + 1 /\ \A j \in 1..(z - a + 1) : t[j] = s[j + a - 1]
    OBVIOUS
  <1>2. \A j \in 1..n : ~isContinuation(s[j]) =>
          /\ j + Width(s[j]) <= n + 1
          /\ \A k \in 1..n : j < k /\ k < j + Width(s[j]) => isContinuation(s[k])
    BY DEF IsUtf8
  <1>3. \A j \in 1..n : isContinuation(s[j]) =>
          \E k \in 1..n : k < j /\ j < k + Width(s[k]) /\ ~isContinuation(s[k])
    BY DEF IsUtf8
  <1> HIDE DEF t, n
  <1> SUFFICES ASSUME NEW h \in 1..Len(t)
               PROVE  IF isContinuation(t[h])
                      THEN \E j \in 1..Len(t) :
                             j < h /\ h < j + Width(t[j]) /\ ~isContinuation(t[j])
                      ELSE /\ h + Width(t[h]) <= Len(t) + 1
                           /\ \A j \in 1..Len(t) :
                                h < j /\ j < h + Width(t[h]) => isContinuation(t[j])
    BY DEF IsUtf8, t
  <1> DEFINE g == h + a - 1
  <1>4. g \in a..z /\ g \in 1..n /\ t[h] = s[g] /\ a \in 1..n /\ ~isContinuation(s[a])
    BY <1>1 DEF n
  <1>5. CASE isContinuation(t[h])
    <2>1. PICK k \in 1..n : k < g /\ g < k + Width(s[k]) /\ ~isContinuation(s[k])
      BY <1>3, <1>4, <1>5
    <2>2. Width(s[k]) \in 1..4
      BY WidthType
    <2>3. k >= a
      <3> SUFFICES ASSUME k < a PROVE FALSE
        BY <1>1
      <3>1. a < k + Width(s[k])
        BY <1>4, <2>1, <2>2
      <3> QED BY <1>2, <1>4, <2>1, <3>1
    <2> DEFINE j == k - a + 1
    <2>4. j \in 1..Len(t) /\ j < h /\ t[j] = s[k]
      BY <1>1, <1>4, <2>1, <2>3
    <2>5. h < j + Width(t[j])
      <3> DEFINE w == Width(s[k])
      <3>1. w \in Int /\ g < k + w /\ Width(t[j]) = w
        BY <2>1, <2>2, <2>4
      <3>2. h \in Int /\ a \in Int /\ k \in Int
        BY <2>1
      <3> HIDE DEF w
      <3> QED BY <3>1, <3>2
    <2> QED BY <1>5, <2>1, <2>4, <2>5
  <1>6. CASE ~isContinuation(t[h])
    <2>1. /\ g + Width(s[g]) <= n + 1
          /\ \A k \in 1..n : g < k /\ k < g + Width(s[g]) => isContinuation(s[k])
      BY <1>2, <1>4, <1>6
    <2>2. Width(s[g]) \in 1..4
      BY WidthType
    <2>3. g + Width(s[g]) <= z + 1
      <3> SUFFICES ASSUME z + 1 < g + Width(s[g]) PROVE FALSE
        BY <1>4, <2>2
      <3>1. z + 1 \in 1..n /\ g < z + 1
        BY <1>1, <1>4, <2>1, <2>2
      <3>2. z < n
        BY <1>1, <3>1
      <3> QED BY <2>1, <3>1, <3>2 DEF n
    <2>4. h + Width(t[h]) <= Len(t) + 1
      BY <1>1, <1>4, <2>2, <2>3
    <2>5. ASSUME NEW j \in 1..Len(t), h < j, j < h + Width(t[h])
          PROVE  isContinuation(t[j])
      <3> DEFINE k == j + a - 1
      <3>1. k \in 1..n /\ g < k /\ k < g + Width(s[g]) /\ t[j] = s[k]
        <4>1. k \in 1..n
          BY <1>1, <2>5 DEF n
        <4>2. t[j] = s[k]
          BY <1>1, <2>5
        <4>3. Width(t[h]) = Width(s[g])
          BY <1>4
        <4>4. g < k /\ k < g + Width(s[g])
          BY <2>2, <2>5, <4>3
        <4> QED BY <4>1, <4>2, <4>4
      <3> QED BY <2>1, <3>1
    <2> QED BY <1>6, <2>4, <2>5
  <1> QED BY <1>5, <1>6

(* What follows a byte of a single-byte character, and the first byte of   *)
(* all, begins a character.                                                *)
LEMMA BeginsAfter ==
  ASSUME NEW S, NEW s \in Seq(S), IsUtf8(s), NEW a \in 1..Len(s),
         a = 1 \/ (s[a - 1] \in Int /\ s[a - 1] < 128)
  PROVE  ~isContinuation(s[a])
  <1> SUFFICES ASSUME isContinuation(s[a]) PROVE FALSE
    OBVIOUS
  <1>0. Len(s) \in Nat
    OBVIOUS
  <1>1. PICK j \in 1..Len(s) : j < a /\ a < j + Width(s[j]) /\ ~isContinuation(s[j])
    BY DEF IsUtf8
  <1>2. Width(s[j]) \in 1..4 /\ a # 1 /\ s[a - 1] \in Int /\ s[a - 1] < 128
    BY <1>1, WidthType
  <1>3. CASE j = a - 1
    BY <1>1, <1>2, <1>3 DEF Width
  <1>4. CASE j < a - 1
    <2>1. a - 1 \in 1..Len(s) /\ j < a - 1 /\ a - 1 < j + Width(s[j])
      BY <1>0, <1>1, <1>2, <1>4
    <2>2. isContinuation(s[a - 1])
      BY <1>1, <2>1 DEF IsUtf8
    <2>3. \A b \in Int : b < 128 => ~isContinuation(b)
      BY DEF isContinuation
    <2> QED BY <1>2, <2>2, <2>3
  <1> QED BY <1>0, <1>1, <1>3, <1>4

(* Of four bytes in a row one begins a character.                          *)
LEMMA FourInARow ==
  ASSUME NEW S, NEW s \in Seq(S), IsUtf8(s), NEW p \in 4..Len(s)
  PROVE  \E k \in (p - 3)..p : ~isContinuation(s[k])
  <1> SUFFICES ASSUME isContinuation(s[p]) PROVE \E k \in (p - 3)..p : ~isContinuation(s[k])
    OBVIOUS
  <1>0. Len(s) \in Nat /\ p \in 1..Len(s)
    OBVIOUS
  <1>1. PICK k \in 1..Len(s) : k < p /\ p < k + Width(s[k]) /\ ~isContinuation(s[k])
    BY <1>0 DEF IsUtf8
  <1>2. Width(s[k]) \in 1..4
    BY WidthType
  <1>3. k \in (p - 3)..p
    BY <1>0, <1>1, <1>2
  <1> QED BY <1>1, <1>3

(* A line is cut before a byte that begins a character, and no more than   *)
(* the rest of one character is given up.                                  *)
LEMMA CutKeeps ==
  ASSUME NEW S, NEW s \in Seq(S), NEW max \in Nat, NEW floor \in 0..max,
         floor = 0 \/ floor + 3 <= max
  PROVE  LET t == Shorten(s, max, floor) IN
         /\ t \in Seq(S) /\ Len(t) <= max /\ Len(t) <= Len(s)
         /\ t = SubSeq(s, 1, Len(t))
         /\ t = s \/ Len(t) >= floor
         /\ IsUtf8(s) => IsUtf8(t) /\ (t = s \/ Len(t) >= max - 3)
  <1>0. Len(s) \in Nat
    OBVIOUS
  <1>1. CASE Len(s) <= max
    <2>1. Shorten(s, max, floor) = s
      BY <1>1 DEF Shorten
    <2>2. s = SubSeq(s, 1, Len(s))
      BY SubSeqFull
    <2> QED BY <1>0, <1>1, <2>1, <2>2
  <1>2. CASE Len(s) > max
    <2> DEFINE n == cutAt(s, max, floor)
               t == SubSeq(s, 1, n)
    <2>1. /\ n \in floor..max
          /\ n = floor \/ ~isContinuation(s[n + 1])
          /\ \A m \in (n + 1)..max : isContinuation(s[m + 1])
      BY <1>2, CutStops
    <2>2. Shorten(s, max, floor) = t
      <3>1. ~(Len(s) <= max)
        BY <1>0, <1>2
      <3> QED BY <3>1, Zenon DEF Shorten
    <2> HIDE DEF n
    <2>3. t \in Seq(S) /\ Len(t) = n /\ n \in Nat /\ n < Len(s)
      BY <1>0, <1>2, <2>1
    <2>4. ASSUME IsUtf8(s), n < max - 3
          PROVE  FALSE
      <3>1. PICK k \in ((max + 1) - 3)..(max + 1) : ~isContinuation(s[k])
        <4>1. max + 1 \in 4..Len(s)
          BY <1>0, <1>2, <2>3, <2>4
        <4> QED BY <2>4, <4>1, FourInARow
      <3>2. k - 1 \in (n + 1)..max /\ (k - 1) + 1 = k
        BY <2>3, <2>4, <3>1
      <3> QED BY <2>1, <3>1, <3>2
    <2>5. ASSUME IsUtf8(s)
          PROVE  ~isContinuation(s[n + 1])
      <3> SUFFICES ASSUME n = floor, isContinuation(s[n + 1]) PROVE FALSE
        BY <2>1
      <3>1. CASE floor = 0
        <4>1. n + 1 \in 1..Len(s) /\ n + 1 = 1
          BY <1>0, <2>3, <3>1
        <4> QED BY <2>5, <4>1, BeginsAfter
      <3>2. CASE floor + 3 <= max
        <4>1. n + 4 \in 4..Len(s)
          BY <1>0, <1>2, <2>3, <3>2
        <4>2. PICK k \in ((n + 4) - 3)..(n + 4) : ~isContinuation(s[k])
          BY <2>5, <4>1, FourInARow
        <4>3. k # n + 1
          BY <4>2
        <4>4. k - 1 \in (n + 1)..max /\ (k - 1) + 1 = k
          BY <2>3, <3>2, <4>2, <4>3
        <4> QED BY <2>1, <4>2, <4>4
      <3> QED BY <3>1, <3>2
    <2>6. ASSUME IsUtf8(s)
          PROVE  IsUtf8(t)
      <3>1. 1 <= n => ~isContinuation(s[1])
        <4> SUFFICES ASSUME 1 <= n PROVE ~isContinuation(s[1])
          OBVIOUS
        <4>1. 1 \in 1..Len(s)
          BY <1>0, <2>3
        <4> QED BY <2>6, <4>1, BeginsAfter
      <3>2. 1 \in 1..(Len(s) + 1) /\ n \in (1 - 1)..Len(s)
        BY <1>0, <2>3
      <3> QED BY <2>5, <2>6, <3>1, <3>2, Slice
    <2>7. IsUtf8(s) => IsUtf8(t) /\ Len(t) >= max - 3
      BY <2>3, <2>4, <2>6
    <2> QED BY <1>0, <1>2, <2>1, <2>2, <2>3, <2>7
  <1> QED BY <1>0, <1>1, <1>2

-----------------------------------------------------------------------------
(* Names and topics.                                                       *)

(* toLower, byte by byte.                                                  *)
LEMMA Lowered ==
  ASSUME NEW c \in Int
  PROVE  /\ lowerChar(c) \in Int /\ lowerChar(lowerChar(c)) = lowerChar(c)
         /\ \A b \in {BEL, SPACE, HASH, AMP, COMMA} : lowerChar(c) = b <=> c = b
         /\ isAlpha(c) \/ isSpecial(c) => isAlpha(lowerChar(c)) \/ isSpecial(lowerChar(c))
         /\ c \in Digit => lowerChar(c) = c
         /\ c = DASH => lowerChar(c) = c
  BY DEF lowerChar, Upper, Lower, TILDE, BEL, SPACE, HASH, AMP, COMMA, isAlpha, isSpecial,
         Digit, DASH

LEMMA LoweredText ==
  ASSUME NEW s \in Seq(Int)
  PROVE  /\ toLower(s) \in Seq(Int) /\ Len(toLower(s)) = Len(s)
         /\ \A j \in 1..Len(s) : toLower(s)[j] = lowerChar(s[j])
  <1> DEFINE t == [j \in 1..Len(s) |-> lowerChar(s[j])]
  <1>0. Len(s) \in Nat /\ toLower(s) = t
    BY DEF toLower
  <1>1. \A j \in 1..Len(s) : lowerChar(s[j]) \in Int
    BY Lowered
  <1>2. t \in [1..Len(s) -> Int]
    BY <1>1
  <1>3. \A j \in 1..Len(s) : t[j] = lowerChar(s[j])
    OBVIOUS
  <1> HIDE DEF t
  <1>4. t \in Seq(Int) /\ Len(t) = Len(s)
    BY <1>0, <1>2
  <1> QED BY <1>0, <1>3, <1>4

(* What a parameter may hold, so that its bytes can be reckoned with.      *)
LEMMA TypedText == NamingSpec => [](text \in Seq(Int))
  <1>1. NamingInit => text \in Seq(Int)
    BY DEF NamingInit
  <1>2. text \in Seq(Int) /\ [NamingNext]_text => (text \in Seq(Int))'
    <2>1. \A b \in Alphabet : b \in Int
      BY AlphabetAssumption DEF Byte
    <2> QED BY <2>1 DEF NamingNext, Type
  <1> QED BY <1>1, <1>2, PTL DEF NamingSpec

(* Names find their objects however they are spelled, and a nickname is    *)
(* never taken for anything else, whatever bytes are typed (NamesAreSafe). *)
THEOREM NamesStaySafe == NamingSpec => []NamesAreSafe
  <1>1. text \in Seq(Int) => NamesAreSafe
    <2> SUFFICES ASSUME text \in Seq(Int) PROVE NamesAreSafe
      OBVIOUS
    <2> DEFINE n == Len(text)
               t == toLower(text)
    <2>1. /\ t \in Seq(Int) /\ Len(t) = n /\ n \in Nat
          /\ \A j \in 1..n : t[j] = lowerChar(text[j]) /\ text[j] \in Int
      BY LoweredText
    <2>2. toLower(t) = t
      <3>1. /\ toLower(t) \in Seq(Int) /\ Len(toLower(t)) = n
            /\ \A j \in 1..n : toLower(t)[j] = lowerChar(t[j])
        BY <2>1, LoweredText
      <3>2. \A j \in 1..n : toLower(t)[j] = t[j]
        BY <2>1, <3>1, Lowered
      <3> HIDE DEF t
      <3> QED BY <2>1, <3>1, <3>2, SeqEqual
    <2> HIDE DEF t
    <2>3. ASSUME isValidChannelName(text) PROVE isValidChannelName(t)
      <3>1. /\ n \in 1..50 /\ text[1] \in {HASH, AMP}
            /\ \A b \in {SPACE, COMMA, BEL} : \A j \in 1..n : text[j] # b
        BY <2>3 DEF isValidChannelName, Occurs
      <3>2. 1 \in 1..n
        BY <3>1
      <3>3. t[1] \in {HASH, AMP}
        BY <2>1, <3>1, <3>2, Lowered
      <3>4. \A b \in {SPACE, COMMA, BEL} : \A j \in 1..n : t[j] # b
        BY <2>1, <3>1, Lowered
      <3> QED BY <2>1, <3>1, <3>3, <3>4 DEF isValidChannelName, Occurs
    <2>4. ASSUME isValidNickname(text)
          PROVE  /\ isValidNickname(t) /\ ~isValidChannelName(text)
                 /\ text[1] \notin Digit
                 /\ \A b \in {SPACE, COLON, AT, 33, COMMA} : ~Occurs(b, text)
      <3>1. /\ n \in 1..9
            /\ isAlpha(text[1]) \/ isSpecial(text[1])
            /\ \A j \in 2..n : isAlpha(text[j]) \/ text[j] \in Digit
                               \/ isSpecial(text[j]) \/ text[j] = DASH
        BY <2>4 DEF isValidNickname
      <3>2. 1 \in 1..n /\ \A j \in 2..n : j \in 1..n
        BY <2>1, <3>1
      <3>3. isAlpha(t[1]) \/ isSpecial(t[1])
        BY <2>1, <3>1, <3>2, Lowered
      <3>4. \A j \in 2..n : isAlpha(t[j]) \/ t[j] \in Digit \/ isSpecial(t[j]) \/ t[j] = DASH
        BY <2>1, <3>1, <3>2, Lowered
      <3>5. isValidNickname(t)
        BY <2>1, <3>1, <3>3, <3>4 DEF isValidNickname
      <3>6. \A c \in Int : isAlpha(c) \/ isSpecial(c) =>
              c \notin Digit /\ c \notin {HASH, AMP, SPACE, COLON, AT, 33, COMMA}
        BY DEF isAlpha, isSpecial, Upper, Lower, Digit, HASH, AMP, SPACE, COLON, AT, COMMA
      <3>7. \A c \in Int : c \in Digit \/ c = DASH => c \notin {SPACE, COLON, AT, 33, COMMA}
        BY DEF Digit, DASH, SPACE, COLON, AT, COMMA
      <3>8. text[1] \notin Digit /\ text[1] \notin {HASH, AMP}
        BY <2>1, <3>1, <3>2, <3>6
      <3>9. \A b \in {SPACE, COLON, AT, 33, COMMA} : \A j \in 1..n : text[j] # b
        <4> SUFFICES ASSUME NEW j \in 1..n PROVE text[j] \notin {SPACE, COLON, AT, 33, COMMA}
          OBVIOUS
        <4>1. text[j] \in Int
          BY <2>1
        <4>2. isAlpha(text[j]) \/ isSpecial(text[j]) \/ text[j] \in Digit \/ text[j] = DASH
          <5>1. j = 1 \/ j \in 2..n
            BY <2>1
          <5> QED BY <3>1, <5>1
        <4> QED BY <3>6, <3>7, <4>1, <4>2
      <3> QED BY <3>5, <3>8, <3>9 DEF isValidChannelName, Occurs
    <2> QED BY <2>2, <2>3, <2>4 DEF NamesAreSafe, t
  <1> QED BY <1>1, TypedText, PTL

(* However long and whatever its bytes, a topic is cut after a character   *)
(* and by less than one (TopicKept).                                       *)
THEOREM TopicsStayWhole == NamingSpec => []TopicKept
  <1>1. text \in Seq(Int) => TopicKept
    <2> SUFFICES ASSUME text \in Seq(Int) PROVE TopicKept
      OBVIOUS
    <2>1. MaxTopic \in Nat /\ 0 \in 0..MaxTopic
      BY TopicAssumption
    <2>2. truncateUtf8(text, MaxTopic) = Shorten(text, MaxTopic, 0)
      BY DEF truncateUtf8
    <2> QED BY <2>1, <2>2, CutKeeps DEF TopicKept
  <1> QED BY <1>1, TypedText, PTL

LEMMA TenTo ==
  /\ tenTo[0] = 1
  /\ \A n \in Nat : tenTo[n] \in Nat /\ tenTo[n + 1] = 10 * tenTo[n]
  <1> DEFINE h == [p \in Nat \X Nat |-> 10 * p[1]]
  <1>1. h \in [Nat \X Nat -> Nat] /\ \A x, n \in Nat : h[<<x, n>>] = 10 * x
    OBVIOUS
  <1> HIDE DEF h
  <1>2. PICK f \in [Nat -> Nat] : f[0] = 1 /\ \A n \in Nat : f[n + 1] = h[<<f[n], n>>]
    <2> DEFINE V == Nat
               b == 1
    <2>1. b \in V /\ h \in [V \X Nat -> V]
      BY <1>1
    <2> HIDE DEF V, b
    <2>2. \E f : Recurs(f, V, b, h)
      BY <2>1, Recursion, Zenon
    <2> QED BY <2>2 DEF V, b, Recurs
  <1>3. \A n \in Nat : f[n + 1] = 10 * f[n]
    BY <1>1, <1>2
  <1>4. f = [n \in Nat |-> IF n = 0 THEN 1 ELSE 10 * f[n - 1]]
    <2>1. ASSUME NEW n \in Nat, n # 0 PROVE f[n] = 10 * f[n - 1]
      <3>1. n - 1 \in Nat /\ (n - 1) + 1 = n
        BY <2>1
      <3>2. f[(n - 1) + 1] = 10 * f[n - 1]
        BY <1>3, <3>1
      <3> QED BY <3>1, <3>2
    <2> QED BY <1>2, <2>1
  <1>5. tenTo = [n \in Nat |-> IF n = 0 THEN 1 ELSE 10 * tenTo[n - 1]]
    BY <1>4, Zenon DEF tenTo
  <1> DEFINE g == tenTo
  <1>6. g = [n \in Nat |-> IF n = 0 THEN 1 ELSE 10 * g[n - 1]]
    BY <1>5
  <1> HIDE DEF g
  <1>7. g[0] = 1 /\ \A n \in Nat : g[n + 1] = 10 * g[n]
    <2>1. g[0] = 1
      BY <1>6
    <2>2. ASSUME NEW n \in Nat PROVE g[n + 1] = 10 * g[n]
      <3>1. n + 1 \in Nat /\ n + 1 # 0 /\ (n + 1) - 1 = n
        OBVIOUS
      <3>2. g[n + 1] = 10 * g[(n + 1) - 1]
        BY <1>6, <3>1
      <3> QED BY <3>1, <3>2
    <2> QED BY <2>1, <2>2
  <1>8. ASSUME NEW n \in Nat PROVE g[n] \in Nat
    <2> DEFINE P == {k \in Nat : g[k] \in Nat}
    <2>1. 0 \in P /\ \A k \in 0..(n - 1) : k \in P => k + 1 \in P
      BY <1>7
    <2> HIDE DEF P
    <2>2. n \in P
      <3>1. n \in 0..n
        OBVIOUS
      <3> QED BY <2>1, <3>1, UpTo
    <2> QED BY <2>2 DEF P
  <1> QED BY <1>7, <1>8 DEF g

(* What atoi and numberOf compute, digit by digit.                         *)
LEMMA AtoiSteps ==
  ASSUME NEW s \in Seq(Int), NEW top \in Nat, top > 0
  PROVE  \E f : /\ atoi(s, top) = f[Len(s)] /\ f[0] = 0
                /\ \A n \in 1..Len(s) : f[n] = asInt(10 * f[n - 1] + (s[n] - 48), top)
  <1> DEFINE L == Len(s)
             d(n) == IF n + 1 \in 1..L THEN s[n + 1] - 48 ELSE 0
             h == [p \in Int \X Nat |-> asInt(10 * p[1] + d(p[2]), top)]
  <1>0. L \in Nat
    OBVIOUS
  <1>1. \A n \in Nat : d(n) \in Int
    BY <1>0
  <1>2. \A x \in Int : asInt(x, top) \in Int
    BY DEF asInt
  <1> HIDE DEF d
  <1>3. /\ h \in [Int \X Nat -> Int]
        /\ \A x \in Int, n \in Nat : h[<<x, n>>] = asInt(10 * x + d(n), top)
    <2>1. ASSUME NEW p \in Int \X Nat
          PROVE  asInt(10 * p[1] + d(p[2]), top) \in Int
      <3>1. p[1] \in Int /\ p[2] \in Nat
        OBVIOUS
      <3>2. d(p[2]) \in Int
        BY <1>1, <3>1
      <3>3. 10 * p[1] + d(p[2]) \in Int
        BY <3>1, <3>2
      <3> QED BY <1>2, <3>3
    <2>2. h \in [Int \X Nat -> Int]
      BY <2>1
    <2> QED BY <2>2
  <1> HIDE DEF h
  <1>4. PICK g \in [Nat -> Int] : g[0] = 0 /\ \A n \in Nat : g[n + 1] = h[<<g[n], n>>]
    <2> DEFINE V == Int
               b == 0
    <2>1. b \in V /\ h \in [V \X Nat -> V]
      BY <1>3
    <2> HIDE DEF V, b
    <2>2. \E f : Recurs(f, V, b, h)
      BY <2>1, Recursion, Zenon
    <2> QED BY <2>2 DEF V, b, Recurs
  <1> DEFINE e == [n \in 0..L |-> g[n]]
  <1>5. ASSUME NEW n \in 0..L, n # 0
        PROVE  e[n] = asInt(10 * e[n - 1] + (s[n] - 48), top)
    <2>1. n - 1 \in Nat /\ (n - 1) + 1 = n /\ n - 1 \in 0..L /\ n \in 1..L /\ n \in Nat
      BY <1>0, <1>5
    <2>2. g[(n - 1) + 1] = asInt(10 * g[n - 1] + d(n - 1), top)
      BY <1>3, <1>4, <2>1
    <2>3. d(n - 1) = s[n] - 48
      BY <2>1 DEF d
    <2> QED BY <2>1, <2>2, <2>3
  <1>6. e[0] = 0
    BY <1>0, <1>4
  <1>7. e = [n \in 0..L |-> e[n]]
    OBVIOUS
  <1> HIDE DEF e
  <1>8. e = [n \in 0..L |-> IF n = 0 THEN 0 ELSE asInt(10 * e[n - 1] + (s[n] - 48), top)]
    BY <1>5, <1>6, <1>7, Zenon
  <1> DEFINE Out(f) == f = [n \in 0..L |-> IF n = 0 THEN 0
                                           ELSE asInt(10 * f[n - 1] + (s[n] - 48), top)]
             f == CHOOSE x : Out(x)
  <1>9. atoi(s, top) = f[L]
    BY DEF atoi
  <1>10. Out(f)
    <2>1. \E x : Out(x)
      BY <1>8
    <2> HIDE DEF Out
    <2> QED BY <2>1, Zenon
  <1> HIDE DEF f
  <1>11. f[0] = 0 /\ \A n \in 1..L : f[n] = asInt(10 * f[n - 1] + (s[n] - 48), top)
    <2>1. 0 \in 0..L /\ \A n \in 1..L : n \in 0..L /\ n # 0
      BY <1>0
    <2> QED BY <1>10, <2>1
  <1> QED BY <1>9, <1>11

LEMMA NumberSteps ==
  ASSUME NEW s \in Seq(Int)
  PROVE  \E f : /\ numberOf(s) = f[Len(s)] /\ f[0] = 0
                /\ \A n \in 1..Len(s) :
                     f[n] = (s[Len(s) + 1 - n] - 48) * tenTo[n - 1] + f[n - 1]
  <1> DEFINE L == Len(s)
             d(n) == IF n + 1 \in 1..L THEN (s[L + 1 - (n + 1)] - 48) * tenTo[n] ELSE 0
             h == [p \in Int \X Nat |-> d(p[2]) + p[1]]
  <1>0. L \in Nat
    OBVIOUS
  <1>1. \A n \in Nat : d(n) \in Int
    <2> SUFFICES ASSUME NEW n \in Nat, n + 1 \in 1..L
                 PROVE  (s[L + 1 - (n + 1)] - 48) * tenTo[n] \in Int
      OBVIOUS
    <2>1. L + 1 - (n + 1) \in 1..L
      BY <1>0
    <2>2. \A m \in 1..L : s[m] \in Int
      OBVIOUS
    <2>3. s[L + 1 - (n + 1)] \in Int
      BY <2>1, <2>2, Zenon
    <2>4. tenTo[n] \in Nat
      BY TenTo, Zenon
    <2> QED BY <2>3, <2>4
  <1> HIDE DEF d
  <1>3. h \in [Int \X Nat -> Int] /\ \A x \in Int, n \in Nat : h[<<x, n>>] = d(n) + x
    BY <1>1
  <1> HIDE DEF h
  <1>4. PICK g \in [Nat -> Int] : g[0] = 0 /\ \A n \in Nat : g[n + 1] = h[<<g[n], n>>]
    <2> DEFINE V == Int
               b == 0
    <2>1. b \in V /\ h \in [V \X Nat -> V]
      BY <1>3
    <2> HIDE DEF V, b
    <2>2. \E f : Recurs(f, V, b, h)
      BY <2>1, Recursion, Zenon
    <2> QED BY <2>2 DEF V, b, Recurs
  <1> DEFINE e == [n \in 0..L |-> g[n]]
  <1>5. ASSUME NEW n \in 0..L, n # 0
        PROVE  e[n] = (s[L + 1 - n] - 48) * tenTo[n - 1] + e[n - 1]
    <2>1. n - 1 \in Nat /\ (n - 1) + 1 = n /\ n - 1 \in 0..L /\ n \in 1..L /\ n \in Nat
      BY <1>0, <1>5
    <2>2. g[(n - 1) + 1] = d(n - 1) + g[n - 1]
      BY <1>3, <1>4, <2>1
    <2>3. d(n - 1) = (s[L + 1 - n] - 48) * tenTo[n - 1]
      BY <2>1 DEF d
    <2> QED BY <2>1, <2>2, <2>3
  <1>6. e[0] = 0
    BY <1>0, <1>4
  <1>7. e = [n \in 0..L |-> e[n]]
    OBVIOUS
  <1> HIDE DEF e
  <1>8. e = [n \in 0..L |-> IF n = 0 THEN 0
                            ELSE (s[L + 1 - n] - 48) * tenTo[n - 1] + e[n - 1]]
    BY <1>5, <1>6, <1>7, Zenon
  <1> DEFINE Last(f) == f = [n \in 0..L |-> IF n = 0 THEN 0
                               ELSE (s[L + 1 - n] - 48) * tenTo[n - 1] + f[n - 1]]
             f == CHOOSE x : Last(x)
  <1>9. numberOf(s) = f[L]
    BY DEF numberOf
  <1>10. Last(f)
    <2>1. \E x : Last(x)
      BY <1>8
    <2> HIDE DEF Last
    <2> QED BY <2>1, Zenon
  <1> HIDE DEF f
  <1>11. f[0] = 0 /\ \A n \in 1..L : f[n] = (s[L + 1 - n] - 48) * tenTo[n - 1] + f[n - 1]
    <2>1. 0 \in 0..L /\ \A n \in 1..L : n \in 0..L /\ n # 0
      BY <1>0
    <2> QED BY <1>10, <2>1
  <1> QED BY <1>9, <1>11

(* A higher power is not smaller.                                          *)
LEMMA TenToGrows ==
  ASSUME NEW m \in Nat, NEW n \in 0..m
  PROVE  tenTo[n] <= tenTo[m]
  <1> DEFINE P == {k \in Nat : k <= m => tenTo[n] <= tenTo[n + k]}
  <1>1. 0 \in P
    <2>1. n \in Nat /\ n + 0 = n
      OBVIOUS
    <2>2. tenTo[n] \in Nat
      BY <2>1, TenTo, Zenon
    <2> QED BY <2>1, <2>2
  <1>2. ASSUME NEW k \in 0..((m - n) - 1), k \in P PROVE k + 1 \in P
    <2>1. n + k \in Nat /\ n \in Nat /\ k <= m /\ n + (k + 1) = (n + k) + 1 /\ k + 1 \in Nat
      BY <1>2
    <2>2. tenTo[n] \in Nat /\ tenTo[n + k] \in Nat /\ tenTo[(n + k) + 1] = 10 * tenTo[n + k]
      BY <2>1, TenTo, Zenon
    <2>3. tenTo[n] <= tenTo[n + k]
      BY <1>2, <2>1
    <2>4. tenTo[n] <= tenTo[n + (k + 1)]
      BY <2>1, <2>2, <2>3
    <2> QED BY <2>1, <2>4
  <1>3. m - n \in Nat /\ m - n \in 0..(m - n) /\ n + (m - n) = m /\ m - n <= m
    OBVIOUS
  <1> HIDE DEF P
  <1>4. m - n \in P
    BY <1>1, <1>2, <1>3, UpTo
  <1> QED BY <1>3, <1>4 DEF P

(* No number of so few digits leaves an int.                               *)
LEMMA NoOverflow ==
  ASSUME NEW top \in Nat, NEW x \in Nat, x < top
  PROVE  asInt(x, top) = x
  BY DEF asInt

(* Digits that fit give their number: by Horner's rule, from the left, or  *)
(* by the place of each, from the right.                                   *)
LEMMA AtoiIsNumber ==
  ASSUME NEW s \in Seq(Int), NEW max \in Nat, NEW top \in Nat, tenTo[max] <= top,
         Len(s) <= max, \A k \in 1..Len(s) : s[k] \in 48..57
  PROVE  atoi(s, top) = numberOf(s)
  <1> DEFINE L == Len(s)
  <1>0. L \in Nat /\ tenTo[0] = 1
    <2>1. tenTo[0] = 1
      BY TenTo, Zenon
    <2> QED BY <2>1
  <1>a. \A n \in 0..L : tenTo[n] \in Nat /\ tenTo[n] <= top
    <2> SUFFICES ASSUME NEW n \in 0..L PROVE tenTo[n] \in Nat /\ tenTo[n] <= top
      OBVIOUS
    <2>1. n \in Nat /\ n \in 0..max
      OBVIOUS
    <2>2. tenTo[n] \in Nat /\ tenTo[max] \in Nat
      BY <2>1, TenTo, Zenon
    <2>3. tenTo[n] <= tenTo[max]
      BY <2>1, TenToGrows
    <2> QED BY <2>2, <2>3
  <1>b. top > 0
    BY <1>0, <1>a
  <1>1. PICK f : /\ atoi(s, top) = f[L] /\ f[0] = 0
                 /\ \A n \in 1..L : f[n] = asInt(10 * f[n - 1] + (s[n] - 48), top)
    BY <1>b, AtoiSteps
  <1>2. PICK g : /\ numberOf(s) = g[L] /\ g[0] = 0
                 /\ \A n \in 1..L : g[n] = (s[L + 1 - n] - 48) * tenTo[n - 1] + g[n - 1]
    BY NumberSteps
  <1>3. \A n \in 0..L : /\ f[n] \in Nat /\ f[n] < tenTo[n]
                        /\ n # L => f[n + 1] = 10 * f[n] + (s[n + 1] - 48)
    <2>1. ASSUME NEW n \in 0..(L - 1), f[n] \in Nat, f[n] < tenTo[n]
          PROVE  /\ f[n + 1] \in Nat /\ f[n + 1] < tenTo[n + 1]
                 /\ f[n + 1] = 10 * f[n] + (s[n + 1] - 48)
      <3>1. n + 1 \in 1..L /\ n \in Nat /\ (n + 1) - 1 = n /\ n + 1 \in 0..L /\ n \in 0..L
        BY <1>0
      <3>2. tenTo[n + 1] = 10 * tenTo[n]
        BY <3>1, TenTo, Zenon
      <3>3. tenTo[n] \in Nat /\ tenTo[n + 1] <= top /\ s[n + 1] \in 48..57
        BY <1>a, <3>1
      <3> DEFINE x == 10 * f[n] + (s[n + 1] - 48)
      <3>4. x \in Nat /\ x < tenTo[n + 1]
        <4> DEFINE F == f[n]
                   T == tenTo[n]
                   d == s[n + 1] - 48
        <4>1. F \in Nat /\ T \in Nat /\ F < T /\ d \in 0..9
          BY <2>1, <3>3
        <4>2. x = 10 * F + d /\ tenTo[n + 1] = 10 * T
          BY <3>2
        <4> HIDE DEF F, T, d, x
        <4> QED BY <4>1, <4>2
      <3>5. x < top
        BY <3>2, <3>3, <3>4
      <3>6. f[n + 1] = asInt(x, top)
        BY <1>1, <3>1
      <3> HIDE DEF x
      <3>7. f[n + 1] = x
        BY <3>4, <3>5, <3>6, NoOverflow
      <3> QED BY <3>4, <3>7 DEF x
    <2> DEFINE P == {n \in Nat : f[n] \in Nat /\ f[n] < tenTo[n]}
    <2>2. 0 \in P
      BY <1>0, <1>1
    <2>3. ASSUME NEW n \in 0..(L - 1), n \in P PROVE n + 1 \in P
      BY <2>1, <2>3
    <2> HIDE DEF P
    <2>4. \A n \in 0..L : n \in P
      BY <1>0, <2>2, <2>3, UpTo
    <2>5. ASSUME NEW n \in 0..L
          PROVE  /\ f[n] \in Nat /\ f[n] < tenTo[n]
                 /\ n # L => f[n + 1] = 10 * f[n] + (s[n + 1] - 48)
      <3>1. f[n] \in Nat /\ f[n] < tenTo[n]
        BY <2>4 DEF P
      <3>2. n # L => n \in 0..(L - 1)
        BY <1>0
      <3> QED BY <2>1, <3>1, <3>2
    <2> QED BY <2>5
  <1>4. \A n \in 0..L : g[n] \in Int
    <2> DEFINE P == {n \in Nat : g[n] \in Int}
    <2>1. 0 \in P
      BY <1>2
    <2>2. ASSUME NEW n \in 0..(L - 1), n \in P PROVE n + 1 \in P
      <3>1. n + 1 \in 1..L /\ n \in Nat /\ (n + 1) - 1 = n /\ n + 1 \in Nat /\ n \in 0..L
            /\ L + 1 - (n + 1) \in 1..L
        BY <1>0
      <3>2. g[n + 1] = (s[L + 1 - (n + 1)] - 48) * tenTo[n] + g[n]
        BY <1>2, <3>1
      <3>3. s[L + 1 - (n + 1)] \in Int /\ tenTo[n] \in Int /\ g[n] \in Int
        BY <1>a, <2>2, <3>1
      <3>4. g[n + 1] \in Int
        BY <3>2, <3>3
      <3> QED BY <3>1, <3>4
    <2> HIDE DEF P
    <2>3. \A n \in 0..L : n \in P
      BY <1>0, <2>1, <2>2, UpTo
    <2> QED BY <2>3 DEF P
  <1>5. \A n \in 0..L : f[n] * tenTo[L - n] + g[L - n] = g[L]
    <2> DEFINE P == {n \in Nat : f[n] * tenTo[L - n] + g[L - n] = g[L]}
    <2>1. 0 \in P
      <3>1. L - 0 = L /\ tenTo[L] \in Nat /\ g[L] \in Int
        BY <1>0, <1>a, <1>4
      <3> QED BY <1>1, <3>1
    <2>2. ASSUME NEW n \in 0..(L - 1), n \in P PROVE n + 1 \in P
      <3> DEFINE m == L - (n + 1)
      <3>1. /\ n \in 0..L /\ n # L /\ n \in Nat /\ n + 1 \in Nat /\ m \in Nat /\ m + 1 = L - n
            /\ m \in 0..L /\ m + 1 \in 1..L /\ m + 1 \in 0..L /\ (m + 1) - 1 = m
            /\ L + 1 - (m + 1) = n + 1 /\ n + 1 \in 1..L
        BY <1>0
      <3> HIDE DEF m
      <3>2. f[n + 1] = 10 * f[n] + (s[n + 1] - 48) /\ f[n] \in Nat
        BY <1>3, <3>1
      <3>3. g[m + 1] = (s[n + 1] - 48) * tenTo[m] + g[m]
        BY <1>2, <3>1
      <3>4. tenTo[m + 1] = 10 * tenTo[m] /\ tenTo[m] \in Nat
        BY <3>1, TenTo, Zenon
      <3>5. f[n] * tenTo[m + 1] + g[m + 1] = g[L]
        BY <2>2, <3>1
      <3>6. g[m] \in Int /\ s[n + 1] \in Int /\ g[L] \in Int
        BY <1>0, <1>4, <3>1
      <3> DEFINE F == f[n]
                 T == tenTo[m]
                 d == s[n + 1] - 48
                 G == g[m]
      <3>7. F \in Int /\ T \in Int /\ d \in Int /\ G \in Int
        <4>1. F \in Int
          BY <3>2
        <4>2. T \in Int
          BY <3>4
        <4>3. d \in Int /\ G \in Int
          BY <3>6
        <4> QED BY <4>1, <4>2, <4>3
      <3>8. F * (10 * T) + (d * T + G) = g[L]
        BY <3>3, <3>4, <3>5
      <3>9. f[n + 1] * tenTo[m] + g[m] = (10 * F + d) * T + G
        BY <3>2
      <3> HIDE DEF F, T, d, G
      <3>10. (10 * F + d) * T + G = F * (10 * T) + (d * T + G)
        BY <3>7
      <3>11. f[n + 1] * tenTo[m] + g[m] = g[L]
        BY <3>8, <3>9, <3>10
      <3> QED BY <3>1, <3>11 DEF m
    <2> HIDE DEF P
    <2>3. \A n \in 0..L : n \in P
      BY <1>0, <2>1, <2>2, UpTo
    <2> QED BY <2>3 DEF P
  <1>6. f[L] * tenTo[L - L] + g[L - L] = g[L]
    BY <1>0, <1>5
  <1>7. L - L = 0 /\ f[L] \in Nat /\ g[L] \in Int
    BY <1>0, <1>3, <1>4
  <1> QED BY <1>0, <1>1, <1>2, <1>6, <1>7

(* What MODE +l takes is kept exactly: no text of the digits allowed wraps *)
(* around (LimitKept), and a topic is cut between characters (TopicKept).  *)
THEOREM ParametersAreKept == NamingSpec => []KeptAsMeant
  <1>1. ASSUME text \in Seq(Int)
        PROVE  LimitKept
    <2> SUFFICES ASSUME parseLimit(text, MaxDigits, IntTop)
                 PROVE  atoi(text, IntTop) = numberOf(text) /\ numberOf(text) > 0
      BY DEF LimitKept
    <2>1. Len(text) <= MaxDigits /\ atoi(text, IntTop) > 0
      BY <1>1, DigitsAssumption DEF parseLimit
    <2>2. \A k \in 1..Len(text) : text[k] \in 48..57
      BY <1>1 DEF parseLimit, Digit
    <2>3. atoi(text, IntTop) = numberOf(text)
      BY <1>1, <2>1, <2>2, AtoiIsNumber, DigitsAssumption
    <2> QED BY <2>1, <2>3
  <1>2. TopicKept /\ LimitKept => KeptAsMeant
    BY DEF KeptAsMeant
  <1> QED BY <1>1, <1>2, TypedText, TopicsStayWhole, PTL

-----------------------------------------------------------------------------
(* The parser.                                                             *)

(* A part of a text holds no byte that the text does not hold.             *)
LEMMA PartOf ==
  ASSUME NEW S, NEW s \in Seq(S), NEW a \in 1..(Len(s) + 1), NEW z \in (a - 1)..Len(s)
  PROVE  LET t == SubSeq(s, a, z) IN
         /\ t \in Seq(S) /\ Len(t) = z - a + 1
         /\ \A j \in 1..Len(t) : j + a - 1 \in a..z /\ t[j] = s[j + a - 1]
         /\ \A B : NoByte(s, B) => NoByte(t, B)
  <1> DEFINE t == SubSeq(s, a, z)
  <1>1. /\ t \in Seq(S) /\ Len(t) = z - a + 1
        /\ \A j \in 1..Len(t) : j + a - 1 \in a..z /\ t[j] = s[j + a - 1]
        /\ \A j \in 1..Len(t) : j + a - 1 \in 1..Len(s)
    OBVIOUS
  <1>2. ASSUME NEW B, NoByte(s, B), NEW b \in B, NEW j \in 1..Len(t), t[j] = b
        PROVE  FALSE
    BY <1>1, <1>2 DEF NoByte, Occurs
  <1> HIDE DEF t
  <1>3. \A B : NoByte(s, B) => NoByte(t, B)
    BY <1>2 DEF NoByte, Occurs
  <1> QED BY <1>1, <1>3 DEF t

(* A word: the bytes up to a space, and where the next one begins.         *)
LEMMA WordAt ==
  ASSUME NEW S, NEW s \in Seq(S), NEW from \in 1..(Len(s) + 1)
  PROVE  LET end == find(s, SPACE, from)
             p   == skipSpaces(s, end)
             w   == SubSeq(s, from, end - 1)
         IN  /\ end \in from..(Len(s) + 1) /\ p \in end..(Len(s) + 1)
             /\ p <= Len(s) => s[p] # SPACE /\ s[p - 1] = SPACE
             /\ w \in Seq(S) /\ ~Occurs(SPACE, w)
             /\ \A B : NoByte(s, B) => NoByte(w, B)
             /\ from <= Len(s) /\ s[from] # SPACE => w # <<>> /\ w[1] = s[from]
             /\ IsUtf8(s) /\ (from = 1 \/ s[from - 1] = SPACE \/ s[from - 1] = COLON)
                  => IsUtf8(w)
  <1> DEFINE end == find(s, SPACE, from)
             p   == skipSpaces(s, end)
             w   == SubSeq(s, from, end - 1)
             n   == Len(s)
  <1>0. n \in Nat
    OBVIOUS
  <1>1. /\ end \in from..(n + 1)
        /\ end <= n => s[end] = SPACE
        /\ \A j \in from..(end - 1) : s[j] # SPACE
    BY FindStops
  <1>2. end \in 1..(n + 1) /\ end - 1 \in (from - 1)..n
    BY <1>0, <1>1
  <1> HIDE DEF end
  <1>3. /\ p \in end..(n + 1)
        /\ p <= n => s[p] # SPACE
        /\ \A j \in end..(p - 1) : s[j] = SPACE
    BY <1>2, SkipStops
  <1> HIDE DEF p
  <1>4. p <= n => s[p - 1] = SPACE
    <2> SUFFICES ASSUME p <= n PROVE p - 1 \in end..(p - 1)
      BY <1>3
    <2>1. p # end
      BY <1>1, <1>3
    <2> QED BY <1>2, <1>3, <2>1
  <1>5. /\ w \in Seq(S) /\ Len(w) = (end - 1) - from + 1
        /\ \A j \in 1..Len(w) : j + from - 1 \in from..(end - 1) /\ w[j] = s[j + from - 1]
        /\ \A B : NoByte(s, B) => NoByte(w, B)
    BY <1>2, PartOf
  <1>6. ~Occurs(SPACE, w)
    BY <1>1, <1>5 DEF Occurs
  <1>7. ASSUME from <= n, s[from] # SPACE
        PROVE  w # <<>> /\ w[1] = s[from]
    <2>1. end # from
      BY <1>1, <1>7
    <2>2. Len(w) >= 1
      BY <1>2, <1>5, <2>1, <1>1
    <2>3. 1 \in 1..Len(w) /\ 1 + from - 1 = from
      BY <1>5, <2>2
    <2>4. w[1] = s[1 + from - 1]
      BY <1>5, <2>3
    <2> HIDE DEF w
    <2>5. w # <<>>
      BY <2>2
    <2> QED BY <2>3, <2>4, <2>5
  <1>8. ASSUME IsUtf8(s), from = 1 \/ s[from - 1] = SPACE \/ s[from - 1] = COLON
        PROVE  IsUtf8(w)
    <2>1. from <= end - 1 => ~isContinuation(s[from])
      <3> SUFFICES ASSUME from <= end - 1 PROVE ~isContinuation(s[from])
        OBVIOUS
      <3>1. from \in 1..n
        BY <1>0, <1>2
      <3>2. from = 1 \/ (s[from - 1] \in Int /\ s[from - 1] < 128)
        BY <1>8 DEF SPACE, COLON
      <3> QED BY <1>8, <3>1, <3>2, BeginsAfter
    <2>2. end - 1 < n => ~isContinuation(s[(end - 1) + 1])
      <3>1. end - 1 < n => s[(end - 1) + 1] = SPACE
        BY <1>0, <1>1, <1>2
      <3>2. ~isContinuation(SPACE)
        BY DEF isContinuation, SPACE
      <3> QED BY <3>1, <3>2
    <2> QED BY <1>2, <1>8, <2>1, <2>2, Slice
  <1> QED BY <1>1, <1>3, <1>4, <1>5, <1>6, <1>7, <1>8 DEF end, p

(* toupper adds no byte that could end a line or a word.                   *)
LEMMA Raised ==
  ASSUME NEW s \in Seq(Int), NEW B, B \subseteq {NUL, CR, LF, SPACE}, NoByte(s, B)
  PROVE  NoByte(toupper(s), B)
  <1> DEFINE up(c) == IF c \in Lower THEN c - 32 ELSE c
             t     == [j \in 1..Len(s) |-> up(s[j])]
  <1>1. toupper(s) = t /\ Len(s) \in Nat
    BY DEF toupper
  <1>2. \A c \in Int : up(c) \in Int /\ (up(c) \in {NUL, CR, LF, SPACE} => up(c) = c)
    BY DEF Lower, NUL, CR, LF, SPACE
  <1>3. \A j \in 1..Len(s) : s[j] \in Int /\ t[j] = up(s[j])
    OBVIOUS
  <1>4. t \in [1..Len(s) -> Int]
    BY <1>2, <1>3
  <1> HIDE DEF t, up
  <1>5. Len(t) = Len(s)
    BY <1>1, <1>4
  <1>6. \A b \in B : \A j \in 1..Len(t) : t[j] # b
    BY <1>2, <1>3, <1>5 DEF NoByte, Occurs
  <1> QED BY <1>1, <1>6 DEF NoByte, Occurs

(* What is left of a line after the limit and the CR.                      *)
LEMMA Trimmed ==
  ASSUME NEW s \in Txt, ~Occurs(LF, s), readable(withinLimit(s))
  PROVE  LET t == chop(withinLimit(s)) IN
         /\ t \in Txt /\ NoByte(t, {NUL, CR, LF})
         /\ IsUtf8(s) => IsUtf8(t)
  <1> DEFINE c == withinLimit(s)
             t == chop(c)
  <1>0. s \in Seq(Byte)
    BY DEF Txt
  <1>1. /\ c \in Seq(Byte) /\ Len(c) <= Len(s) /\ c = SubSeq(s, 1, Len(c))
        /\ IsUtf8(s) => IsUtf8(c)
    <2>1. MaxLine \in Nat /\ MaxLine - 3 \in 0..MaxLine /\ (MaxLine - 3) + 3 <= MaxLine
      BY MaxLineAssumption
    <2>2. c = Shorten(s, MaxLine, MaxLine - 3)
      BY DEF withinLimit, cutLine
    <2> QED BY <1>0, <2>1, <2>2, CutKeeps
  <1>2. NoByte(s, {LF})
    BY DEF NoByte
  <1>3. Len(c) \in Nat /\ Len(s) \in Nat /\ 1 \in 1..(Len(s) + 1) /\ Len(c) \in (1 - 1)..Len(s)
    BY <1>0, <1>1
  <1>4. NoByte(c, {LF}) /\ NoByte(c, {NUL})
    <2>1. NoByte(SubSeq(s, 1, Len(c)), {LF})
      BY <1>0, <1>2, <1>3, PartOf
    <2>2. NoByte(c, {NUL})
      BY DEF readable, NoByte
    <2> QED BY <1>1, <2>1, <2>2
  <1>5. find(c, CR, 1) >= Len(c)
    BY DEF readable, carriageReturnOK
  <1> HIDE DEF c
  <1>6. 1 \in 1..(Len(c) + 1)
    BY <1>3
  <1>7. \A j \in 1..(find(c, CR, 1) - 1) : c[j] # CR
    BY <1>1, <1>6, FindStops
  <1>8. find(c, CR, 1) \in 1..(Len(c) + 1)
    BY <1>1, <1>6, FindStops
  <1>9. \A j \in 1..(Len(c) - 1) : c[j] # CR
    BY <1>3, <1>5, <1>7, <1>8
  <1>10. CASE Len(c) > 0 /\ c[Len(c)] = CR
    <2> DEFINE z == Len(c) - 1
    <2>1. t = SubSeq(c, 1, z)
      BY <1>10 DEF chop
    <2>2. z \in (1 - 1)..Len(c)
      BY <1>3, <1>10
    <2>3. /\ t \in Seq(Byte) /\ Len(t) = z - 1 + 1
          /\ \A j \in 1..Len(t) : j + 1 - 1 \in 1..z /\ t[j] = c[j + 1 - 1]
          /\ NoByte(t, {LF}) /\ NoByte(t, {NUL})
      BY <1>1, <1>4, <1>6, <2>1, <2>2, PartOf
    <2>4. \A j \in 1..Len(t) : t[j] # CR
      BY <1>3, <1>9, <2>3
    <2>5. NoByte(t, {NUL, CR, LF})
      BY <2>3, <2>4 DEF NoByte, Occurs
    <2>6. ASSUME IsUtf8(s)
          PROVE  IsUtf8(t)
      <3>1. IsUtf8(c)
        BY <1>1, <2>6
      <3>2. 1 <= z => ~isContinuation(c[1])
        <4> SUFFICES ASSUME 1 <= z PROVE ~isContinuation(c[1])
          OBVIOUS
        <4>1. 1 \in 1..Len(c)
          BY <1>3, <1>10
        <4> QED BY <1>1, <3>1, <4>1, BeginsAfter
      <3>3. z < Len(c) => ~isContinuation(c[z + 1])
        <4>1. ~isContinuation(CR)
          BY DEF isContinuation, CR
        <4>2. z + 1 = Len(c)
          BY <1>3
        <4> QED BY <1>10, <4>1, <4>2
      <3> HIDE DEF z
      <3> QED BY <1>1, <1>6, <2>1, <2>2, <3>1, <3>2, <3>3, Slice
    <2> QED BY <2>3, <2>5, <2>6 DEF Txt, c
  <1>11. CASE ~(Len(c) > 0 /\ c[Len(c)] = CR)
    <2>1. t = c
      BY <1>11 DEF chop
    <2>2. \A j \in 1..Len(c) : c[j] # CR
      BY <1>3, <1>9, <1>11
    <2>3. NoByte(c, {NUL, CR, LF})
      BY <1>4, <2>2 DEF NoByte, Occurs
    <2> QED BY <1>1, <2>1, <2>3 DEF Txt, c
  <1> QED BY <1>10, <1>11

(* What the parser uses of a word w = s[from..end - 1] that is followed by *)
(* one at p.                                                               *)
WordFacts(s, from, end, p, w) ==
  /\ end \in from..(Len(s) + 1) /\ p \in end..(Len(s) + 1)
  /\ p <= Len(s) => s[p] # SPACE /\ s[p - 1] = SPACE
  /\ w \in Txt /\ ~Occurs(SPACE, w)
  /\ NoByte(s, {NUL, CR, LF}) => NoByte(w, {NUL, CR, LF})
  /\ from <= Len(s) /\ s[from] # SPACE => w # <<>> /\ w[1] = s[from]
  /\ IsUtf8(s) /\ (from = 1 \/ s[from - 1] = SPACE \/ s[from - 1] = COLON) => IsUtf8(w)

LEMMA WordNamed ==
  ASSUME NEW s \in Txt, NEW from \in 1..(Len(s) + 1)
  PROVE  WordFacts(s, from, find(s, SPACE, from), skipSpaces(s, find(s, SPACE, from)),
                   SubSeq(s, from, find(s, SPACE, from) - 1))
  <1> DEFINE end == find(s, SPACE, from)
             p   == skipSpaces(s, end)
             w   == SubSeq(s, from, end - 1)
  <1>1. s \in Seq(Byte)
    BY DEF Txt
  <1>2. end \in from..(Len(s) + 1) /\ p \in end..(Len(s) + 1)
    BY <1>1, WordAt
  <1>3. p <= Len(s) => s[p] # SPACE /\ s[p - 1] = SPACE
    BY <1>1, WordAt
  <1>4. w \in Txt /\ ~Occurs(SPACE, w)
    BY <1>1, WordAt DEF Txt
  <1>5. \A B : NoByte(s, B) => NoByte(w, B)
    BY <1>1, WordAt
  <1>6. from <= Len(s) /\ s[from] # SPACE => w # <<>> /\ w[1] = s[from]
    BY <1>1, WordAt
  <1>7. IsUtf8(s) /\ (from = 1 \/ s[from - 1] = SPACE \/ s[from - 1] = COLON)
          => IsUtf8(w)
    BY <1>1, WordAt
  <1> HIDE DEF end, p, w
  <1>8. WordFacts(s, from, end, p, w)
    BY <1>2, <1>3, <1>4, <1>5, <1>6, <1>7 DEF WordFacts
  <1> QED BY <1>8 DEF end, p, w

(* One parameter more.                                                     *)
LEMMA ParameterAdded ==
  ASSUME ParseInv, stage = "params", stage' = stage, pos <= Len(seared),
         NEW w \in Txt, NoByte(w, {NUL, CR, LF}),
         addParameter(w), UNCHANGED <<raw, registered, seared, existPrefix, prefix, command>>,
         IsUtf8(seared) => IsUtf8(w),
         pos' \in 1..(Len(seared) + 1),
         pos' <= Len(seared) => seared[pos'] # SPACE /\ seared[pos' - 1] = SPACE,
         pos' <= Len(seared) => IsMiddle(w) /\ Len(parameter) # MaxMiddle
  PROVE  ParseInv'
  <1> DEFINE n == Len(parameter)
  <1>a. /\ parameter \in Seq(Txt) /\ n \in Nat /\ MaxMiddle \in Nat
        /\ CleanMessage /\ KeepsCharacters
        /\ IsUtf8(raw) => IsUtf8(seared)
    BY BoundAssumption DEF ParseInv
  <1>b. n <= MaxMiddle /\ \A j \in 1..n : IsMiddle(parameter[j])
    BY DEF ParseInv
  <1>c. /\ \A j \in 1..n : NoByte(parameter[j], {NUL, CR, LF})
        /\ NoByte(prefix, {NUL, CR, LF, SPACE}) /\ NoByte(command, {NUL, CR, LF, SPACE})
    BY <1>a DEF CleanMessage
  <1>d. IsUtf8(raw) => \A j \in 1..n : IsUtf8(parameter[j])
    BY <1>a DEF KeepsCharacters
  <1>1. /\ parameter \in Seq(Txt) /\ n \in Nat /\ n <= MaxMiddle /\ MaxMiddle \in Nat
        /\ \A j \in 1..n : IsMiddle(parameter[j]) /\ NoByte(parameter[j], {NUL, CR, LF})
        /\ IsUtf8(raw) => IsUtf8(seared) /\ \A j \in 1..n : IsUtf8(parameter[j])
        /\ NoByte(prefix, {NUL, CR, LF, SPACE}) /\ NoByte(command, {NUL, CR, LF, SPACE})
    BY <1>a, <1>b, <1>c, <1>d
  <1>2. parameter' = Append(parameter, w)
    BY DEF addParameter
  <1>3. /\ parameter' \in Seq(Txt) /\ Len(parameter') = n + 1
        /\ \A j \in 1..(n + 1) : IF j = n + 1 THEN parameter'[j] = w
                                 ELSE j \in 1..n /\ parameter'[j] = parameter[j]
    BY <1>1, <1>2
  <1>4. CleanMessage'
    <2>1. Len(parameter') <= MaxMiddle + 1
      BY <1>1, <1>3
    <2>2. \A j \in 1..Len(parameter') : NoByte(parameter'[j], {NUL, CR, LF})
      BY <1>1, <1>3
    <2>3. \A j \in 1..Len(parameter') : j < Len(parameter') => IsMiddle(parameter'[j])
      BY <1>1, <1>3
    <2>4. prefix' = prefix /\ command' = command
      OBVIOUS
    <2> QED BY <1>1, <2>1, <2>2, <2>3, <2>4 DEF CleanMessage
  <1>5. KeepsCharacters'
    <2>1. IsUtf8(raw) => \A j \in 1..Len(parameter') : IsUtf8(parameter'[j])
      BY <1>1, <1>3
    <2> QED BY <2>1 DEF KeepsCharacters
  <1>6. pos' <= Len(seared) => /\ Len(parameter') <= MaxMiddle
                               /\ \A j \in 1..Len(parameter') : IsMiddle(parameter'[j])
    BY <1>1, <1>3
  <1>7. AtWord'
    BY DEF AtWord
  <1> QED BY <1>3, <1>4, <1>5, <1>6, <1>7 DEF ParseInv

(* ParseInv is inductive.                                                  *)
LEMMA ParseStep == ASSUME ParseInv, [ParseNext]_parseVars PROVE ParseInv'
  <1>0. /\ seared \in Txt /\ seared \in Seq(Byte) /\ Len(seared) \in Nat
        /\ NoByte(seared, {NUL, CR, LF})
        /\ pos \in 1..(Len(seared) + 1) /\ parameter \in Seq(Txt)
        /\ IsUtf8(raw) => IsUtf8(seared)
        /\ pos <= Len(seared) => seared[pos] # SPACE /\ (pos = 1 \/ seared[pos - 1] = SPACE)
    BY DEF ParseInv, Txt, AtWord
  <1>1. CASE UNCHANGED parseVars
    BY <1>1 DEF parseVars, message, ParseInv, AtWord, CleanMessage, KeepsCharacters
  <1>2. CASE Refuse /\ stage # "params"
    BY <1>2 DEF Refuse, message, ParseInv, AtWord, CleanMessage, KeepsCharacters
  <1>3. CASE Trim
    <2> DEFINE t == chop(withinLimit(raw))
               p == skipSpaces(t, 1)
    <2>1. CASE Refuse
      BY <1>2, <1>3, <2>1 DEF Trim
    <2>2. CASE /\ raw # <<>> /\ readable(withinLimit(raw)) /\ p <= Len(t)
               /\ seared' = t /\ pos' = p
               /\ stage' = IF t[p] = COLON THEN "prefix" ELSE "command"
               /\ UNCHANGED <<raw, registered, message>>
      <3>1. raw \in Txt /\ ~Occurs(LF, raw)
        BY DEF ParseInv
      <3>2. t \in Txt /\ NoByte(t, {NUL, CR, LF}) /\ (IsUtf8(raw) => IsUtf8(t))
        BY <2>2, <3>1, Trimmed
      <3>3. t \in Seq(Byte) /\ Len(t) \in Nat /\ 1 \in 1..(Len(t) + 1)
        BY <3>2 DEF Txt
      <3> HIDE DEF t
      <3>4. /\ p \in 1..(Len(t) + 1)
            /\ p <= Len(t) => t[p] # SPACE
            /\ \A j \in 1..(p - 1) : t[j] = SPACE
        BY <3>3, SkipStops
      <3> HIDE DEF p
      <3>5. t[p] # SPACE /\ (p = 1 \/ t[p - 1] = SPACE)
        <4>1. p = 1 \/ p - 1 \in 1..(p - 1)
          BY <3>4
        <4> QED BY <2>2, <3>4, <4>1
      <3>6. AtWord'
        BY <2>2, <3>5 DEF AtWord
      <3>7. stage' \in {"prefix", "command"} /\ parameter = <<>>
        BY <1>3, <2>2 DEF Trim, ParseInv
      <3>8. CleanMessage' /\ KeepsCharacters'
        BY <2>2 DEF ParseInv, CleanMessage, KeepsCharacters, message
      <3> QED BY <2>2, <3>2, <3>4, <3>6, <3>7, <3>8 DEF ParseInv, message
    <2> QED BY <1>3, <2>1, <2>2 DEF Trim
  <1>4. CASE Prefix
    <2> DEFINE end == find(seared, SPACE, pos + 1)
               p   == skipSpaces(seared, end)
               w   == SubSeq(seared, pos + 1, end - 1)
    <2>1. CASE Refuse
      BY <1>2, <1>4, <2>1 DEF Prefix
    <2>2. CASE /\ p <= Len(seared)
               /\ prefix' = w /\ pos' = p /\ stage' = "command"
               /\ UNCHANGED <<raw, registered, seared, command, parameter>>
      <3>1. pos + 1 \in 1..(Len(seared) + 1) /\ parameter = <<>>
        BY <1>0, <1>4 DEF Prefix, ParseInv
      <3>a. WordFacts(seared, pos + 1, end, p, w)
        BY <1>0, <3>1, WordNamed
      <3> HIDE DEF end, p, w
      <3>2. /\ end \in (pos + 1)..(Len(seared) + 1) /\ p \in end..(Len(seared) + 1)
            /\ p <= Len(seared) => seared[p] # SPACE /\ seared[p - 1] = SPACE
            /\ ~Occurs(SPACE, w) /\ NoByte(w, {NUL, CR, LF})
        BY <1>0, <3>a DEF WordFacts
      <3>3. NoByte(w, {NUL, CR, LF, SPACE})
        BY <3>2 DEF NoByte
      <3>4. AtWord' /\ pos' \in 1..(Len(seared) + 1)
        BY <2>2, <1>0, <3>1, <3>2 DEF AtWord
      <3>5. CleanMessage' /\ KeepsCharacters'
        BY <2>2, <3>3 DEF ParseInv, CleanMessage, KeepsCharacters
      <3> QED BY <2>2, <3>1, <3>4, <3>5 DEF ParseInv
    <2> QED BY <1>4, <2>1, <2>2 DEF Prefix, afterWord, substr
  <1>5. CASE Command
    <2> DEFINE end == find(seared, SPACE, pos)
               p   == skipSpaces(seared, end)
               w   == SubSeq(seared, pos, end - 1)
    <2>1. /\ command' = toupper(w) /\ pos' = p /\ stage' = "params" /\ stage = "command"
          /\ UNCHANGED <<raw, registered, seared, existPrefix, prefix, parameter>>
      BY <1>5 DEF Command, setCommand, afterWord, substr
    <2>a. WordFacts(seared, pos, end, p, w)
      BY <1>0, WordNamed
    <2> HIDE DEF end, p, w
    <2>2. /\ end \in pos..(Len(seared) + 1) /\ p \in end..(Len(seared) + 1)
          /\ p <= Len(seared) => seared[p] # SPACE /\ seared[p - 1] = SPACE
          /\ w \in Txt /\ ~Occurs(SPACE, w) /\ NoByte(w, {NUL, CR, LF})
      BY <1>0, <2>a DEF WordFacts
    <2>3. NoByte(w, {NUL, CR, LF, SPACE}) /\ w \in Seq(Int)
      <3>1. Byte \subseteq Int
        BY DEF Byte
      <3> QED BY <2>2, <3>1, SeqMonotonic DEF NoByte, Txt
    <2>4. NoByte(toupper(w), {NUL, CR, LF, SPACE})
      BY <2>3, Raised
    <2>5. AtWord' /\ pos' \in 1..(Len(seared) + 1)
      BY <1>0, <2>1, <2>2 DEF AtWord
    <2>6. parameter = <<>>
      BY <2>1 DEF ParseInv
    <2>7. CleanMessage' /\ KeepsCharacters'
      BY <2>1, <2>4 DEF ParseInv, CleanMessage, KeepsCharacters
    <2>8. Len(parameter') <= MaxMiddle /\ \A j \in 1..Len(parameter') : IsMiddle(parameter'[j])
      BY <2>1, <2>6, BoundAssumption
    <2> QED BY <2>1, <2>5, <2>6, <2>7, <2>8 DEF ParseInv
  <1>6. CASE Middle
    <2> DEFINE end == find(seared, SPACE, pos)
               p   == skipSpaces(seared, end)
               w   == SubSeq(seared, pos, end - 1)
    <2>1. /\ addParameter(w) /\ pos' = p /\ stage = "params" /\ stage' = stage
          /\ pos <= Len(seared) /\ seared[pos] # COLON /\ Len(parameter) # MaxMiddle
          /\ UNCHANGED <<raw, registered, seared, existPrefix, prefix, command>>
      BY <1>6 DEF Middle, afterWord, substr, isTrailing
    <2>a. WordFacts(seared, pos, end, p, w)
      BY <1>0, WordNamed
    <2> HIDE DEF end, p, w
    <2>2. /\ end \in pos..(Len(seared) + 1) /\ p \in end..(Len(seared) + 1)
          /\ p <= Len(seared) => seared[p] # SPACE /\ seared[p - 1] = SPACE
          /\ w \in Txt /\ ~Occurs(SPACE, w) /\ NoByte(w, {NUL, CR, LF})
      BY <1>0, <2>a DEF WordFacts
    <2>b. /\ w # <<>> /\ w[1] = seared[pos]
          /\ IsUtf8(seared) => IsUtf8(w)
      BY <1>0, <2>1, <2>a DEF WordFacts
    <2>3. IsMiddle(w) /\ w \in Txt
      BY <2>1, <2>2, <2>b DEF IsMiddle, Txt
    <2>4. pos' \in 1..(Len(seared) + 1)
      BY <1>0, <2>1, <2>2
    <2> QED BY <2>1, <2>2, <2>b, <2>3, <2>4, ParameterAdded
  <1>7. CASE Trailing
    <2> DEFINE a == trailingStart
               w == SubSeq(seared, a, Len(seared))
    <2>1. /\ addParameter(w) /\ pos' = Len(seared) + 1 /\ stage = "params" /\ stage' = stage
          /\ pos <= Len(seared)
          /\ UNCHANGED <<raw, registered, seared, existPrefix, prefix, command>>
      <3>1. (Len(seared) + 1) - 1 = Len(seared)
        BY <1>0
      <3> QED BY <1>7, <3>1 DEF Trailing, substr
    <2>2. /\ a \in 1..(Len(seared) + 1)
          /\ a = 1 \/ seared[a - 1] = SPACE \/ seared[a - 1] = COLON
      BY <1>0, <2>1 DEF trailingStart
    <2> HIDE DEF a
    <2>3. Len(seared) \in (a - 1)..Len(seared)
      BY <1>0, <2>2
    <2>4. w \in Seq(Byte) /\ NoByte(w, {NUL, CR, LF})
      BY <1>0, <2>2, <2>3, PartOf
    <2>5. ASSUME IsUtf8(seared)
          PROVE  IsUtf8(w)
      <3>1. a <= Len(seared) => ~isContinuation(seared[a])
        <4> SUFFICES ASSUME a <= Len(seared) PROVE ~isContinuation(seared[a])
          OBVIOUS
        <4>1. a \in 1..Len(seared)
          BY <1>0, <2>2
        <4>2. a = 1 \/ (seared[a - 1] \in Int /\ seared[a - 1] < 128)
          BY <2>2 DEF SPACE, COLON
        <4> QED BY <1>0, <2>5, <4>1, <4>2, BeginsAfter
      <3>2. ~(Len(seared) < Len(seared))
        BY <1>0
      <3> QED BY <1>0, <2>2, <2>3, <2>5, <3>1, <3>2, Slice
    <2> HIDE DEF w
    <2>6. w \in Txt
      BY <2>4 DEF Txt
    <2>7. pos' \in 1..(Len(seared) + 1) /\ ~(pos' <= Len(seared))
      BY <1>0, <2>1
    <2> QED BY <2>1, <2>4, <2>5, <2>6, <2>7, ParameterAdded
  <1>8. CASE operate
    <2>1. /\ stage' \in {"421", "451", "executed"}
          /\ UNCHANGED <<raw, registered, seared, pos, message>>
      BY <1>8 DEF operate, dispatch
    <2> QED BY <2>1 DEF message, ParseInv, AtWord, CleanMessage, KeepsCharacters
  <1> QED BY <1>1, <1>3, <1>4, <1>5, <1>6, <1>7, <1>8 DEF ParseNext

LEMMA Parsed == ParseSpec => []ParseInv
  <1>1. ParseInit => ParseInv
    <2> SUFFICES ASSUME ParseInit PROVE ParseInv
      OBVIOUS
    <2>1. <<>> \in Txt /\ Len(<<>>) = 0 /\ <<>> \in Seq(Txt)
      BY DEF Txt
    <2>2. \A B : NoByte(<<>>, B)
      BY <2>1 DEF NoByte, Occurs
    <2>3. IsUtf8(<<>>)
      BY <2>1 DEF IsUtf8
    <2>4. CleanMessage /\ KeepsCharacters
      BY <2>1, <2>2, BoundAssumption DEF ParseInit, CleanMessage, KeepsCharacters
    <2>5. AtWord
      BY <2>1 DEF ParseInit, AtWord
    <2>6. raw \in Txt /\ ~Occurs(LF, raw)
      BY LineAssumption DEF ParseInit
    <2> QED BY <2>1, <2>2, <2>3, <2>4, <2>5, <2>6 DEF ParseInit, ParseInv
  <1> QED BY <1>1, ParseStep, PTL DEF ParseSpec

(* No parameter, prefix or command name that reaches a handler can end a   *)
(* line of another client, whatever a line holds (CleanMessage).           *)
THEOREM MessagesAreClean == ParseSpec => []CleanMessage
  <1>1. ParseInv => CleanMessage
    BY DEF ParseInv
  <1> QED BY <1>1, Parsed, PTL

(* A line of whole characters, of any length, is split into whole          *)
(* characters (KeepsCharacters).                                           *)
THEOREM CharactersAreKept == ParseSpec => []KeepsCharacters
  <1>1. ParseInv => KeepsCharacters
    BY DEF ParseInv
  <1> QED BY <1>1, Parsed, PTL

-----------------------------------------------------------------------------
(* What the parser reads.                                                  *)

(* The words of a text are finitely many, and counted differently.         *)
LEMMA WordsFinite ==
  ASSUME NEW S, NEW s \in Seq(S)
  PROVE  /\ WordStart(s) \subseteq Nat /\ IsFiniteSet(WordStart(s))
         /\ Args(s) \subseteq WordStart(s) /\ IsFiniteSet(Args(s))
  <1>1. WordStart(s) \in SUBSET Nat /\ Len(s) \in Nat /\ \A y \in WordStart(s) : y <= Len(s)
    BY DEF WordStart
  <1>2. Args(s) \subseteq WordStart(s)
    BY DEF Args
  <1> HIDE DEF WordStart
  <1>3. IsFiniteSet(WordStart(s))
    BY <1>1, FS_BoundedSetOfNaturals
  <1> QED BY <1>1, <1>2, <1>3, FS_Subset

LEMMA RankGrows ==
  ASSUME NEW T, T \subseteq Nat, IsFiniteSet(T), NEW x \in T, NEW y \in T, x < y
  PROVE  Rank(T, x) < Rank(T, y)
  <1> DEFINE X == {j \in T : j <= x}
             Y == {j \in T : j <= y}
  <1>0. x \in Nat /\ y \in Nat /\ \A j \in T : j \in Nat
    OBVIOUS
  <1>a. /\ \A j \in T : j <= x => j <= y
        /\ y <= y /\ ~(y <= x)
    BY <1>0
  <1>1. X \in SUBSET Y /\ Y \in SUBSET T /\ y \in Y /\ y \notin X
    BY <1>a, Zenon
  <1> HIDE DEF X, Y
  <1>2. IsFiniteSet(Y) /\ IsFiniteSet(X)
    BY <1>1, FS_Subset
  <1>3. Cardinality(X) <= Cardinality(Y) /\ Cardinality(X) # Cardinality(Y)
    BY <1>1, <1>2, FS_Subset
  <1>4. Cardinality(X) \in Nat /\ Cardinality(Y) \in Nat
    BY <1>2, FS_CardinalityType
  <1>5. Cardinality(X) < Cardinality(Y)
    BY <1>3, <1>4
  <1> QED BY <1>5 DEF X, Y, Rank

LEMMA RankOne ==
  ASSUME NEW T, T \subseteq Nat, IsFiniteSet(T), NEW x \in T
  PROVE  Rank(T, x) = Cardinality({j \in T : j < x}) + 1
  <1> DEFINE X == {j \in T : j < x}
             Y == {j \in T : j <= x}
  <1>0. x \in Nat /\ \A j \in T : j \in Nat
    OBVIOUS
  <1>a. /\ \A j \in T : j <= x <=> j < x \/ j = x
        /\ ~(x < x)
    BY <1>0
  <1>1. Y = X \cup {x} /\ x \notin X /\ X \subseteq T
    BY <1>a, Zenon
  <1> HIDE DEF X, Y
  <1>2. IsFiniteSet(X)
    BY <1>1, FS_Subset
  <1>3. Cardinality(Y) = Cardinality(X) + 1
    BY <1>1, <1>2, FS_AddElement
  <1> QED BY <1>3 DEF X, Y, Rank

(* The n-th word after the command is the one of rank n.                   *)
LEMMA NthArgIs ==
  ASSUME NEW S, NEW s \in Seq(S), NEW n, NEW x \in Args(s), Rank(Args(s), x) = n
  PROVE  NthArg(s, n) = x
  <1> DEFINE Chosen(y) == Rank(Args(s), y) = n
             y == NthArg(s, n)
  <1>1. y = CHOOSE z \in Args(s) : Chosen(z)
    BY DEF NthArg
  <1>2. \E z \in Args(s) : Chosen(z)
    OBVIOUS
  <1> HIDE DEF Chosen
  <1>3. y \in Args(s) /\ Chosen(y)
    BY <1>1, <1>2, Zenon
  <1> HIDE DEF y
  <1>4. Rank(Args(s), y) = n
    BY <1>3 DEF Chosen
  <1>5. Args(s) \subseteq Nat /\ IsFiniteSet(Args(s))
    BY WordsFinite
  <1>6. Rank(Args(s), x) = Cardinality({j \in Args(s) : j < x}) + 1
    BY <1>5, RankOne
  <1>7. {j \in Args(s) : j < x} \subseteq Args(s)
    OBVIOUS
  <1>8. n \in Nat
    BY <1>5, <1>6, <1>7, FS_Subset, FS_CardinalityType
  <1>9. ~(x < y) /\ ~(y < x)
    BY <1>3, <1>4, <1>5, <1>8, RankGrows
  <1> QED BY <1>3, <1>5, <1>9 DEF y

(* Between a word and the position after it no other begins.               *)
LEMMA NoWordBetween ==
  ASSUME NEW S, NEW s \in Seq(S), NEW from \in 1..Len(s), s[from] # SPACE,
         NEW g \in {from, from + 1},
         NEW x \in WordStart(s), from < x
  PROVE  skipSpaces(s, find(s, SPACE, g)) <= x
  <1> DEFINE end == find(s, SPACE, g)
             p   == skipSpaces(s, end)
  <1>0. Len(s) \in Nat /\ g \in 1..(Len(s) + 1)
    OBVIOUS
  <1>1. /\ end \in g..(Len(s) + 1)
        /\ \A j \in g..(end - 1) : s[j] # SPACE
    BY <1>0, FindStops
  <1>2. end \in 1..(Len(s) + 1)
    BY <1>0, <1>1
  <1> HIDE DEF end
  <1>3. /\ p \in end..(Len(s) + 1)
        /\ \A j \in end..(p - 1) : s[j] = SPACE
    BY <1>2, SkipStops
  <1> HIDE DEF p
  <1>4. x \in 1..Len(s) /\ s[x] # SPACE /\ (x = 1 \/ s[x - 1] = SPACE)
    BY DEF WordStart
  <1>5. s[x - 1] = SPACE /\ x - 1 \in from..Len(s)
    BY <1>0, <1>4
  <1>6. ~(x <= end - 1)
    <2> SUFFICES ASSUME x <= end - 1 PROVE FALSE
      OBVIOUS
    <2>1. x - 1 = from \/ x - 1 \in g..(end - 1)
      BY <1>0, <1>1, <1>2, <1>4, <1>5
    <2> QED BY <1>1, <1>5, <2>1
  <1>7. ~(x \in end..(p - 1))
    BY <1>3, <1>4
  <1> QED BY <1>0, <1>2, <1>3, <1>4, <1>6, <1>7 DEF end, p

(* The command is the first word, or the second after a source.            *)
LEMMA FirstWord ==
  ASSUME NEW S, NEW s \in Seq(S), NEW x \in WordStart(s), \A y \in WordStart(s) : x <= y
  PROVE  /\ s[x] = COLON => SourceWord(s) = {x}
         /\ s[x] # COLON => SourceWord(s) = {}
  <1> DEFINE W == WordStart(s)
  <1>1. W \subseteq Nat /\ IsFiniteSet(W)
    BY WordsFinite
  <1>2. {j \in W : j < x} = {}
    BY <1>1
  <1> HIDE DEF W
  <1>3. Rank(W, x) = 1
    BY <1>1, <1>2, RankOne, FS_EmptySet DEF W
  <1>4. ASSUME NEW y \in W, Rank(W, y) = 1
        PROVE  y = x
    <2>1. ~(x < y)
      BY <1>1, <1>3, <1>4, RankGrows DEF W
    <2> QED BY <1>1, <1>4, <2>1 DEF W
  <1> QED BY <1>3, <1>4 DEF W, SourceWord

LEMMA CommandIs ==
  ASSUME NEW S, NEW s \in Seq(S), NEW x \in WordStart(s) \ SourceWord(s),
         \A y \in WordStart(s) \ SourceWord(s) : x <= y
  PROVE  CommandAt(s) = x
  <1> DEFINE T == WordStart(s) \ SourceWord(s)
             Chosen(y) == \A z \in T : y <= z
             c == CommandAt(s)
  <1>1. T \subseteq Nat
    BY WordsFinite
  <1>2. c = CHOOSE y \in T : Chosen(y)
    BY DEF CommandAt
  <1>3. \E y \in T : Chosen(y)
    OBVIOUS
  <1> HIDE DEF Chosen, T
  <1>4. c \in T /\ Chosen(c)
    BY <1>2, <1>3, Zenon
  <1> HIDE DEF c
  <1>5. x \in T
    BY DEF T
  <1>6. c <= x
    BY <1>4, <1>5 DEF Chosen
  <1>7. x <= c
    BY <1>4 DEF T
  <1>8. x \in Nat /\ c \in Nat
    BY <1>1, <1>4, <1>5
  <1> QED BY <1>6, <1>7, <1>8 DEF c

(* What was read up to the end of the text is what it means, and so is     *)
(* what was read up to a word that takes the rest, with the rest.          *)
LEMMA AllRead ==
  ASSUME NEW S, NEW s \in Seq(S), NEW q \in Seq(Seq(S)), ReadUpTo(s, Len(s) + 1, q)
  PROVE  q = Meaning(s).parameter
  <1> DEFINE A == Args(s)
             m == Cardinality(Middles(s))
             f == [k \in 1..m |-> Word(s, NthArg(s, k))]
  <1>0. \A x \in WordStart(s) : x < Len(s) + 1
    BY DEF WordStart
  <1>1. A \subseteq Nat /\ IsFiniteSet(A) /\ Len(s) \in Nat /\ \A x \in A : x < Len(s) + 1
    BY <1>0, WordsFinite
  <1>2. {x \in A : x < Len(s) + 1} = A
    BY <1>1
  <1>3. Len(q) <= MaxMiddle /\ Len(q) = Cardinality(A) /\ \A x \in A : s[x] # COLON
    BY <1>1, <1>2 DEF ReadUpTo
  <1>4. \A x \in A : ~(Rank(A, x) > MaxMiddle)
    <2> SUFFICES ASSUME NEW x \in A PROVE Rank(A, x) <= MaxMiddle
      <3>1. \A x \in A : Rank(A, x) \in Nat
        BY <1>1, FS_Subset, FS_CardinalityType DEF Rank
      <3> QED BY <3>1, BoundAssumption
    <2>1. {j \in A : j <= x} \in SUBSET A
      OBVIOUS
    <2> HIDE DEF A
    <2>2. Rank(A, x) \in Nat /\ Rank(A, x) <= Cardinality(A) /\ Cardinality(A) \in Nat
      BY <1>1, <2>1, FS_Subset, FS_CardinalityType DEF Rank
    <2> QED BY <1>3, <2>2, BoundAssumption
  <1>5. RestWords(s) = {} /\ Middles(s) = A
    BY <1>3, <1>4 DEF RestWords, Middles
  <1>6. m = Len(q) /\ m \in Nat
    BY <1>3, <1>5
  <1>7. \A k \in 1..m : q[k] = Word(s, NthArg(s, k))
    <2> SUFFICES ASSUME NEW k \in 1..m PROVE q[k] = Word(s, NthArg(s, k))
      OBVIOUS
    <2>1. PICK x \in A : Rank(A, x) = k /\ q[k] = Word(s, x)
      BY <1>6 DEF ReadUpTo
    <2> QED BY <2>1, NthArgIs
  <1>8. Meaning(s).parameter = f \o <<>>
    BY <1>5 DEF Meaning
  <1> HIDE DEF m, f
  <1>9. q = f
    BY <1>6, <1>7 DEF f
  <1> QED BY <1>8, <1>9

LEMMA RestRead ==
  ASSUME NEW S, NEW s \in Seq(S), NEW q \in Seq(Seq(S)), NEW p \in WordStart(s),
         ReadUpTo(s, p, q), s[p] = COLON \/ Len(q) = MaxMiddle,
         NEW w, w = SubSeq(s, IF s[p] = COLON THEN p + 1 ELSE p, Len(s))
  PROVE  Append(q, w) = Meaning(s).parameter
  <1> DEFINE A == Args(s)
             m == Cardinality(Middles(s))
             f == [k \in 1..m |-> Word(s, NthArg(s, k))]
  <1>1. A \subseteq Nat /\ IsFiniteSet(A) /\ p \in A
    <2>1. p \in Nat /\ CommandAt(s) \in 1..(p - 1)
      BY WordsFinite DEF ReadUpTo
    <2>2. p > CommandAt(s)
      BY <2>1
    <2> QED BY <2>2, WordsFinite DEF Args
  <1>2. Len(q) \in Nat /\ Len(q) <= MaxMiddle /\ Len(q) = Cardinality({x \in A : x < p})
    BY DEF ReadUpTo
  <1>3. Rank(A, p) = Len(q) + 1
    BY <1>1, <1>2, RankOne
  <1>4. p \in RestWords(s)
    BY <1>1, <1>2, <1>3, BoundAssumption DEF RestWords
  <1>5. ASSUME NEW x \in A, x < p
        PROVE  x \notin RestWords(s)
    <2>1. Rank(A, x) < Rank(A, p)
      BY <1>1, <1>5, RankGrows
    <2>2. {j \in A : j <= x} \in SUBSET A
      OBVIOUS
    <2>3. Rank(A, x) \in Nat
      <3> HIDE DEF A
      <3> QED BY <1>1, <2>2, FS_Subset, FS_CardinalityType DEF Rank
    <2>4. s[x] # COLON
      BY <1>5 DEF ReadUpTo
    <2> QED BY <1>2, <1>3, <2>1, <2>3, <2>4, BoundAssumption DEF RestWords
  <1>6. Middles(s) = {x \in A : x < p}
    <2>1. RestWords(s) \subseteq A
      BY DEF RestWords
    <2>2. ASSUME NEW x \in A, x < p
          PROVE  \A j \in RestWords(s) : x < j
      <3>1. ASSUME NEW j \in RestWords(s) PROVE p <= j
        BY <1>1, <1>5, <2>1, <3>1
      <3> QED BY <1>1, <2>1, <2>2, <3>1
    <2> QED BY <1>4, <2>2 DEF Middles
  <1>7. m = Len(q)
    BY <1>2, <1>6
  <1>8. \A k \in 1..m : q[k] = Word(s, NthArg(s, k))
    <2> SUFFICES ASSUME NEW k \in 1..m PROVE q[k] = Word(s, NthArg(s, k))
      OBVIOUS
    <2>1. PICK x \in A : Rank(A, x) = k /\ q[k] = Word(s, x)
      BY <1>7 DEF ReadUpTo
    <2> QED BY <2>1, NthArgIs
  <1>9. NthArg(s, m + 1) = p
    BY <1>1, <1>3, <1>7, NthArgIs
  <1>10. Meaning(s).parameter = f \o <<w>>
    BY <1>4, <1>9 DEF Meaning
  <1> HIDE DEF m, f
  <1>11. q = f
    BY <1>7, <1>8 DEF f
  <1>12. w \in Seq(S)
    <2> DEFINE a == IF s[p] = COLON THEN p + 1 ELSE p
    <2>1. a \in 1..(Len(s) + 1) /\ Len(s) \in (a - 1)..Len(s)
      BY DEF WordStart
    <2> HIDE DEF a
    <2>2. SubSeq(s, a, Len(s)) \in Seq(S)
      BY <2>1, PartOf
    <2> QED BY <2>2 DEF a
  <1> QED BY <1>10, <1>11, <1>12, AppendIsConcat

(* One word more.                                                          *)
LEMMA WordRead ==
  ASSUME NEW S, NEW s \in Seq(S), NEW q \in Seq(Seq(S)), NEW p \in WordStart(s),
         ReadUpTo(s, p, q), s[p] # COLON, Len(q) # MaxMiddle,
         Word(s, p) \in Seq(S)
  PROVE  ReadUpTo(s, skipSpaces(s, find(s, SPACE, p)), Append(q, Word(s, p)))
  <1> DEFINE A == Args(s)
             r == skipSpaces(s, find(s, SPACE, p))
             w == Word(s, p)
             n == Len(q)
             t == Append(q, w)
  <1>1. A \subseteq Nat /\ IsFiniteSet(A) /\ p \in A /\ A \subseteq WordStart(s)
    <2>1. p \in Nat /\ CommandAt(s) \in 1..(p - 1)
      BY WordsFinite DEF ReadUpTo
    <2>2. p > CommandAt(s)
      BY <2>1
    <2> QED BY <2>2, WordsFinite DEF Args
  <1>2. p \in 1..Len(s) /\ s[p] # SPACE /\ Len(s) \in Nat
    BY DEF WordStart
  <1>3. r \in p..(Len(s) + 1) /\ r # p
    <2> DEFINE end == find(s, SPACE, p)
    <2>1. end \in p..(Len(s) + 1) /\ (end <= Len(s) => s[end] = SPACE)
      BY <1>2, FindStops
    <2>2. end \in 1..(Len(s) + 1) /\ end > p
      BY <1>2, <2>1
    <2> HIDE DEF end
    <2>3. r \in end..(Len(s) + 1)
      BY <2>2, SkipStops DEF end
    <2> HIDE DEF r
    <2> QED BY <1>2, <2>2, <2>3
  <1>4. \A x \in A : p < x => r <= x
    BY <1>1, <1>2, NoWordBetween
  <1> HIDE DEF r
  <1>a. \A x \in A : x \in Nat
    BY <1>1
  <1>b. r \in Nat /\ p \in Nat /\ p < r
    BY <1>2, <1>3
  <1> HIDE DEF A
  <1>5. ASSUME NEW x \in A
        PROVE  (x < r <=> x <= p) /\ (x <= p <=> x < p \/ x = p)
    <2>1. x \in Nat /\ (p < x => r <= x)
      BY <1>4, <1>a
    <2> QED BY <1>b, <2>1
  <1> USE DEF A
  <1>6. n \in Nat /\ MaxMiddle \in Nat /\ n + 1 <= MaxMiddle
        /\ n = Cardinality({x \in A : x < p}) /\ CommandAt(s) \in 1..(p - 1)
    BY BoundAssumption DEF ReadUpTo
  <1>7. Rank(A, p) = n + 1
    BY <1>1, <1>6, RankOne
  <1>8. {x \in A : x < r} = {x \in A : x <= p}
    BY <1>5, Zenon
  <1>9. Cardinality({x \in A : x < r}) = n + 1
    BY <1>7, <1>8 DEF Rank
  <1>10. CommandAt(s) \in 1..(r - 1)
    BY <1>2, <1>3, <1>6
  <1>11. \A x \in A : x < r => s[x] # COLON
    BY <1>5 DEF ReadUpTo
  <1>12. /\ Len(t) = n + 1 /\ t[n + 1] = w
         /\ \A k \in 1..n : t[k] = q[k]
    OBVIOUS
  <1>13. ASSUME NEW k \in 1..(n + 1)
         PROVE  \E x \in A : x < r /\ Rank(A, x) = k /\ t[k] = Word(s, x)
    <2>1. CASE k = n + 1
      BY <1>1, <1>5, <1>7, <1>12, <2>1
    <2>2. CASE k \in 1..n
      <3>1. PICK x \in A : x < p /\ Rank(A, x) = k /\ q[k] = Word(s, x)
        BY <2>2 DEF ReadUpTo
      <3> QED BY <1>5, <1>12, <2>2, <3>1
    <2>3. k = n + 1 \/ k \in 1..n
      <3> HIDE DEF n
      <3> QED BY <1>6
    <2> QED BY <2>1, <2>2, <2>3
  <1> HIDE DEF t, w, A
  <1>14. ReadUpTo(s, r, t)
    BY <1>6, <1>9, <1>10, <1>11, <1>12, <1>13 DEF ReadUpTo, A
  <1> QED BY <1>14 DEF r, t, w

(* MeantInv is inductive, given ParseInv.                                  *)
LEMMA MeantStep ==
  ASSUME ParseInv, MeantInv, [ParseNext]_parseVars
  PROVE  MeantInv'
  <1> DEFINE s == seared
  <1>0. /\ s \in Seq(Byte) /\ Len(s) \in Nat /\ pos \in 1..(Len(s) + 1)
        /\ parameter \in Seq(Seq(Byte))
        /\ pos <= Len(s) => pos \in WordStart(s)
        /\ stage \in {"prefix", "command"} => pos <= Len(s)
        /\ stage = "command" => parameter = <<>>
    BY DEF ParseInv, Txt, AtWord, WordStart
  <1>1. CASE UNCHANGED parseVars
    BY <1>1 DEF parseVars, message, MeantInv, ReadsAsMeant
  <1>2. CASE Refuse
    BY <1>2 DEF Refuse, MeantInv, ReadsAsMeant, Outcome
  <1>3. CASE Trim /\ ~Refuse
    <2> DEFINE t == chop(withinLimit(raw))
               p == skipSpaces(t, 1)
    <2>1. /\ readable(withinLimit(raw)) /\ p <= Len(t) /\ seared' = t /\ pos' = p
          /\ stage' = IF t[p] = COLON THEN "prefix" ELSE "command"
      BY <1>3 DEF Trim
    <2>2. raw \in Txt /\ ~Occurs(LF, raw)
      BY DEF ParseInv
    <2>3. t \in Txt
      BY <2>1, <2>2, Trimmed
    <2>4. t \in Seq(Byte) /\ Len(t) \in Nat /\ 1 \in 1..(Len(t) + 1)
      BY <2>3 DEF Txt
    <2> HIDE DEF t
    <2>5. /\ p \in 1..(Len(t) + 1)
          /\ p <= Len(t) => t[p] # SPACE
          /\ \A j \in 1..(p - 1) : t[j] = SPACE
      BY <2>4, SkipStops
    <2> HIDE DEF p
    <2>6. p \in WordStart(t)
      <3>1. p = 1 \/ t[p - 1] = SPACE
        BY <2>5
      <3> QED BY <2>1, <2>4, <2>5, <3>1 DEF WordStart
    <2>7. \A y \in WordStart(t) : p <= y
      BY <2>4, <2>5 DEF WordStart
    <2>8. CASE t[p] = COLON
      BY <2>1, <2>7, <2>8 DEF MeantInv, ReadsAsMeant, Outcome
    <2>9. CASE t[p] # COLON
      <3>1. SourceWord(t) = {}
        BY <2>4, <2>6, <2>7, <2>9, FirstWord
      <3>2. p \in WordStart(t) \ SourceWord(t) /\ \A y \in WordStart(t) \ SourceWord(t) : p <= y
        BY <2>6, <2>7, <3>1
      <3>3. CommandAt(t) = p
        BY <2>4, <3>2, CommandIs
      <3> QED BY <2>1, <2>9, <3>3 DEF MeantInv, ReadsAsMeant, Outcome
    <2> QED BY <2>8, <2>9
  <1>4. CASE Prefix /\ ~Refuse
    <2> DEFINE p == skipSpaces(s, find(s, SPACE, pos + 1))
    <2>1. /\ p <= Len(s) /\ pos' = p /\ stage' = "command" /\ stage = "prefix"
          /\ seared' = seared
      BY <1>4 DEF Prefix, afterWord
    <2>2. pos \in WordStart(s) /\ s[pos] = COLON /\ \A y \in WordStart(s) : pos <= y
      BY <1>0, <2>1 DEF MeantInv
    <2>3. SourceWord(s) = {pos}
      BY <1>0, <2>2, FirstWord
    <2>4. pos \in 1..Len(s) /\ s[pos] # SPACE
      BY <2>2 DEF WordStart
    <2>5. \A y \in WordStart(s) : pos < y => p <= y
      BY <1>0, <2>4, NoWordBetween
    <2>6. p \in WordStart(s) /\ p # pos
      <3> DEFINE end == find(s, SPACE, pos + 1)
      <3>1. pos + 1 \in 1..(Len(s) + 1)
        BY <1>0, <2>4
      <3>2. /\ end \in (pos + 1)..(Len(s) + 1) /\ p \in end..(Len(s) + 1)
            /\ p <= Len(s) => s[p] # SPACE /\ s[p - 1] = SPACE
        BY <1>0, <3>1, WordAt
      <3> HIDE DEF end, p
      <3> QED BY <1>0, <2>1, <2>4, <3>2 DEF WordStart
    <2> HIDE DEF p
    <2>7. \A y \in WordStart(s) \ SourceWord(s) : p <= y
      <3>1. \A y \in WordStart(s) : y \in Nat
        BY WordsFinite, <1>0
      <3> QED BY <2>2, <2>3, <2>4, <2>5, <3>1
    <2>8. CommandAt(s) = p
      BY <1>0, <2>3, <2>6, <2>7, CommandIs
    <2> QED BY <2>1, <2>8 DEF MeantInv, ReadsAsMeant, Outcome
  <1>5. CASE Command
    <2> DEFINE p == skipSpaces(s, find(s, SPACE, pos))
    <2>1. /\ command' = toupper(Word(s, pos)) /\ pos' = p
          /\ stage = "command" /\ stage' = "params" /\ seared' = seared /\ parameter' = <<>>
      BY <1>0, <1>5 DEF Command, setCommand, afterWord, Word
    <2>2. pos \in WordStart(s) /\ CommandAt(s) = pos
      BY <1>0, <2>1 DEF MeantInv
    <2>3. pos \in 1..Len(s) /\ s[pos] # SPACE
      BY <2>2 DEF WordStart
    <2>4. \A y \in WordStart(s) : pos < y => p <= y
      BY <1>0, <2>3, NoWordBetween
    <2>5. p \in 1..(Len(s) + 1) /\ pos < p
      <3> DEFINE end == find(s, SPACE, pos)
      <3>1. end \in pos..(Len(s) + 1) /\ (end <= Len(s) => s[end] = SPACE)
        BY <1>0, FindStops
      <3>2. end \in 1..(Len(s) + 1) /\ end > pos
        BY <1>0, <2>3, <3>1
      <3> HIDE DEF end
      <3>3. p \in end..(Len(s) + 1)
        BY <1>0, <3>2, SkipStops DEF end
      <3> HIDE DEF p
      <3> QED BY <1>0, <3>2, <3>3
    <2> HIDE DEF p
    <2>6. \A y \in Args(s) : ~(y < p)
      <3>1. \A y \in WordStart(s) : y \in Nat
        BY WordsFinite, <1>0
      <3> QED BY <2>2, <2>4, <2>5, <3>1 DEF Args
    <2>7. {y \in Args(s) : y < p} = {}
      BY <2>6
    <2>a. CommandAt(s) \in 1..(p - 1)
      BY <2>2, <2>3, <2>5
    <2>b. Len(<<>>) = 0 /\ Cardinality({}) = 0 /\ 0 <= MaxMiddle
      BY FS_EmptySet, BoundAssumption
    <2>8. ReadUpTo(s, p, <<>>)
      <3> DEFINE q == <<>>
                 P == {y \in Args(s) : y < p}
      <3>1. Len(q) <= MaxMiddle /\ Len(q) = Cardinality(P)
        BY <2>7, <2>b
      <3>2. 1..Len(q) = {}
        BY <2>b
      <3> HIDE DEF q
      <3>3. ReadUpTo(s, p, q)
        BY <2>6, <2>a, <3>1, <3>2 DEF ReadUpTo
      <3> QED BY <3>3 DEF q
    <2>9. command' = Meaning(s).command
      BY <2>1, <2>2 DEF Meaning
    <2> QED BY <2>1, <2>8, <2>9 DEF MeantInv, ReadsAsMeant, Outcome
  <1>6. CASE Middle
    <2> DEFINE p == skipSpaces(s, find(s, SPACE, pos))
               w == Word(s, pos)
    <2>1. /\ parameter' = Append(parameter, w) /\ pos' = p
          /\ stage = "params" /\ stage' = "params" /\ seared' = seared /\ command' = command
          /\ pos <= Len(s) /\ s[pos] # COLON /\ Len(parameter) # MaxMiddle
      BY <1>6 DEF Middle, afterWord, Word, isTrailing, addParameter
    <2>2. pos \in WordStart(s) /\ ReadUpTo(s, pos, parameter)
      BY <1>0, <2>1 DEF MeantInv
    <2>3. w \in Seq(Byte)
      <3>1. SubSeq(s, pos, find(s, SPACE, pos) - 1) \in Seq(Byte)
        BY <1>0, WordAt
      <3> QED BY <3>1 DEF Word, substr
    <2>4. ReadUpTo(s, p, Append(parameter, w))
      BY <1>0, <2>1, <2>2, <2>3, WordRead
    <2> HIDE DEF p, w
    <2>5. command = Meaning(s).command
      BY <2>1 DEF MeantInv
    <2> QED BY <2>1, <2>4, <2>5 DEF MeantInv, ReadsAsMeant, Outcome
  <1>7. CASE Trailing
    <2> DEFINE w == SubSeq(s, IF s[pos] = COLON THEN pos + 1 ELSE pos, Len(s))
    <2>1. /\ parameter' = Append(parameter, w) /\ pos' = Len(s) + 1
          /\ stage = "params" /\ stage' = "params" /\ seared' = seared /\ command' = command
          /\ pos <= Len(s) /\ (s[pos] = COLON \/ Len(parameter) = MaxMiddle)
      <3>1. (Len(s) + 1) - 1 = Len(s)
        BY <1>0
      <3> QED BY <1>7, <3>1 DEF Trailing, substr, trailingStart, isTrailing, addParameter
    <2>2. pos \in WordStart(s) /\ ReadUpTo(s, pos, parameter)
      BY <1>0, <2>1 DEF MeantInv
    <2>3. Append(parameter, w) = Meaning(s).parameter
      BY <1>0, <2>1, <2>2, RestRead
    <2> HIDE DEF w
    <2>4. command = Meaning(s).command
      BY <2>1 DEF MeantInv
    <2> QED BY <2>1, <2>3, <2>4 DEF MeantInv, ReadsAsMeant, Outcome
  <1>8. CASE operate
    <2>1. /\ stage = "params" /\ pos = Len(s) + 1 /\ stage' = dispatch
          /\ seared' = seared /\ command' = command /\ parameter' = parameter
          /\ registered' = registered
      BY <1>0, <1>8 DEF operate, message
    <2>2. command = Meaning(s).command
      BY <2>1 DEF MeantInv
    <2>3. parameter = Meaning(s).parameter
      BY <1>0, <2>1, AllRead DEF MeantInv
    <2>4. Meaning(s) = [command |-> command, parameter |-> parameter]
      BY <2>2, <2>3 DEF Meaning
    <2>5. /\ dispatch \in {"421", "451", "executed"}
          /\ dispatch = "421" <=> command \notin LoginFree \cup LoginOnly
          /\ dispatch = "451" <=> command \in LoginOnly /\ ~registered
      BY DEF dispatch
    <2>6. ReadsAsMeant'
      BY <2>1, <2>2, <2>4, <2>5 DEF ReadsAsMeant
    <2> QED BY <2>1, <2>2, <2>5, <2>6 DEF MeantInv
  <1> QED BY <1>1, <1>2, <1>3, <1>4, <1>5, <1>6, <1>7, <1>8 DEF ParseNext

(* In every line it accepts, of any length and with any spaces, the parser *)
(* finds the command and the parameters of the declarative reading, and    *)
(* dispatches it as the table and the login say (ReadsAsMeant).            *)
THEOREM LinesReadAsMeant == ParseSpec => []ReadsAsMeant
  <1>1. ParseInit => MeantInv
    BY DEF ParseInit, MeantInv, ReadsAsMeant, Outcome
  <1>2. MeantInv => ReadsAsMeant
    BY DEF MeantInv
  <1> QED BY <1>1, <1>2, Parsed, MeantStep, PTL DEF ParseSpec

-----------------------------------------------------------------------------
(* Newlines.                                                               *)

LEMMA CountType ==
  ASSUME NEW S, NEW s \in Seq(S)
  PROVE  /\ IsFiniteSet(Newlines(s)) /\ Cardinality(Newlines(s)) \in Nat
         /\ \A x : /\ IsFiniteSet(NewlinesUpTo(s, x))
                   /\ Cardinality(NewlinesUpTo(s, x)) \in Nat
                   /\ Cardinality(NewlinesUpTo(s, x)) <= Cardinality(Newlines(s))
  <1>1. Newlines(s) \in SUBSET Nat /\ Len(s) \in Nat /\ \A y \in Newlines(s) : y <= Len(s)
    BY DEF Newlines
  <1> HIDE DEF Newlines
  <1>2. IsFiniteSet(Newlines(s))
    BY <1>1, FS_BoundedSetOfNaturals
  <1>3. ASSUME NEW x
        PROVE  NewlinesUpTo(s, x) \in SUBSET Newlines(s)
    BY DEF NewlinesUpTo
  <1>4. ASSUME NEW x
        PROVE  /\ IsFiniteSet(NewlinesUpTo(s, x))
               /\ Cardinality(NewlinesUpTo(s, x)) \in Nat
               /\ Cardinality(NewlinesUpTo(s, x)) <= Cardinality(Newlines(s))
    BY <1>2, <1>3, FS_Subset, FS_CardinalityType
  <1> QED BY <1>2, <1>4, FS_CardinalityType

(* Two newlines are counted differently.                                   *)
LEMMA CountGrows ==
  ASSUME NEW S, NEW s \in Seq(S), NEW x \in Newlines(s), NEW y \in Newlines(s), x < y
  PROVE  Cardinality(NewlinesUpTo(s, x)) < Cardinality(NewlinesUpTo(s, y))
  <1> DEFINE X == NewlinesUpTo(s, x)
             Y == NewlinesUpTo(s, y)
  <1>1. /\ IsFiniteSet(X) /\ Cardinality(X) \in Nat
        /\ IsFiniteSet(Y) /\ Cardinality(Y) \in Nat
    BY CountType
  <1>2. x \in Int /\ y \in Int /\ Newlines(s) \subseteq Int
    BY DEF Newlines
  <1>3. X \in SUBSET Y /\ y \in Y /\ y \notin X
    BY <1>2 DEF NewlinesUpTo
  <1> HIDE DEF X, Y
  <1>4. Cardinality(X) <= Cardinality(Y) /\ Cardinality(X) # Cardinality(Y)
    BY <1>1, <1>3, FS_Subset
  <1> QED BY <1>1, <1>4 DEF X, Y

LEMMA NthChosen ==
  ASSUME NEW s, NEW n, n # 0, \E x \in Newlines(s) : Cardinality(NewlinesUpTo(s, x)) = n
  PROVE  /\ NthNewline(s, n) \in Newlines(s)
         /\ Cardinality(NewlinesUpTo(s, NthNewline(s, n))) = n
  <1> DEFINE Chosen(x) == Cardinality(NewlinesUpTo(s, x)) = n
  <1>1. NthNewline(s, n) = CHOOSE x \in Newlines(s) : Chosen(x)
    BY DEF NthNewline
  <1>2. \E x \in Newlines(s) : Chosen(x)
    OBVIOUS
  <1> HIDE DEF Chosen
  <1>3. NthNewline(s, n) \in Newlines(s) /\ Chosen(NthNewline(s, n))
    BY <1>1, <1>2, Zenon
  <1> QED BY <1>3 DEF Chosen

(* The n-th newline is the one with n newlines up to it.                   *)
LEMMA NthIs ==
  ASSUME NEW S, NEW s \in Seq(S), NEW x \in Newlines(s), NEW n \in Nat \ {0},
         Cardinality(NewlinesUpTo(s, x)) = n
  PROVE  NthNewline(s, n) = x
  <1> DEFINE y == NthNewline(s, n)
  <1>1. n # 0
    OBVIOUS
  <1>2. y \in Newlines(s) /\ Cardinality(NewlinesUpTo(s, y)) = n
    BY <1>1, NthChosen
  <1> HIDE DEF y
  <1>3. x \in Int /\ y \in Int
    BY <1>2 DEF Newlines
  <1>4. ~(x < y) /\ ~(y < x)
    BY <1>2, CountGrows
  <1> QED BY <1>3, <1>4 DEF y

(* Bytes that are appended leave the newlines before them where they are.  *)
LEMMA NewlinesStay ==
  ASSUME NEW S, NEW s \in Seq(S), NEW t \in Seq(S)
  PROVE  /\ \A x : x \in Newlines(s) <=> x \in Newlines(s \o t) /\ x <= Len(s)
         /\ \A x \in Int : x <= Len(s) => NewlinesUpTo(s \o t, x) = NewlinesUpTo(s, x)
         /\ NewlinesUpTo(s \o t, Len(s)) = Newlines(s)
  <1> DEFINE u == s \o t
  <1>0. Len(s) \in Nat /\ Len(t) \in Nat
    OBVIOUS
  <1>1. Len(u) = Len(s) + Len(t) /\ \A j \in 1..Len(s) : u[j] = s[j]
    OBVIOUS
  <1> HIDE DEF u
  <1>2. \A x : x \in Newlines(s) <=> x \in Newlines(u) /\ x <= Len(s)
    BY <1>0, <1>1 DEF Newlines
  <1>3. \A x \in Newlines(s) : x \in Int /\ x <= Len(s)
    BY <1>0 DEF Newlines
  <1>a. \A x \in Newlines(u) : x \in Int
    BY DEF Newlines
  <1>4. ASSUME NEW x \in Int, x <= Len(s)
        PROVE  NewlinesUpTo(u, x) = NewlinesUpTo(s, x)
    <2>1. \A y \in NewlinesUpTo(u, x) : y \in NewlinesUpTo(s, x)
      BY <1>0, <1>2, <1>a, <1>4 DEF NewlinesUpTo
    <2>2. \A y \in NewlinesUpTo(s, x) : y \in NewlinesUpTo(u, x)
      BY <1>2 DEF NewlinesUpTo
    <2> QED BY <2>1, <2>2
  <1>5. NewlinesUpTo(u, Len(s)) = Newlines(s)
    BY <1>2 DEF NewlinesUpTo
  <1> QED BY <1>2, <1>4, <1>5 DEF u

(* ... so the n-th newline and the line before it stay what they are.      *)
LEMMA LinesStay ==
  ASSUME NEW S, NEW s \in Seq(S), NEW t \in Seq(S), NEW n \in Nat \ {0},
         \A k \in 1..n : \E x \in Newlines(s) : Cardinality(NewlinesUpTo(s, x)) = k
  PROVE  /\ \E x \in Newlines(s \o t) : Cardinality(NewlinesUpTo(s \o t, x)) = n
         /\ NthNewline(s \o t, n) = NthNewline(s, n)
         /\ NthNewline(s \o t, n - 1) = NthNewline(s, n - 1)
         /\ NthNewline(s, n) \in 1..Len(s)
         /\ NthNewline(s, n - 1) \in 0..Len(s)
  <1> DEFINE u == s \o t
  <1>0. u \in Seq(S) /\ n \in 1..n
    OBVIOUS
  <1>1. ASSUME NEW k \in 1..n
        PROVE  /\ \E x \in Newlines(u) : Cardinality(NewlinesUpTo(u, x)) = k
               /\ NthNewline(u, k) = NthNewline(s, k)
               /\ NthNewline(s, k) \in Newlines(s)
    <2>1. PICK x \in Newlines(s) : Cardinality(NewlinesUpTo(s, x)) = k
      OBVIOUS
    <2>2. x \in Int /\ x <= Len(s)
      BY DEF Newlines
    <2>3. x \in Newlines(u) /\ NewlinesUpTo(u, x) = NewlinesUpTo(s, x)
      BY <2>1, <2>2, NewlinesStay
    <2> HIDE DEF u
    <2>4. k \in Nat \ {0}
      OBVIOUS
    <2>5. NthNewline(s, k) = x
      BY <2>1, <2>4, NthIs
    <2>6. NthNewline(u, k) = x
      BY <1>0, <2>1, <2>3, <2>4, NthIs
    <2> QED BY <2>1, <2>3, <2>5, <2>6
  <1> HIDE DEF u
  <1>2. NthNewline(u, n - 1) = NthNewline(s, n - 1) /\ NthNewline(s, n - 1) \in 0..Len(s)
    <2>1. CASE n = 1
      <3>1. n - 1 = 0 /\ Len(s) \in Nat
        BY <2>1
      <3> QED BY <3>1 DEF NthNewline
    <2>2. CASE n # 1
      <3>1. n - 1 \in 1..n
        BY <2>2
      <3> QED BY <1>1, <3>1 DEF Newlines
    <2> QED BY <2>1, <2>2
  <1> QED BY <1>0, <1>1, <1>2 DEF u, Newlines

(* Parts of parts of a text, and of one that grows.                        *)
LEMMA PartOfRest ==
  ASSUME NEW S, NEW s \in Seq(S), NEW p \in 0..Len(s),
         NEW a \in Nat \ {0}, NEW z \in (a - 1)..(Len(s) - p)
  PROVE  /\ SubSeq(SubSeq(s, p + 1, Len(s)), a, z) = SubSeq(s, p + a, p + z)
         /\ Len(SubSeq(s, p + 1, Len(s))) = Len(s) - p
         /\ SubSeq(s, p + 1, Len(s)) \in Seq(S)
         /\ \A j \in 1..(Len(s) - p) : SubSeq(s, p + 1, Len(s))[j] = s[p + j]
  <1> DEFINE t == SubSeq(s, p + 1, Len(s))
             u == SubSeq(t, a, z)
             v == SubSeq(s, p + a, p + z)
  <1>1. /\ t \in Seq(S) /\ Len(t) = Len(s) - p
        /\ \A j \in 1..(Len(s) - p) : t[j] = s[p + j]
    OBVIOUS
  <1>2. v \in Seq(S) /\ Len(v) = z - a + 1 /\ \A j \in 1..(z - a + 1) : v[j] = s[p + a + j - 1]
    <2> DEFINE x == p + a
               y == p + z
    <2>1. x \in 1..(Len(s) + 1) /\ y \in (x - 1)..Len(s) /\ y - x + 1 = z - a + 1
      OBVIOUS
    <2> HIDE DEF x, y
    <2> DEFINE l == SubSeq(s, x, y)
    <2>2. l \in Seq(S) /\ Len(l) = y - x + 1 /\ \A j \in 1..Len(l) : l[j] = s[j + x - 1]
      BY <2>1, PartOf
    <2>3. \A j \in 1..(y - x + 1) : j + x - 1 = x + j - 1
      <3>1. x \in Int
        BY DEF x
      <3> QED BY <3>1
    <2>4. v = l
      BY DEF x, y
    <2> HIDE DEF l, v
    <2>5. \A j \in 1..(z - a + 1) : v[j] = s[x + j - 1]
      BY <2>1, <2>2, <2>3, <2>4
    <2> QED BY <2>1, <2>2, <2>4, <2>5 DEF x
  <1> HIDE DEF t
  <1>3. u \in Seq(S) /\ Len(u) = z - a + 1 /\ \A j \in 1..(z - a + 1) : u[j] = t[a + j - 1]
    <2>1. a \in 1..(Len(t) + 1) /\ z \in (a - 1)..Len(t)
      BY <1>1
    <2>2. u \in Seq(S) /\ Len(u) = z - a + 1 /\ \A j \in 1..Len(u) : u[j] = t[j + a - 1]
      BY <1>1, <2>1, PartOf
    <2>3. \A j \in 1..(z - a + 1) : j + a - 1 = a + j - 1
      OBVIOUS
    <2> QED BY <2>2, <2>3
  <1>4. \A j \in 1..(z - a + 1) : a + j - 1 \in 1..(Len(s) - p) /\ p + (a + j - 1) = p + a + j - 1
    OBVIOUS
  <1> HIDE DEF u, v
  <1>5. ASSUME NEW j \in 1..Len(u)
        PROVE  u[j] = v[j]
    <2>1. u[j] = t[a + j - 1] /\ v[j] = s[p + a + j - 1]
      BY <1>2, <1>3
    <2>2. t[a + j - 1] = s[p + (a + j - 1)]
      BY <1>1, <1>3, <1>4
    <2> QED BY <1>3, <1>4, <2>1, <2>2
  <1>6. u = v
    BY <1>2, <1>3, <1>5, SeqEqual
  <1> QED BY <1>1, <1>6 DEF t, u, v

LEMMA PartStays ==
  ASSUME NEW S, NEW s \in Seq(S), NEW t \in Seq(S), NEW a \in Nat \ {0}, NEW z \in Int,
         z <= Len(s)
  PROVE  SubSeq(s \o t, a, z) = SubSeq(s, a, z)
  OBVIOUS

LEMMA RestGrows ==
  ASSUME NEW S, NEW s \in Seq(S), NEW t \in Seq(S), NEW p \in 0..Len(s)
  PROVE  SubSeq(s \o t, p + 1, Len(s \o t)) = SubSeq(s, p + 1, Len(s)) \o t
  <1> DEFINE u == SubSeq(s \o t, p + 1, Len(s \o t))
             v == SubSeq(s, p + 1, Len(s)) \o t
  <1>1. u \in Seq(S) /\ v \in Seq(S) /\ Len(u) = Len(s) + Len(t) - p /\ Len(v) = Len(u)
    OBVIOUS
  <1>2. \A j \in 1..(Len(s) + Len(t) - p) : u[j] = v[j]
    OBVIOUS
  <1> HIDE DEF u, v
  <1>3. u = v
    BY <1>1, <1>2, SeqEqual
  <1> QED BY <1>3 DEF u, v

-----------------------------------------------------------------------------
(* The read buffer.                                                        *)

(* The first N newlines of s are there.                                    *)
Numbered(s, N) ==
  \A n \in 1..N : \E x \in Newlines(s) : Cardinality(NewlinesUpTo(s, x)) = n

(* The lines that are complete keep their place in a text that grows.      *)
LEMMA PoppedStay ==
  ASSUME NEW S, NEW s \in Seq(S), NEW t \in Seq(S), NEW N \in Nat,
         Numbered(s, N), NEW n \in 1..N
  PROVE  /\ \E x \in Newlines(s \o t) : Cardinality(NewlinesUpTo(s \o t, x)) = n
         /\ StreamLine(s \o t, n) = StreamLine(s, n)
         /\ WireLine(s \o t, n) = WireLine(s, n)
         /\ NthNewline(s, n) \in 1..Len(s)
         /\ NthNewline(s, n - 1) \in 0..Len(s)
  <1> DEFINE u == s \o t
             x == NthNewline(s, n)
             y == NthNewline(s, n - 1)
  <1>0. n \in Nat \ {0} /\ \A k \in 1..n : k \in 1..N
    OBVIOUS
  <1>1. /\ \E k \in Newlines(u) : Cardinality(NewlinesUpTo(u, k)) = n
        /\ NthNewline(u, n) = x /\ NthNewline(u, n - 1) = y
        /\ x \in 1..Len(s) /\ y \in 0..Len(s)
    <2>1. \A k \in 1..n : \E z \in Newlines(s) : Cardinality(NewlinesUpTo(s, z)) = k
      BY <1>0 DEF Numbered
    <2> QED BY <1>0, <2>1, LinesStay
  <1> HIDE DEF x, y
  <1>2. SubSeq(u, y + 1, x - 1) = SubSeq(s, y + 1, x - 1)
    <2>1. y + 1 \in Nat \ {0} /\ x - 1 \in Int /\ x - 1 <= Len(s)
      BY <1>1
    <2> QED BY <2>1, PartStays
  <1>3. SubSeq(u, y + 1, x) = SubSeq(s, y + 1, x)
    <2>1. y + 1 \in Nat \ {0} /\ x \in Int /\ x <= Len(s)
      BY <1>1
    <2> QED BY <2>1, PartStays
  <1> HIDE DEF u
  <1>4. StreamLine(u, n) = StreamLine(s, n) /\ WireLine(u, n) = WireLine(s, n)
    BY <1>1, <1>2, <1>3 DEF StreamLine, WireLine, x, y
  <1> QED BY <1>1, <1>4 DEF u, x, y

(* Where the parser is in the stream, and the first newline after it.      *)
LEMMA TakenType ==
  ASSUME ReadInv
  PROVE  /\ stream \in Seq(Byte) /\ Len(stream) \in Nat
         /\ _read_buffer \in Seq(Byte) /\ Len(_read_buffer) \in Nat
         /\ popped \in Seq(Txt) /\ Len(popped) \in Nat
         /\ Taken \in 0..Len(stream) /\ Len(_read_buffer) = Len(stream) - Taken
         /\ _read_buffer = SubSeq(stream, Taken + 1, Len(stream))
         /\ \A j \in 1..Len(_read_buffer) : _read_buffer[j] = stream[Taken + j]
  <1>1. /\ stream \in Seq(Byte) /\ Len(stream) \in Nat
        /\ _read_buffer \in Seq(Byte) /\ Len(_read_buffer) \in Nat
        /\ popped \in Seq(Txt) /\ Len(popped) \in Nat
        /\ Len(_read_buffer) <= Len(stream)
        /\ _read_buffer = SubSeq(stream, Taken + 1, Len(stream))
    BY DEF ReadInv, Txt
  <1>2. Taken \in 0..Len(stream) /\ Len(_read_buffer) = Len(stream) - Taken
    BY <1>1 DEF Taken
  <1> HIDE DEF Taken
  <1>3. 1 \in Nat \ {0} /\ 0 \in (1 - 1)..(Len(stream) - Taken)
    BY <1>1, <1>2
  <1>4. \A j \in 1..(Len(stream) - Taken) :
          SubSeq(stream, Taken + 1, Len(stream))[j] = stream[Taken + j]
    BY <1>1, <1>2, <1>3, PartOfRest
  <1> QED BY <1>1, <1>2, <1>4

(* The last newline taken is the one of the last line popped.              *)
LEMMA LastPopped ==
  ASSUME ReadInv
  PROVE  NthNewline(stream, Len(popped)) = Taken
  <1>1. /\ stream \in Seq(Byte) /\ Len(popped) \in Nat
        /\ Taken = 0 \/ Taken \in Newlines(stream)
        /\ Cardinality(NewlinesUpTo(stream, Taken)) = Len(popped)
    BY TakenType DEF ReadInv
  <1>2. CASE Taken = 0
    <2>1. NewlinesUpTo(stream, Taken) = {}
      BY <1>2 DEF NewlinesUpTo, Newlines
    <2>2. Len(popped) = 0
      BY <1>1, <2>1, FS_EmptySet
    <2> QED BY <1>2, <2>2 DEF NthNewline
  <1>3. CASE Taken \in Newlines(stream)
    <2>1. Taken \in NewlinesUpTo(stream, Taken)
      BY <1>1, <1>3 DEF NewlinesUpTo, Newlines
    <2>2. Len(popped) # 0
      BY <1>1, <2>1, CountType, FS_EmptySet
    <2> HIDE DEF Taken
    <2> QED BY <1>1, <1>3, <2>2, NthIs
  <1> QED BY <1>1, <1>2, <1>3

(* recv() appends to the stream and to the buffer.                         *)
LEMMA ReceiveStep ==
  ASSUME ReadInv, NEW chunk \in Chunk, receiveData(chunk)
  PROVE  ReadInv'
  <1> DEFINE s == stream
             b == _read_buffer
             p == Taken
  <1>1. /\ s \in Seq(Byte) /\ Len(s) \in Nat /\ b \in Seq(Byte) /\ Len(b) \in Nat
        /\ popped \in Seq(Txt) /\ Len(popped) \in Nat
        /\ p \in 0..Len(s) /\ Len(b) = Len(s) - p
    BY TakenType
  <1>a. b = SubSeq(s, p + 1, Len(s))
    BY TakenType
  <1>b. s \in Seq(Byte) /\ b \in Seq(Byte) /\ Len(popped) \in Nat
    BY <1>1
  <1>2. chunk \in Seq(Byte) /\ Len(chunk) \in 1..RecvSize
    <2>1. PICK n \in 1..RecvSize : chunk \in [1..n -> Data]
      BY DEF Chunk
    <2>2. n \in Nat
      BY RecvAssumption
    <2>3. chunk \in [1..n -> Byte]
      BY <2>1, DataAssumption
    <2> QED BY <2>2, <2>3 DEF receiveData
  <1>3. /\ stream' = s \o chunk /\ _read_buffer' = b \o chunk /\ popped' = popped
        /\ inLink = "open" /\ ~popping
    BY DEF receiveData
  <1>4. /\ Len(s \o chunk) = Len(s) + Len(chunk) /\ Len(b \o chunk) = Len(b) + Len(chunk)
        /\ s \o chunk \in Seq(Byte) /\ b \o chunk \in Seq(Byte)
    BY <1>b, <1>2, ConcatProperties
  <1>5. Taken' = p
    BY <1>1, <1>2, <1>3, <1>4 DEF Taken
  <1>6. b \o chunk = SubSeq(s \o chunk, p + 1, Len(s \o chunk))
    BY <1>1, <1>a, <1>2, RestGrows
  <1>7. /\ p = 0 \/ p \in Newlines(s \o chunk)
        /\ NewlinesUpTo(s \o chunk, p) = NewlinesUpTo(s, p)
    <2>1. p \in Int /\ p <= Len(s)
      BY <1>1
    <2>2. p = 0 \/ p \in Newlines(s)
      BY DEF ReadInv
    <2> HIDE DEF p
    <2> QED BY <1>1, <1>2, <2>1, <2>2, NewlinesStay
  <1>8. Cardinality(NewlinesUpTo(s, p)) = Len(popped)
    BY DEF ReadInv
  <1>9. PoppedInOrder'
    <2>1. \A n \in 1..Len(popped) : popped[n] = StreamLine(s, n)
      BY DEF ReadInv, PoppedInOrder
    <2>a. Numbered(s, Len(popped))
      BY DEF ReadInv, PoppedInOrder, Numbered
    <2>2. ASSUME NEW n \in 1..Len(popped)
          PROVE  /\ \E x \in Newlines(s \o chunk) : Cardinality(NewlinesUpTo(s \o chunk, x)) = n
                 /\ popped[n] = StreamLine(s \o chunk, n)
      <3>1. /\ \E x \in Newlines(s \o chunk) : Cardinality(NewlinesUpTo(s \o chunk, x)) = n
            /\ StreamLine(s \o chunk, n) = StreamLine(s, n)
        BY <1>b, <1>2, <2>a, PoppedStay
      <3> QED BY <2>1, <3>1
    <2> QED BY <1>3, <2>2 DEF PoppedInOrder
  <1>10. ~hasCompleteLine(b) /\ ShortTails(b) /\ Len(b) <= InMax
    <2>1. ~hasCompleteLine(b) /\ ShortTails(b)
      BY <1>3 DEF ReadInv
    <2>2. CASE Len(b) = 0
      BY <2>1, <2>2, RecvAssumption
    <2>3. CASE Len(b) # 0
      <3>1. 1 \in 1..Len(b) /\ Len(b) - 1 + 1 = Len(b)
        BY <1>1, <2>3
      <3>2. \A j \in 1..Len(b) : b[j] # LF
        BY <2>1 DEF hasCompleteLine, Occurs
      <3> HIDE DEF b
      <3> QED BY <2>1, <3>1, <3>2 DEF ShortTails
    <2> QED BY <2>1, <2>2, <2>3
  <1>11. Len(b \o chunk) <= InMax + RecvSize
    BY <1>1, <1>2, <1>4, <1>10, RecvAssumption
  <1>12. ASSUME ~overflows(b \o chunk)
         PROVE  ShortTails(b \o chunk)
    <2> DEFINE c == b \o chunk
    <2> SUFFICES ShortTails(c)
      OBVIOUS
    <2>1. \A j \in 1..Len(b) : c[j] = b[j]
      BY <1>1, <1>2
    <2>2. Len(c) = Len(b) + Len(chunk) /\ c \in Seq(Byte)
      BY <1>4
    <2> HIDE DEF c
    <2>3. CASE Len(c) <= InMax
      BY <1>1, <1>2, <2>2, <2>3, RecvAssumption DEF ShortTails
    <2>4. CASE hasCompleteLine(c)
      <3>1. PICK k \in 1..Len(c) : c[k] = LF
        BY <2>4 DEF hasCompleteLine, Occurs
      <3>2. k \notin 1..Len(b)
        BY <1>10, <2>1, <3>1 DEF hasCompleteLine, Occurs
      <3> SUFFICES ASSUME NEW h \in 1..Len(c), \A j \in h..Len(c) : c[j] # LF
                   PROVE  Len(c) - h + 1 <= InMax
        BY DEF ShortTails
      <3>3. k \notin h..Len(c)
        BY <3>1
      <3>4. h > Len(b) + 1
        BY <1>1, <1>2, <2>2, <3>1, <3>2, <3>3
      <3> QED BY <1>1, <1>2, <2>2, <3>4, RecvAssumption, LimitsAssumption
    <2>5. Len(c) <= InMax \/ hasCompleteLine(c)
      BY <1>12, <1>1, <1>2, <2>2, RecvAssumption DEF overflows, c
    <2> QED BY <2>3, <2>4, <2>5
  <1>13. \/ overflows(b \o chunk) /\ inLink' = "overflow"
         \/ ShortTails(b \o chunk) /\ inLink' = "open" /\ popping'
    <2>1. overflows(b \o chunk) => inLink' = "overflow"
      BY DEF receiveData
    <2>2. ~overflows(b \o chunk) => inLink' = "open" /\ popping'
      BY <1>3 DEF receiveData
    <2> QED BY <1>12, <2>1, <2>2
  <1>14. /\ (stream \in Txt)' /\ (_read_buffer \in Txt)' /\ (popped \in Seq(Txt))'
         /\ (Len(_read_buffer) <= Len(stream))'
    BY <1>1, <1>2, <1>3, <1>4 DEF Txt
  <1>15. (_read_buffer = SubSeq(stream, Taken + 1, Len(stream)))'
    BY <1>3, <1>5, <1>6
  <1>16. /\ (Taken = 0 \/ Taken \in Newlines(stream))'
         /\ (Cardinality(NewlinesUpTo(stream, Taken)) = Len(popped))'
    BY <1>3, <1>5, <1>7, <1>8
  <1>17. /\ (Len(_read_buffer) <= InMax + RecvSize)'
         /\ (inLink = "open" => ShortTails(_read_buffer))'
         /\ (inLink = "open" /\ ~popping => ~hasCompleteLine(_read_buffer))'
         /\ (inLink = "overflow" => overflows(_read_buffer))'
    BY <1>3, <1>11, <1>13
  <1> QED BY <1>9, <1>14, <1>15, <1>16, <1>17 DEF ReadInv

(* popLine moves the newline it finds, and what is before it, from the     *)
(* buffer to the lines.                                                    *)
LEMMA PopStep ==
  ASSUME ReadInv, NEW done \in BOOLEAN, popLine(done)
  PROVE  ReadInv'
  <1> DEFINE s == stream
             b == _read_buffer
             p == Taken
             q == Newline
             N == Len(popped)
  <1>1. /\ s \in Seq(Byte) /\ Len(s) \in Nat /\ b \in Seq(Byte) /\ Len(b) \in Nat
        /\ popped \in Seq(Txt) /\ N \in Nat
        /\ p \in 0..Len(s) /\ Len(b) = Len(s) - p
    BY TakenType
  <1>2. b = SubSeq(s, p + 1, Len(s)) /\ \A j \in 1..Len(b) : b[j] = s[p + j]
    BY TakenType
  <1>3. q \in 1..Len(b) /\ b[q] = LF /\ \A j \in 1..(q - 1) : b[j] # LF
    <2>1. PICK k \in 1..Len(b) : b[k] = LF
      BY DEF popLine, hasCompleteLine, Occurs
    <2>2. b \in Seq(Byte) /\ 1 \in 1..(Len(b) + 1)
      BY <1>1
    <2>3. /\ q \in 1..(Len(b) + 1)
          /\ q <= Len(b) => b[q] = LF
          /\ \A j \in 1..(q - 1) : b[j] # LF
      BY <2>2, FindStops DEF Newline
    <2> HIDE DEF q
    <2> QED BY <1>1, <2>1, <2>3
  <1> DEFINE line == withoutCR(SubSeq(b, 1, q - 1))
  <1>4. /\ popped' = Append(popped, line)
        /\ _read_buffer' = SubSeq(b, q + 1, Len(b)) /\ stream' = s
        /\ inLink = "open" /\ popping /\ popping' = popping
    BY DEF popLine, erase, substr
  <1> HIDE DEF q
  <1>5. /\ SubSeq(b, 1, q - 1) = SubSeq(s, p + 1, p + q - 1)
        /\ SubSeq(b, q + 1, Len(b)) = SubSeq(s, p + q + 1, Len(s))
    <2>1. 1 \in Nat \ {0} /\ q - 1 \in (1 - 1)..(Len(s) - p) /\ p + (q - 1) = p + q - 1
      BY <1>1, <1>3
    <2>2. /\ q + 1 \in Nat \ {0} /\ Len(b) \in ((q + 1) - 1)..(Len(s) - p)
          /\ p + (q + 1) = p + q + 1 /\ p + Len(b) = Len(s)
      BY <1>1, <1>3
    <2>3. SubSeq(SubSeq(s, p + 1, Len(s)), 1, q - 1) = SubSeq(s, p + 1, p + (q - 1))
      BY <1>1, <2>1, PartOfRest
    <2>4. SubSeq(SubSeq(s, p + 1, Len(s)), q + 1, Len(b)) = SubSeq(s, p + (q + 1), p + Len(b))
      BY <1>1, <2>2, PartOfRest
    <2> QED BY <1>2, <2>1, <2>2, <2>3, <2>4
  <1>6. /\ p + q \in 1..Len(s) /\ s[p + q] = LF
        /\ \A j \in (p + 1)..(p + q - 1) : s[j] # LF
    <2>1. p + q \in 1..Len(s) /\ s[p + q] = LF
      BY <1>1, <1>2, <1>3
    <2>2. ASSUME NEW j \in (p + 1)..(p + q - 1)
          PROVE  s[j] # LF
      <3>1. j - p \in 1..(q - 1) /\ j - p \in 1..Len(b) /\ p + (j - p) = j
        BY <1>1, <1>3
      <3> QED BY <1>2, <1>3, <3>1
    <2> QED BY <2>1, <2>2
  <1> DEFINE r == p + q
  <1>7. r \in Newlines(s) /\ r \in Nat
    BY <1>1, <1>6 DEF Newlines
  <1>8. Taken' = r
    <2>1. Len(SubSeq(b, q + 1, Len(b))) = Len(b) - q
      BY <1>1, <1>3
    <2>2. Taken' = Len(s) - (Len(b) - q)
      BY <1>4, <2>1 DEF Taken
    <2> HIDE DEF p
    <2> QED BY <1>1, <1>3, <2>2
  <1>9. NewlinesUpTo(s, r) = NewlinesUpTo(s, p) \cup {r} /\ r \notin NewlinesUpTo(s, p)
    <2>1. \A x \in Newlines(s) : x \in Nat /\ s[x] = LF
      BY DEF Newlines
    <2>2. \A x \in Newlines(s) : x <= r <=> x <= p \/ x = r
      <3> SUFFICES ASSUME NEW x \in Newlines(s), x <= r, ~(x <= p), x # r
                   PROVE  FALSE
        BY <1>1, <1>3, <2>1
      <3>0. x \in Int /\ p \in Int /\ q \in Int
        BY <1>1, <1>3, <2>1
      <3> HIDE DEF p
      <3>1. x \in (p + 1)..(p + q - 1)
        BY <3>0
      <3> QED BY <1>6, <2>1, <3>1
    <2>3. ~(r <= p)
      BY <1>1, <1>3
    <2> HIDE DEF r, p
    <2> QED BY <1>7, <2>2, <2>3 DEF NewlinesUpTo
  <1> HIDE DEF r, line
  <1>10. Cardinality(NewlinesUpTo(s, p)) = N
    BY DEF ReadInv
  <1>11. Cardinality(NewlinesUpTo(s, r)) = N + 1
    <2>1. IsFiniteSet(NewlinesUpTo(s, p))
      BY <1>1, CountType
    <2> QED BY <1>9, <1>10, <2>1, FS_AddElement
  <1>12. NthNewline(s, N) = p /\ NthNewline(s, N + 1) = r
    <2>1. NthNewline(s, N) = p
      BY LastPopped
    <2>2. N + 1 \in Nat \ {0}
      BY <1>1
    <2> QED BY <1>1, <1>7, <1>11, <2>1, <2>2, NthIs
  <1>13. line = StreamLine(s, N + 1)
    <2>1. N + 1 - 1 = N
      BY <1>1
    <2>2. NthNewline(s, N + 1 - 1) = p
      BY <1>12, <2>1
    <2>3. StreamLine(s, N + 1) = withoutCR(SubSeq(s, p + 1, r - 1))
      BY <1>12, <2>2 DEF StreamLine
    <2>b. p \in Int /\ q \in Int
      BY <1>1, <1>3
    <2> HIDE DEF b, p, s
    <2>a. r - 1 = p + q - 1
      BY <2>b DEF r
    <2>4. SubSeq(s, p + 1, r - 1) = SubSeq(b, 1, q - 1)
      BY <1>5, <2>a, Zenon
    <2> QED BY <2>3, <2>4 DEF line
  <1>14. line \in Txt
    <2>1. SubSeq(b, 1, q - 1) \in Seq(Byte)
      BY <1>1, <1>3
    <2> QED BY <2>1 DEF withoutCR, Txt, line
  <1>15. /\ popped' \in Seq(Txt) /\ Len(popped') = N + 1
         /\ \A n \in 1..(N + 1) : IF n = N + 1 THEN popped'[n] = line
                                  ELSE n \in 1..N /\ popped'[n] = popped[n]
    BY <1>1, <1>4, <1>14
  <1>16. PoppedInOrder'
    <2>1. \A n \in 1..N : /\ \E x \in Newlines(s) : Cardinality(NewlinesUpTo(s, x)) = n
                          /\ popped[n] = StreamLine(s, n)
      BY DEF ReadInv, PoppedInOrder
    <2>2. ASSUME NEW n \in 1..(N + 1)
          PROVE  /\ \E x \in Newlines(s) : Cardinality(NewlinesUpTo(s, x)) = n
                 /\ popped'[n] = StreamLine(s, n)
      <3>1. CASE n = N + 1
        BY <1>7, <1>11, <1>13, <1>15, <3>1
      <3>2. CASE n # N + 1
        BY <1>15, <2>1, <3>2
      <3> QED BY <3>1, <3>2
    <2> QED BY <1>4, <1>15, <2>2 DEF PoppedInOrder
  <1> DEFINE c == SubSeq(b, q + 1, Len(b))
  <1>17. /\ c \in Seq(Byte) /\ Len(c) = Len(b) - q
         /\ \A j \in 1..Len(c) : q + j \in 1..Len(b) /\ c[j] = b[q + j]
    <2>1. q + 1 \in 1..(Len(b) + 1) /\ Len(b) \in ((q + 1) - 1)..Len(b)
      BY <1>1, <1>3
    <2>2. /\ c \in Seq(Byte) /\ Len(c) = Len(b) - (q + 1) + 1
          /\ \A j \in 1..Len(c) : /\ j + (q + 1) - 1 \in (q + 1)..Len(b)
                                 /\ c[j] = b[j + (q + 1) - 1]
      BY <1>1, <2>1, PartOf
    <2> HIDE DEF c
    <2>3. Len(c) = Len(b) - q
      BY <1>1, <1>3, <2>2
    <2>4. \A j \in 1..Len(c) : q + j \in 1..Len(b) /\ j + (q + 1) - 1 = q + j
      BY <1>1, <1>3, <2>3
    <2> QED BY <2>2, <2>3, <2>4
  <1>a. c = SubSeq(s, r + 1, Len(s)) /\ _read_buffer' = c
    BY <1>4, <1>5 DEF r
  <1> HIDE DEF c
  <1>18. ShortTails(c)
    <2>1. ShortTails(b)
      BY <1>4 DEF ReadInv
    <2> SUFFICES ASSUME NEW h \in 1..Len(c), \A j \in h..Len(c) : c[j] # LF
                 PROVE  Len(c) - h + 1 <= InMax
      BY DEF ShortTails
    <2>2. q + h \in 1..Len(b) /\ Len(b) - (q + h) + 1 = Len(c) - h + 1
      BY <1>1, <1>3, <1>17
    <2>3. ASSUME NEW j \in (q + h)..Len(b)
          PROVE  b[j] # LF
      <3>1. j - q \in h..Len(c) /\ j - q \in 1..Len(c) /\ q + (j - q) = j
        BY <1>1, <1>3, <1>17
      <3> QED BY <1>17, <3>1
    <2>4. Len(b) - (q + h) + 1 <= InMax
      BY <2>1, <2>2, <2>3 DEF ShortTails
    <2> QED BY <2>2, <2>4
  <1>19. /\ (stream \in Txt)' /\ (_read_buffer \in Txt)' /\ (popped \in Seq(Txt))'
         /\ (Len(_read_buffer) <= Len(stream))'
    <2>1. Len(c) <= Len(s)
      BY <1>1, <1>3, <1>17
    <2> QED BY <1>1, <1>4, <1>a, <1>15, <1>17, <2>1 DEF Txt
  <1>20. (_read_buffer = SubSeq(stream, Taken + 1, Len(stream)))'
    BY <1>4, <1>8, <1>a
  <1>21. /\ (Taken = 0 \/ Taken \in Newlines(stream))'
         /\ (Cardinality(NewlinesUpTo(stream, Taken)) = Len(popped))'
    BY <1>4, <1>7, <1>8, <1>11, <1>15
  <1>22. (Len(_read_buffer) <= InMax + RecvSize)'
    <2>1. Len(b) <= InMax + RecvSize
      BY DEF ReadInv
    <2>2. Len(c) <= InMax + RecvSize
      BY <1>1, <1>3, <1>17, <2>1, RecvAssumption
    <2> QED BY <1>a, <2>2
  <1>23. /\ (inLink = "open" => ShortTails(_read_buffer))'
         /\ (inLink = "open" /\ ~popping => ~hasCompleteLine(_read_buffer))'
         /\ (inLink = "overflow" => overflows(_read_buffer))'
    <2>1. inLink' # "overflow"
      BY DEF popLine
    <2> QED BY <1>4, <1>a, <1>18, <2>1
  <1> QED BY <1>16, <1>19, <1>20, <1>21, <1>22, <1>23 DEF ReadInv

LEMMA ReadStep == ASSUME ReadInv, [ReadNext]_readVars PROVE ReadInv'
  <1>1. ASSUME UNCHANGED <<_read_buffer, stream, popped>>,
               inLink' = "open" => inLink = "open",
               inLink' = "open" /\ ~popping' => ~hasCompleteLine(_read_buffer),
               inLink' = "overflow" => inLink = "overflow"
        PROVE  ReadInv'
    BY <1>1 DEF ReadInv, Taken, PoppedInOrder
  <1>2. CASE UNCHANGED readVars
    BY <1>1, <1>2 DEF readVars, ReadInv
  <1>3. CASE loopEnds
    BY <1>1, <1>3 DEF loopEnds
  <1>4. CASE closeLink
    BY <1>1, <1>4 DEF closeLink
  <1> QED BY <1>2, <1>3, <1>4, ReceiveStep, PopStep DEF ReadNext

LEMMA ReadAlways == ReadSpec => []ReadInv
  <1>1. ReadInit => ReadInv
    <2> SUFFICES ASSUME ReadInit PROVE ReadInv
      OBVIOUS
    <2>1. /\ stream = <<>> /\ _read_buffer = <<>> /\ popped = <<>> /\ inLink = "open"
      BY DEF ReadInit
    <2>2. <<>> \in Txt /\ <<>> \in Seq(Txt) /\ Len(<<>>) = 0
      BY DEF Txt
    <2>3. Taken = 0
      BY <2>1, <2>2 DEF Taken
    <2>4. SubSeq(<<>>, 0 + 1, Len(<<>>)) = <<>>
      BY <2>2
    <2>5. NewlinesUpTo(<<>>, 0) = {}
      BY <2>2 DEF NewlinesUpTo, Newlines
    <2>6. PoppedInOrder /\ ShortTails(<<>>) /\ ~hasCompleteLine(<<>>)
      BY <2>1, <2>2 DEF PoppedInOrder, ShortTails, hasCompleteLine, Occurs
    <2>7. 0 <= InMax + RecvSize
      BY RecvAssumption
    <2> QED BY <2>1, <2>2, <2>3, <2>4, <2>5, <2>6, <2>7, FS_EmptySet DEF ReadInv
  <1> QED BY <1>1, ReadStep, PTL DEF ReadSpec

(* However the network cuts a stream, and whatever its bytes are, popLine  *)
(* takes its lines in order and whole (ChunkingInvisible).                 *)
THEOREM LinesArriveWhole == ReadSpec => []ChunkingInvisible
  <1>1. ASSUME ReadInv
        PROVE  ChunkingInvisible
    <2>1. /\ \A n \in 1..Len(popped) : popped[n] = StreamLine(stream, n)
          /\ _read_buffer = SubSeq(stream, NthNewline(stream, Len(popped)) + 1, Len(stream))
      BY <1>1, LastPopped DEF ReadInv, PoppedInOrder
    <2>2. ASSUME inLink = "open", ~popping
          PROVE  Len(popped) = Cardinality(Newlines(stream))
      <3>1. ~hasCompleteLine(_read_buffer)
        BY <1>1, <2>2 DEF ReadInv
      <3>2. ASSUME NEW x \in Newlines(stream)
            PROVE  x <= Taken
        <4> SUFFICES ASSUME ~(x <= Taken) PROVE FALSE
          OBVIOUS
        <4>1. x \in 1..Len(stream) /\ stream[x] = LF
          BY DEF Newlines
        <4>2. x - Taken \in 1..Len(_read_buffer) /\ Taken + (x - Taken) = x
          BY <1>1, <4>1, TakenType
        <4>3. _read_buffer[x - Taken] = LF
          BY <1>1, <4>1, <4>2, TakenType
        <4> QED BY <3>1, <4>2, <4>3 DEF hasCompleteLine, Occurs
      <3>3. NewlinesUpTo(stream, Taken) = Newlines(stream)
        BY <3>2 DEF NewlinesUpTo
      <3> QED BY <1>1, <3>3 DEF ReadInv
    <2> QED BY <2>1, <2>2 DEF ChunkingInvisible
  <1> QED BY <1>1, ReadAlways, PTL

(* A connection never holds more than it may, and is marked for flooding   *)
(* only if its last InMax + 1 bytes hold no newline, for every limit and   *)
(* every size of recv() with RecvSize <= InMax + 1 (FloodLimit).           *)
THEOREM FloodIsBounded == ReadSpec => []FloodLimit
  <1>1. ASSUME ReadInv
        PROVE  FloodLimit
    <2>1. Len(_read_buffer) <= InMax + RecvSize
      BY <1>1 DEF ReadInv
    <2>2. ASSUME inLink = "open", ~popping
          PROVE  Len(_read_buffer) <= InMax
      <3>1. ~hasCompleteLine(_read_buffer) /\ ShortTails(_read_buffer)
        BY <1>1, <2>2 DEF ReadInv
      <3>2. Len(_read_buffer) \in Nat
        BY <1>1, TakenType
      <3>3. CASE Len(_read_buffer) = 0
        BY <3>3, RecvAssumption
      <3>4. CASE Len(_read_buffer) # 0
        <4>1. 1 \in 1..Len(_read_buffer) /\ Len(_read_buffer) - 1 + 1 = Len(_read_buffer)
          BY <3>2, <3>4
        <4>2. \A j \in 1..Len(_read_buffer) : _read_buffer[j] # LF
          BY <3>1 DEF hasCompleteLine, Occurs
        <4> QED BY <3>1, <4>1, <4>2 DEF ShortTails
      <3> QED BY <3>3, <3>4
    <2>3. ASSUME inLink = "overflow"
          PROVE  /\ Len(stream) > InMax
                 /\ \A k \in (Len(stream) - InMax)..Len(stream) : stream[k] # LF
      <3>1. Len(_read_buffer) > InMax /\ ~hasCompleteLine(_read_buffer)
        BY <1>1, <2>3 DEF ReadInv, overflows
      <3>2. Len(stream) > InMax
        BY <1>1, <3>1, TakenType, RecvAssumption
      <3>3. ASSUME NEW k \in (Len(stream) - InMax)..Len(stream), stream[k] = LF
            PROVE  FALSE
        <4>1. k - Taken \in 1..Len(_read_buffer) /\ Taken + (k - Taken) = k
          BY <1>1, <3>1, TakenType, RecvAssumption
        <4>2. _read_buffer[k - Taken] = LF
          BY <1>1, <3>3, <4>1, TakenType
        <4> QED BY <3>1, <4>1, <4>2 DEF hasCompleteLine, Occurs
      <3> QED BY <3>2, <3>3
    <2> QED BY <2>1, <2>2, <2>3 DEF FloodLimit
  <1> QED BY <1>1, ReadAlways, PTL

-----------------------------------------------------------------------------
(* The write buffer.                                                       *)

(* What a line on the wire must be to be the reply m.                      *)
IsLineOf(line, m) ==
  LET body == SubSeq(line, 1, Len(line) - 2)
  IN  /\ Len(line) \in 2..(MaxLine + 2)
      /\ SubSeq(line, Len(line) - 1, Len(line)) = CRLF
      /\ body = SubSeq(m, 1, Len(body))
      /\ body = m \/ Len(body) >= MaxLine - 3
      /\ IsUtf8(m) => IsUtf8(body)

(* The bytes of a reply end in the only newline among them.                *)
LEMMA Formatted ==
  ASSUME NEW m \in Txt, ~Occurs(LF, m)
  PROVE  /\ format(m) \in Seq(Byte) /\ Len(format(m)) \in Nat \ {0}
         /\ format(m)[Len(format(m))] = LF
         /\ \A j \in 1..(Len(format(m)) - 1) : format(m)[j] # LF
         /\ IsLineOf(format(m), m)
  <1> DEFINE t == cutLine(m, MaxLine)
             f == format(m)
  <1>0. m \in Seq(Byte) /\ Len(m) \in Nat
    BY DEF Txt
  <1>1. /\ t \in Seq(Byte) /\ Len(t) <= MaxLine /\ Len(t) <= Len(m)
        /\ t = m \/ Len(t) >= MaxLine - 3
        /\ IsUtf8(m) => IsUtf8(t)
    <2>1. MaxLine \in Nat /\ MaxLine - 3 \in 0..MaxLine /\ (MaxLine - 3) + 3 <= MaxLine
      BY MaxLineAssumption
    <2>2. t = Shorten(m, MaxLine, MaxLine - 3)
      BY DEF cutLine
    <2> QED BY <1>0, <2>1, <2>2, CutKeeps
  <1>2. t = SubSeq(m, 1, Len(t))
    <2>1. MaxLine \in Nat /\ MaxLine - 3 \in 0..MaxLine /\ (MaxLine - 3) + 3 <= MaxLine
      BY MaxLineAssumption
    <2>2. t = Shorten(m, MaxLine, MaxLine - 3)
      BY DEF cutLine
    <2> QED BY <1>0, <2>1, <2>2, CutKeeps
  <1>3. ~Occurs(LF, t)
    <2>1. NoByte(m, {LF}) /\ 1 \in 1..(Len(m) + 1) /\ Len(t) \in (1 - 1)..Len(m)
      BY <1>0, <1>1 DEF NoByte
    <2>2. NoByte(SubSeq(m, 1, Len(t)), {LF})
      BY <1>0, <2>1, PartOf
    <2> QED BY <1>2, <2>2 DEF NoByte
  <1>4. f = t \o CRLF
    BY DEF format
  <1>5. Len(t) \in Nat /\ CR \in Byte /\ LF \in Byte /\ CR # LF
    BY <1>1 DEF CR, LF, Byte
  <1> HIDE DEF t, f
  <1>6. CRLF \in Seq(Byte) /\ Len(CRLF) = 2 /\ CRLF[1] = CR /\ CRLF[2] = LF
    BY <1>5 DEF CRLF
  <1>7. /\ f \in Seq(Byte) /\ Len(f) = Len(t) + 2
        /\ \A j \in 1..(Len(t) + 2) : f[j] = IF j <= Len(t) THEN t[j] ELSE CRLF[j - Len(t)]
    <2>1. t \in Seq(Byte) /\ CRLF \in Seq(Byte)
      BY <1>1, <1>6
    <2>2. /\ t \o CRLF \in Seq(Byte) /\ Len(t \o CRLF) = Len(t) + Len(CRLF)
          /\ \A j \in 1..(Len(t) + Len(CRLF)) :
               (t \o CRLF)[j] = IF j <= Len(t) THEN t[j] ELSE CRLF[j - Len(t)]
      BY <2>1, ConcatProperties
    <2> QED BY <1>4, <1>6, <2>2, Zenon
  <1>8. f[Len(f)] = LF
    <2>1. Len(f) \in 1..(Len(t) + 2) /\ ~(Len(f) <= Len(t)) /\ Len(f) - Len(t) = 2
      BY <1>5, <1>7
    <2> QED BY <1>6, <1>7, <2>1
  <1>9. ASSUME NEW j \in 1..(Len(f) - 1)
        PROVE  f[j] # LF
    <2>1. j \in 1..(Len(t) + 2) /\ (j \in 1..Len(t) \/ (~(j <= Len(t)) /\ j - Len(t) = 1))
      BY <1>5, <1>7
    <2>2. CASE j \in 1..Len(t)
      <3>1. f[j] = t[j]
        BY <1>5, <1>7, <2>1, <2>2
      <3> QED BY <1>3, <2>2, <3>1 DEF Occurs
    <2>3. CASE ~(j <= Len(t)) /\ j - Len(t) = 1
      BY <1>5, <1>6, <1>7, <2>1, <2>3
    <2> QED BY <2>1, <2>2, <2>3
  <1>10. SubSeq(f, 1, Len(f) - 2) = t
    <2>1. Len(f) - 2 = Len(t)
      BY <1>5, <1>7
    <2> DEFINE u == SubSeq(f, 1, Len(t))
    <2>2. u \in Seq(Byte) /\ Len(u) = Len(t) /\ \A j \in 1..Len(t) : u[j] = f[j]
      BY <1>5, <1>7
    <2> HIDE DEF u
    <2>3. \A j \in 1..Len(u) : u[j] = t[j]
      BY <1>5, <1>7, <2>2
    <2>4. u = t
      BY <1>1, <2>2, <2>3, SeqEqual
    <2> QED BY <2>1, <2>4 DEF u
  <1>11. SubSeq(f, Len(f) - 1, Len(f)) = CRLF
    <2> DEFINE u == SubSeq(f, Len(f) - 1, Len(f))
    <2>1. Len(f) - 1 \in 1..(Len(f) + 1) /\ Len(f) \in ((Len(f) - 1) - 1)..Len(f)
      BY <1>5, <1>7
    <2>2. u \in Seq(Byte) /\ Len(u) = Len(f) - (Len(f) - 1) + 1
      BY <1>7, <2>1, PartOf
    <2>3. \A j \in 1..Len(u) : u[j] = f[j + (Len(f) - 1) - 1]
      BY <1>7, <2>1, PartOf
    <2> HIDE DEF u
    <2>4. Len(u) = 2 /\ 1 + (Len(f) - 1) - 1 = Len(t) + 1 /\ 2 + (Len(f) - 1) - 1 = Len(t) + 2
      BY <1>5, <1>7, <2>2
    <2>5. 1 \in 1..Len(u) /\ 2 \in 1..Len(u)
      BY <2>4
    <2>6. u[1] = f[Len(t) + 1] /\ u[2] = f[Len(t) + 2]
      BY <2>3, <2>4, <2>5
    <2>7. /\ Len(t) + 1 \in 1..(Len(t) + 2) /\ ~(Len(t) + 1 <= Len(t)) /\ (Len(t) + 1) - Len(t) = 1
          /\ Len(t) + 2 \in 1..(Len(t) + 2) /\ ~(Len(t) + 2 <= Len(t)) /\ (Len(t) + 2) - Len(t) = 2
      BY <1>5
    <2>8. u[1] = CRLF[1] /\ u[2] = CRLF[2]
      BY <1>7, <2>6, <2>7
    <2>9. \A j \in 1..Len(u) : u[j] = CRLF[j]
      <3>1. \A j \in 1..Len(u) : j = 1 \/ j = 2
        BY <2>4
      <3> QED BY <2>8, <3>1
    <2>10. u = CRLF
      BY <1>6, <2>2, <2>4, <2>9, SeqEqual
    <2> QED BY <2>10 DEF u
  <1>12. IsLineOf(f, m)
    <2>1. Len(f) \in 2..(MaxLine + 2)
      BY <1>1, <1>5, <1>7, MaxLineAssumption
    <2> QED BY <1>1, <1>2, <1>10, <1>11, <2>1 DEF IsLineOf
  <1>13. Len(f) \in Nat \ {0}
    BY <1>5, <1>7
  <1> QED BY <1>7, <1>8, <1>9, <1>12, <1>13 DEF f

(* A reply that is appended is one line more.                              *)
LEMMA LineAdded ==
  ASSUME NEW s \in Seq(Byte), NEW r \in Seq(Reply \cup {ErrorLine}),
         NEW m \in Reply \cup {ErrorLine}, AsLines(s, r)
  PROVE  AsLines(s \o format(m), Append(r, m))
  <1> DEFINE f == format(m)
             u == s \o f
             N == Len(r)
             z == Len(s) + Len(f)
  <1>1. m \in Txt /\ ~Occurs(LF, m)
    BY ReplyAssumption
  <1>2. /\ f \in Seq(Byte) /\ Len(f) \in Nat \ {0} /\ f[Len(f)] = LF
        /\ \A j \in 1..(Len(f) - 1) : f[j] # LF
    BY <1>1, Formatted
  <1> HIDE DEF f
  <1>3. /\ u \in Seq(Byte) /\ Len(u) = z /\ Len(s) \in Nat /\ z \in Nat \ {0} /\ z > Len(s)
        /\ N \in Nat
        /\ \A j \in 1..z : u[j] = IF j <= Len(s) THEN s[j] ELSE f[j - Len(s)]
    <2>1. f \in Seq(Byte)
      BY <1>2
    <2>2. /\ u \in Seq(Byte) /\ Len(u) = Len(s) + Len(f)
          /\ \A j \in 1..(Len(s) + Len(f)) : u[j] = IF j <= Len(s) THEN s[j] ELSE f[j - Len(s)]
      BY <2>1, ConcatProperties
    <2> HIDE DEF u
    <2>3. Len(s) \in Nat /\ Len(s) + Len(f) \in Nat \ {0} /\ Len(s) + Len(f) > Len(s) /\ N \in Nat
      BY <1>2
    <2> QED BY <2>2, <2>3
  <1>4. /\ \A x : x \in Newlines(s) <=> x \in Newlines(u) /\ x <= Len(s)
        /\ NewlinesUpTo(u, Len(s)) = Newlines(s)
    BY <1>2, NewlinesStay
  <1>5. /\ Cardinality(Newlines(s)) = N
        /\ s # <<>> => s[Len(s)] = LF
    BY DEF AsLines
  <1>a. Numbered(s, N)
    BY DEF AsLines, Numbered
  <1>b. \A n \in 1..N : WireLine(s, n) = format(r[n])
    BY DEF AsLines
  <1>6. u[z] = LF
    <2>1. z \in 1..z /\ ~(z <= Len(s)) /\ z - Len(s) = Len(f)
      BY <1>2, <1>3
    <2> HIDE DEF u, z
    <2> QED BY <1>2, <1>3, <2>1
  <1>c. \A n \in 1..N : WireLine(u, n) = format(r[n])
    <2>1. \A n \in 1..N : WireLine(u, n) = WireLine(s, n)
      BY <1>2, <1>3, <1>a, PoppedStay
    <2> QED BY <1>b, <2>1
  <1>d. \A n \in 1..N : \E x \in Newlines(u) : Cardinality(NewlinesUpTo(u, x)) = n
    BY <1>2, <1>3, <1>a, PoppedStay
  <1>e. SubSeq(u, Len(s) + 1, z) = f
    <2> DEFINE v == SubSeq(u, Len(s) + 1, z)
    <2>1. Len(s) + 1 \in 1..(z + 1) /\ z \in ((Len(s) + 1) - 1)..z
      BY <1>2, <1>3
    <2> HIDE DEF u, z
    <2>2. v \in Seq(Byte) /\ Len(v) = z - (Len(s) + 1) + 1
      BY <1>3, <2>1, PartOf
    <2>3. \A j \in 1..Len(v) : v[j] = u[j + (Len(s) + 1) - 1]
      BY <1>3, <2>1, PartOf
    <2> HIDE DEF v
    <2>4. Len(v) = Len(f)
      BY <1>2, <1>3, <2>2 DEF z
    <2>5. ASSUME NEW j \in 1..Len(v)
          PROVE  v[j] = f[j]
      <3>1. /\ j + (Len(s) + 1) - 1 = j + Len(s) /\ j + Len(s) \in 1..z
            /\ ~(j + Len(s) <= Len(s)) /\ (j + Len(s)) - Len(s) = j
        BY <1>2, <1>3, <2>4 DEF z
      <3>2. v[j] = u[j + Len(s)]
        BY <2>3, <3>1
      <3>3. u[j + Len(s)] = f[(j + Len(s)) - Len(s)]
        BY <1>3, <3>1
      <3> QED BY <3>1, <3>2, <3>3
    <2>6. v = f
      BY <1>2, <2>2, <2>4, <2>5, SeqEqual
    <2> QED BY <2>6 DEF v
  <1> HIDE DEF u
  <1>7. Newlines(u) = Newlines(s) \cup {z} /\ z \notin Newlines(s) /\ NewlinesUpTo(u, z) = Newlines(u)
    <2>1. z \in Newlines(u)
      BY <1>3, <1>6 DEF Newlines
    <2>2. z \notin Newlines(s)
      BY <1>3 DEF Newlines
    <2>3. ASSUME NEW x \in Newlines(u), x # z
          PROVE  x \in Newlines(s)
      <3>1. x \in 1..z /\ u[x] = LF
        BY <1>3 DEF Newlines
      <3>2. x <= Len(s)
        <4> SUFFICES ASSUME ~(x <= Len(s)) PROVE FALSE
          OBVIOUS
        <4>1. x - Len(s) \in 1..(Len(f) - 1)
          BY <1>2, <1>3, <2>3, <3>1
        <4>2. u[x] = f[x - Len(s)]
          BY <1>3, <3>1
        <4> QED BY <1>2, <3>1, <4>1, <4>2
      <3> QED BY <1>4, <3>2
    <2>4. \A x \in Newlines(u) : x <= z
      BY <1>3 DEF Newlines
    <2> HIDE DEF z
    <2>5. Newlines(u) = Newlines(s) \cup {z}
      BY <1>4, <2>1, <2>3
    <2> QED BY <2>2, <2>4, <2>5 DEF NewlinesUpTo
  <1> HIDE DEF z
  <1>8. Cardinality(Newlines(u)) = N + 1
    BY <1>5, <1>7, CountType, FS_AddElement
  <1>9. NthNewline(u, N + 1) = z
    <2>1. N + 1 \in Nat \ {0} /\ z \in Newlines(u) /\ Cardinality(NewlinesUpTo(u, z)) = N + 1
      BY <1>3, <1>7, <1>8
    <2> QED BY <1>3, <2>1, NthIs
  <1>10. NthNewline(u, N) = Len(s)
    <2>1. CASE s = <<>>
      <3>1. Len(s) = 0
        BY <2>1
      <3>2. Newlines(s) = {}
        BY <3>1 DEF Newlines
      <3>3. N = 0
        BY <1>5, <3>2, FS_EmptySet
      <3> QED BY <3>1, <3>3 DEF NthNewline
    <2>2. CASE s # <<>>
      <3>1. Len(s) \in 1..Len(s) /\ Len(s) # 0
        BY <2>2
      <3>2. Len(s) \in Newlines(s)
        BY <1>5, <2>2, <3>1 DEF Newlines
      <3>3. N # 0
        BY <1>5, <3>2, CountType, FS_EmptySet
      <3>4. Len(s) \in Newlines(u)
        BY <1>4, <3>2
      <3>5. Cardinality(NewlinesUpTo(u, Len(s))) = N /\ N \in Nat \ {0}
        BY <1>3, <1>4, <1>5, <3>3
      <3> QED BY <1>3, <3>4, <3>5, NthIs
    <2> QED BY <2>1, <2>2
  <1>11. WireLine(u, N + 1) = f
    <2>1. N + 1 - 1 = N
      BY <1>3
    <2>2. NthNewline(u, N + 1 - 1) = Len(s)
      BY <1>10, <2>1
    <2> QED BY <1>9, <1>e, <2>2 DEF WireLine
  <1>12. /\ Len(Append(r, m)) = N + 1
         /\ \A n \in 1..(N + 1) : IF n = N + 1 THEN Append(r, m)[n] = m
                                  ELSE n \in 1..N /\ Append(r, m)[n] = r[n]
    BY <1>3
  <1> DEFINE r2 == Append(r, m)
  <1> HIDE DEF r2
  <1>13. ASSUME NEW n \in 1..(N + 1)
         PROVE  /\ \E x \in Newlines(u) : Cardinality(NewlinesUpTo(u, x)) = n
                /\ WireLine(u, n) = format(r2[n])
    <2>1. CASE n = N + 1
      <3>1. z \in Newlines(u) /\ Cardinality(NewlinesUpTo(u, z)) = n
        BY <1>7, <1>8, <2>1
      <3>2. r2[n] = m
        BY <1>12, <2>1 DEF r2
      <3> QED BY <1>11, <2>1, <3>1, <3>2 DEF f
    <2>2. CASE n # N + 1
      <3>1. n \in 1..N /\ r2[n] = r[n]
        BY <1>12, <2>2 DEF r2
      <3> QED BY <1>c, <1>d, <3>1
    <2> QED BY <2>1, <2>2
  <1>14. u[Len(u)] = LF
    BY <1>3, <1>6
  <1>15. AsLines(u, r2)
    BY <1>8, <1>12, <1>13, <1>14 DEF AsLines, r2
  <1> QED BY <1>15 DEF u, f, r2

LEMMA Reassociate ==
  ASSUME NEW S, NEW s \in Seq(S), NEW t \in Seq(S), NEW u \in Seq(S)
  PROVE  (s \o t) \o u = s \o (t \o u)
  OBVIOUS

(* What send() takes and what is left of the buffer are the buffer.        *)
LEMMA TakenAndLeft ==
  ASSUME NEW S, NEW b \in Seq(S), NEW n \in 1..Len(b)
  PROVE  /\ SubSeq(b, 1, n) \in Seq(S) /\ SubSeq(b, n + 1, Len(b)) \in Seq(S)
         /\ SubSeq(b, 1, n) \o SubSeq(b, n + 1, Len(b)) = b
         /\ n = Len(b) => SubSeq(b, n + 1, Len(b)) = <<>>
  <1> DEFINE t == SubSeq(b, 1, n)
             u == SubSeq(b, n + 1, Len(b))
             v == t \o u
  <1>1. /\ t \in Seq(S) /\ Len(t) = n /\ \A j \in 1..n : t[j] = b[j]
        /\ u \in Seq(S) /\ Len(u) = Len(b) - n /\ \A j \in 1..(Len(b) - n) : u[j] = b[j + n]
    OBVIOUS
  <1> HIDE DEF t, u
  <1>2. /\ v \in Seq(S) /\ Len(v) = Len(b)
        /\ \A j \in 1..Len(b) : v[j] = IF j <= n THEN t[j] ELSE u[j - n]
    <2>1. t \in Seq(S) /\ u \in Seq(S)
      BY <1>1
    <2>2. /\ v \in Seq(S) /\ Len(v) = Len(t) + Len(u)
          /\ \A j \in 1..(Len(t) + Len(u)) : v[j] = IF j <= Len(t) THEN t[j] ELSE u[j - Len(t)]
      BY <2>1, ConcatProperties
    <2>3. Len(t) + Len(u) = Len(b) /\ Len(t) = n
      BY <1>1
    <2> HIDE DEF v
    <2> QED BY <2>2, <2>3, Zenon
  <1> HIDE DEF v
  <1>3. ASSUME NEW j \in 1..Len(b)
        PROVE  v[j] = b[j]
    <2>1. CASE j <= n
      BY <1>1, <1>2, <2>1
    <2>2. CASE ~(j <= n)
      <3>1. j - n \in 1..(Len(b) - n) /\ (j - n) + n = j
        BY <2>2
      <3> QED BY <1>1, <1>2, <2>2, <3>1
    <2> QED BY <2>1, <2>2
  <1>4. v = b
    BY <1>2, <1>3, SeqEqual
  <1>5. n = Len(b) => u = <<>>
    BY <1>1
  <1> QED BY <1>1, <1>4, <1>5 DEF t, u, v

LEMMA WriteStep == ASSUME WriteInv, [WriteNext]_writeVars PROVE WriteInv'
  <1> DEFINE b == _write_buffer
             R == Reply \cup {ErrorLine}
  <1>1. /\ b \in Seq(Byte) /\ wire \in Seq(Byte) /\ replies \in Seq(R)
        /\ Len(replies) \in Nat /\ AsLines(wire \o b, replies)
    BY DEF WriteInv, Txt
  <1>2. ASSUME UNCHANGED <<_write_buffer, wire, replies>>,
               link' \in {"closing", "flushed"} => link' = link
        PROVE  WriteInv'
    BY <1>2 DEF WriteInv
  <1>3. ASSUME NEW m \in R, write(m), UNCHANGED wire,
               link' = link \/ (link' = "closing" /\ m = ErrorLine)
        PROVE  WriteInv'
    <2>1. _write_buffer' = b \o format(m) /\ replies' = Append(replies, m)
      BY <1>3 DEF write
    <2>2. format(m) \in Seq(Byte)
      BY <1>3, ReplyAssumption, Formatted
    <2>3. wire \o b \in Seq(Byte) /\ b \o format(m) \in Seq(Byte)
      BY <1>1, <2>2, ConcatProperties
    <2>4. AsLines((wire \o b) \o format(m), Append(replies, m))
      BY <1>1, <1>3, <2>3, LineAdded
    <2>5. (wire \o b) \o format(m) = wire \o (b \o format(m))
      BY <1>1, <2>2, Reassociate
    <2>6. AsLines(wire \o _write_buffer, replies)'
      BY <1>3, <2>1, <2>4, <2>5
    <2>7. /\ replies' \in Seq(R) /\ Len(replies') = Len(replies) + 1
          /\ replies'[Len(replies) + 1] = m
          /\ \A n \in 1..Len(replies) : n \in 1..Len(replies') /\ replies'[n] = replies[n]
      <3> HIDE DEF R
      <3> QED BY <1>1, <1>3, <2>1
    <2>8. (link = "closing" => \E n \in 1..Len(replies) : replies[n] = ErrorLine)'
      <3> SUFFICES ASSUME link' = "closing"
                   PROVE  \E n \in 1..Len(replies') : replies'[n] = ErrorLine
        OBVIOUS
      <3>1. CASE m = ErrorLine
        <4>1. Len(replies) + 1 \in 1..Len(replies')
          BY <1>1, <2>7
        <4> QED BY <2>7, <3>1, <4>1
      <3>2. CASE link' = link
        <4>1. PICK n \in 1..Len(replies) : replies[n] = ErrorLine
          BY <3>2 DEF WriteInv
        <4> QED BY <2>7, <4>1
      <3> QED BY <1>3, <3>1, <3>2
    <2>9. (link = "flushed" => \E n \in 1..Len(replies) :
             n <= Cardinality(Newlines(wire)) /\ replies[n] = ErrorLine)'
      <3> SUFFICES ASSUME link' = "flushed"
                   PROVE  \E n \in 1..Len(replies') :
                            n <= Cardinality(Newlines(wire')) /\ replies'[n] = ErrorLine
        OBVIOUS
      <3>1. link = "flushed"
        BY <1>3
      <3>2. PICK n \in 1..Len(replies) :
              n <= Cardinality(Newlines(wire)) /\ replies[n] = ErrorLine
        BY <3>1 DEF WriteInv
      <3>3. wire' = wire
        BY <1>3
      <3> QED BY <2>7, <3>2, <3>3
    <2>10. (_write_buffer \in Txt)' /\ (wire \in Txt)' /\ (replies \in Seq(Reply \cup {ErrorLine}))'
      BY <1>1, <1>3, <2>1, <2>3, <2>7 DEF Txt
    <2> QED BY <2>6, <2>8, <2>9, <2>10 DEF WriteInv
  <1>4. ASSUME NEW n \in 1..Len(_write_buffer), sendData(n)
        PROVE  WriteInv'
    <2> DEFINE t == SubSeq(b, 1, n)
               u == SubSeq(b, n + 1, Len(b))
    <2>1. /\ wire' = wire \o t /\ _write_buffer' = u /\ replies' = replies
          /\ link' = IF link = "closing" /\ n = Len(b) THEN "flushed" ELSE link
          /\ link \notin Marked
      BY <1>4 DEF sendData, rest, closes
    <2>2. t \in Seq(Byte) /\ u \in Seq(Byte) /\ t \o u = b /\ (n = Len(b) => u = <<>>)
      BY <1>1, TakenAndLeft
    <2> HIDE DEF t, u
    <2>3. (wire \o t) \o u = wire \o b
      <3>1. (wire \o t) \o u = wire \o (t \o u)
        <4>1. wire \in Seq(Byte) /\ t \in Seq(Byte) /\ u \in Seq(Byte)
          BY <1>1, <2>2
        <4> QED BY <4>1, Reassociate
      <3> QED BY <2>2, <3>1
    <2>4. AsLines(wire \o _write_buffer, replies)'
      BY <1>1, <2>1, <2>3
    <2>5. wire \o t \in Seq(Byte)
      BY <1>1, <2>2, ConcatProperties
    <2>6. (link = "closing" => \E k \in 1..Len(replies) : replies[k] = ErrorLine)'
      BY <2>1 DEF WriteInv
    <2>7. (link = "flushed" => \E k \in 1..Len(replies) :
             k <= Cardinality(Newlines(wire)) /\ replies[k] = ErrorLine)'
      <3> SUFFICES ASSUME link' = "flushed"
                   PROVE  \E k \in 1..Len(replies) :
                            k <= Cardinality(Newlines(wire')) /\ replies[k] = ErrorLine
        BY <2>1
      <3>1. link = "closing" /\ n = Len(b)
        BY <2>1 DEF Marked
      <3>2. PICK k \in 1..Len(replies) : replies[k] = ErrorLine
        BY <3>1 DEF WriteInv
      <3>3. u = <<>>
        BY <2>2, <3>1
      <3>4. (wire \o t) \o <<>> = wire \o t
        BY <2>5
      <3>5. wire' = wire \o b
        BY <2>1, <2>3, <3>3, <3>4
      <3>6. Cardinality(Newlines(wire \o b)) = Len(replies)
        BY <1>1 DEF AsLines
      <3>7. k <= Len(replies)
        BY <1>1
      <3> QED BY <3>2, <3>5, <3>6, <3>7
    <2>8. (_write_buffer \in Txt)' /\ (wire \in Txt)' /\ (replies \in Seq(Reply \cup {ErrorLine}))'
      BY <1>1, <2>1, <2>2, <2>5 DEF Txt
    <2> QED BY <2>4, <2>6, <2>7, <2>8 DEF WriteInv
  <1>5. CASE UNCHANGED writeVars
    BY <1>2, <1>5 DEF writeVars
  <1>6. ASSUME NEW m \in Reply, sendReply(m)
        PROVE  WriteInv'
    BY <1>3, <1>6 DEF sendReply
  <1>7. CASE disconnectAfterFlush
    BY <1>3, <1>7 DEF disconnectAfterFlush
  <1>8. CASE sendFails
    BY <1>2, <1>8 DEF sendFails
  <1>9. CASE sendQExceeded
    BY <1>2, <1>9 DEF sendQExceeded
  <1> QED BY <1>4, <1>5, <1>6, <1>7, <1>8, <1>9 DEF WriteNext

LEMMA WriteAlways == WriteSpec => []WriteInv
  <1>1. WriteInit => WriteInv
    <2> SUFFICES ASSUME WriteInit PROVE WriteInv
      OBVIOUS
    <2>1. wire = <<>> /\ _write_buffer = <<>> /\ replies = <<>> /\ link = "open"
      BY DEF WriteInit
    <2>2. <<>> \in Txt /\ <<>> \in Seq(Reply \cup {ErrorLine}) /\ Len(<<>>) = 0
      BY DEF Txt
    <2>3. <<>> \o <<>> = <<>>
      OBVIOUS
    <2>4. Newlines(<<>>) = {}
      BY <2>2 DEF Newlines
    <2>a. Cardinality(Newlines(<<>>)) = Len(<<>>)
      BY <2>2, <2>4, FS_EmptySet
    <2>b. \A n \in 1..Len(<<>>) : FALSE
      BY <2>2
    <2>5. AsLines(<<>>, <<>>)
      BY <2>a, <2>b, Zenon DEF AsLines
    <2> QED BY <2>1, <2>2, <2>3, <2>5 DEF WriteInv
  <1> QED BY <1>1, WriteStep, PTL DEF WriteSpec

(* A line on the wire is the reply of its number.                          *)
LEMMA OnTheWire ==
  ASSUME WriteInv, NEW n \in 1..Cardinality(Newlines(wire))
  PROVE  n \in 1..Len(replies) /\ WireLine(wire, n) = format(replies[n])
  <1> DEFINE b == _write_buffer
             s == wire \o b
             C == Cardinality(Newlines(wire))
  <1>1. /\ b \in Seq(Byte) /\ wire \in Seq(Byte) /\ Len(replies) \in Nat
    BY DEF WriteInv, Txt
  <1>2. s \in Seq(Byte)
    BY <1>1, ConcatProperties
  <1>3. /\ Cardinality(Newlines(s)) = Len(replies)
        /\ \A k \in 1..Len(replies) : /\ \E x \in Newlines(s) : Cardinality(NewlinesUpTo(s, x)) = k
                                      /\ WireLine(s, k) = format(replies[k])
    BY DEF WriteInv, AsLines
  <1>4. C \in Nat
    BY <1>1, CountType
  <1>5. /\ \A x : x \in Newlines(wire) <=> x \in Newlines(s) /\ x <= Len(wire)
        /\ \A x \in Int : x <= Len(wire) => NewlinesUpTo(s, x) = NewlinesUpTo(wire, x)
        /\ NewlinesUpTo(s, Len(wire)) = Newlines(wire)
    BY <1>1, NewlinesStay
  <1> HIDE DEF s
  <1>6. C <= Len(replies)
    BY <1>2, <1>3, <1>5, CountType
  <1>7. \A k \in 1..C : k \in 1..Len(replies)
    BY <1>1, <1>4, <1>6
  <1>8. Numbered(wire, C)
    <2> SUFFICES ASSUME NEW k \in 1..C
                 PROVE  \E x \in Newlines(wire) : Cardinality(NewlinesUpTo(wire, x)) = k
      BY DEF Numbered
    <2>1. PICK x \in Newlines(s) : Cardinality(NewlinesUpTo(s, x)) = k
      BY <1>3, <1>7
    <2>2. x \in Int /\ Newlines(s) \subseteq Int /\ Len(wire) \in Nat
      BY <1>1 DEF Newlines
    <2>3. x <= Len(wire)
      <3> SUFFICES ASSUME ~(x <= Len(wire)) PROVE FALSE
        OBVIOUS
      <3>1. Newlines(wire) \in SUBSET NewlinesUpTo(s, x)
        BY <1>5, <2>2 DEF NewlinesUpTo
      <3>2. x \in NewlinesUpTo(s, x) /\ x \notin Newlines(wire)
        BY <1>5, <2>2 DEF NewlinesUpTo
      <3>3. IsFiniteSet(NewlinesUpTo(s, x))
        BY <1>2, CountType
      <3>4. C <= Cardinality(NewlinesUpTo(s, x)) /\ C # Cardinality(NewlinesUpTo(s, x))
        BY <3>1, <3>2, <3>3, FS_Subset
      <3> QED BY <1>4, <2>1, <3>4
    <2> QED BY <1>5, <2>1, <2>2, <2>3
  <1>9. WireLine(s, n) = WireLine(wire, n)
    BY <1>1, <1>4, <1>8, PoppedStay DEF s
  <1> QED BY <1>3, <1>7, <1>9

(* However the kernel takes the bytes, the n-th line the peer reads is the *)
(* n-th reply, whole or shortened to whole characters (PeerReadsReplies).  *)
THEOREM RepliesArriveWhole == WriteSpec => []PeerReadsReplies
  <1>1. ASSUME WriteInv
        PROVE  PeerReadsReplies
    <2>1. Cardinality(Newlines(wire \o _write_buffer)) = Len(replies)
      BY <1>1 DEF WriteInv, AsLines
    <2>2. ASSUME NEW n \in 1..Cardinality(Newlines(wire))
          PROVE  IsLineOf(WireLine(wire, n), replies[n])
      <3>1. n \in 1..Len(replies) /\ WireLine(wire, n) = format(replies[n])
        BY <1>1, OnTheWire
      <3>2. replies[n] \in Reply \cup {ErrorLine}
        BY <1>1, <3>1 DEF WriteInv
      <3>3. replies[n] \in Txt /\ ~Occurs(LF, replies[n])
        BY <3>2, ReplyAssumption
      <3> QED BY <3>1, <3>3, Formatted
    <2> QED BY <2>1, <2>2 DEF PeerReadsReplies, IsLineOf
  <1> QED BY <1>1, WriteAlways, PTL

(* A link that is closed because its buffer was written has the ERROR line *)
(* on the wire, whole (FlushedHasError).                                   *)
THEOREM ErrorIsSent == WriteSpec => []FlushedHasError
  <1>1. ASSUME WriteInv
        PROVE  FlushedHasError
    <2> SUFFICES ASSUME link = "flushed"
                 PROVE  \E n \in 1..Cardinality(Newlines(wire)) :
                          WireLine(wire, n) = format(ErrorLine)
      BY DEF FlushedHasError
    <2>1. PICK n \in 1..Len(replies) :
            n <= Cardinality(Newlines(wire)) /\ replies[n] = ErrorLine
      BY <1>1 DEF WriteInv
    <2>2. Cardinality(Newlines(wire)) \in Nat
      BY <1>1, CountType DEF WriteInv, Txt
    <2>3. n \in 1..Cardinality(Newlines(wire))
      BY <2>1, <2>2
    <2> QED BY <1>1, <2>1, <2>3, OnTheWire
  <1> QED BY <1>1, WriteAlways, PTL

-----------------------------------------------------------------------------
(* The lines of the server, read back.                                     *)

(* A line that begins with h, which has room, keeps h; what it loses of    *)
(* the text after it are whole characters.                                 *)
LEMMA CutAfter ==
  ASSUME NEW h \in Seq(Byte), NEW t \in Seq(Byte),
         Len(h) + (IF IsUtf8(t) THEN 0 ELSE 3) <= MaxLine
  PROVE  \E k \in 0..Len(t) :
           /\ cutLine(h \o t, MaxLine) = h \o SubSeq(t, 1, k)
           /\ Len(h) + k <= MaxLine
           /\ IsUtf8(t) => IsUtf8(SubSeq(t, 1, k))
           /\ k = Len(t) \/ Len(h) + k >= MaxLine - 3
  <1> DEFINE H == Len(h)
             s == h \o t
             floor == MaxLine - 3
  <1>0. /\ H \in Nat /\ Len(t) \in Nat /\ s \in Seq(Byte) /\ Len(s) = H + Len(t) /\ H <= MaxLine
        /\ MaxLine \in Nat /\ floor \in 0..MaxLine
    BY MaxLineAssumption
  <1>1. /\ \A y \in 1..H : s[y] = h[y]
        /\ \A y \in 1..Len(t) : s[H + y] = t[y]
    OBVIOUS
  <1>2. SubSeq(t, 1, Len(t)) = t
    BY SubSeqFull
  <1>3. CASE Len(s) <= MaxLine
    <2>1. cutLine(s, MaxLine) = s
      BY <1>3 DEF cutLine, Shorten
    <2> WITNESS Len(t) \in 0..Len(t)
    <2> QED BY <1>0, <1>2, <1>3, <2>1
  <1>4. CASE ~(Len(s) <= MaxLine)
    <2> DEFINE n == cutAt(s, MaxLine, floor)
               k == n - H
    <2>0. Len(s) > MaxLine
      BY <1>0, <1>4
    <2>1. /\ n \in floor..MaxLine
          /\ n = floor \/ ~isContinuation(s[n + 1])
          /\ \A m \in (n + 1)..MaxLine : isContinuation(s[m + 1])
      BY <1>0, <2>0, CutStops
    <2>2. cutLine(s, MaxLine) = SubSeq(s, 1, n)
      BY <1>4, Zenon DEF cutLine, Shorten
    <2> HIDE DEF n, s, floor
    <2>3. H <= n
      <3>1. CASE IsUtf8(t)
        <4> SUFFICES ASSUME ~(H <= n) PROVE FALSE
          OBVIOUS
        <4>1. H \in (n + 1)..MaxLine /\ 1 \in 1..Len(t)
          BY <1>0, <2>0, <2>1
        <4>2. isContinuation(s[H + 1])
          BY <2>1, <4>1
        <4>3. s[H + 1] = t[1]
          BY <1>1, <4>1
        <4> QED BY <3>1, <4>1, <4>2, <4>3, BeginsAfter
      <3>2. CASE ~IsUtf8(t)
        <4>1. H + 3 <= MaxLine
          BY <3>2
        <4> QED BY <1>0, <2>1, <4>1 DEF floor
      <3> QED BY <3>1, <3>2
    <2>4. n \in Nat /\ k \in 0..Len(t) /\ n = H + k /\ k < Len(t) /\ n < Len(s) /\ n <= MaxLine
      BY <1>0, <2>0, <2>1, <2>3
    <2> HIDE DEF k
    <2>5. SubSeq(s, 1, n) = h \o SubSeq(t, 1, k)
      <3> DEFINE l == SubSeq(s, 1, n)
                 r == h \o SubSeq(t, 1, k)
      <3>1. /\ l \in Seq(Byte) /\ Len(l) = n /\ \A y \in 1..n : l[y] = s[y]
        BY <1>0, <2>4
      <3>2. /\ SubSeq(t, 1, k) \in Seq(Byte) /\ Len(SubSeq(t, 1, k)) = k
            /\ \A y \in 1..k : SubSeq(t, 1, k)[y] = t[y]
        BY <1>0, <2>4
      <3>3. r \in Seq(Byte) /\ Len(r) = n /\ \A y \in 1..H : r[y] = h[y]
        BY <1>0, <2>4, <3>2
      <3>4. \A y \in 1..k : r[H + y] = t[y]
        BY <1>0, <2>4, <3>2
      <3>5. \A y \in 1..n : y \in 1..H \/ (y - H \in 1..k /\ H + (y - H) = y)
        BY <1>0, <2>4
      <3> HIDE DEF l, r
      <3>6. \A y \in 1..n : l[y] = r[y]
        <4> TAKE y \in 1..n
        <4>1. CASE y \in 1..H
          BY <1>1, <3>1, <3>3, <4>1
        <4>2. CASE y - H \in 1..k /\ H + (y - H) = y
          <5>1. y - H \in 1..Len(t)
            BY <1>0, <2>4, <4>2
          <5> QED BY <1>1, <3>1, <3>4, <4>2, <5>1
        <4> QED BY <3>5, <4>1, <4>2
      <3>7. l = r
        BY <3>1, <3>3, <3>6, SeqEqual
      <3> QED BY <3>7 DEF l, r
    <2>6. IsUtf8(t) => IsUtf8(SubSeq(t, 1, k))
      <3> SUFFICES ASSUME IsUtf8(t) PROVE IsUtf8(SubSeq(t, 1, k))
        OBVIOUS
      <3>1. k + 1 \in 1..Len(t) /\ s[n + 1] = t[k + 1]
        <4>1. k + 1 \in 1..Len(t) /\ H + (k + 1) = n + 1
          BY <1>0, <2>4
        <4> QED BY <1>1, <4>1
      <3>2. ~isContinuation(t[k + 1])
        <4> SUFFICES ASSUME isContinuation(t[k + 1]) PROVE FALSE
          OBVIOUS
        <4>1. n = floor
          BY <2>1, <3>1
        <4>2. k + 4 \in 4..Len(t) /\ n + 3 = MaxLine /\ (k + 4) - 3 = k + 1
          BY <1>0, <2>0, <2>4, <4>1 DEF floor
        <4>3. PICK p \in ((k + 4) - 3)..(k + 4) : ~isContinuation(t[p])
          BY <4>2, FourInARow
        <4>4. p # k + 1
          BY <4>3
        <4>5. p \in 1..Len(t) /\ (H + p) - 1 \in (n + 1)..MaxLine /\ ((H + p) - 1) + 1 = H + p
          BY <1>0, <2>4, <4>2, <4>3, <4>4
        <4>6. isContinuation(s[H + p])
          BY <2>1, <4>5
        <4> QED BY <1>1, <4>3, <4>5, <4>6
      <3>3. 1 <= k => ~isContinuation(t[1])
        <4>1. 1 \in 1..Len(t)
          BY <1>0, <3>1
        <4> QED BY <4>1, BeginsAfter
      <3>4. 1 \in 1..(Len(t) + 1) /\ k \in (1 - 1)..Len(t)
        BY <1>0, <2>4
      <3> QED BY <3>2, <3>3, <3>4, Slice
    <2>7. H + k <= MaxLine /\ H + k >= MaxLine - 3
      BY <1>0, <2>1, <2>4 DEF floor
    <2>8. cutLine(s, MaxLine) = h \o SubSeq(t, 1, k)
      BY <2>2, <2>5
    <2> QED BY <2>4, <2>6, <2>7, <2>8 DEF s
  <1> QED BY <1>3, <1>4

(* f[n] is what words writes of ws from the n-th word on.                  *)
Words(f, ws) ==
  /\ f \in [1..(Len(ws) + 1) -> Seq(Byte)] /\ f[Len(ws) + 1] = <<>>
  /\ \A y \in 1..Len(ws) : f[y] = <<SPACE>> \o ws[y] \o f[y + 1]

(* There is such an f, and it begins with what words writes.               *)
LEMMA WordsAre ==
  ASSUME NEW ws \in Seq(Seq(Byte))
  PROVE  \E f : Words(f, ws) /\ words(ws) = f[1]
  <1> DEFINE N == Len(ws)
             V == Seq(Byte)
             h == [p \in V \X Nat |-> IF N - p[2] \in 1..N THEN <<SPACE>> \o ws[N - p[2]] \o p[1]
                                                           ELSE p[1]]
  <1>0. N \in Nat /\ <<SPACE>> \in V /\ <<>> \in V /\ \A y \in 1..N : ws[y] \in V
    BY DEF SPACE, Byte
  <1>N. N = Len(ws)
    OBVIOUS
  <1> HIDE DEF N
  <1>1. ASSUME NEW v \in V, NEW n \in Nat
        PROVE  /\ h[<<v, n>>] \in V
               /\ N - n \in 1..N => h[<<v, n>>] = <<SPACE>> \o ws[N - n] \o v
    <2>1. <<v, n>> \in V \X Nat
      OBVIOUS
    <2>2. h[<<v, n>>] = IF N - n \in 1..N THEN <<SPACE>> \o ws[N - n] \o v ELSE v
      BY <2>1
    <2> HIDE DEF h
    <2>3. N - n \in 1..N => <<SPACE>> \o ws[N - n] \o v \in V
      BY <1>0
    <2> QED BY <2>2, <2>3
  <1>2. h \in [V \X Nat -> V]
    <2>1. \A p \in V \X Nat : p[1] \in V /\ p[2] \in Nat /\ p = <<p[1], p[2]>>
      OBVIOUS
    <2>2. h = [p \in V \X Nat |-> h[p]]
      OBVIOUS
    <2> HIDE DEF h
    <2>3. \A p \in V \X Nat : h[p] \in V
      BY <1>1, <2>1
    <2> QED BY <2>2, <2>3
  <1> HIDE DEF h
  <1>3. PICK g : Recurs(g, V, <<>>, h)
    BY <1>0, <1>2, Recursion
  <1> DEFINE f == [y \in 1..(N + 1) |-> g[N + 1 - y]]
  <1>4. f \in [1..(N + 1) -> V] /\ f[N + 1] = <<>>
    <2>1. g \in [Nat -> V] /\ g[0] = <<>>
      BY <1>3 DEF Recurs
    <2>2. \A y \in 1..(N + 1) : N + 1 - y \in Nat
      BY <1>0
    <2>3. N + 1 \in 1..(N + 1) /\ N + 1 - (N + 1) = 0
      BY <1>0
    <2> QED BY <2>1, <2>2, <2>3
  <1>5. ASSUME NEW y \in 1..N
        PROVE  f[y] = <<SPACE>> \o ws[y] \o f[y + 1]
    <2> DEFINE n == N - y
    <2>1. /\ n \in Nat /\ N - n = y /\ N + 1 - y = n + 1 /\ N + 1 - (y + 1) = n
          /\ y \in 1..(N + 1) /\ y + 1 \in 1..(N + 1)
      <3>1. N \in Nat
        BY <1>0
      <3>2. y \in Nat /\ 1 <= y /\ y <= N
        BY <3>1
      <3>3. n \in Nat /\ N - n = y
        BY <3>1, <3>2
      <3>4. N + 1 - y = n + 1 /\ N + 1 - (y + 1) = n
        BY <3>1, <3>2
      <3>5. y \in 1..(N + 1) /\ y + 1 \in 1..(N + 1)
        BY <3>1, <3>2
      <3> QED BY <3>3, <3>4, <3>5
    <2>2. f[y] = g[n + 1] /\ f[y + 1] = g[n]
      BY <2>1
    <2> HIDE DEF n, f
    <2>3. g[n + 1] = h[<<g[n], n>>] /\ g[n] \in V
      BY <1>3, <2>1 DEF Recurs
    <2>4. h[<<g[n], n>>] = <<SPACE>> \o ws[N - n] \o g[n]
      BY <1>1, <2>1, <2>3
    <2> QED BY <2>1, <2>2, <2>3, <2>4
  <1> HIDE DEF f
  <1>6. Words(f, ws)
    BY <1>4, <1>5, <1>N DEF Words
  <1> DEFINE e(a) == [y \in 1..(N + 1) |-> IF y > N THEN <<>> ELSE <<SPACE>> \o ws[y] \o a[y + 1]]
             c == CHOOSE a : a = e(a)
  <1>7. f = e(f)
    <2>1. \A y \in 1..(N + 1) : f[y] = IF y > N THEN <<>> ELSE <<SPACE>> \o ws[y] \o f[y + 1]
      <3> TAKE y \in 1..(N + 1)
      <3>1. CASE y = N + 1
        BY <1>0, <1>4, <3>1
      <3>2. CASE y \in 1..N
        <4>1. ~(y > N)
          BY <1>0, <3>2
        <4> QED BY <1>5, <3>2, <4>1
      <3> QED BY <1>0, <3>1, <3>2
    <2>2. f = [y \in 1..(N + 1) |-> f[y]]
      BY <1>4
    <2> QED BY <2>1, <2>2
  <1>8. c = e(c)
    BY <1>7
  <1>9. words(ws) = c[1]
    BY DEF words, N
  <1> HIDE DEF c
  <1>10. ASSUME NEW y \in 1..(N + 1)
         PROVE  c[y] = IF y > N THEN <<>> ELSE <<SPACE>> \o ws[y] \o c[y + 1]
    BY <1>8
  <1> HIDE DEF e
  <1>11. \A k \in 0..N : c[N + 1 - k] = f[N + 1 - k]
    <2> DEFINE P == {k \in Nat : c[N + 1 - k] = f[N + 1 - k]}
    <2>1. 0 \in P
      <3>1. N + 1 - 0 = N + 1 /\ N + 1 \in 1..(N + 1) /\ N + 1 > N
        BY <1>0
      <3>2. c[N + 1] = <<>>
        BY <1>10, <3>1
      <3> QED BY <1>4, <3>1, <3>2
    <2>2. ASSUME NEW k \in 0..(N - 1), k \in P PROVE k + 1 \in P
      <3> DEFINE y == N - k
      <3>1. /\ k \in Nat /\ k + 1 \in Nat /\ y \in 1..N /\ y \in 1..(N + 1) /\ ~(y > N)
            /\ N + 1 - k = y + 1 /\ N + 1 - (k + 1) = y
        BY <1>0
      <3> HIDE DEF y
      <3>2. c[y + 1] = f[y + 1]
        BY <2>2, <3>1
      <3>3. c[y] = <<SPACE>> \o ws[y] \o c[y + 1]
        BY <1>10, <3>1
      <3>4. f[y] = <<SPACE>> \o ws[y] \o f[y + 1]
        BY <1>5, <3>1
      <3> QED BY <3>1, <3>2, <3>3, <3>4
    <2> HIDE DEF P
    <2>3. \A k \in 0..N : k \in P
      BY <1>0, <2>1, <2>2, UpTo
    <2> QED BY <2>3 DEF P
  <1>12. c[1] = f[1]
    <2>1. N \in 0..N /\ N + 1 - N = 1
      BY <1>0
    <2> QED BY <1>11, <2>1
  <1> QED BY <1>6, <1>9, <1>12

(* The rest of a text.                                                     *)
From(s, p) == SubSeq(s, p, Len(s))

(* What may follow a word: nothing, or what begins with a space.           *)
MayFollow(u) == u \in Seq(Byte) /\ (Len(u) >= 1 => u[1] = SPACE)

(* From p on s is a word and what follows it.                              *)
WordAnd(s, p, w, u) ==
  /\ s \in Seq(Byte) /\ p \in 1..(Len(s) + 1)
  /\ w \in Seq(Byte) /\ ~Occurs(SPACE, w)
  /\ MayFollow(u) /\ From(s, p) = w \o u

(* Then find ends the word there.                                          *)
LEMMA WordEnds ==
  ASSUME NEW s, NEW p, NEW w, NEW u, WordAnd(s, p, w, u)
  PROVE  LET end == find(s, SPACE, p)
         IN  /\ end \in p..(Len(s) + 1) /\ SubSeq(s, p, end - 1) = w
             /\ From(s, end) = u
  <1> DEFINE end == find(s, SPACE, p)
             W   == Len(w)
             U   == Len(u)
             N   == Len(s)
             r   == w \o u
  <1>0. N \in Nat /\ W \in Nat /\ U \in Nat /\ p \in Nat /\ p >= 1 /\ p \in 1..(N + 1)
    BY DEF WordAnd, MayFollow
  <1>1. /\ r \in Seq(Byte) /\ Len(r) = W + U
        /\ \A y \in 1..W : r[y] = w[y]
        /\ \A y \in 1..U : r[W + y] = u[y]
    BY DEF WordAnd, MayFollow
  <1>2. /\ Len(From(s, p)) = N - p + 1
        /\ \A y \in 1..(N - p + 1) : From(s, p)[y] = s[y + p - 1]
        /\ From(s, p) = r
    <2>1. s \in Seq(Byte) /\ p \in 1..(N + 1)
      BY DEF WordAnd
    <2>2. /\ Len(SubSeq(s, p, N)) = N - p + 1
          /\ \A y \in 1..(N - p + 1) : SubSeq(s, p, N)[y] = s[y + p - 1]
      BY <2>1
    <2>3. From(s, p) = r
      BY DEF WordAnd
    <2> QED BY <2>2, <2>3 DEF From
  <1>3. N = p + W + U - 1
    BY <1>0, <1>1, <1>2
  <1>4. \A y \in 1..(W + U) : s[y + p - 1] = r[y]
    <2>1. W + U = N - p + 1
      BY <1>0, <1>3
    <2> QED BY <1>2, <2>1
  <1>a. /\ end \in p..(N + 1) /\ (end <= N => s[end] = SPACE)
        /\ \A j \in p..(end - 1) : s[j] # SPACE
    <2>1. s \in Seq(Byte) /\ p \in 1..(Len(s) + 1)
      BY DEF WordAnd
    <2> QED BY <2>1, FindStops
  <1>b. /\ s \in Seq(Byte) /\ Len(s) = N /\ Len(w) = W /\ Len(u) = U
        /\ w \in Seq(Byte) /\ u \in Seq(Byte) /\ ~Occurs(SPACE, w)
        /\ U >= 1 => u[1] = SPACE
    BY DEF WordAnd, MayFollow
  <1> HIDE DEF r, W, U, N, end
  <1>5. \A j \in p..(p + W - 1) : s[j] # SPACE
    <2> TAKE j \in p..(p + W - 1)
    <2>1. j - p + 1 \in 1..W /\ j - p + 1 \in 1..(W + U) /\ (j - p + 1) + p - 1 = j
      BY <1>0
    <2>2. s[j] = w[j - p + 1]
      BY <1>1, <1>4, <2>1
    <2> QED BY <1>b, <2>1, <2>2 DEF Occurs
  <1>6. ASSUME NEW y \in 1..U
        PROVE  s[p + W + y - 1] = u[y]
    <2>1. W + y \in 1..(W + U) /\ (W + y) + p - 1 = p + W + y - 1
      BY <1>0
    <2> QED BY <1>1, <1>4, <2>1
  <1>7. p + W <= N => s[p + W] = SPACE
    <2>1. p + W <= N => 1 \in 1..U /\ p + W + 1 - 1 = p + W
      BY <1>0, <1>3
    <2> QED BY <1>6, <1>b, <2>1
  <1>9. end = p + W
    <2>1. ~(end < p + W)
      <3> SUFFICES ASSUME end < p + W PROVE FALSE
        OBVIOUS
      <3>1. end \in p..(p + W - 1) /\ end <= N
        BY <1>0, <1>3, <1>a
      <3> QED BY <1>5, <1>a, <3>1
    <2>2. ~(end > p + W)
      <3> SUFFICES ASSUME end > p + W PROVE FALSE
        OBVIOUS
      <3>1. p + W \in p..(end - 1) /\ p + W <= N
        BY <1>0, <1>a
      <3> QED BY <1>7, <1>a, <3>1
    <2> QED BY <1>0, <1>a, <2>1, <2>2
  <1>12. end \in p..(N + 1)
    BY <1>a
  <1>13. SubSeq(s, p, end - 1) = w
    <2> DEFINE l == SubSeq(s, p, end - 1)
    <2>1. l \in Seq(Byte) /\ Len(l) = W /\ \A y \in 1..W : l[y] = s[y + p - 1]
      <3>1. end - 1 = p + W - 1 /\ end - 1 <= Len(s) /\ p \in 1..(Len(s) + 1) /\ end - 1 >= p - 1
        BY <1>0, <1>3, <1>9, <1>b
      <3>2. l \in Seq(Byte) /\ Len(l) = (end - 1) - p + 1
            /\ \A y \in 1..((end - 1) - p + 1) : l[y] = s[y + p - 1]
        <4>1. s \in Seq(Byte) /\ p \in 1..(Len(s) + 1) /\ end - 1 \in (p - 1)..Len(s)
          BY <1>0, <1>a, <1>b, <3>1
        <4> QED BY <4>1, PartOf
      <3>3. (end - 1) - p + 1 = W
        BY <1>0, <3>1
      <3> QED BY <3>2, <3>3
    <2>2. \A y \in 1..W : s[y + p - 1] = w[y]
      <3> TAKE y \in 1..W
      <3>1. y \in 1..(W + U)
        BY <1>0
      <3> QED BY <1>1, <1>4, <3>1
    <2> HIDE DEF l
    <2>3. l = w
      <3>1. Len(l) = Len(w) /\ \A y \in 1..Len(l) : l[y] = w[y]
        BY <1>b, <2>1, <2>2
      <3> QED BY <1>b, <2>1, <3>1, SeqEqual
    <2> QED BY <2>3 DEF l
  <1>14. From(s, end) = u
    <2> DEFINE l == SubSeq(s, p + W, N)
    <2>1. l \in Seq(Byte) /\ Len(l) = U /\ \A y \in 1..U : l[y] = s[y + (p + W) - 1]
      <3>1. p + W \in 1..(Len(s) + 1) /\ N = Len(s) /\ N \in Nat /\ N - (p + W) + 1 = U
        BY <1>0, <1>3, <1>b
      <3>2. l \in Seq(Byte) /\ Len(l) = N - (p + W) + 1
            /\ \A y \in 1..(N - (p + W) + 1) : l[y] = s[y + (p + W) - 1]
        BY <1>b, <3>1
      <3> QED BY <3>1, <3>2
    <2>2. \A y \in 1..U : y + (p + W) - 1 = p + W + y - 1
      BY <1>0
    <2> HIDE DEF l
    <2>3. l = u
      <3>1. Len(l) = Len(u) /\ \A y \in 1..Len(l) : l[y] = u[y]
        BY <1>b, <1>6, <2>1, <2>2
      <3> QED BY <1>b, <2>1, <3>1, SeqEqual
    <2> QED BY <1>9, <1>b, <2>3 DEF l, From
  <1> QED BY <1>12, <1>13, <1>14, <1>b DEF end

(* One space is skipped and no more.                                       *)
LEMMA OneSpace ==
  ASSUME NEW s \in Seq(Byte), NEW e \in 1..(Len(s) + 1), NEW u \in Seq(Byte),
         From(s, e) = u, Len(u) >= 2, u[1] = SPACE, u[2] # SPACE
  PROVE  /\ skipSpaces(s, e) = e + 1 /\ e + 1 \in 2..Len(s) /\ (e + 1) - 1 = e
         /\ s[e + 1] = u[2]
  <1> DEFINE N == Len(s)
             q == skipSpaces(s, e)
  <1>0. N \in Nat /\ e \in Nat /\ e \in 1..(N + 1) /\ N \in (e - 1)..N
    OBVIOUS
  <1>1. Len(u) = N - e + 1 /\ \A j \in 1..Len(u) : u[j] = s[j + e - 1]
    BY <1>0, PartOf DEF From
  <1>2. /\ q \in e..(N + 1) /\ (q <= N => s[q] # SPACE)
        /\ \A j \in e..(q - 1) : s[j] = SPACE
    BY <1>0, SkipStops
  <1>3. s[e] = SPACE /\ s[e + 1] = u[2] /\ e + 1 <= N
    <2>1. 1 \in 1..Len(u) /\ 2 \in 1..Len(u) /\ 1 + e - 1 = e /\ 2 + e - 1 = e + 1
      BY <1>0
    <2>2. e + 1 <= N
      BY <1>0, <1>1
    <2> QED BY <1>1, <2>1, <2>2
  <1> HIDE DEF N, q
  <1>4. q = e + 1
    <2>1. q # e
      BY <1>0, <1>2, <1>3
    <2>2. ~(q > e + 1)
      <3> SUFFICES ASSUME q > e + 1 PROVE FALSE
        OBVIOUS
      <3>1. e + 1 \in e..(q - 1)
        BY <1>0, <1>2
      <3> QED BY <1>2, <1>3, <3>1
    <2> QED BY <1>0, <1>2, <2>1, <2>2
  <1> QED BY <1>0, <1>3, <1>4 DEF N, q

(* Two texts, put together.                                                *)
LEMMA Joined ==
  ASSUME NEW S, NEW a \in Seq(S), NEW b \in Seq(S)
  PROVE  /\ a \o b \in Seq(S) /\ Len(a \o b) = Len(a) + Len(b)
         /\ Len(a) \in Nat /\ Len(b) \in Nat
         /\ \A y \in 1..Len(a) : (a \o b)[y] = a[y]
         /\ \A y \in 1..Len(b) : (a \o b)[Len(a) + y] = b[y]
  <1>1. a \o b \in Seq(S) /\ Len(a \o b) = Len(a) + Len(b) /\ Len(a) \in Nat /\ Len(b) \in Nat
    OBVIOUS
  <1>2. \A y \in 1..Len(a) : (a \o b)[y] = a[y]
    OBVIOUS
  <1>3. \A y \in 1..Len(b) : (a \o b)[Len(a) + y] = b[y]
    OBVIOUS
  <1> QED BY <1>1, <1>2, <1>3

(* Neither holds a certain byte.                                           *)
LEMMA JoinClean ==
  ASSUME NEW a \in Seq(Byte), NEW b \in Seq(Byte), NEW B, NoByte(a, B), NoByte(b, B)
  PROVE  a \o b \in Seq(Byte) /\ NoByte(a \o b, B)
  <1> DEFINE r == a \o b
  <1>1. /\ r \in Seq(Byte) /\ Len(r) = Len(a) + Len(b) /\ Len(a) \in Nat /\ Len(b) \in Nat
        /\ \A y \in 1..Len(a) : r[y] = a[y]
        /\ \A y \in 1..Len(b) : r[Len(a) + y] = b[y]
    BY Joined
  <1> HIDE DEF r
  <1>2. ASSUME NEW c \in B, NEW y \in 1..Len(r), r[y] = c
        PROVE  FALSE
    <2>1. CASE y \in 1..Len(a)
      BY <1>1, <1>2, <2>1 DEF NoByte, Occurs
    <2>2. CASE y \notin 1..Len(a)
      <3>1. y - Len(a) \in 1..Len(b) /\ Len(a) + (y - Len(a)) = y
        BY <1>1, <2>2
      <3>2. b[y - Len(a)] = c
        BY <1>1, <1>2, <3>1
      <3> QED BY <3>1, <3>2 DEF NoByte, Occurs
    <2> QED BY <2>1, <2>2
  <1> QED BY <1>1, <1>2 DEF NoByte, Occurs, r

(* What ends a line, and what ends a word of it.                           *)
Ends == {NUL, CR, LF}
Stops == {NUL, CR, LF, SPACE}

(* A word is clean and has no space.                                       *)
LEMMA StopsAre ==
  ASSUME NEW s
  PROVE  NoByte(s, Stops) <=> NoByte(s, Ends) /\ ~Occurs(SPACE, s)
  BY DEF NoByte, Stops, Ends

(* A single byte.                                                          *)
LEMMA OneByte ==
  ASSUME NEW b \in Byte, NEW B, b \notin B
  PROVE  <<b>> \in Seq(Byte) /\ NoByte(<<b>>, B)
  BY DEF NoByte, Occurs

(* A nickname is a word.                                                   *)
LEMMA NickIsWord ==
  ASSUME NEW s \in Seq(Byte), isValidNickname(s)
  PROVE  IsMiddle(s) /\ NoByte(s, Stops)
  <1>1. ASSUME NEW y \in 1..Len(s)
        PROVE  s[y] \in (45..57) \cup (65..125)
    <2>1. CASE y = 1
      BY <2>1 DEF isValidNickname, isAlpha, isSpecial, Upper, Lower
    <2>2. CASE y # 1
      <3>1. y \in 2..Len(s)
        BY <2>2
      <3> QED BY <3>1 DEF isValidNickname, isAlpha, isSpecial, Upper, Lower, Digit, DASH
    <2> QED BY <2>1, <2>2
  <1>2. Len(s) \in 1..9 /\ s[1] \in 65..125 /\ s # <<>>
    BY DEF isValidNickname, isAlpha, isSpecial, Upper, Lower
  <1>3. \A c \in Stops : c \notin (45..57) \cup (65..125)
    BY DEF Stops, NUL, CR, LF, SPACE
  <1>4. NoByte(s, Stops)
    BY <1>1, <1>3 DEF NoByte, Occurs
  <1>5. s[1] # COLON
    <2> DEFINE b == s[1]
    <2>1. b \in 65..125
      BY <1>2
    <2> HIDE DEF b
    <2>2. b # COLON
      BY <2>1 DEF COLON
    <2> QED BY <2>2 DEF b
  <1> QED BY <1>2, <1>4, <1>5, StopsAre DEF IsMiddle

(* The source is a word.                                                   *)
LEMMA SourceIsWord ==
  ASSUME NEW r \in ReplyRecord
  PROVE  source(r) \in Seq(Byte) /\ NoByte(source(r), Stops)
  <1>1. r.nick \in Nickname /\ r.user \in Username /\ r.ip \in Ip
    BY DEF ReplyRecord
  <1>2. /\ r.nick \in Seq(Byte) /\ r.user \in Seq(Byte) /\ r.ip \in Seq(Byte)
        /\ ServerName \in Seq(Byte)
    BY <1>1, WireAssumption DEF Txt
  <1>3. NoByte(r.nick, Stops)
    BY <1>1, <1>2, NameAssumption, NickIsWord
  <1>4. NoByte(r.user, Stops)
    BY <1>1, NameAssumption, WireAssumption, StopsAre DEF IsMiddle, Ends
  <1>5. NoByte(r.ip, Stops) /\ NoByte(ServerName, Stops)
    BY <1>1, WireAssumption, StopsAre DEF Ends
  <1>6. /\ <<EXCLAMATION>> \in Seq(Byte) /\ NoByte(<<EXCLAMATION>>, Stops)
        /\ <<AT>> \in Seq(Byte) /\ NoByte(<<AT>>, Stops)
    <2>1. EXCLAMATION \in Byte /\ EXCLAMATION \notin Stops /\ AT \in Byte /\ AT \notin Stops
      BY DEF EXCLAMATION, AT, Byte, Stops, NUL, CR, LF, SPACE
    <2> QED BY <2>1, OneByte
  <1> DEFINE a == r.nick \o <<EXCLAMATION>>
             b == a \o r.user
             c == b \o <<AT>>
  <1>7. a \in Seq(Byte) /\ NoByte(a, Stops)
    BY <1>2, <1>3, <1>6, JoinClean
  <1>m. mask(r) = c \o r.ip
    BY DEF mask
  <1> HIDE DEF a
  <1>8. b \in Seq(Byte) /\ NoByte(b, Stops)
    BY <1>2, <1>4, <1>7, JoinClean
  <1> HIDE DEF b
  <1>9. c \in Seq(Byte) /\ NoByte(c, Stops)
    BY <1>6, <1>8, JoinClean
  <1> HIDE DEF c
  <1>10. c \o r.ip \in Seq(Byte) /\ NoByte(c \o r.ip, Stops)
    BY <1>2, <1>5, <1>9, JoinClean
  <1>11. <<>> \in Seq(Byte) /\ NoByte(<<>>, Stops)
    BY DEF NoByte, Occurs
  <1> QED BY <1>2, <1>5, <1>m, <1>10, <1>11 DEF source

(* What a line is put together from: commands are words, parameters and    *)
(* texts end no line.                                                      *)
LEMMA ReplyWords ==
  ASSUME NEW r \in ReplyRecord
  PROVE  /\ r.cmd \in Seq(Byte) /\ NoByte(r.cmd, Stops) /\ IsMiddle(r.cmd)
         /\ toupper(r.cmd) = r.cmd
         /\ r.text # NoText => r.text \in Seq(Byte) /\ NoByte(r.text, Ends)
         /\ Fixed(r) \in Seq(Seq(Byte)) /\ Len(Fixed(r)) \in 0..MaxMiddle
         /\ \A y \in 1..Len(Fixed(r)) : NoByte(Fixed(r)[y], Ends)
  <1> DEFINE Good == {s \in Seq(Byte) : NoByte(s, Ends)}
  <1>1. /\ r.target \in targetname /\ r.cmd \in Verb \cup Numeric \cup OwnVerb \cup BareVerb
        /\ r.text \in Trail \cup {NoText} /\ \E n \in 0..MaxArgs : r.args \in [1..n -> Param]
    BY DEF ReplyRecord
  <1>2. /\ r.cmd \in Seq(Byte) /\ NoByte(r.cmd, Ends) /\ IsMiddle(r.cmd) /\ toupper(r.cmd) = r.cmd
    BY <1>1, WireAssumption DEF Txt, Ends
  <1>3. NoByte(r.cmd, Stops)
    BY <1>2, StopsAre DEF IsMiddle
  <1>4. r.text # NoText => r.text \in Seq(Byte) /\ NoByte(r.text, Ends)
    BY <1>1, WireAssumption DEF Txt, Ends
  <1>5. \A s \in Param : s \in Good
    BY WireAssumption DEF Txt, Ends
  <1>6. r.target \in Good
    <2>1. CASE r.target \in Nickname
      <3>1. r.target \in Seq(Byte) /\ isValidNickname(r.target)
        BY <2>1, NameAssumption, WireAssumption DEF Txt
      <3>2. NoByte(r.target, Stops)
        BY <3>1, NickIsWord
      <3> QED BY <3>1, <3>2, StopsAre
    <2>2. CASE r.target = <<ASTERISK>>
      <3>1. ASTERISK \in Byte /\ ASTERISK \notin Ends
        BY DEF ASTERISK, Byte, Ends, NUL, CR, LF
      <3> QED BY <2>2, <3>1, OneByte
    <2> QED BY <1>1, <2>1, <2>2 DEF targetname
  <1>7. PICK n \in 0..MaxArgs : r.args \in [1..n -> Param]
    BY <1>1
  <1>8. MaxArgs \in Nat /\ MaxMiddle \in Nat /\ MaxArgs < MaxMiddle
    BY BoundAssumption, WireAssumption
  <1>9. n \in Nat /\ n \in 0..MaxMiddle /\ 1 + n \in 0..MaxMiddle
    BY <1>8
  <1> HIDE DEF Good
  <1>10. r.args \in Seq(Good) /\ Len(r.args) = n
    <2>1. r.args \in [1..n -> Good]
      BY <1>5, <1>7
    <2> QED BY <1>9, <2>1
  <1>11. Fixed(r) \in Seq(Good) /\ Len(Fixed(r)) \in 0..MaxMiddle
    <2>1. CASE r.cmd \notin Numeric
      <3>1. <<>> \o r.args = r.args
        BY <1>10
      <3>2. Fixed(r) = r.args
        BY <2>1, <3>1 DEF Fixed
      <3> QED BY <1>9, <1>10, <3>2
    <2>2. CASE r.cmd \in Numeric
      <3> DEFINE l == <<r.target>> \o r.args
      <3>1. l \in Seq(Good) /\ Len(l) = 1 + n
        BY <1>6, <1>10
      <3>2. Fixed(r) = l
        BY <2>2 DEF Fixed
      <3> HIDE DEF l
      <3> QED BY <1>9, <3>1, <3>2
    <2> QED BY <2>1, <2>2
  <1>12. \A y \in 1..Len(Fixed(r)) : Fixed(r)[y] \in Good
    BY <1>11
  <1>13. Fixed(r) \in Seq(Seq(Byte))
    <2> DEFINE T == Seq(Byte)
    <2>1. Good \subseteq T
      BY DEF Good
    <2> HIDE DEF T
    <2>2. Fixed(r) \in Seq(T)
      BY <1>11, <2>1
    <2> QED BY <2>2 DEF T
  <1>14. \A y \in 1..Len(Fixed(r)) : NoByte(Fixed(r)[y], Ends)
    BY <1>12 DEF Good
  <1> QED BY <1>2, <1>3, <1>4, <1>11, <1>13, <1>14

(* How a line begins.                                                      *)
LEMMA OpeningIs ==
  ASSUME NEW r \in ReplyRecord
  PROVE  /\ opening(r) \in Seq(Byte) /\ NoByte(opening(r), Ends)
         /\ r.cmd \in BareVerb => opening(r) = r.cmd
         /\ r.cmd \notin BareVerb =>
              opening(r) = <<COLON>> \o (source(r) \o (<<SPACE>> \o r.cmd))
  <1>1. /\ r.cmd \in Seq(Byte) /\ NoByte(r.cmd, Ends)
        /\ source(r) \in Seq(Byte) /\ NoByte(source(r), Ends)
    BY ReplyWords, SourceIsWord, StopsAre
  <1>2. /\ <<COLON>> \in Seq(Byte) /\ NoByte(<<COLON>>, Ends)
        /\ <<SPACE>> \in Seq(Byte) /\ NoByte(<<SPACE>>, Ends)
    <2>1. COLON \in Byte /\ SPACE \in Byte /\ COLON \notin Ends /\ SPACE \notin Ends
      BY DEF COLON, SPACE, Byte, Ends, NUL, CR, LF
    <2> QED BY <2>1, OneByte
  <1> DEFINE a == <<SPACE>> \o r.cmd
             b == source(r) \o a
  <1>3. a \in Seq(Byte) /\ NoByte(a, Ends)
    BY <1>1, <1>2, JoinClean
  <1>4. CASE r.cmd \in BareVerb
    BY <1>1, <1>4 DEF opening
  <1>5. CASE r.cmd \notin BareVerb
    <2>1. <<COLON>> \o source(r) \o <<SPACE>> \o r.cmd = <<COLON>> \o b
      <3> HIDE DEF a, b
      <3>1. ASSUME NEW x \in Seq(Byte), NEW y \in Seq(Byte), NEW z \in Seq(Byte)
            PROVE  (x \o y) \o z = x \o (y \o z)
        OBVIOUS
      <3>2. <<COLON>> \o source(r) \in Seq(Byte)
        BY <1>1, <1>2
      <3>3. ((<<COLON>> \o source(r)) \o <<SPACE>>) \o r.cmd
              = (<<COLON>> \o source(r)) \o (<<SPACE>> \o r.cmd)
        BY <1>1, <1>2, <3>1, <3>2
      <3>4. (<<COLON>> \o source(r)) \o a = <<COLON>> \o (source(r) \o a)
        BY <1>1, <1>2, <1>3, <3>1
      <3> QED BY <3>3, <3>4 DEF a, b
    <2>2. opening(r) = <<COLON>> \o source(r) \o <<SPACE>> \o r.cmd
      BY <1>5 DEF opening, makeCommand, makeReply, source
    <2>3. opening(r) = <<COLON>> \o b
      BY <2>1, <2>2
    <2>b. b = source(r) \o (<<SPACE>> \o r.cmd)
      OBVIOUS
    <2> HIDE DEF a
    <2>4. b \in Seq(Byte) /\ NoByte(b, Ends)
      BY <1>1, <1>3, JoinClean
    <2> HIDE DEF b
    <2>5. <<COLON>> \o b \in Seq(Byte) /\ NoByte(<<COLON>> \o b, Ends)
      BY <1>2, <2>4, JoinClean
    <2> QED BY <1>5, <2>3, <2>5, <2>b
  <1> QED BY <1>4, <1>5

(* The fixed parameters add no byte that ends a line.                      *)
LEMMA WordsClean ==
  ASSUME NEW ws \in Seq(Seq(Byte)), NEW f, Words(f, ws),
         \A y \in 1..Len(ws) : NoByte(ws[y], Ends)
  PROVE  \A y \in 1..(Len(ws) + 1) : f[y] \in Seq(Byte) /\ NoByte(f[y], Ends)
  <1> DEFINE N == Len(ws)
             P == {k \in Nat : NoByte(f[N + 1 - k], Ends)}
  <1>0. N \in Nat
    OBVIOUS
  <1>a. \A y \in 1..(N + 1) : f[y] \in Seq(Byte)
    BY DEF Words
  <1>b. \A y \in 1..N : ws[y] \in Seq(Byte) /\ NoByte(ws[y], Ends)
    OBVIOUS
  <1>c. f[N + 1] = <<>> /\ \A y \in 1..N : f[y] = <<SPACE>> \o ws[y] \o f[y + 1]
    BY DEF Words
  <1> HIDE DEF N
  <1>1. 0 \in P
    <2>1. NoByte(<<>>, Ends)
      BY DEF NoByte, Occurs
    <2>2. N + 1 - 0 = N + 1
      BY <1>0
    <2> QED BY <1>c, <2>1, <2>2
  <1>2. ASSUME NEW k \in 0..(N - 1), k \in P PROVE k + 1 \in P
    <2> DEFINE y == N - k
    <2>1. /\ k + 1 \in Nat /\ y \in 1..N /\ y + 1 \in 1..(N + 1)
          /\ N + 1 - k = y + 1 /\ N + 1 - (k + 1) = y
      BY <1>0
    <2> HIDE DEF y
    <2>2. NoByte(f[y + 1], Ends) /\ f[y + 1] \in Seq(Byte)
      BY <1>2, <1>a, <2>1
    <2>3. <<SPACE>> \in Seq(Byte) /\ NoByte(<<SPACE>>, Ends)
      <3>1. SPACE \in Byte /\ SPACE \notin Ends
        BY DEF SPACE, Byte, Ends, NUL, CR, LF
      <3> QED BY <3>1, OneByte
    <2>4. ws[y] \in Seq(Byte) /\ NoByte(ws[y], Ends)
      BY <1>b, <2>1
    <2>5. <<SPACE>> \o ws[y] \in Seq(Byte) /\ NoByte(<<SPACE>> \o ws[y], Ends)
      BY <2>3, <2>4, JoinClean
    <2>6. NoByte(<<SPACE>> \o ws[y] \o f[y + 1], Ends)
      BY <2>2, <2>5, JoinClean
    <2>7. NoByte(f[y], Ends)
      BY <1>c, <2>1, <2>6
    <2> QED BY <2>1, <2>7
  <1> HIDE DEF P
  <1>3. \A k \in 0..N : k \in P
    BY <1>0, <1>1, <1>2, UpTo
  <1>4. ASSUME NEW y \in 1..(N + 1) PROVE NoByte(f[y], Ends)
    <2>1. N + 1 - y \in 0..N /\ N + 1 - (N + 1 - y) = y
      BY <1>0
    <2> QED BY <1>3, <2>1 DEF P
  <1> QED BY <1>a, <1>4 DEF N

(* Concatenation is associative.                                           *)
LEMMA Regroup ==
  ASSUME NEW a \in Seq(Byte), NEW b \in Seq(Byte), NEW c \in Seq(Byte)
  PROVE  (a \o b) \o c = a \o (b \o c) /\ a \o b \in Seq(Byte)
  OBVIOUS

(* Concatenation under a name that the provers do not look into.           *)
Join(a, b) == a \o b

(* Four texts.                                                             *)
LEMMA RegroupAll ==
  ASSUME NEW a \in Seq(Byte), NEW b \in Seq(Byte), NEW c \in Seq(Byte), NEW d \in Seq(Byte)
  PROVE  Join(Join(Join(a, b), c), d) = Join(a, Join(b, Join(c, d)))
  BY DEF Join

(* The first two bytes of a text that begins with b.                       *)
LEMMA BeginsWith ==
  ASSUME NEW b \in Byte, NEW v \in Seq(Byte)
  PROVE  LET u == <<b>> \o v IN
         /\ u \in Seq(Byte) /\ Len(u) = 1 + Len(v) /\ u[1] = b
         /\ Len(v) >= 1 => u[2] = v[1]
  <1> DEFINE u == <<b>> \o v
  <1>1. /\ u \in Seq(Byte) /\ Len(u) = 1 + Len(v) /\ Len(v) \in Nat /\ u[1] = b
        /\ \A n \in 1..Len(v) : u[1 + n] = v[n]
    OBVIOUS
  <1> HIDE DEF u
  <1>2. Len(v) >= 1 => u[1 + 1] = v[1]
    <2>1. Len(v) >= 1 => 1 \in 1..Len(v)
      BY <1>1
    <2> QED BY <1>1, <2>1
  <1> QED BY <1>1, <1>2 DEF u

(* The first byte of a word that something follows.                        *)
LEMMA WordBegins ==
  ASSUME NEW w \in Seq(Byte), w # <<>>, NEW v \in Seq(Byte)
  PROVE  /\ w \o v \in Seq(Byte) /\ Len(w \o v) >= 1 + Len(v) /\ (w \o v)[1] = w[1]
         /\ Len(w) >= 1
  OBVIOUS

(* After the first byte.                                                   *)
LEMMA FromNext ==
  ASSUME NEW s \in Seq(Byte), NEW p \in 2..(Len(s) + 1), NEW b \in Byte, NEW v \in Seq(Byte),
         From(s, p - 1) = Join(<<b>>, v)
  PROVE  From(s, p) = v
  <1> DEFINE N == Len(s)
             l == From(s, p - 1)
             k == From(s, p)
  <1>1. N \in Nat /\ p \in Nat /\ p - 1 \in 1..(N + 1) /\ p \in 1..(N + 1) /\ N \in (p - 1)..N
        /\ N \in ((p - 1) - 1)..N
    OBVIOUS
  <1>2. /\ k \in Seq(Byte) /\ Len(k) = N - p + 1
        /\ \A j \in 1..Len(k) : k[j] = s[j + p - 1]
    BY <1>1, PartOf DEF From
  <1>3. /\ Len(l) = N - (p - 1) + 1
        /\ \A j \in 1..Len(l) : l[j] = s[j + (p - 1) - 1]
    BY <1>1, PartOf DEF From
  <1>4. /\ Len(l) = 1 + Len(v) /\ Len(v) \in Nat
        /\ \A j \in 1..Len(v) : l[1 + j] = v[j]
    <2> DEFINE u == <<b>> \o v
    <2>1. Len(u) = 1 + Len(v) /\ Len(v) \in Nat /\ \A j \in 1..Len(v) : u[1 + j] = v[j]
      OBVIOUS
    <2>2. l = u
      BY DEF Join
    <2> HIDE DEF l, u
    <2> QED BY <2>1, <2>2
  <1> HIDE DEF N, l, k
  <1>5. Len(k) = Len(v)
    <2> DEFINE K == Len(k)
               L == Len(l)
               V == Len(v)
    <2>1. K = N - p + 1 /\ L = N - (p - 1) + 1 /\ L = 1 + V /\ V \in Nat
      BY <1>2, <1>3, <1>4
    <2>2. N \in Nat /\ p \in Nat
      BY <1>1
    <2> HIDE DEF K, L, V
    <2>3. K = V
      BY <2>1, <2>2
    <2> QED BY <2>3 DEF K, V
  <1>6. ASSUME NEW j \in 1..Len(k)
        PROVE  k[j] = v[j]
    <2>1. j \in 1..Len(v) /\ 1 + j \in 1..Len(l) /\ (1 + j) + (p - 1) - 1 = j + p - 1
      BY <1>1, <1>4, <1>5
    <2> QED BY <1>2, <1>3, <1>4, <2>1
  <1>7. k = v
    BY <1>2, <1>5, <1>6, SeqEqual
  <1> QED BY <1>7 DEF k

(* The first n words are written the same whatever follows them, and what  *)
(* follows is nothing or begins with a space.                              *)
LEMMA WordsSplit ==
  ASSUME NEW ws \in Seq(Seq(Byte)), NEW n \in 0..Len(ws),
         \A y \in 1..Len(ws) : NoByte(ws[y], Ends)
  PROVE  \E z : /\ MayFollow(z) /\ NoByte(z, Ends)
                /\ words(ws) = Join(words(SubSeq(ws, 1, n)), z)
                /\ words(SubSeq(ws, 1, n)) \in Seq(Byte)
                /\ n = Len(ws) => z = <<>>
  <1> DEFINE N == Len(ws)
             G == SubSeq(ws, 1, n)
  <1>0. N \in Nat /\ n \in Nat /\ n <= N
    OBVIOUS
  <1>1. G \in Seq(Seq(Byte)) /\ Len(G) = n /\ \A y \in 1..n : G[y] = ws[y]
    OBVIOUS
  <1> HIDE DEF G
  <1>2. PICK f : Words(f, ws) /\ words(ws) = f[1]
    BY WordsAre
  <1>3. PICK g : Words(g, G) /\ words(G) = g[1]
    BY <1>1, WordsAre
  <1>4. /\ \A y \in 1..(N + 1) : f[y] \in Seq(Byte) /\ NoByte(f[y], Ends)
        /\ f[N + 1] = <<>> /\ \A y \in 1..N : f[y] = <<SPACE>> \o ws[y] \o f[y + 1]
    BY <1>2, WordsClean DEF Words
  <1>5. /\ \A y \in 1..(n + 1) : g[y] \in Seq(Byte)
        /\ g[n + 1] = <<>> /\ \A y \in 1..n : g[y] = <<SPACE>> \o G[y] \o g[y + 1]
    BY <1>1, <1>3 DEF Words
  <1>N. N = Len(ws)
    OBVIOUS
  <1>w. \A y \in 1..N : ws[y] \in Seq(Byte)
    OBVIOUS
  <1> HIDE DEF N
  <1> DEFINE z == f[n + 1]
  <1>6. z \in Seq(Byte) /\ NoByte(z, Ends) /\ (n = N => z = <<>>)
    <2>1. n + 1 \in 1..(N + 1)
      BY <1>0
    <2> QED BY <1>4, <2>1
  <1>7. MayFollow(z)
    <2>1. CASE n = N
      BY <1>6, <2>1 DEF MayFollow
    <2>2. CASE n # N
      <3>1. n + 1 \in 1..N /\ (n + 1) + 1 \in 1..(N + 1)
        BY <1>0, <2>2
      <3>2. /\ z = (<<SPACE>> \o ws[n + 1]) \o f[(n + 1) + 1]
            /\ ws[n + 1] \in Seq(Byte) /\ f[(n + 1) + 1] \in Seq(Byte)
        BY <1>4, <1>w, <3>1
      <3>3. SPACE \in Byte /\ <<SPACE>> \in Seq(Byte)
        BY DEF SPACE, Byte
      <3>4. z = <<SPACE>> \o (ws[n + 1] \o f[(n + 1) + 1])
        BY <3>2, <3>3, Regroup
      <3> DEFINE v == ws[n + 1] \o f[(n + 1) + 1]
      <3>5. v \in Seq(Byte)
        BY <3>2, Regroup
      <3>6. z = <<SPACE>> \o v
        BY <3>4
      <3> HIDE DEF v, z
      <3>7. z[1] = SPACE
        BY <3>3, <3>5, <3>6, BeginsWith
      <3> QED BY <1>6, <3>7 DEF MayFollow
    <2> QED BY <2>1, <2>2
  <1>z. z = f[n + 1]
    OBVIOUS
  <1> HIDE DEF z
  <1>8. \A k \in 0..n : Join(g[n + 1 - k], z) = f[n + 1 - k]
    <2> DEFINE P == {k \in Nat : Join(g[n + 1 - k], z) = f[n + 1 - k]}
    <2>1. 0 \in P
      <3>1. n + 1 - 0 = n + 1 /\ <<>> \o z = z
        BY <1>0, <1>6
      <3> QED BY <1>5, <1>z, <3>1 DEF Join
    <2>2. ASSUME NEW k \in 0..(n - 1), k \in P PROVE k + 1 \in P
      <3> DEFINE y == n - k
      <3>1. /\ k \in Nat /\ k + 1 \in Nat /\ y \in 1..n /\ y \in 1..N
            /\ y + 1 \in 1..(n + 1) /\ n + 1 - k = y + 1 /\ n + 1 - (k + 1) = y
        BY <1>0
      <3> HIDE DEF y
      <3>2. Join(g[y + 1], z) = f[y + 1]
        BY <2>2, <3>1
      <3>3. f[y] = Join(Join(<<SPACE>>, ws[y]), f[y + 1])
        BY <1>4, <3>1 DEF Join
      <3>4. g[y] = Join(Join(<<SPACE>>, ws[y]), g[y + 1])
        BY <1>1, <1>5, <3>1 DEF Join
      <3>5. Join(<<SPACE>>, ws[y]) \in Seq(Byte)
        <4>1. <<SPACE>> \in Seq(Byte) /\ ws[y] \in Seq(Byte)
          BY <1>w, <3>1 DEF SPACE, Byte
        <4> QED BY <4>1, Regroup DEF Join
      <3>6. g[y + 1] \in Seq(Byte)
        BY <1>5, <3>1
      <3> DEFINE p == Join(<<SPACE>>, ws[y])
                 q == g[y + 1]
      <3> HIDE DEF p, q
      <3>7. p \in Seq(Byte) /\ q \in Seq(Byte)
        BY <3>5, <3>6 DEF p, q
      <3>8. Join(Join(p, q), z) = Join(p, Join(q, z))
        BY <1>6, <3>7, Regroup DEF Join
      <3> QED BY <3>1, <3>2, <3>3, <3>4, <3>8 DEF p, q
    <2> HIDE DEF P
    <2>3. \A k \in 0..n : k \in P
      BY <1>0, <2>1, <2>2, UpTo
    <2> QED BY <2>3 DEF P
  <1>9. Join(g[1], z) = f[1] /\ g[1] \in Seq(Byte)
    <2>1. n \in 0..n /\ n + 1 - n = 1 /\ 1 \in 1..(n + 1)
      BY <1>0
    <2> QED BY <1>5, <1>8, <2>1
  <1> QED BY <1>2, <1>3, <1>6, <1>7, <1>9 DEF G, N

(* What is left to read after n - 1 of the words, if y follows them.       *)
Rest(y, f, n) == f[n] \o y

AreWords(ws) == ws \in Seq(Seq(Byte)) /\ \A y \in 1..Len(ws) : IsMiddle(ws[y])

(* It is a single space, the next word and the rest, or it is y.           *)
LEMMA Follows ==
  ASSUME NEW ws, AreWords(ws), NEW f, Words(f, ws), NEW y, MayFollow(y),
         NEW n \in 1..(Len(ws) + 1)
  PROVE  LET u == Rest(y, f, n)
         IN  /\ MayFollow(u)
             /\ n <= Len(ws) => /\ u = Join(<<SPACE>>, Join(ws[n], Rest(y, f, n + 1)))
                                /\ Len(u) >= 2 /\ u[1] = SPACE
                                /\ u[2] # SPACE /\ u[2] # COLON
             /\ n = Len(ws) + 1 => u = y
  <1> DEFINE u == f[n] \o y
             v == f[n + 1] \o y
             N == Len(ws)
  <1>0. /\ N \in Nat /\ f[N + 1] = <<>> /\ \A a \in 1..(N + 1) : f[a] \in Seq(Byte)
        /\ \A a \in 1..N : f[a] = <<SPACE>> \o ws[a] \o f[a + 1] /\ ws[a] \in Seq(Byte)
    <2>1. N \in Nat /\ \A a \in 1..N : ws[a] \in Seq(Byte)
      BY DEF AreWords
    <2>2. /\ f \in [1..(N + 1) -> Seq(Byte)] /\ f[N + 1] = <<>>
          /\ \A a \in 1..N : f[a] = <<SPACE>> \o ws[a] \o f[a + 1]
      BY DEF Words
    <2>3. \A a \in 1..(N + 1) : f[a] \in Seq(Byte)
      BY <2>2
    <2> QED BY <2>1, <2>2, <2>3
  <1>1. SPACE \in Byte /\ <<SPACE>> \in Seq(Byte) /\ y \in Seq(Byte)
    BY DEF SPACE, Byte, MayFollow
  <1> HIDE DEF N
  <1>4. CASE n = N + 1
    <2>1. f[n] = <<>> /\ <<>> \o y = y
      BY <1>0, <1>1, <1>4
    <2>2. u = y
      BY <2>1
    <2>3. ~(n <= N)
      BY <1>0, <1>4
    <2> QED BY <1>4, <2>2, <2>3 DEF N, u, Rest
  <1>5. CASE n # N + 1
    <2>1. n \in 1..N /\ n + 1 \in 1..(N + 1) /\ n <= N
      BY <1>0, <1>5 DEF N
    <2>2. f[n] = (<<SPACE>> \o ws[n]) \o f[n + 1] /\ ws[n] \in Seq(Byte) /\ f[n + 1] \in Seq(Byte)
      BY <1>0, <2>1
    <2>3. IsMiddle(ws[n])
      BY <2>1 DEF N, AreWords
    <2>4. ws[n] # <<>> /\ ws[n][1] # COLON /\ ws[n][1] # SPACE
      <3>1. ws[n] # <<>> /\ ws[n][1] # COLON /\ ~Occurs(SPACE, ws[n])
        BY <2>3 DEF IsMiddle
      <3>2. 1 \in 1..Len(ws[n])
        BY <2>2, <3>1
      <3> QED BY <3>1, <3>2 DEF Occurs
    <2>5. v \in Seq(Byte)
      BY <1>1, <2>2, Regroup
    <2> DEFINE w == ws[n] \o v
    <2>6. u = <<SPACE>> \o w
      <3> DEFINE m == ws[n]
                 g == f[n + 1]
                 sp == <<SPACE>>
      <3>1. sp \in Seq(Byte) /\ m \in Seq(Byte) /\ g \in Seq(Byte)
        BY <1>1, <2>2
      <3>2. u = Join(Join(Join(sp, m), g), y) /\ w = Join(m, Join(g, y))
        BY <2>2 DEF Join
      <3> HIDE DEF m, g, sp
      <3>3. Join(Join(Join(sp, m), g), y) = Join(sp, Join(m, Join(g, y)))
        BY <1>1, <3>1, RegroupAll
      <3> HIDE DEF u, w
      <3>4. u = Join(sp, w)
        BY <3>2, <3>3
      <3> QED BY <3>4 DEF sp, Join
    <2>7. w \in Seq(Byte) /\ Len(w) >= 1 /\ w[1] = ws[n][1]
      <3> HIDE DEF v
      <3>1. /\ w \in Seq(Byte) /\ Len(w) >= 1 + Len(v) /\ w[1] = ws[n][1] /\ Len(v) \in Nat
        BY <2>2, <2>4, <2>5, WordBegins
      <3> QED BY <3>1
    <2>a. u = <<SPACE>> \o (ws[n] \o v)
      BY <2>6
    <2> HIDE DEF u, w, v
    <2>8. u \in Seq(Byte) /\ Len(u) = 1 + Len(w) /\ u[1] = SPACE /\ u[2] = ws[n][1]
      BY <1>1, <2>6, <2>7, BeginsWith
    <2>9. Len(u) >= 2
      BY <2>7, <2>8
    <2>10. MayFollow(u)
      BY <2>8 DEF MayFollow
    <2> QED BY <1>5, <2>1, <2>4, <2>8, <2>9, <2>10, <2>a DEF N, u, v, Rest, Join
  <1> QED BY <1>4, <1>5

(* The same for the opening of a line and what follows it.                 *)
LEMMA RegroupLine ==
  ASSUME NEW a \in Seq(Byte), NEW b \in Seq(Byte), NEW c \in Seq(Byte), NEW d \in Seq(Byte),
         NEW u \in Seq(Byte)
  PROVE  Join(Join(a, Join(b, Join(c, d))), u) = Join(a, Join(b, Join(c, Join(d, u))))
  <1>1. \A p, q \in Seq(Byte) : Join(p, q) \in Seq(Byte)
    BY DEF Join
  <1>2. \A p, q, s \in Seq(Byte) : Join(Join(p, q), s) = Join(p, Join(q, s))
    BY DEF Join
  <1>3. Join(c, d) \in Seq(Byte) /\ Join(b, Join(c, d)) \in Seq(Byte)
    BY <1>1
  <1>4. Join(Join(a, Join(b, Join(c, d))), u) = Join(a, Join(Join(b, Join(c, d)), u))
    BY <1>2, <1>3
  <1>5. Join(Join(b, Join(c, d)), u) = Join(b, Join(Join(c, d), u))
    BY <1>2, <1>3
  <1>6. Join(Join(c, d), u) = Join(c, Join(d, u))
    BY <1>2
  <1> QED BY <1>4, <1>5, <1>6

(* The line of r is written with the words G first, and y is on it of what *)
(* comes after them.                                                       *)
Shape(r, G, y, g) ==
  /\ r \in ReplyRecord /\ AreWords(G) /\ Len(G) <= MaxMiddle
  /\ \A j \in 1..Len(G) : NoByte(G[j], Ends)
  /\ Words(g, G) /\ MayFollow(y) /\ NoByte(y, Ends)
  /\ raw = Join(opening(r), Rest(y, g, 1)) /\ Len(raw) <= MaxLine

(* A line that ends no other, begins with its command or with a colon and  *)
(* its source, and goes on with the words.                                 *)
LEMMA ShapeFacts ==
  ASSUME NEW r, NEW G, NEW y, NEW g, Shape(r, G, y, g)
  PROVE  LET u == Rest(y, g, 1)
             c == Join(r.cmd, u)
         IN  /\ raw \in Seq(Byte) /\ NoByte(raw, Ends) /\ Len(raw) >= 1 /\ raw[1] # SPACE
             /\ MayFollow(u) /\ c \in Seq(Byte) /\ Len(c) >= 1 /\ c[1] # SPACE
             /\ r.cmd \in BareVerb =>
                  raw[1] # COLON /\ WordAnd(raw, 1, r.cmd, u)
             /\ r.cmd \notin BareVerb =>
                  raw[1] = COLON /\ WordAnd(raw, 2, source(r), Join(<<SPACE>>, c))
  <1> DEFINE u == Rest(y, g, 1)
             c == Join(r.cmd, u)
             v == Join(<<SPACE>>, c)
             w == Join(source(r), v)
  <1>0. /\ r \in ReplyRecord /\ AreWords(G) /\ Words(g, G) /\ MayFollow(y) /\ NoByte(y, Ends)
        /\ raw = Join(opening(r), u) /\ \A j \in 1..Len(G) : NoByte(G[j], Ends)
        /\ G \in Seq(Seq(Byte)) /\ Len(G) \in Nat /\ y \in Seq(Byte)
    BY DEF Shape, AreWords, MayFollow
  <1>1. r.cmd \in Seq(Byte) /\ NoByte(r.cmd, Stops) /\ IsMiddle(r.cmd)
    BY <1>0, ReplyWords
  <1>2. source(r) \in Seq(Byte) /\ NoByte(source(r), Stops)
    BY <1>0, SourceIsWord
  <1>3. opening(r) \in Seq(Byte) /\ NoByte(opening(r), Ends)
    BY <1>0, OpeningIs
  <1>4. MayFollow(u) /\ u \in Seq(Byte) /\ NoByte(u, Ends)
    <2>1. 1 \in 1..(Len(G) + 1)
      BY <1>0
    <2>2. MayFollow(u)
      BY <1>0, <2>1, Follows
    <2>3. g[1] \in Seq(Byte) /\ NoByte(g[1], Ends)
      BY <1>0, <2>1, WordsClean
    <2>4. NoByte(u, Ends)
      BY <1>0, <2>3, JoinClean DEF Rest
    <2> QED BY <2>2, <2>4 DEF MayFollow
  <1> HIDE DEF u
  <1>5. raw \in Seq(Byte) /\ NoByte(raw, Ends)
    BY <1>0, <1>3, <1>4, JoinClean DEF Join
  <1>6. SPACE \in Byte /\ COLON \in Byte /\ <<SPACE>> \in Seq(Byte) /\ <<COLON>> \in Seq(Byte)
    BY DEF SPACE, COLON, Byte
  <1>7. r.cmd # <<>> /\ r.cmd[1] # SPACE /\ r.cmd[1] # COLON /\ ~Occurs(SPACE, r.cmd)
    <2>1. r.cmd # <<>> /\ ~Occurs(SPACE, r.cmd) /\ r.cmd[1] # COLON
      BY <1>1 DEF IsMiddle
    <2>2. 1 \in 1..Len(r.cmd)
      BY <1>1, <2>1
    <2> QED BY <2>1, <2>2 DEF Occurs
  <1>8. c \in Seq(Byte) /\ Len(c) >= 1 /\ c[1] = r.cmd[1]
    <2>1. c \in Seq(Byte) /\ Len(c) >= 1 + Len(u) /\ c[1] = r.cmd[1] /\ Len(u) \in Nat
      BY <1>1, <1>4, <1>7, WordBegins DEF Join
    <2> HIDE DEF c
    <2> QED BY <2>1
  <1>c. c = Join(r.cmd, u)
    OBVIOUS
  <1> HIDE DEF c
  <1>9. CASE r.cmd \in BareVerb
    <2>1. raw = c
      BY <1>0, <1>9, <1>c, OpeningIs
    <2>2. From(raw, 1) = raw
      BY <1>5, SubSeqFull DEF From
    <2>3. Len(raw) >= 1 /\ 1 \in 1..(Len(raw) + 1)
      <3> DEFINE N == Len(raw)
      <3>1. N >= 1 /\ N \in Nat
        BY <1>5, <1>8, <2>1
      <3> HIDE DEF N
      <3>2. 1 \in 1..(N + 1)
        BY <3>1
      <3> QED BY <3>1, <3>2 DEF N
    <2>4. WordAnd(raw, 1, r.cmd, u)
      BY <1>1, <1>4, <1>5, <1>7, <1>c, <2>1, <2>2, <2>3 DEF WordAnd, Join
    <2> QED BY <1>4, <1>5, <1>7, <1>8, <1>9, <1>c, <2>1, <2>3, <2>4 DEF u
  <1>10. CASE r.cmd \notin BareVerb
    <2>1. raw = Join(<<COLON>>, w)
      <3> DEFINE co == <<COLON>>
                 sp == <<SPACE>>
                 so == source(r)
                 cm == r.cmd
      <3>1. co \in Seq(Byte) /\ sp \in Seq(Byte) /\ so \in Seq(Byte) /\ cm \in Seq(Byte)
        BY <1>1, <1>2, <1>6
      <3>2. opening(r) = Join(co, Join(so, Join(sp, cm)))
        BY <1>0, <1>10, OpeningIs DEF Join
      <3>3. w = Join(so, Join(sp, Join(cm, u)))
        BY <1>c
      <3> HIDE DEF co, sp, so, cm, w
      <3>4. Join(Join(co, Join(so, Join(sp, cm))), u) = Join(co, Join(so, Join(sp, Join(cm, u))))
        BY <1>4, <3>1, RegroupLine
      <3>5. raw = Join(co, w)
        BY <1>0, <3>2, <3>3, <3>4
      <3> QED BY <3>5 DEF co
    <2>2. v \in Seq(Byte) /\ Len(v) = 1 + Len(c) /\ v[1] = SPACE
      BY <1>6, <1>8, BeginsWith DEF Join
    <2>v. v = Join(<<SPACE>>, c)
      OBVIOUS
    <2> HIDE DEF v
    <2>3. MayFollow(v)
      BY <2>2 DEF MayFollow
    <2>4. w \in Seq(Byte)
      BY <1>2, <2>2, Regroup DEF Join
    <2>w. w = Join(source(r), v)
      OBVIOUS
    <2> HIDE DEF w
    <2>5. Len(raw) = 1 + Len(w) /\ raw[1] = COLON /\ Len(w) \in Nat
      BY <1>6, <2>1, <2>4, BeginsWith DEF Join
    <2>6. Len(raw) >= 1 /\ 2 \in 2..(Len(raw) + 1) /\ 2 \in 1..(Len(raw) + 1) /\ 2 - 1 = 1
      <3> DEFINE R == Len(raw)
                 W == Len(w)
      <3>1. R = 1 + W /\ W \in Nat
        BY <2>5
      <3> HIDE DEF R, W
      <3>2. R >= 1 /\ 2 \in 2..(R + 1) /\ 2 \in 1..(R + 1) /\ 2 - 1 = 1
        BY <3>1
      <3> QED BY <3>2 DEF R
    <2>7. From(raw, 2 - 1) = Join(<<COLON>>, w)
      <3>1. SubSeq(raw, 1, Len(raw)) = raw
        BY <1>5, SubSeqFull
      <3> QED BY <2>1, <2>6, <3>1 DEF From
    <2>8. From(raw, 2) = w
      BY <1>5, <1>6, <2>4, <2>6, <2>7, FromNext
    <2>9. ~Occurs(SPACE, source(r))
      BY <1>2, StopsAre
    <2>10. WordAnd(raw, 2, source(r), v)
      BY <1>2, <1>5, <2>3, <2>6, <2>8, <2>9, <2>w DEF WordAnd, Join
    <2>11. raw[1] # SPACE
      BY <2>5 DEF SPACE, COLON
    <2> QED BY <1>4, <1>5, <1>7, <1>8, <1>10, <1>c, <2>5, <2>6, <2>10, <2>11, <2>v DEF u
  <1> QED BY <1>9, <1>10

(* What the parser has of such a line in each part of it: nothing, the     *)
(* source, the source and the command, all before the m-th word, all       *)
(* words.  At the end it has no more than these if nothing follows them,   *)
(* and the text if a text follows.                                         *)
AtTrim == stage = "trim" /\ prefix = <<>> /\ parameter = <<>>

AtPrefix(r) ==
  /\ r.cmd \notin BareVerb
  /\ stage = "prefix" /\ seared = raw /\ pos = 1 /\ parameter = <<>>

AtCommand(r, y, g) ==
  /\ stage = "command" /\ seared = raw /\ prefix = source(r) /\ parameter = <<>>
  /\ WordAnd(raw, pos, r.cmd, Rest(y, g, 1))

Has(r, G, m) ==
  /\ seared = raw /\ prefix = source(r) /\ command = r.cmd
  /\ parameter \in Seq(Seq(Byte)) /\ Len(parameter) >= m
  /\ \A j \in 1..m : parameter[j] = G[j]

AtWordOf(r, G, y, g, m) ==
  /\ stage = "params" /\ Has(r, G, m - 1) /\ Len(parameter) = m - 1
  /\ \E e \in 1..(Len(raw) + 1) : From(raw, e) = Rest(y, g, m) /\ pos = skipSpaces(raw, e)

Text(x) == Join(<<SPACE>>, Join(<<COLON>>, x))

ToRead(n, x) ==
  /\ pos <= Len(raw) /\ raw[pos] = COLON /\ From(raw, pos + 1) = x
  /\ Len(parameter) = n

HaveRead(n, x) ==
  pos = Len(raw) + 1 /\ Len(parameter) = n + 1 /\ parameter[n + 1] = x

Past(r, G, y) ==
  /\ stage \in {"params", "421", "451", "executed"}
  /\ Has(r, G, Len(G)) /\ pos \in 1..(Len(raw) + 1)
  /\ stage = "params" \/ pos = Len(raw) + 1
  /\ y = <<>> => pos = Len(raw) + 1 /\ Len(parameter) = Len(G)
  /\ \A x \in Seq(Byte) : y = Text(x) => ToRead(Len(G), x) \/ HaveRead(Len(G), x)

Standing(r, G, y, g) ==
  \/ AtTrim \/ AtPrefix(r) \/ AtCommand(r, y, g) \/ Past(r, G, y)
  \/ \E m \in 1..(Len(G) + 1) : AtWordOf(r, G, y, g, m)

(* The line is neither cut nor refused, and begins with its source or its  *)
(* command.                                                                *)
LEMMA TrimStep ==
  ASSUME NEW r, NEW G, NEW y, NEW g, Shape(r, G, y, g), AtTrim, Trim
  PROVE  AtPrefix(r)' \/ AtCommand(r, y, g)'
  <1>1. /\ raw \in Seq(Byte) /\ NoByte(raw, Ends) /\ Len(raw) >= 1 /\ raw[1] # SPACE
        /\ r.cmd \in BareVerb => raw[1] # COLON /\ WordAnd(raw, 1, r.cmd, Rest(y, g, 1))
        /\ r.cmd \notin BareVerb => raw[1] = COLON
    BY ShapeFacts
  <1>2. withinLimit(raw) = raw
    BY DEF Shape, withinLimit, cutLine, Shorten
  <1>3. raw # <<>> /\ Len(raw) \in Nat
    BY <1>1
  <1>4. ~Occurs(NUL, raw) /\ ~Occurs(CR, raw)
    BY <1>1 DEF NoByte, Ends
  <1>5. readable(raw)
    <2> DEFINE e == find(raw, CR, 1)
               N == Len(raw)
    <2>1. e \in 1..(N + 1) /\ (e <= N => raw[e] = CR)
      <3>1. 1 \in 1..(N + 1)
        BY <1>3
      <3> QED BY <1>1, <3>1, FindStops
    <2>2. N \in Nat /\ \A j \in 1..N : raw[j] # CR
      BY <1>3, <1>4 DEF Occurs
    <2> HIDE DEF e, N
    <2>3. e >= N
      BY <2>1, <2>2
    <2> QED BY <1>4, <2>3 DEF readable, carriageReturnOK, e, N
  <1>6. chop(raw) = raw
    <2>1. Len(raw) \in 1..Len(raw)
      BY <1>1, <1>3
    <2>2. raw[Len(raw)] # CR
      BY <1>4, <2>1 DEF Occurs
    <2> QED BY <2>2 DEF chop
  <1>7. skipSpaces(raw, 1) = 1
    <2> DEFINE q == skipSpaces(raw, 1)
               N == Len(raw)
    <2>1. q \in 1..(N + 1) /\ \A j \in 1..(q - 1) : raw[j] = SPACE
      <3>1. 1 \in 1..(N + 1)
        BY <1>3
      <3> QED BY <1>1, <3>1, SkipStops
    <2>2. raw[1] # SPACE /\ N \in Nat
      BY <1>1, <1>3
    <2> HIDE DEF q, N
    <2>3. q = 1
      BY <2>1, <2>2
    <2> QED BY <2>3 DEF q
  <1>8. 1 <= Len(raw) /\ ~(1 > Len(raw))
    BY <1>1, <1>3
  <1>9. /\ seared' = raw /\ pos' = 1 /\ stage' = IF raw[1] = COLON THEN "prefix" ELSE "command"
        /\ raw' = raw /\ prefix' = prefix /\ parameter' = parameter
    BY <1>2, <1>3, <1>5, <1>6, <1>7, <1>8, Zenon DEF Trim, message
  <1>10. CASE r.cmd \in BareVerb
    <2>1. source(r) = <<>>
      BY <1>10 DEF source
    <2> QED BY <1>1, <1>9, <1>10, <2>1 DEF AtTrim, AtCommand
  <1>11. CASE r.cmd \notin BareVerb
    BY <1>1, <1>9, <1>11 DEF AtTrim, AtPrefix
  <1> QED BY <1>10, <1>11

(* The word after the colon is the source.                                 *)
LEMMA PrefixStep ==
  ASSUME NEW r, NEW G, NEW y, NEW g, Shape(r, G, y, g), AtPrefix(r), Prefix
  PROVE  AtCommand(r, y, g)'
  <1> DEFINE u == Rest(y, g, 1)
             c == Join(r.cmd, u)
             v == Join(<<SPACE>>, c)
             end == find(raw, SPACE, 2)
             q   == skipSpaces(raw, end)
  <1>1. /\ raw \in Seq(Byte) /\ WordAnd(raw, 2, source(r), v) /\ MayFollow(u)
        /\ c \in Seq(Byte) /\ Len(c) >= 1 /\ c[1] # SPACE
    BY ShapeFacts DEF AtPrefix
  <1>2. end \in 2..(Len(raw) + 1) /\ SubSeq(raw, 2, end - 1) = source(r) /\ From(raw, end) = v
    BY <1>1, WordEnds
  <1>c. c = Join(r.cmd, u) /\ v = Join(<<SPACE>>, c) /\ u = Rest(y, g, 1)
    OBVIOUS
  <1> HIDE DEF u, c, v
  <1>3. SPACE \in Byte
    BY DEF SPACE, Byte
  <1>4. v \in Seq(Byte) /\ Len(v) >= 2 /\ v[1] = SPACE /\ v[2] # SPACE
    <2>1. v \in Seq(Byte) /\ Len(v) = 1 + Len(c) /\ v[1] = SPACE /\ v[2] = c[1]
      BY <1>1, <1>3, <1>c, BeginsWith DEF Join
    <2>2. Len(c) \in Nat
      BY <1>1
    <2> QED BY <1>1, <2>1, <2>2
  <1>n. end \in 1..(Len(raw) + 1)
    <2> DEFINE N == Len(raw)
    <2>1. N \in Nat /\ end \in 2..(N + 1)
      BY <1>1, <1>2
    <2> HIDE DEF N, end
    <2>2. end \in 1..(N + 1)
      BY <2>1
    <2> QED BY <2>2 DEF N
  <1>5. q = end + 1 /\ q \in 2..Len(raw) /\ q - 1 = end
    BY <1>1, <1>2, <1>4, <1>n, OneSpace
  <1> HIDE DEF end, q
  <1>7. q \in 1..(Len(raw) + 1) /\ q \in 2..(Len(raw) + 1) /\ ~(end > Len(raw)) /\ ~(q > Len(raw))
    <2> DEFINE N == Len(raw)
    <2>1. N \in Nat /\ end \in 2..(N + 1) /\ q \in 2..N /\ q = end + 1
      BY <1>1, <1>2, <1>5
    <2> HIDE DEF N
    <2>2. q \in 1..(N + 1) /\ q \in 2..(N + 1) /\ ~(end > N) /\ ~(q > N)
      BY <2>1
    <2> QED BY <2>2 DEF N
  <1>6. From(raw, q) = c
    BY <1>1, <1>2, <1>3, <1>5, <1>7, <1>c, FromNext
  <1>8. WordAnd(raw, q, r.cmd, u)
    <2>1. r.cmd \in Seq(Byte) /\ ~Occurs(SPACE, r.cmd)
      BY ReplyWords DEF Shape, IsMiddle
    <2> QED BY <1>1, <1>6, <1>7, <1>c, <2>1 DEF WordAnd, Join
  <1>9. seared = raw /\ pos + 1 = 2 /\ stage = "prefix" /\ parameter = <<>>
    BY DEF AtPrefix
  <1>10. /\ prefix' = substr(raw, 2, end) /\ pos' = q /\ stage' = "command"
         /\ raw' = raw /\ seared' = seared /\ parameter' = parameter
    BY <1>7, <1>9, Zenon DEF Prefix, afterWord, end, q
  <1>11. prefix' = source(r)
    BY <1>2, <1>10 DEF substr
  <1> QED BY <1>8, <1>9, <1>10, <1>11, <1>c DEF AtCommand

(* The word after the source is the command.                               *)
LEMMA CommandStep ==
  ASSUME NEW r, NEW G, NEW y, NEW g, Shape(r, G, y, g), AtCommand(r, y, g), Command
  PROVE  AtWordOf(r, G, y, g, 1)'
  <1> DEFINE u == Rest(y, g, 1)
             end == find(raw, SPACE, pos)
             q   == skipSpaces(raw, end)
  <1>1. /\ WordAnd(raw, pos, r.cmd, u) /\ seared = raw /\ prefix = source(r)
        /\ parameter = <<>>
    BY DEF AtCommand
  <1>2. /\ end \in pos..(Len(raw) + 1) /\ SubSeq(raw, pos, end - 1) = r.cmd
        /\ From(raw, end) = u
    BY <1>1, WordEnds
  <1>n. end \in 1..(Len(raw) + 1)
    <2> DEFINE N == Len(raw)
    <2>1. pos \in 1..(N + 1) /\ end \in pos..(N + 1)
      BY <1>1, <1>2 DEF WordAnd
    <2> HIDE DEF N, end
    <2>2. end \in 1..(N + 1)
      BY <2>1
    <2> QED BY <2>2 DEF N
  <1>3. toupper(r.cmd) = r.cmd
    BY ReplyWords DEF Shape
  <1>u. u = Rest(y, g, 1)
    OBVIOUS
  <1> HIDE DEF u, end, q
  <1>4. /\ command' = toupper(SubSeq(raw, pos, end - 1)) /\ pos' = q /\ stage' = "params"
        /\ raw' = raw /\ seared' = seared /\ prefix' = prefix /\ parameter' = parameter
    BY <1>1, Zenon DEF Command, setCommand, substr, afterWord, end, q
  <1>5. command' = r.cmd
    BY <1>2, <1>3, <1>4
  <1>6. /\ parameter' \in Seq(Seq(Byte)) /\ Len(parameter') = 1 - 1 /\ Len(parameter') >= 1 - 1
        /\ 1..(1 - 1) = {}
    BY <1>1, <1>4
  <1>7. Has(r, G, 1 - 1)'
    BY <1>1, <1>4, <1>5, <1>6 DEF Has
  <1> QED BY <1>2, <1>4, <1>6, <1>7, <1>n, <1>u DEF AtWordOf, q

(* A parameter is added to those there are.                                *)
LEMMA OneMore ==
  ASSUME NEW q \in Seq(Seq(Byte)), NEW w \in Seq(Byte)
  PROVE  LET a == Append(q, w) IN
         /\ a \in Seq(Seq(Byte)) /\ Len(a) = Len(q) + 1 /\ Len(q) \in Nat
         /\ a[Len(q) + 1] = w /\ \A j \in 1..Len(q) : a[j] = q[j]
  OBVIOUS

(* Each of the words is read as one parameter.                             *)
LEMMA WordStep ==
  ASSUME NEW r, NEW G, NEW y, NEW g, NEW m \in 1..Len(G),
         Shape(r, G, y, g), AtWordOf(r, G, y, g, m), ParseNext
  PROVE  AtWordOf(r, G, y, g, m + 1)'
  <1> DEFINE u == Rest(y, g, m)
             v == Rest(y, g, m + 1)
             end == find(raw, SPACE, pos)
             q   == skipSpaces(raw, end)
             N   == Len(raw)
  <1>1. /\ AreWords(G) /\ Words(g, G) /\ MayFollow(y) /\ raw \in Seq(Byte) /\ N \in Nat
        /\ Len(G) \in Nat /\ Len(G) <= MaxMiddle /\ MaxMiddle \in Nat
        /\ G \in Seq(Seq(Byte)) /\ G[m] \in Seq(Byte) /\ ~Occurs(SPACE, G[m])
    <2>1. AreWords(G) /\ Words(g, G) /\ MayFollow(y) /\ raw \in Seq(Byte) /\ Len(G) <= MaxMiddle
      BY ShapeFacts DEF Shape
    <2>2. G \in Seq(Seq(Byte)) /\ ~Occurs(SPACE, G[m])
      BY <2>1 DEF AreWords, IsMiddle
    <2>3. G[m] \in Seq(Byte) /\ Len(G) \in Nat
      BY <2>2
    <2> QED BY <2>1, <2>2, <2>3, BoundAssumption
  <1>m. m \in 1..(Len(G) + 1) /\ m + 1 \in 1..(Len(G) + 1) /\ m <= Len(G) /\ m - 1 # MaxMiddle
        /\ m \in Nat /\ (m + 1) - 1 = m /\ (m - 1) + 1 = m
    BY <1>1
  <1>2. /\ u \in Seq(Byte) /\ u = Join(<<SPACE>>, Join(G[m], v))
        /\ Len(u) >= 2 /\ u[1] = SPACE /\ u[2] # SPACE /\ u[2] # COLON
    <2>a. AreWords(G) /\ Words(g, G) /\ MayFollow(y) /\ m \in 1..(Len(G) + 1)
      BY <1>1, <1>m
    <2>1. LET z == Rest(y, g, m)
          IN  /\ MayFollow(z)
              /\ m <= Len(G) => /\ z = Join(<<SPACE>>, Join(G[m], Rest(y, g, m + 1)))
                                /\ Len(z) >= 2 /\ z[1] = SPACE
                                /\ z[2] # SPACE /\ z[2] # COLON
              /\ m = Len(G) + 1 => z = y
      BY <2>a, Follows
    <2>2. /\ MayFollow(u)
          /\ m <= Len(G) => /\ u = Join(<<SPACE>>, Join(G[m], v))
                            /\ Len(u) >= 2 /\ u[1] = SPACE
                            /\ u[2] # SPACE /\ u[2] # COLON
      BY <2>1
    <2> HIDE DEF u, v
    <2> QED BY <1>m, <2>2 DEF MayFollow
  <1>3. v \in Seq(Byte) /\ MayFollow(v)
    <2>1. MayFollow(v)
      BY <1>1, <1>m, Follows
    <2> HIDE DEF v
    <2> QED BY <2>1 DEF MayFollow
  <1>v. v = Rest(y, g, m + 1)
    OBVIOUS
  <1>4. /\ stage = "params" /\ seared = raw /\ prefix = source(r) /\ command = r.cmd
        /\ parameter \in Seq(Seq(Byte)) /\ Len(parameter) = m - 1
        /\ \A j \in 1..(m - 1) : parameter[j] = G[j]
    BY DEF AtWordOf, Has
  <1>5. PICK e \in 1..(N + 1) : From(raw, e) = u /\ pos = skipSpaces(raw, e)
    BY DEF AtWordOf
  <1>6. pos = e + 1 /\ e + 1 \in 2..N /\ (e + 1) - 1 = e /\ raw[e + 1] = u[2]
    BY <1>1, <1>2, <1>5, OneSpace
  <1>7. pos \in 2..N /\ pos - 1 = e /\ raw[pos] # COLON
    BY <1>2, <1>6
  <1> HIDE DEF u, v
  <1>8. pos \in 2..(N + 1) /\ pos \in 1..(N + 1) /\ pos <= N /\ ~(pos > N)
    <2> HIDE DEF N
    <2> QED BY <1>1, <1>7
  <1>9. Middle
    <2>1. ~isTrailing
      BY <1>4, <1>7, <1>m DEF isTrailing
    <2> QED BY <1>4, <1>8, <2>1 DEF ParseNext, Trim, Prefix, Command, Trailing, operate
  <1>10. From(raw, pos) = Join(G[m], v)
    <2>1. SPACE \in Byte
      BY DEF SPACE, Byte
    <2>2. Join(G[m], v) \in Seq(Byte)
      BY <1>1, <1>3, Regroup DEF Join
    <2> QED BY <1>1, <1>2, <1>5, <1>7, <1>8, <2>1, <2>2, FromNext
  <1>11. WordAnd(raw, pos, G[m], v)
    BY <1>1, <1>3, <1>8, <1>10 DEF WordAnd, Join
  <1>12. end \in pos..(N + 1) /\ SubSeq(raw, pos, end - 1) = G[m] /\ From(raw, end) = v
    BY <1>11, WordEnds
  <1> HIDE DEF end, q
  <1>13. end \in 1..(N + 1)
    <2> HIDE DEF N
    <2> QED BY <1>1, <1>8, <1>12
  <1>14. /\ parameter' = Append(parameter, SubSeq(raw, pos, end - 1)) /\ pos' = q
         /\ raw' = raw /\ seared' = seared /\ prefix' = prefix /\ command' = command
         /\ stage' = stage
    BY <1>4, <1>9, Zenon DEF Middle, addParameter, substr, afterWord, end, q
  <1>15. parameter' = Append(parameter, G[m])
    BY <1>12, <1>14
  <1>16. /\ parameter' \in Seq(Seq(Byte)) /\ Len(parameter') = m
         /\ parameter'[m] = G[m] /\ \A j \in 1..(m - 1) : parameter'[j] = G[j]
    BY <1>1, <1>4, <1>15, <1>m, OneMore
  <1>17. \A j \in 1..m : parameter'[j] = G[j]
    <2>1. \A j \in 1..m : j = m \/ j \in 1..(m - 1)
      BY <1>m
    <2> QED BY <1>16, <2>1
  <1>18. Has(r, G, (m + 1) - 1)'
    <2>1. Len(parameter') >= m
      BY <1>16, <1>m
    <2> QED BY <1>4, <1>14, <1>16, <1>17, <1>m, <2>1 DEF Has
  <1>19. From(raw, end) = Rest(y, g, m + 1) /\ q = skipSpaces(raw, end)
    BY <1>12, <1>v DEF q
  <1> QED BY <1>4, <1>13, <1>14, <1>16, <1>18, <1>19, <1>m DEF AtWordOf, N

(* After the last one the parser is past the words.                        *)
LEMMA Arrived ==
  ASSUME NEW r, NEW G, NEW y, NEW g, Shape(r, G, y, g),
         AtWordOf(r, G, y, g, Len(G) + 1)
  PROVE  Past(r, G, y)
  <1> DEFINE n == Len(G)
             N == Len(raw)
  <1>1. /\ AreWords(G) /\ Words(g, G) /\ MayFollow(y) /\ raw \in Seq(Byte) /\ N \in Nat
        /\ n \in Nat /\ (n + 1) - 1 = n /\ n + 1 \in 1..(n + 1) /\ y \in Seq(Byte)
    <2>1. AreWords(G) /\ Words(g, G) /\ MayFollow(y) /\ raw \in Seq(Byte)
      BY ShapeFacts DEF Shape
    <2>2. n \in Nat
      BY <2>1 DEF AreWords
    <2> HIDE DEF n
    <2>3. (n + 1) - 1 = n /\ n + 1 \in 1..(n + 1)
      BY <2>2
    <2> QED BY <2>1, <2>2, <2>3 DEF MayFollow
  <1>2. Rest(y, g, n + 1) = y
    BY <1>1, Follows
  <1>3. stage = "params" /\ Has(r, G, n) /\ Len(parameter) = n
    BY <1>1 DEF AtWordOf
  <1>4. PICK e \in 1..(N + 1) : From(raw, e) = y /\ pos = skipSpaces(raw, e)
    BY <1>2 DEF AtWordOf
  <1>5. pos \in e..(N + 1)
    BY <1>1, <1>4, SkipStops
  <1>6. Len(y) = N - e + 1 /\ Len(y) \in Nat
    <2>1. N \in (e - 1)..N
      BY <1>1, <1>4
    <2> QED BY <1>1, <1>4, <2>1, PartOf DEF From
  <1> HIDE DEF n, N
  <1>7. pos \in 1..(N + 1)
    BY <1>1, <1>4, <1>5
  <1>8. y = <<>> => pos = N + 1
    <2>1. Len(<<>>) = 0
      OBVIOUS
    <2> QED BY <1>1, <1>4, <1>5, <1>6, <2>1
  <1>9. ASSUME NEW x \in Seq(Byte), y = Text(x)
        PROVE  ToRead(n, x)
    <2> DEFINE w == Join(<<COLON>>, x)
    <2>1. SPACE \in Byte /\ COLON \in Byte /\ COLON # SPACE
      BY DEF SPACE, COLON, Byte
    <2>2. w \in Seq(Byte) /\ Len(w) >= 1 /\ w[1] = COLON
      <3>1. w \in Seq(Byte) /\ Len(w) = 1 + Len(x) /\ w[1] = COLON /\ Len(x) \in Nat
        BY <2>1, BeginsWith DEF Join
      <3> HIDE DEF w
      <3> QED BY <3>1
    <2>w. w = Join(<<COLON>>, x) /\ y = Join(<<SPACE>>, w)
      BY <1>9 DEF Text
    <2> HIDE DEF w
    <2>3. Len(y) >= 2 /\ y[1] = SPACE /\ y[2] = COLON
      <3>1. Len(y) = 1 + Len(w) /\ y[1] = SPACE /\ y[2] = w[1] /\ Len(w) \in Nat
        BY <2>1, <2>2, <2>w, BeginsWith DEF Join
      <3> QED BY <2>2, <3>1
    <2>4. pos = e + 1 /\ e + 1 \in 2..N /\ (e + 1) - 1 = e /\ raw[e + 1] = COLON
      BY <1>1, <1>4, <2>1, <2>3, OneSpace DEF N
    <2>5. /\ pos \in 2..(N + 1) /\ pos + 1 \in 2..(N + 1) /\ pos - 1 = e /\ (pos + 1) - 1 = pos
          /\ pos <= N
      BY <1>1, <2>4
    <2>6. From(raw, pos) = w
      BY <1>1, <1>4, <2>1, <2>2, <2>5, <2>w, FromNext DEF N
    <2>7. From(raw, pos + 1) = x
      BY <1>1, <2>1, <2>5, <2>6, <2>w, FromNext DEF N
    <2> QED BY <1>3, <2>4, <2>5, <2>7 DEF ToRead, N
  <1> QED BY <1>3, <1>7, <1>8, <1>9 DEF Past, n, N

(* There it stays, and reads a text that follows in one step.              *)
LEMMA PastStep ==
  ASSUME NEW r, NEW G, NEW y, NEW g, Shape(r, G, y, g), Past(r, G, y), ParseNext
  PROVE  Past(r, G, y)'
  <1> DEFINE n == Len(G)
             N == Len(raw)
             P == Len(parameter)
             end == find(raw, SPACE, pos)
             q   == skipSpaces(raw, end)
             t   == trailingStart
  <1>1. /\ raw \in Seq(Byte) /\ N \in Nat /\ n \in Nat
        /\ y \in Seq(Byte)
    <2>1. raw \in Seq(Byte) /\ G \in Seq(Seq(Byte)) /\ y \in Seq(Byte)
      BY ShapeFacts DEF Shape, AreWords, MayFollow
    <2>2. N \in Nat
      BY <2>1
    <2>3. n \in Nat
      BY <2>1
    <2> QED BY <2>1, <2>2, <2>3
  <1>2. /\ stage \in {"params", "421", "451", "executed"} /\ seared = raw
        /\ prefix = source(r) /\ command = r.cmd /\ parameter \in Seq(Seq(Byte))
        /\ P \in Nat /\ P >= n /\ \A j \in 1..n : parameter[j] = G[j]
        /\ pos \in 1..(N + 1) /\ (stage = "params" \/ pos = N + 1)
        /\ y = <<>> => pos = N + 1 /\ P = n
        /\ \A x \in Seq(Byte) : y = Text(x) => ToRead(n, x) \/ HaveRead(n, x)
    BY DEF Past, Has
  <1> HIDE DEF n, N, P, end, q, t
  <1>3. CASE operate
    <2>1. /\ stage' \in {"421", "451", "executed"} /\ raw' = raw
          /\ seared' = seared /\ pos' = pos /\ prefix' = prefix
          /\ command' = command /\ parameter' = parameter /\ pos > N
      BY <1>2, <1>3 DEF operate, dispatch, message, N
    <2>2. Has(r, G, n)' /\ P' = P /\ N' = N
      BY <1>2, <2>1 DEF Has, P, N
    <2>3. \A x \in Seq(Byte) : (ToRead(n, x) => ToRead(n, x)') /\ (HaveRead(n, x) => HaveRead(n, x)')
      BY <2>1 DEF ToRead, HaveRead
    <2>4. pos = N + 1
      BY <1>1, <1>2, <2>1
    <2> QED BY <1>2, <2>1, <2>2, <2>3, <2>4 DEF Past, n, N, P
  <1>4. ASSUME pos <= N, y # <<>>, NEW w \in Seq(Byte), parameter' = Append(parameter, w),
               stage' = "params", seared' = seared, raw' = raw, prefix' = prefix,
               command' = command, pos' \in 1..(N + 1),
               \A x \in Seq(Byte) : ToRead(n, x) => pos' = N + 1 /\ w = x
        PROVE  Past(r, G, y)'
    <2>1. /\ parameter' \in Seq(Seq(Byte)) /\ Len(parameter') = P + 1
          /\ parameter'[P + 1] = w /\ \A j \in 1..P : parameter'[j] = parameter[j]
      BY <1>2, <1>4, OneMore DEF P
    <2>2. Len(parameter') >= n /\ \A j \in 1..n : j \in 1..P
      BY <1>1, <1>2, <2>1
    <2>3. Has(r, G, n)'
      BY <1>2, <1>4, <2>1, <2>2 DEF Has
    <2>4. ASSUME NEW x \in Seq(Byte), y = Text(x)
          PROVE  HaveRead(n, x)'
      <3>1. ToRead(n, x)
        <4>1. ~HaveRead(n, x)
          BY <1>1, <1>4 DEF HaveRead, N
        <4> QED BY <1>2, <2>4, <4>1
      <3>2. P = n
        BY <3>1 DEF ToRead, P
      <3>3. pos' = N + 1 /\ w = x
        BY <1>4, <3>1
      <3> QED BY <1>4, <2>1, <3>2, <3>3 DEF HaveRead, N
    <2> QED BY <1>4, <2>3, <2>4 DEF Past, n, N
  <1>5. y = <<>> => ~(pos <= N)
    BY <1>1, <1>2
  <1>6. CASE Middle
    <2>1. pos <= N /\ raw[pos] # COLON
      BY <1>2, <1>6 DEF Middle, isTrailing, N
    <2>2. end \in pos..(N + 1)
      BY <1>1, <1>2, FindStops DEF N, end
    <2>3. end \in 1..(N + 1) /\ end - 1 \in (pos - 1)..N
      BY <1>1, <1>2, <2>2
    <2>4. q \in end..(N + 1)
      BY <1>1, <2>3, SkipStops DEF N, q
    <2>5. q \in 1..(N + 1)
      BY <1>1, <2>3, <2>4
    <2> DEFINE w == SubSeq(raw, pos, end - 1)
    <2>6. w \in Seq(Byte)
      BY <1>1, <1>2, <2>3, PartOf DEF N
    <2>7. /\ parameter' = Append(parameter, w) /\ pos' = q
          /\ raw' = raw /\ seared' = seared /\ prefix' = prefix /\ command' = command
          /\ stage' = "params"
      BY <1>2, <1>6, Zenon DEF Middle, addParameter, substr, afterWord, end, q
    <2>8. \A x : ~ToRead(n, x)
      BY <2>1 DEF ToRead
    <2> HIDE DEF w
    <2> QED BY <1>4, <1>5, <2>1, <2>5, <2>6, <2>7, <2>8
  <1>7. CASE Trailing
    <2>1. pos <= N
      BY <1>2, <1>7 DEF Trailing, N
    <2>2. t = IF raw[pos] = COLON THEN pos + 1 ELSE pos
      BY <1>2 DEF trailingStart, t
    <2>3. t \in 1..(N + 1) /\ N \in (t - 1)..N /\ (N + 1) - 1 = N /\ N + 1 \in 1..(N + 1)
      BY <1>1, <1>2, <2>1, <2>2
    <2> DEFINE w == From(raw, t)
    <2>4. w \in Seq(Byte)
      BY <1>1, <2>3, PartOf DEF N, From
    <2>5. /\ parameter' = Append(parameter, SubSeq(raw, t, (N + 1) - 1)) /\ pos' = N + 1
          /\ raw' = raw /\ seared' = seared /\ prefix' = prefix /\ command' = command
          /\ stage' = "params"
      BY <1>2, <1>7, Zenon DEF Trailing, addParameter, substr, N, t
    <2>6. parameter' = Append(parameter, w)
      BY <2>3, <2>5 DEF From, N
    <2>7. ASSUME NEW x \in Seq(Byte), ToRead(n, x)
          PROVE  w = x
      <3>1. t = pos + 1
        BY <2>2, <2>7 DEF ToRead
      <3> QED BY <2>7, <3>1 DEF ToRead
    <2> HIDE DEF w
    <2> QED BY <1>4, <1>5, <2>1, <2>3, <2>4, <2>5, <2>6, <2>7
  <1>8. stage # "trim" /\ stage # "prefix" /\ stage # "command"
    BY <1>2
  <1> QED BY <1>3, <1>6, <1>7, <1>8 DEF ParseNext, Trim, Prefix, Command

(* A text after a colon.                                                   *)
LEMMA TextIs ==
  ASSUME NEW x \in Seq(Byte), NoByte(x, Ends)
  PROVE  /\ MayFollow(Text(x)) /\ NoByte(Text(x), Ends) /\ trailing(x) = Text(x)
         /\ Text(x) \in Seq(Byte)
  <1> DEFINE w == Join(<<COLON>>, x)
  <1>1. /\ SPACE \in Byte /\ COLON \in Byte
        /\ <<SPACE>> \in Seq(Byte) /\ NoByte(<<SPACE>>, Ends)
        /\ <<COLON>> \in Seq(Byte) /\ NoByte(<<COLON>>, Ends)
    <2>1. SPACE \in Byte /\ COLON \in Byte /\ SPACE \notin Ends /\ COLON \notin Ends
      BY DEF SPACE, COLON, Byte, Ends, NUL, CR, LF
    <2> QED BY <2>1, OneByte
  <1>2. w \in Seq(Byte) /\ NoByte(w, Ends)
    BY <1>1, JoinClean DEF Join
  <1>3. Text(x) = Join(<<SPACE>>, w)
    BY DEF Text
  <1>4. trailing(x) = Text(x)
    <2>1. <<SPACE, COLON>> = <<SPACE>> \o <<COLON>>
      OBVIOUS
    <2>2. (<<SPACE>> \o <<COLON>>) \o x = <<SPACE>> \o (<<COLON>> \o x)
      BY <1>1, Regroup
    <2> QED BY <2>1, <2>2 DEF trailing, Text, Join
  <1> HIDE DEF w
  <1>5. Text(x) \in Seq(Byte) /\ NoByte(Text(x), Ends)
    BY <1>1, <1>2, <1>3, JoinClean DEF Join
  <1>6. Text(x)[1] = SPACE
    BY <1>1, <1>2, <1>3, BeginsWith DEF Join
  <1> QED BY <1>4, <1>5, <1>6 DEF MayFollow

(* What may follow a word, with an ending, and as far as there is room.    *)
LEMMA FollowsOn ==
  ASSUME NEW z, MayFollow(z), NoByte(z, Ends), NEW v, MayFollow(v), NoByte(v, Ends),
         NEW k \in 0..Len(Join(z, v))
  PROVE  LET t == Join(z, v)
             y == SubSeq(t, 1, k)
         IN  /\ t \in Seq(Byte) /\ y \in Seq(Byte) /\ Len(y) = k
             /\ MayFollow(y) /\ NoByte(y, Ends)
  <1> DEFINE t == Join(z, v)
             y == SubSeq(t, 1, k)
  <1>1. z \in Seq(Byte) /\ v \in Seq(Byte)
    BY DEF MayFollow
  <1>2. t \in Seq(Byte) /\ NoByte(t, Ends)
    BY <1>1, JoinClean DEF Join
  <1>3. Len(t) >= 1 => t[1] = SPACE
    <2>1. CASE z = <<>>
      <3>1. t = v
        BY <1>1, <2>1 DEF Join
      <3> QED BY <3>1 DEF MayFollow
    <2>2. CASE z # <<>>
      <3>1. t[1] = z[1] /\ Len(z) >= 1
        BY <1>1, <2>2, WordBegins DEF Join
      <3> QED BY <3>1 DEF MayFollow
    <2> QED BY <2>1, <2>2
  <1>k. k \in 0..Len(t)
    OBVIOUS
  <1> HIDE DEF t
  <1>4. 1 \in 1..(Len(t) + 1) /\ k \in (1 - 1)..Len(t) /\ k - 1 + 1 = k /\ k \in Nat
    <2> DEFINE N == Len(t)
    <2>1. N \in Nat /\ k \in 0..N
      BY <1>2, <1>k
    <2> HIDE DEF N
    <2>2. 1 \in 1..(N + 1) /\ k \in (1 - 1)..N /\ k - 1 + 1 = k /\ k \in Nat
      BY <2>1
    <2> QED BY <2>2 DEF N
  <1>5. /\ y \in Seq(Byte) /\ Len(y) = k /\ NoByte(y, Ends)
        /\ \A j \in 1..Len(y) : y[j] = t[j + 1 - 1]
    BY <1>2, <1>4, PartOf
  <1> HIDE DEF y
  <1>6. Len(y) >= 1 => y[1] = SPACE
    <2> SUFFICES ASSUME Len(y) >= 1 PROVE y[1] = SPACE
      OBVIOUS
    <2>1. 1 \in 1..Len(y) /\ 1 + 1 - 1 = 1 /\ Len(t) >= 1
      BY <1>2, <1>4, <1>5, <1>k
    <2> QED BY <1>3, <1>5, <2>1
  <1> QED BY <1>2, <1>5, <1>6 DEF MayFollow, t, y

(* The line of r as far as it is written with the words G, for which there *)
(* is room.                                                                *)
LEMMA WordsSent ==
  ASSUME NEW r \in ReplyRecord, raw = onWire(r),
         NEW n \in 0..Len(Fixed(r)), Legible(r, n, 0)
  PROVE  \E y, g : /\ Shape(r, SubSeq(Fixed(r), 1, n), y, g)
                   /\ n = Len(Fixed(r)) /\ r.text = NoText => y = <<>>
  <1> DEFINE F == Fixed(r)
             G == SubSeq(F, 1, n)
             o == opening(r)
             d == ending(r)
             h == Join(o, words(G))
  <1>1. /\ F \in Seq(Seq(Byte)) /\ Len(F) \in 0..MaxMiddle /\ MaxMiddle \in Nat
        /\ \A j \in 1..Len(F) : NoByte(F[j], Ends)
        /\ r.text # NoText => r.text \in Seq(Byte) /\ NoByte(r.text, Ends)
    BY ReplyWords, BoundAssumption
  <1>2. o \in Seq(Byte) /\ NoByte(o, Ends)
    BY OpeningIs
  <1>f. fullLine(r) = Join(Join(o, words(F)), d)
    BY DEF fullLine, Join
  <1>l. (\A j \in 1..n : IsMiddle(F[j])) /\ Len(h) + 0 + 3 <= MaxLine
    BY DEF Legible, Join
  <1>n. n \in 0..Len(F)
    OBVIOUS
  <1>3. MayFollow(d) /\ NoByte(d, Ends) /\ (r.text = NoText => d = <<>>)
    <2>1. CASE r.text = NoText
      BY <2>1 DEF ending, MayFollow, NoByte, Occurs
    <2>2. CASE r.text # NoText
      BY <1>1, <2>2, TextIs DEF ending
    <2> QED BY <2>1, <2>2
  <1> HIDE DEF F, o, d
  <1>4. /\ G \in Seq(Seq(Byte)) /\ Len(G) = n /\ n \in Nat /\ n <= MaxMiddle
        /\ \A j \in 1..n : G[j] = F[j] /\ j \in 1..Len(F)
    <2>1. /\ G \in Seq(Seq(Byte)) /\ Len(G) = n
          /\ \A j \in 1..n : G[j] = F[j] /\ j \in 1..Len(F)
      BY <1>1, <1>n
    <2> QED BY <1>1, <1>n, <2>1
  <1>5. AreWords(G) /\ \A j \in 1..Len(G) : NoByte(G[j], Ends)
    BY <1>1, <1>4, <1>l DEF AreWords
  <1>6. PICK z : /\ MayFollow(z) /\ NoByte(z, Ends) /\ words(F) = Join(words(G), z)
                 /\ words(G) \in Seq(Byte) /\ (n = Len(F) => z = <<>>)
    BY <1>1, <1>n, WordsSplit
  <1>7. PICK g : Words(g, G) /\ words(G) = g[1]
    BY <1>4, WordsAre
  <1>g. G = SubSeq(F, 1, n)
    OBVIOUS
  <1> HIDE DEF G
  <1> DEFINE t == Join(z, d)
             k0 == words(G)
  <1>8. t \in Seq(Byte) /\ z \in Seq(Byte) /\ d \in Seq(Byte)
    BY <1>3, <1>6, Regroup DEF MayFollow, Join
  <1>9. h \in Seq(Byte) /\ raw = cutLine(h \o t, MaxLine)
    <2>1. k0 \in Seq(Byte)
      BY <1>6
    <2>2. fullLine(r) = Join(Join(o, Join(k0, z)), d) /\ h = Join(o, k0)
      BY <1>6, <1>f
    <2> HIDE DEF k0, h, t
    <2>3. Join(Join(o, Join(k0, z)), d) = Join(Join(o, k0), Join(z, d))
      <3>1. \A p, q, s \in Seq(Byte) :
              Join(Join(p, q), s) = Join(p, Join(q, s)) /\ Join(p, q) \in Seq(Byte)
        BY DEF Join
      <3>2. Join(k0, z) \in Seq(Byte) /\ Join(z, d) \in Seq(Byte)
        BY <1>8, <2>1, <3>1
      <3>3. Join(Join(o, Join(k0, z)), d) = Join(o, Join(Join(k0, z), d))
        BY <1>2, <1>8, <3>1, <3>2
      <3>4. Join(Join(k0, z), d) = Join(k0, Join(z, d))
        BY <1>8, <2>1, <3>1
      <3>5. Join(Join(o, k0), Join(z, d)) = Join(o, Join(k0, Join(z, d)))
        BY <1>2, <2>1, <3>1, <3>2
      <3> QED BY <3>3, <3>4, <3>5
    <2>4. h \in Seq(Byte)
      BY <1>2, <2>1, <2>2, Regroup DEF Join
    <2> QED BY <2>2, <2>3, <2>4 DEF onWire, t, Join
  <1>10. Len(h) + (IF IsUtf8(t) THEN 0 ELSE 3) <= MaxLine
    <2> DEFINE L == Len(h)
    <2>1. L \in Nat /\ MaxLine \in Nat /\ L + 0 + 3 <= MaxLine
      BY <1>9, <1>l, MaxLineAssumption
    <2> HIDE DEF L, t
    <2> QED BY <2>1 DEF L
  <1>h. h = Join(o, words(G))
    OBVIOUS
  <1>t. t = Join(z, d)
    OBVIOUS
  <1> HIDE DEF h, t
  <1>11. PICK k \in 0..Len(t) : /\ cutLine(h \o t, MaxLine) = h \o SubSeq(t, 1, k)
                                /\ Len(h) + k <= MaxLine
    BY <1>8, <1>9, <1>10, CutAfter
  <1> DEFINE y == SubSeq(t, 1, k)
  <1>12. y \in Seq(Byte) /\ Len(y) = k /\ MayFollow(y) /\ NoByte(y, Ends)
    BY <1>3, <1>6, <1>t, <1>11, FollowsOn
  <1>13. n = Len(F) /\ r.text = NoText => y = <<>>
    <2> SUFFICES ASSUME n = Len(F), r.text = NoText PROVE y = <<>>
      OBVIOUS
    <2>1. t = <<>>
      BY <1>3, <1>6, <1>t DEF Join
    <2>2. k = 0
      BY <1>11, <2>1
    <2> HIDE DEF y
    <2> QED BY <1>12, <2>2
  <1>y. y = SubSeq(t, 1, k)
    OBVIOUS
  <1> HIDE DEF y
  <1>14. raw = h \o y /\ Len(raw) <= MaxLine
    <2>1. raw = h \o y
      BY <1>9, <1>11, <1>y
    <2>2. Len(h \o y) = Len(h) + Len(y)
      BY <1>9, <1>12
    <2> QED BY <1>11, <1>12, <2>1, <2>2
  <1>15. raw = Join(o, Rest(y, g, 1))
    <2>1. k0 \in Seq(Byte) /\ raw = Join(Join(o, k0), y) /\ Rest(y, g, 1) = Join(k0, y)
      BY <1>6, <1>7, <1>14, <1>h DEF Join, Rest
    <2> HIDE DEF k0
    <2>2. Join(Join(o, k0), y) = Join(o, Join(k0, y))
      BY <1>2, <1>12, <2>1, Regroup DEF Join
    <2> QED BY <2>1, <2>2
  <1>16. Shape(r, G, y, g)
    BY <1>4, <1>5, <1>7, <1>12, <1>14, <1>15 DEF Shape, o
  <1> QED BY <1>13, <1>16, <1>g DEF F

(* x is what the line has of the text: all of it, or whole characters as   *)
(* far as there was room.                                                  *)
Kept(r, x) ==
  /\ x = SubSeq(r.text, 1, Len(x))
  /\ IsUtf8(r.text) => IsUtf8(x)
  /\ x = r.text \/ Len(raw) >= MaxLine - 3

(* The line of r when there is room for a text as well.                    *)
LEMMA TextSent ==
  ASSUME NEW r \in ReplyRecord, raw = onWire(r),
         r.text # NoText, Legible(r, Len(Fixed(r)), 2)
  PROVE  \E x, g : x \in Seq(Byte) /\ Shape(r, Fixed(r), Text(x), g) /\ Kept(r, x)
  <1> DEFINE F == Fixed(r)
             t == r.text
             o == opening(r)
             sc == <<SPACE, COLON>>
  <1>1. /\ t \in Seq(Byte) /\ NoByte(t, Ends) /\ F \in Seq(Seq(Byte)) /\ Len(F) \in 0..MaxMiddle
        /\ MaxMiddle \in Nat /\ o \in Seq(Byte) /\ \A j \in 1..Len(F) : NoByte(F[j], Ends)
    BY ReplyWords, OpeningIs, BoundAssumption
  <1>2. PICK f : Words(f, F) /\ words(F) = f[1]
    BY <1>1, WordsAre
  <1> DEFINE g == f[1]
             a == Join(o, g)
             h == Join(a, sc)
  <1>3. g \in Seq(Byte) /\ sc \in Seq(Byte) /\ Len(sc) = 2
    <2>1. 1 \in 1..(Len(F) + 1)
      BY <1>1
    <2>2. g \in Seq(Byte)
      BY <1>2, <2>1 DEF Words
    <2>3. SPACE \in Byte /\ COLON \in Byte
      BY DEF SPACE, COLON, Byte
    <2> QED BY <2>2, <2>3
  <1>l. (\A j \in 1..Len(F) : IsMiddle(F[j])) /\ Len(a) + 2 + 3 <= MaxLine
    <2>1. SubSeq(F, 1, Len(F)) = F
      BY <1>1, SubSeqFull
    <2> QED BY <1>2, <2>1 DEF Legible, Join
  <1>f. fullLine(r) = Join(a, Join(sc, t))
    BY <1>2 DEF fullLine, ending, trailing, Join
  <1>a. a = Join(o, g)
    OBVIOUS
  <1>4. a \in Seq(Byte)
    BY <1>1, <1>3, Regroup DEF Join
  <1> HIDE DEF F, o, g, a, sc
  <1>5. h \in Seq(Byte) /\ Len(h) = Len(a) + 2 /\ Len(a) \in Nat
    <2>1. h \in Seq(Byte) /\ Len(h) = Len(a) + Len(sc) /\ Len(a) \in Nat
      BY <1>3, <1>4, Joined DEF Join
    <2> QED BY <1>3, <2>1
  <1>6. Len(h) + (IF IsUtf8(t) THEN 0 ELSE 3) <= MaxLine
    <2> DEFINE L == Len(a)
    <2>1. L \in Nat /\ L + 2 + 3 <= MaxLine /\ Len(h) = L + 2 /\ MaxLine \in Nat
      BY <1>5, <1>l, MaxLineAssumption
    <2> HIDE DEF L, h, t
    <2> QED BY <2>1
  <1>7. fullLine(r) = h \o t
    <2> HIDE DEF t
    <2>1. Join(a, Join(sc, t)) = Join(Join(a, sc), t)
      BY <1>1, <1>3, <1>4, Regroup DEF Join
    <2> QED BY <1>f, <2>1 DEF Join
  <1>h. h = Join(a, sc)
    OBVIOUS
  <1> HIDE DEF h
  <1>8. PICK k \in 0..Len(t) :
          /\ cutLine(h \o t, MaxLine) = h \o SubSeq(t, 1, k)
          /\ Len(h) + k <= MaxLine
          /\ IsUtf8(t) => IsUtf8(SubSeq(t, 1, k))
          /\ k = Len(t) \/ Len(h) + k >= MaxLine - 3
    BY <1>1, <1>5, <1>6, CutAfter
  <1> DEFINE x == SubSeq(t, 1, k)
  <1>9. x \in Seq(Byte) /\ Len(x) = k /\ NoByte(x, Ends) /\ k \in Nat
    <2>1. Len(t) \in Nat
      BY <1>1
    <2>2. k \in Nat /\ 1 \in 1..(Len(t) + 1) /\ k \in (1 - 1)..Len(t) /\ k - 1 + 1 = k
      BY <2>1
    <2> QED BY <1>1, <2>2, PartOf
  <1>10. k = Len(t) => x = t
    BY <1>1, SubSeqFull
  <1>11. raw = h \o x
    BY <1>7, <1>8 DEF onWire
  <1>x. x = SubSeq(t, 1, k)
    OBVIOUS
  <1> HIDE DEF x
  <1>12. Len(raw) = Len(h) + k
    <2>1. Len(h \o x) = Len(h) + Len(x)
      BY <1>5, <1>9
    <2> QED BY <1>9, <1>11, <2>1
  <1>13. Text(x) = Join(sc, x) /\ MayFollow(Text(x)) /\ NoByte(Text(x), Ends)
    BY <1>9, TextIs DEF trailing, Join, sc
  <1>14. raw = Join(o, Rest(Text(x), f, 1))
    <2>1. raw = Join(Join(Join(o, g), sc), x)
      BY <1>11, <1>h, <1>a DEF Join
    <2>2. Rest(Text(x), f, 1) = Join(g, Join(sc, x))
      BY <1>13 DEF Rest, Join, g
    <2>3. Join(Join(Join(o, g), sc), x) = Join(o, Join(g, Join(sc, x)))
      BY <1>1, <1>3, <1>9, RegroupAll
    <2> QED BY <2>1, <2>2, <2>3
  <1>15. Shape(r, F, Text(x), f)
    <2>1. AreWords(F) /\ Len(F) <= MaxMiddle
      BY <1>1, <1>l DEF AreWords
    <2> QED BY <1>1, <1>2, <1>8, <1>12, <1>13, <1>14, <2>1 DEF Shape, o
  <1>16. Kept(r, x)
    BY <1>8, <1>9, <1>10, <1>12, <1>x DEF Kept
  <1> QED BY <1>9, <1>15, <1>16 DEF F

(* Every step of the parser keeps what it has of the line.                 *)
LEMMA StandingStep ==
  ASSUME NEW r, NEW G, NEW y, NEW g, Shape(r, G, y, g), Standing(r, G, y, g),
         [ParseNext]_parseVars
  PROVE  Standing(r, G, y, g)'
  <1> DEFINE N == Len(G)
  <1>N. N \in Nat
    BY DEF Shape, AreWords
  <1>3. CASE UNCHANGED parseVars
    <2>1. /\ stage' = stage /\ seared' = seared /\ pos' = pos /\ prefix' = prefix
          /\ command' = command /\ parameter' = parameter /\ raw' = raw
      BY <1>3 DEF parseVars, message
    <2>2. AtTrim => AtTrim'
      BY <2>1 DEF AtTrim
    <2>3. AtPrefix(r) => AtPrefix(r)'
      BY <2>1 DEF AtPrefix
    <2>4. AtCommand(r, y, g) => AtCommand(r, y, g)'
      BY <2>1 DEF AtCommand
    <2>5. \A m \in 1..(N + 1) : AtWordOf(r, G, y, g, m) => AtWordOf(r, G, y, g, m)'
      BY <2>1 DEF AtWordOf, Has
    <2>6. Past(r, G, y) => Past(r, G, y)'
      BY <2>1 DEF Past, Has, ToRead, HaveRead
    <2> QED BY <2>2, <2>3, <2>4, <2>5, <2>6 DEF Standing
  <1>4. CASE AtTrim /\ ParseNext
    <2>1. Trim
      BY <1>4 DEF AtTrim, ParseNext, Prefix, Command, Middle, Trailing, operate
    <2> QED BY <1>4, <2>1, TrimStep DEF Standing
  <1>5. CASE AtPrefix(r) /\ ParseNext
    <2>1. Prefix
      BY <1>5 DEF AtPrefix, ParseNext, Trim, Command, Middle, Trailing, operate
    <2> QED BY <1>5, <2>1, PrefixStep DEF Standing
  <1>6. CASE AtCommand(r, y, g) /\ ParseNext
    <2>1. Command
      BY <1>6 DEF AtCommand, ParseNext, Trim, Prefix, Middle, Trailing, operate
    <2>2. AtWordOf(r, G, y, g, 1)'
      BY <1>6, <2>1, CommandStep
    <2>3. 1 \in 1..(N + 1)
      BY <1>N
    <2> QED BY <2>2, <2>3 DEF Standing
  <1>7. ASSUME NEW m \in 1..(N + 1), AtWordOf(r, G, y, g, m), ParseNext
        PROVE  Standing(r, G, y, g)'
    <2>1. CASE m = N + 1
      <3>1. Past(r, G, y)
        BY <1>7, <2>1, Arrived
      <3> QED BY <1>7, <3>1, PastStep DEF Standing
    <2>2. CASE m # N + 1
      <3>1. m \in 1..N /\ m + 1 \in 1..(N + 1)
        BY <1>N, <2>2
      <3>2. AtWordOf(r, G, y, g, m + 1)'
        BY <1>7, <3>1, WordStep
      <3> QED BY <3>1, <3>2 DEF Standing
    <2> QED BY <2>1, <2>2
  <1>8. CASE Past(r, G, y) /\ ParseNext
    BY <1>8, PastStep DEF Standing
  <1> QED BY <1>3, <1>4, <1>5, <1>6, <1>7, <1>8 DEF Standing

(* When it has ended it is past the words.                                 *)
LEMMA StandsPast ==
  ASSUME NEW r, NEW G, NEW y, NEW g, Standing(r, G, y, g), stage \in Outcome
  PROVE  Past(r, G, y)
  BY DEF Standing, Outcome, AtTrim, AtPrefix, AtCommand, AtWordOf

(* The inductive form of ReadBack: whichever of the first words of a line  *)
(* can be read, the parser stands where it should among them.              *)
WireInv ==
  reply # NoReply =>
    /\ reply \in ReplyRecord /\ raw = onWire(reply)
    /\ \A G, y, g : Shape(reply, G, y, g) => Standing(reply, G, y, g)

(* At the end it has the source, the command and these words.              *)
LEMMA HeadIsRead ==
  ASSUME WireInv, Ended
  PROVE  HeadRead
  <1> DEFINE F == Fixed(reply)
  <1>0. /\ reply \in ReplyRecord /\ raw = onWire(reply) /\ stage \in Outcome
        /\ \A G, y, g : Shape(reply, G, y, g) => Standing(reply, G, y, g)
    BY DEF WireInv, Ended
  <1> SUFFICES ASSUME NEW n \in 0..Len(F), Legible(reply, n, 0)
               PROVE  /\ prefix = source(reply) /\ command = reply.cmd
                      /\ Len(parameter) >= n /\ \A j \in 1..n : parameter[j] = F[j]
    BY DEF HeadRead
  <1> DEFINE G == SubSeq(F, 1, n)
  <1>1. PICK y, g : Shape(reply, G, y, g)
    BY <1>0, WordsSent
  <1>2. Has(reply, G, Len(G))
    BY <1>0, <1>1, StandsPast DEF Past
  <1>3. Len(G) = n /\ \A j \in 1..n : G[j] = F[j]
    <2>1. F \in Seq(Seq(Byte))
      BY <1>0, ReplyWords
    <2> HIDE DEF F
    <2> QED BY <2>1
  <1> HIDE DEF F, G
  <1> QED BY <1>2, <1>3 DEF Has

(* And no more than these and the text.                                    *)
LEMMA TextIsRead ==
  ASSUME WireInv, Ended
  PROVE  TextRead
  <1> DEFINE F == Fixed(reply)
             n == Len(F)
  <1>0. /\ reply \in ReplyRecord /\ raw = onWire(reply) /\ stage \in Outcome
        /\ \A G, y, g : Shape(reply, G, y, g) => Standing(reply, G, y, g)
    BY DEF WireInv, Ended
  <1>1. F \in Seq(Seq(Byte)) /\ n \in Nat /\ n \in 0..n
    <2>1. F \in Seq(Seq(Byte))
      BY <1>0, ReplyWords
    <2>2. n \in Nat
      BY <2>1
    <2> HIDE DEF n
    <2> QED BY <2>1, <2>2
  <1>2. ASSUME reply.text = NoText, Legible(reply, n, 0)
        PROVE  Len(parameter) = n
    <2>1. PICK y, g : Shape(reply, SubSeq(F, 1, n), y, g) /\ y = <<>>
      BY <1>0, <1>1, <1>2, WordsSent
    <2>2. SubSeq(F, 1, n) = F
      BY <1>1, SubSeqFull
    <2>3. Past(reply, F, <<>>)
      BY <1>0, <2>1, <2>2, StandsPast
    <2> QED BY <2>3 DEF Past
  <1>3. ASSUME reply.text # NoText, Legible(reply, n, 2)
        PROVE  /\ Len(parameter) = n + 1
               /\ parameter[n + 1] = SubSeq(reply.text, 1, Len(parameter[n + 1]))
               /\ IsUtf8(reply.text) => IsUtf8(parameter[n + 1])
               /\ parameter[n + 1] = reply.text \/ Len(raw) >= MaxLine - 3
    <2>1. PICK x, g : x \in Seq(Byte) /\ Shape(reply, F, Text(x), g) /\ Kept(reply, x)
      BY <1>0, <1>3, TextSent
    <2>2. Past(reply, F, Text(x))
      BY <1>0, <2>1, StandsPast
    <2>3. HaveRead(n, x)
      <3>1. ToRead(n, x) \/ HaveRead(n, x)
        BY <2>1, <2>2 DEF Past
      <3>2. pos = Len(raw) + 1 /\ Len(raw) \in Nat
        <4>1. stage # "params"
          BY <1>0 DEF Outcome
        <4>2. raw \in Seq(Byte)
          BY <2>1, ShapeFacts
        <4> QED BY <2>2, <4>1, <4>2 DEF Past
      <3>3. ~(pos <= Len(raw))
        BY <3>2
      <3> QED BY <3>1, <3>3 DEF ToRead
    <2> QED BY <2>1, <2>3 DEF HaveRead, Kept
  <1> QED BY <1>2, <1>3 DEF TextRead

(* A peer finds in every line of the server who sent it, the command and   *)
(* the parameters, up to the first that is too long for the line or no     *)
(* single word, and after them no others and of the text whole characters. *)
THEOREM RepliesReadBack == WireSpec => []ReadBack
  <1>1. WireInit => WireInv
    <2> SUFFICES ASSUME SendReply PROVE WireInv
      BY DEF WireInit, WireInv
    <2>1. AtTrim
      BY DEF SendReply, AtTrim
    <2>2. \A G, y, g : Standing(reply, G, y, g)
      BY <2>1 DEF Standing
    <2> QED BY <2>2 DEF WireInv, SendReply
  <1>2. ASSUME WireInv, [WireNext]_wireVars PROVE WireInv'
    <2>1. reply' = reply /\ [ParseNext]_parseVars
      BY <1>2 DEF WireNext, wireVars
    <2>2. raw' = raw
      BY <2>1, Zenon DEF ParseNext, parseVars, Trim, Refuse, Prefix, Command, Middle,
                         Trailing, operate
    <2> SUFFICES ASSUME reply # NoReply, NEW G, NEW y, NEW g, Shape(reply, G, y, g)
                 PROVE  Standing(reply, G, y, g)'
      BY <1>2, <2>1, <2>2 DEF WireInv, Shape
    <2>3. Standing(reply, G, y, g)
      BY <1>2 DEF WireInv
    <2>4. PICK r : r = reply
      OBVIOUS
    <2>5. Standing(r, G, y, g)'
      BY <2>1, <2>3, <2>4, StandingStep
    <2> QED BY <2>1, <2>4, <2>5
  <1>3. WireInv => ReadBack
    BY HeadIsRead, TextIsRead DEF ReadBack
  <1> QED BY <1>1, <1>2, <1>3, PTL DEF WireSpec

=============================================================================
