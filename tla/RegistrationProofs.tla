------------------------- MODULE RegistrationProofs -------------------------
(***************************************************************************)
(* Proofs about registration, for every set of clients and nicknames.      *)
(***************************************************************************)
EXTENDS Registration, TLAPS

(* The inductive invariant: the conjunction is already inductive, because  *)
(* TypeOK says that an address without a client holds nothing.             *)
RegInv == TypeOK /\ NickUnique /\ RegisteredIsComplete /\ NobodyLingers

(* A step that only answers its client keeps the invariant.                *)
LEMMA RegReply ==
  ASSUME RegInv, NEW code, Reply(code)
  PROVE  RegInv'
  BY DEF RegInv, TypeOK, NickUnique, RegisteredIsComplete, NobodyLingers, Reply,
         toLower

(* The ends of NICK and USER: with both names given, the client is         *)
(* registered or closing.                                                  *)
LEMMA RegComplete ==
  ASSUME NEW c, Complete(c)
  PROVE  /\ registered' = registered \cup {c} \/ registered' = registered
         /\ closing' = closing \cup {c} \/ closing' = closing
         /\ c \in registered' /\ c \notin registered => isComplete(c)
         /\ nickname'[c] # Empty /\ c \in username' =>
              c \in registered' \cup closing'
  BY DEF Complete, tryCompleteRegistration, isComplete, isMissingPassword,
         disconnectClient

(* PASS keeps the invariant: it is refused to a registered client.         *)
LEMMA RegPass ==
  ASSUME RegInv, NEW c \in Client, NEW p, Pass(c, p)
  PROVE  RegInv'
  <1>1. CASE Reply("461") \/ Reply("462")
    BY <1>1, RegReply
  <1>2. CASE ~(Reply("461") \/ Reply("462"))
    <2>1. /\ c \in clients /\ c \notin registered
          /\ passwordVerified' = passwordVerified \cup {c} \/
             passwordVerified' = passwordVerified \ {c}
          /\ wrongPassword' \in {wrongPassword, wrongPassword \cup {c}}
          /\ UNCHANGED <<clients, nickname, username, closing>>
          /\ tryCompleteRegistration(c)
      BY <1>2 DEF Pass, Serving
    <2> QED
      BY <2>1 DEF RegInv, TypeOK, NickUnique, RegisteredIsComplete, NobodyLingers,
                  tryCompleteRegistration, isComplete, toLower
  <1> QED
    BY <1>1, <1>2

(* NICK keeps the invariant: a nickname that toLower makes equal to        *)
(* another connection's is refused.                                        *)
LEMMA RegNick ==
  ASSUME RegInv, NEW c \in Client, NEW n, NickCmd(c, n)
  PROVE  RegInv'
  <1>1. CASE Reply("431") \/ Reply("432") \/ Reply("433")
    BY <1>1, RegReply
  <1>2. CASE ~(Reply("431") \/ Reply("432") \/ Reply("433"))
    <2>1. /\ c \in clients
          /\ n \in Nick /\ ~isNicknameTaken(n, c)
          /\ nickname' = [nickname EXCEPT ![c] = n]
          /\ UNCHANGED <<clients, passwordVerified, username, wrongPassword>>
          /\ \/ c \in registered /\ UNCHANGED <<registered, closing>>
             \/ c \notin registered /\ Complete(c)
      BY <1>2 DEF NickCmd, Serving
    <2>2. n # Empty
      BY <2>1, NickAssumption
    <2>3. TypeOK'
      BY <2>1, RegComplete DEF RegInv, TypeOK
    <2>4. NickUnique'
      BY <2>1, <2>2 DEF RegInv, TypeOK, NickUnique, isNicknameTaken, toLower
    <2>5. RegisteredIsComplete'
      BY <2>1, <2>2, RegComplete DEF RegInv, TypeOK, RegisteredIsComplete, isComplete
    <2>6. NobodyLingers'
      BY <2>1, <2>2, RegComplete DEF RegInv, TypeOK, NobodyLingers
    <2> QED
      BY <2>3, <2>4, <2>5, <2>6 DEF RegInv
  <1> QED
    BY <1>1, <1>2

(* USER keeps the invariant.                                               *)
LEMMA RegUser ==
  ASSUME RegInv, NEW c \in Client, NEW u, UserCmd(c, u)
  PROVE  RegInv'
  <1>1. CASE Reply("461") \/ Reply("462")
    BY <1>1, RegReply
  <1>2. CASE ~(Reply("461") \/ Reply("462"))
    <2>1. /\ c \in clients /\ c \notin registered
          /\ username' = username \cup {c}
          /\ UNCHANGED <<clients, passwordVerified, nickname, wrongPassword>>
          /\ Complete(c)
      BY <1>2 DEF UserCmd, Serving
    <2>2. TypeOK'
      BY <2>1, RegComplete DEF RegInv, TypeOK
    <2>3. NickUnique'
      BY <2>1 DEF RegInv, NickUnique, toLower
    <2>4. RegisteredIsComplete'
      BY <2>1, RegComplete DEF RegInv, TypeOK, RegisteredIsComplete, isComplete
    <2>5. NobodyLingers'
      BY <2>1, RegComplete DEF RegInv, TypeOK, NobodyLingers
    <2> QED
      BY <2>2, <2>3, <2>4, <2>5 DEF RegInv
  <1> QED
    BY <1>1, <1>2

(* A connection comes, asks to be closed, or goes.                         *)
LEMMA RegConnection ==
  ASSUME RegInv, NEW c \in Client, Connect(c) \/ Quit(c) \/ Disconnect(c)
  PROVE  RegInv'
  <1>1. CASE Connect(c)
    BY <1>1, NickAssumption
       DEF RegInv, TypeOK, NickUnique, RegisteredIsComplete, NobodyLingers,
           Connect, toLower
  <1>2. CASE Quit(c)
    BY <1>2 DEF RegInv, TypeOK, NickUnique, RegisteredIsComplete, NobodyLingers,
                Quit, Serving, disconnectClient, toLower
  <1>3. CASE Disconnect(c)
    BY <1>3 DEF RegInv, TypeOK, NickUnique, RegisteredIsComplete, NobodyLingers,
                Disconnect, eraseClosing, toLower
  <1> QED
    BY <1>1, <1>2, <1>3

(* RegInv holds in every reachable state.                                  *)
LEMMA RegInductive == Spec => []RegInv
  <1>1. Init => RegInv
    BY DEF Init, RegInv, TypeOK, NickUnique, RegisteredIsComplete, NobodyLingers
  <1>2. RegInv /\ [Next]_vars => RegInv'
    <2> SUFFICES ASSUME RegInv, [Next]_vars PROVE RegInv'
      OBVIOUS
    <2>1. CASE UNCHANGED vars
      BY <2>1 DEF RegInv, TypeOK, NickUnique, RegisteredIsComplete, NobodyLingers,
                  vars, toLower
    <2>2. ASSUME NEW c \in Client, Connect(c) \/ Quit(c) \/ Disconnect(c)
          PROVE  RegInv'
      BY <2>2, RegConnection
    <2>3. ASSUME NEW c \in Client, Unknown(c) \/ NeedsLogin(c)
          PROVE  RegInv'
      BY <2>3, RegReply DEF Unknown, NeedsLogin
    <2>4. ASSUME NEW c \in Client, NEW p, Pass(c, p) \/ Ping(c, p)
          PROVE  RegInv'
      BY <2>4, RegPass, RegReply DEF Ping
    <2>5. ASSUME NEW c \in Client, NEW n, NickCmd(c, n)
          PROVE  RegInv'
      BY <2>5, RegNick
    <2>6. ASSUME NEW c \in Client, NEW u, UserCmd(c, u)
          PROVE  RegInv'
      BY <2>6, RegUser
    <2> QED
      BY <2>1, <2>2, <2>3, <2>4, <2>5, <2>6 DEF Next
  <1> QED
    BY <1>1, <1>2, PTL DEF Spec

(* No two connections carry the same nickname up to case, at any moment,   *)
(* and the nickname, username and password of a registered client are      *)
(* all there.                                                              *)
THEOREM NicknamesAreUnique == Spec => [](NickUnique /\ RegisteredIsComplete)
  <1>1. RegInv => NickUnique /\ RegisteredIsComplete
    BY DEF RegInv
  <1> QED
    BY <1>1, RegInductive, PTL

(* A registered client has its password, nickname and username, and keeps  *)
(* them: no later PASS, NICK or USER takes one back.                       *)
THEOREM RegisteredStaysComplete == Spec => []RegisteredIsComplete
  BY NicknamesAreUnique, PTL

(* No order of PASS, NICK and USER leaves a connection that has given both *)
(* names neither registered nor closing.                                   *)
THEOREM RegistrationEnds == Spec => []NobodyLingers
  <1>1. RegInv => NobodyLingers
    BY DEF RegInv
  <1> QED
    BY <1>1, RegInductive, PTL

=============================================================================
