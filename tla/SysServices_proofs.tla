--------------------------- MODULE SysServices_proofs ---------------------------
(***************************************************************************)
(* Theorems about SysServices.                                             *)
(***************************************************************************)
EXTENDS SysServices, SequenceTheorems, WellFoundedInduction, TLAPS

-----------------------------------------------------------------------------
(* Induction, with a set for the predicate *)

LEMMA Least ==
  ASSUME NEW T, T \subseteq Nat, T # {}
  PROVE  \E x \in T : \A y \in T : x <= y
<1> DEFINE R == OpToRel(<, Nat)
<1>1. IsWellFoundedOn(R, Nat) BY NatLessThanWellFounded
<1>2. \A x, y \in Nat : <<y, x>> \in R <=> y < x BY SMT DEF OpToRel
<1> HIDE DEF R
<1>3. PICK x \in T : \A y \in T : ~(<<y, x>> \in R) BY <1>1, WFMin
<1>4. \A y \in T : ~(y < x)
  <2> TAKE y \in T
  <2>1. x \in Nat /\ y \in Nat OBVIOUS
  <2> QED BY <1>2, <1>3, <2>1, Zenon
<1> QED BY <1>3, <1>4, SMT

LEMMA Induct ==
  ASSUME NEW S, 0 \in S, \A n \in Nat : n \in S => n + 1 \in S
  PROVE  Nat \subseteq S
<1> SUFFICES ASSUME NEW k \in Nat, k \notin S PROVE FALSE
  OBVIOUS
<1> DEFINE T == {n \in Nat : n \notin S}
<1>1. T \subseteq Nat /\ T # {} OBVIOUS
<1> HIDE DEF T
<1>2. PICK x \in T : \A y \in T : x <= y BY <1>1, Least
<1>3. x \in Nat /\ x \notin S /\ x # 0 BY <1>1, <1>2 DEF T
<1>4. x - 1 \in Nat /\ x - 1 + 1 = x BY <1>3, SMT
<1>5. x - 1 \in T BY <1>3, <1>4 DEF T
<1> QED BY <1>2, <1>3, <1>5, SMT

-----------------------------------------------------------------------------
(* What Kept returns *)

Keeps(f, n, s, S) ==
  f = [i \in 0..n |-> IF i = 0 THEN <<>>
                      ELSE IF s[i] \in S THEN Append(f[i - 1], s[i]) ELSE f[i - 1]]

Extends(f, s, S, i) ==
  f[i] = IF s[i] \in S THEN Append(f[i - 1], s[i]) ELSE f[i - 1]

LEMMA KeepsStep ==
  ASSUME NEW f, NEW n, NEW s, NEW S, Keeps(f, n, s, S)
  PROVE  \A i \in 0..n : IF i = 0 THEN f[i] = <<>> ELSE Extends(f, s, S, i)
BY Zenon DEF Keeps, Extends

LEMMA KeepsZero ==
  ASSUME NEW f, NEW n \in Nat, NEW s, NEW S, Keeps(f, n, s, S)
  PROVE  f[0] = <<>>
<1>1. 0 \in 0..n BY SMT
<1> QED BY <1>1, KeepsStep, Zenon

LEMMA KeepsNext ==
  ASSUME NEW f, NEW n \in Nat, NEW s, NEW S, Keeps(f, n, s, S), NEW i \in 1..n
  PROVE  Extends(f, s, S, i)
<1>1. i \in 0..n /\ i # 0 BY SMT
<1> QED BY <1>1, KeepsStep, Zenon

LEMMA KeepsExists ==
  ASSUME NEW s, NEW S
  PROVE  \A n \in Nat : \E f : Keeps(f, n, s, S)
<1> DEFINE P == {n \in Nat : \E f : Keeps(f, n, s, S)}
<1>1. 0 \in P
  <2> DEFINE f == [i \in 0..0 |-> <<>>]
  <2>1. Keeps(f, 0, s, S) BY SMT DEF Keeps
  <2> HIDE DEF f
  <2> QED BY <2>1
<1>2. ASSUME NEW n \in Nat, n \in P PROVE n + 1 \in P
  <2>1. PICK f : Keeps(f, n, s, S) BY <1>2
  <2> DEFINE g == [i \in 0..n + 1 |->
                     IF i = n + 1 THEN IF s[n + 1] \in S THEN Append(f[n], s[n + 1]) ELSE f[n]
                     ELSE f[i]]
  <2>2. ASSUME NEW i \in 0..n + 1
        PROVE  g[i] = IF i = 0 THEN <<>>
                      ELSE IF s[i] \in S THEN Append(g[i - 1], s[i]) ELSE g[i - 1]
    <3>1. CASE i = n + 1
      <4>1. i # 0 /\ i - 1 = n /\ n \in 0..n + 1 /\ n # n + 1 BY <3>1, SMT
      <4>2. g[n] = f[n] BY <4>1, Zenon
      <4>3. g[i] = IF s[n + 1] \in S THEN Append(f[n], s[n + 1]) ELSE f[n] BY <3>1, Zenon
      <4> QED BY <3>1, <4>1, <4>2, <4>3, Zenon
    <3>2. CASE i = 0
      <4>1. i # n + 1 /\ 0 \in 0..n BY <3>2, SMT
      <4>2. f[0] = <<>> BY <2>1, KeepsZero, Zenon
      <4>3. g[i] = f[i] BY <4>1, Zenon
      <4> QED BY <3>2, <4>2, <4>3, Zenon
    <3>3. CASE i \in 1..n
      <4>1. /\ i # n + 1 /\ i # 0 /\ i \in 0..n
            /\ i - 1 \in 0..n + 1 /\ i - 1 # n + 1
        BY <3>3, SMT
      <4>2. g[i] = f[i] /\ g[i - 1] = f[i - 1] BY <4>1, Zenon
      <4>3. f[i] = IF s[i] \in S THEN Append(f[i - 1], s[i]) ELSE f[i - 1]
        <5>1. Extends(f, s, S, i) BY <2>1, <3>3, KeepsNext, Zenon
        <5> QED BY <5>1 DEF Extends
      <4> QED BY <4>1, <4>2, <4>3, Zenon
    <3>4. i = n + 1 \/ i = 0 \/ i \in 1..n BY SMT
    <3> QED BY <3>1, <3>2, <3>3, <3>4
  <2>3. Keeps(g, n + 1, s, S)
    <3>1. g = [i \in 0..n + 1 |-> g[i]] BY Zenon
    <3> HIDE DEF g
    <3>2. [i \in 0..n + 1 |-> g[i]] =
            [i \in 0..n + 1 |-> IF i = 0 THEN <<>>
               ELSE IF s[i] \in S THEN Append(g[i - 1], s[i]) ELSE g[i - 1]]
      BY <2>2, Zenon
    <3> QED BY <3>1, <3>2, Zenon DEF Keeps
  <2> HIDE DEF g
  <2> QED BY <2>3
<1> HIDE DEF P
<1>3. Nat \subseteq P BY <1>1, <1>2, Induct
<1> QED BY <1>3 DEF P

LEMMA KeptIs ==
  ASSUME NEW s, Len(s) \in Nat, NEW S
  PROVE  \E f : Keeps(f, Len(s), s, S) /\ Kept(s, S) = f[Len(s)]
<1>1. \E f : Keeps(f, Len(s), s, S) BY KeepsExists
<1>2. Keeps(CHOOSE f : Keeps(f, Len(s), s, S), Len(s), s, S) BY <1>1
<1>3. Kept(s, S) = (CHOOSE f : Keeps(f, Len(s), s, S))[Len(s)] BY DEF Kept, Keeps
<1> QED BY <1>2, <1>3

\* Two sequences that agree up to n keep the same up to n.
LEMMA KeepsSame ==
  ASSUME NEW s, NEW t, NEW S, NEW n \in Nat, NEW m \in Nat, NEW k \in Nat, n <= m, n <= k,
         \A i \in 1..n : s[i] = t[i],
         NEW f, Keeps(f, m, s, S), NEW g, Keeps(g, k, t, S)
  PROVE  f[n] = g[n]
<1> DEFINE P == {i \in Nat : i <= n => f[i] = g[i]}
<1>1. 0 \in P
  <2>1. f[0] = <<>> /\ g[0] = <<>> BY KeepsZero, Zenon
  <2> QED BY <2>1
<1>2. ASSUME NEW i \in Nat, i \in P PROVE i + 1 \in P
  <2> SUFFICES ASSUME i + 1 <= n PROVE f[i + 1] = g[i + 1]
    OBVIOUS
  <2>1. f[i] = g[i] /\ i + 1 \in 1..n /\ i + 1 - 1 = i BY <1>2, SMT
  <2>2. s[i + 1] = t[i + 1] BY <2>1
  <2>3. i + 1 \in 1..m /\ i + 1 \in 1..k BY SMT
  <2>4. f[i + 1] = IF s[i + 1] \in S THEN Append(f[i], s[i + 1]) ELSE f[i]
    <3>1. Extends(f, s, S, i + 1) BY <2>3, KeepsNext, Zenon
    <3> QED BY <2>1, <3>1, SMT DEF Extends
  <2>5. g[i + 1] = IF t[i + 1] \in S THEN Append(g[i], t[i + 1]) ELSE g[i]
    <3>1. Extends(g, t, S, i + 1) BY <2>3, KeepsNext, Zenon
    <3> QED BY <2>1, <3>1, SMT DEF Extends
  <2>6. CASE s[i + 1] \in S BY <2>1, <2>2, <2>4, <2>5, <2>6, Zenon
  <2>7. CASE s[i + 1] \notin S BY <2>1, <2>2, <2>4, <2>5, <2>7, Zenon
  <2> QED BY <2>6, <2>7
<1> HIDE DEF P
<1>3. n \in P BY <1>1, <1>2, Induct
<1> QED BY <1>3 DEF P

LEMMA KeptNone ==
  ASSUME NEW S
  PROVE  Kept(<<>>, S) = <<>>
<1>1. PICK f : Keeps(f, 0, <<>>, S) /\ Kept(<<>>, S) = f[0] BY KeptIs, SMT
<1> QED BY <1>1, SMT DEF Keeps

LEMMA KeptAppend ==
  ASSUME NEW A, NEW s \in Seq(A), NEW x \in A, NEW S
  PROVE  Kept(Append(s, x), S) = IF x \in S THEN Append(Kept(s, S), x) ELSE Kept(s, S)
<1> DEFINE t == Append(s, x)
<1>1. Len(t) = Len(s) + 1 /\ Len(s) \in Nat /\ t[Len(s) + 1] = x /\ \A i \in 1..Len(s) : s[i] = t[i]
  BY SMT
<1> HIDE DEF t
<1>2. PICK f : Keeps(f, Len(s), s, S) /\ Kept(s, S) = f[Len(s)] BY <1>1, KeptIs
<1>3. PICK g : Keeps(g, Len(t), t, S) /\ Kept(t, S) = g[Len(t)] BY <1>1, KeptIs, SMT
<1>4. f[Len(s)] = g[Len(s)]
  <2>1. Len(s) <= Len(s) /\ Len(s) <= Len(t) /\ Len(t) \in Nat BY <1>1, SMT
  <2> QED BY <1>1, <1>2, <1>3, <2>1, KeepsSame
<1>5. g[Len(t)] = IF x \in S THEN Append(g[Len(s)], x) ELSE g[Len(s)]
  <2>1. Len(t) \in 1..Len(t) /\ Len(t) - 1 = Len(s) /\ Len(t) \in Nat BY <1>1, SMT
  <2>2. t[Len(t)] = x BY <1>1
  <2>3. Extends(g, t, S, Len(t)) BY <1>3, <2>1, KeepsNext, Zenon
  <2> QED BY <2>1, <2>2, <2>3, Zenon DEF Extends
<1> QED BY <1>2, <1>3, <1>4, <1>5 DEF t

-----------------------------------------------------------------------------
(* Induction over sequences, and what it gives of Kept *)

LEMMA SeqInduct ==
  ASSUME NEW A, NEW T, <<>> \in T,
         \A t \in Seq(A), x \in A : t \in T => Append(t, x) \in T
  PROVE  Seq(A) \subseteq T
<1> DEFINE P == {n \in Nat : \A t \in Seq(A) : Len(t) = n => t \in T}
<1>1. 0 \in P
  <2>1. \A t \in Seq(A) : Len(t) = 0 => t = <<>> BY SMT
  <2> QED BY <2>1
<1>2. ASSUME NEW n \in Nat, n \in P PROVE n + 1 \in P
  <2>1. SUFFICES ASSUME NEW t \in Seq(A), Len(t) = n + 1 PROVE t \in T
    OBVIOUS
  <2> DEFINE u == SubSeq(t, 1, n)
  <2>2. u \in Seq(A) /\ Len(u) = n /\ t[n + 1] \in A BY <2>1, SMT
  <2>3. t = Append(u, t[n + 1]) BY <2>1, SMT
  <2> HIDE DEF u
  <2>4. u \in T BY <1>2, <2>2
  <2>5. Append(u, t[n + 1]) \in T BY <2>2, <2>4
  <2> QED BY <2>3, <2>5
<1> HIDE DEF P
<1>3. Nat \subseteq P BY <1>1, <1>2, Induct
<1>4. \A t \in Seq(A) : Len(t) \in Nat OBVIOUS
<1> QED BY <1>3, <1>4 DEF P

LEMMA SeqGrows ==
  ASSUME NEW A, NEW B, A \subseteq B
  PROVE  Seq(A) \subseteq Seq(B)
<1>1. A = B \cap A OBVIOUS
<1>2. Seq(B \cap A) \subseteq Seq(B) OBVIOUS
<1> QED BY <1>1, <1>2

LEMMA ElementsOf ==
  ASSUME NEW A, NEW s \in Seq(A)
  PROVE  DOMAIN s = 1..Len(s) /\ Len(s) \in Nat /\ \A i \in DOMAIN s : s[i] \in A
OBVIOUS

LEMMA KeptSeq ==
  ASSUME NEW A, NEW S
  PROVE  \A t \in Seq(A) : Kept(t, S) \in Seq(A \cap S)
<1> DEFINE T == {t \in Seq(A) : Kept(t, S) \in Seq(A \cap S)}
<1>1. <<>> \in T
  <2>1. <<>> \in Seq(A) /\ <<>> \in Seq(A \cap S) OBVIOUS
  <2>2. Kept(<<>>, S) = <<>> BY KeptNone
  <2> QED BY <2>1, <2>2
<1>2. ASSUME NEW t \in Seq(A), NEW x \in A, t \in T PROVE Append(t, x) \in T
  <2>1. Append(t, x) \in Seq(A) /\ Kept(t, S) \in Seq(A \cap S) BY <1>2
  <2>2. Kept(Append(t, x), S) = IF x \in S THEN Append(Kept(t, S), x) ELSE Kept(t, S)
    BY KeptAppend
  <2>3. x \in S => Append(Kept(t, S), x) \in Seq(A \cap S) BY <2>1
  <2> QED BY <2>1, <2>2, <2>3
<1> HIDE DEF T
<1>3. Seq(A) \subseteq T BY <1>1, <1>2, SeqInduct
<1> QED BY <1>3 DEF T

LEMMA AppendedAfter ==
  ASSUME NEW A, NEW s \in Seq(A), NEW t \in Seq(A), NEW x \in A
  PROVE  Append(s \o t, x) = s \o Append(t, x)
BY SMT

LEMMA KeptConcat ==
  ASSUME NEW A, NEW s \in Seq(A), NEW S
  PROVE  \A t \in Seq(A) : Kept(s \o t, S) = Kept(s, S) \o Kept(t, S)
<1> DEFINE T == {t \in Seq(A) : Kept(s \o t, S) = Kept(s, S) \o Kept(t, S)}
<1> HIDE DEF T
<1>0. Kept(s, S) \in Seq(A) /\ \A t \in Seq(A) : Kept(t, S) \in Seq(A)
  <2>1. Seq(A \cap S) \subseteq Seq(A) OBVIOUS
  <2> QED BY <2>1, KeptSeq
<1>1. <<>> \in T
  <2>1. s \o <<>> = s /\ Kept(s, S) \o <<>> = Kept(s, S) BY <1>0
  <2>2. Kept(<<>>, S) = <<>> BY KeptNone
  <2>3. <<>> \in Seq(A) OBVIOUS
  <2>4. Kept(s \o <<>>, S) = Kept(s, S) \o Kept(<<>>, S) BY <2>1, <2>2
  <2> QED BY <2>3, <2>4 DEF T
<1>2. ASSUME NEW t \in Seq(A), NEW x \in A, t \in T PROVE Append(t, x) \in T
  <2>1. Append(t, x) \in Seq(A) /\ s \o t \in Seq(A) /\ Kept(t, S) \in Seq(A) BY <1>0
  <2>2. Kept(s \o t, S) = Kept(s, S) \o Kept(t, S) BY <1>2 DEF T
  <2>3. s \o Append(t, x) = Append(s \o t, x) BY SMT
  <2>4. Kept(Append(t, x), S) = IF x \in S THEN Append(Kept(t, S), x) ELSE Kept(t, S)
    BY KeptAppend
  <2>5. Kept(Append(s \o t, x), S)
          = IF x \in S THEN Append(Kept(s \o t, S), x) ELSE Kept(s \o t, S)
    BY <2>1, KeptAppend
  <2>6. Append(Kept(s, S) \o Kept(t, S), x) = Kept(s, S) \o Append(Kept(t, S), x)
    <3> DEFINE a == Kept(s, S)
               b == Kept(t, S)
    <3>1. a \in Seq(A) /\ b \in Seq(A) BY <1>0
    <3> HIDE DEF a, b
    <3>2. a \o Append(b, x) = Append(a \o b, x) BY <3>1, SMT
    <3> QED BY <3>2 DEF a, b
  <2>7. Kept(s \o Append(t, x), S) = Kept(s, S) \o Kept(Append(t, x), S)
    BY <2>2, <2>3, <2>4, <2>5, <2>6
  <2> QED BY <2>1, <2>7 DEF T
<1>3. Seq(A) \subseteq T BY <1>1, <1>2, SeqInduct
<1> QED BY <1>3 DEF T

LEMMA KeptOne ==
  ASSUME NEW x, NEW S
  PROVE  Kept(<<x>>, S) = IF x \in S THEN <<x>> ELSE <<>>
<1>1. Kept(Append(<<>>, x), S) = IF x \in S THEN Append(Kept(<<>>, S), x) ELSE Kept(<<>>, S)
  <2>1. <<>> \in Seq({x}) /\ x \in {x} OBVIOUS
  <2> QED BY <2>1, KeptAppend
<1>2. Append(<<>>, x) = <<x>> OBVIOUS
<1> QED BY <1>1, <1>2, KeptNone

LEMMA KeptHead ==
  ASSUME NEW A, NEW s \in Seq(A), s # <<>>, NEW S
  PROVE  Kept(s, S) = (IF Head(s) \in S THEN <<Head(s)>> ELSE <<>>) \o Kept(Tail(s), S)
<1>1. Head(s) \in A /\ Tail(s) \in Seq(A) /\ <<Head(s)>> \in Seq(A) OBVIOUS
<1>2. s = <<Head(s)>> \o Tail(s) BY <1>1, SMT
<1>3. Kept(<<Head(s)>> \o Tail(s), S) = Kept(<<Head(s)>>, S) \o Kept(Tail(s), S)
  <2> DEFINE h == <<Head(s)>>
             u == Tail(s)
  <2>1. h \in Seq(A) /\ u \in Seq(A) BY <1>1
  <2> HIDE DEF h, u
  <2>2. Kept(h \o u, S) = Kept(h, S) \o Kept(u, S) BY <2>1, KeptConcat
  <2> QED BY <2>2 DEF h, u
<1> QED BY <1>2, <1>3, KeptOne

-----------------------------------------------------------------------------
(* The types of the driver *)

Commands == {0, SERIAL_NUMBER, DIGEST_CHECK, ISP_PROGRAMMING}

Word == [command : BOOLEAN, byte : Nat]

\* The words of the driver, and those with which the controller answers.
CommandWord == {w \in Word : w.command => w.byte \in Commands}
ReplyWord == {w \in Word : w.command => w.byte \in Commands \union {POR_DIGEST_ERROR_OPCODE}}

Handlers == {"none", "request", "isp"}
HandlerCall == [handler : Handlers, length : 0..6, response : [ResponseBytes -> Nat]]

States == {"IDLE", "TX_CMD", "WAIT_RESPONSE", "RX_RESPONSE", "TX_PAGED_DATA"}

\* The sets of the fields have names, so that they are taken for what they are only where it matters.
Text == Seq(Nat)
Texts == Seq(Seq(Nat))
Response == [ResponseBytes -> Nat]
Size == 0..6
CommandWords == Seq(CommandWord)
HandlerCalls == Seq(HandlerCall)

ComblkType ==
  [state : States, cmd_opcode : Commands, cmd : Text, data : Text, pages : Texts,
   response : Response, response_size : Size, response_idx : Size,
   completion_handler : Handlers, request_in_progress : BOOLEAN,
   TXTOKAY : BOOLEAN, RCVOKAY : BOOLEAN, nvic : BOOLEAN,
   flushed : BOOLEAN, sent : CommandWords, events : Text, called : HandlerCalls]

\* A step of the driver that writes nothing to the FIFO and reports no event.
Quiet(c, d) == d.sent = c.sent /\ d.events = c.events

LEMMA SilentType ==
  ASSUME NEW c \in ComblkType
  PROVE  /\ Silent(c) \in ComblkType
         /\ Silent(c).sent = <<>> /\ Silent(c).events = <<>> /\ Silent(c).called = <<>>
         /\ Silent(c).flushed = FALSE
         /\ Silent(c).state = c.state /\ Silent(c).cmd_opcode = c.cmd_opcode
         /\ Silent(c).cmd = c.cmd /\ Silent(c).data = c.data /\ Silent(c).pages = c.pages
<1>1. <<>> \in CommandWords /\ <<>> \in Text /\ <<>> \in HandlerCalls
  BY DEF CommandWords, Text, HandlerCalls
<1> DEFINE d == Silent(c)
<1>2. d = [c EXCEPT !.flushed = FALSE, !.sent = <<>>, !.events = <<>>, !.called = <<>>]
  BY DEF Silent
<1> HIDE DEF d
<1>3. d \in ComblkType BY <1>1, <1>2, ZenonT(30) DEF ComblkType
<1>4. d.sent = <<>> /\ d.events = <<>> /\ d.called = <<>> /\ d.flushed = FALSE
  BY <1>2 DEF ComblkType
<1>5. d.state = c.state /\ d.cmd_opcode = c.cmd_opcode
  BY <1>2 DEF ComblkType
<1>6. d.cmd = c.cmd /\ d.data = c.data /\ d.pages = c.pages
  BY <1>2 DEF ComblkType
<1> QED BY <1>3, <1>4, <1>5, <1>6 DEF d

LEMMA ReportType ==
  ASSUME NEW c \in ComblkType, NEW opcode \in Nat
  PROVE  /\ process_sys_ctrl_command(c, opcode) \in ComblkType
         /\ process_sys_ctrl_command(c, opcode).sent = c.sent
         /\ process_sys_ctrl_command(c, opcode).events = Append(c.events, opcode)
<1>1. c.events \in Text BY SMT DEF ComblkType
<1> DEFINE e == Append(c.events, opcode)
           d == process_sys_ctrl_command(c, opcode)
<1>2. e \in Text BY <1>1 DEF Text
<1>3. d = [c EXCEPT !.events = e] BY DEF process_sys_ctrl_command
<1> HIDE DEF d, e
<1>4. d \in ComblkType BY <1>2, <1>3 DEF ComblkType
<1>5. d.sent = c.sent /\ d.events = e BY <1>3 DEF ComblkType
<1> QED BY <1>4, <1>5 DEF d, e

LEMMA CompleteType ==
  ASSUME NEW c \in ComblkType, NEW length \in Size
  PROVE  /\ complete_request(c, length) \in ComblkType
         /\ Quiet(c, complete_request(c, length))
<1> DEFINE call == [handler |-> c.completion_handler, length |-> length, response |-> c.response]
           a == Append(c.called, call)
           d == complete_request(c, length)
<1>1. call \in HandlerCall
  <2>1. c.completion_handler \in Handlers /\ c.response \in Response BY SMT DEF ComblkType
  <2> QED BY <2>1 DEF HandlerCall, Response, Size
<1>2. d = IF c.completion_handler = "none" THEN c
          ELSE [c EXCEPT !.called = a, !.completion_handler = "none", !.request_in_progress = FALSE]
  BY DEF complete_request
<1> HIDE DEF call
<1>3. "none" \in Handlers BY DEF Handlers
<1>4. a \in HandlerCalls
  <2>1. c.called \in HandlerCalls BY SMT DEF ComblkType
  <2> QED BY <1>1, <2>1 DEF HandlerCalls
<1> HIDE DEF a, d
<1>5. CASE c.completion_handler = "none" BY <1>2, <1>5 DEF d, Quiet
<1>6. CASE c.completion_handler # "none"
  <2>1. d = [c EXCEPT !.called = a, !.completion_handler = "none", !.request_in_progress = FALSE]
    BY <1>2, <1>6
  <2>2. d \in ComblkType BY <2>1, <1>3, <1>4 DEF ComblkType
  <2>3. d.sent = c.sent /\ d.events = c.events BY <2>1 DEF ComblkType
  <2> QED BY <2>2, <2>3 DEF d, Quiet
<1> QED BY <1>5, <1>6

LEMMA AbortType ==
  ASSUME NEW c \in ComblkType
  PROVE  /\ abort_current_cmd(c) \in ComblkType
         /\ Quiet(c, abort_current_cmd(c))
<1>1. c.response_idx \in Size BY SMT DEF ComblkType
<1> DEFINE d == complete_request(c, c.response_idx)
           e == abort_current_cmd(c)
<1>2. d \in ComblkType /\ Quiet(c, d) BY <1>1, CompleteType, Zenon
<1>3. e = IF c.request_in_progress THEN [d EXCEPT !.flushed = TRUE] ELSE c
  BY DEF abort_current_cmd
<1> HIDE DEF d, e
<1>4. CASE c.request_in_progress
  <2>1. e = [d EXCEPT !.flushed = TRUE] BY <1>3, <1>4
  <2>2. e \in ComblkType BY <1>2, <2>1 DEF ComblkType
  <2>3. e.sent = d.sent /\ e.events = d.events BY <1>2, <2>1 DEF ComblkType
  <2> QED BY <1>2, <2>2, <2>3 DEF e, Quiet
<1>5. CASE ~c.request_in_progress BY <1>3, <1>5 DEF e, Quiet
<1> QED BY <1>4, <1>5

\* What the application may be told of a word: an event of it, or nothing that is an event.
Replies == Commands \union {POR_DIGEST_ERROR_OPCODE}

Told(word, events) ==
  IF word.command /\ word.byte \notin Replies THEN events = <<word.byte>>
  ELSE events = <<>> \/ \E opcode \in Replies : events = <<opcode>>

Received(word, d) == d \in ComblkType /\ d.sent = <<>> /\ Told(word, d.events)

LEMMA ResponseType ==
  ASSUME NEW r \in Response, NEW i, NEW byte \in Nat
  PROVE  [r EXCEPT ![i] = byte] \in Response
BY DEF Response

LEMMA ReportsWord ==
  ASSUME NEW c \in ComblkType, c.sent = <<>>, c.events = <<>>, NEW word \in Word, word.command
  PROVE  Received(word, process_sys_ctrl_command(c, word.byte))
<1>1. word.byte \in Nat BY DEF Word
<1> DEFINE d == process_sys_ctrl_command(c, word.byte)
<1>2. d \in ComblkType /\ d.sent = c.sent /\ d.events = Append(c.events, word.byte)
  BY <1>1, ReportType
<1> HIDE DEF d
<1>3. d.sent = <<>> /\ d.events = Append(<<>>, word.byte) BY <1>2
<1>4. Append(<<>>, word.byte) = <<word.byte>> OBVIOUS
<1>5. Told(word, d.events) BY <1>3, <1>4 DEF Told
<1> QED BY <1>2, <1>3, <1>5 DEF Received, d

LEMMA TellsNothing ==
  ASSUME NEW c \in ComblkType, c.sent = <<>>, c.events = <<>>, NEW word \in Word,
         word.command => word.byte \in Replies
  PROVE  Received(word, c)
BY DEF Received, Told

LEMMA RxIdleType ==
  ASSUME NEW c \in ComblkType, c.sent = <<>>, c.events = <<>>, NEW word \in Word
  PROVE  Received(word, RxIdle(c, word))
<1>1. CASE ~word.command BY <1>1, TellsNothing DEF RxIdle
<1>2. CASE word.command /\ word.byte # POR_DIGEST_ERROR_OPCODE
  BY <1>2, ReportsWord DEF RxIdle
<1>3. CASE word.command /\ word.byte = POR_DIGEST_ERROR_OPCODE
  <2> DEFINE r == [c.response EXCEPT ![0] = word.byte]
             s == [c.response EXCEPT ![0] = word.byte, ![1] = 0]
             d == [c EXCEPT !.response = s, !.response_idx = 1, !.state = "RX_RESPONSE"]
  <2>1. c.response \in Response BY DEF ComblkType
  <2>2. r \in Response BY <2>1, ResponseType DEF Word
  <2>3. s \in Response
    <3>1. s = [r EXCEPT ![1] = 0] BY SMT
    <3> HIDE DEF r, s
    <3> QED BY <2>2, <3>1, ResponseType
  <2>4. RxIdle(c, word) = d BY <1>3 DEF RxIdle
  <2> HIDE DEF s
  <2>5. 1 \in Size /\ "RX_RESPONSE" \in States BY DEF Size, States
  <2>6. d \in ComblkType BY <2>3, <2>5 DEF ComblkType
  <2>7. d.sent = c.sent /\ d.events = c.events BY DEF ComblkType
  <2> HIDE DEF d
  <2>8. word.byte \in Replies BY <1>3 DEF Replies
  <2> QED BY <2>4, <2>6, <2>7, <2>8, TellsNothing
<1> QED BY <1>1, <1>2, <1>3

LEMMA RxWaitType ==
  ASSUME NEW c \in ComblkType, c.sent = <<>>, c.events = <<>>, NEW word \in Word
  PROVE  Received(word, RxWait(c, word))
<1>1. CASE ~word.command BY <1>1, TellsNothing DEF RxWait
<1>2. CASE word.command /\ ~IsAnswer(c, word)
  BY <1>2, ReportsWord DEF RxWait
<1>3. CASE word.command /\ IsAnswer(c, word)
  <2> DEFINE r == [c.response EXCEPT ![0] = word.byte]
             d == [c EXCEPT !.response = r, !.response_idx = 1, !.state = "RX_RESPONSE"]
  <2>1. c.response \in Response BY DEF ComblkType
  <2>2. r \in Response BY <2>1, ResponseType DEF Word
  <2>4. RxWait(c, word) = d BY <1>3 DEF RxWait
  <2> HIDE DEF r
  <2>5. 1 \in Size /\ "RX_RESPONSE" \in States BY DEF Size, States
  <2>6. d \in ComblkType BY <2>2, <2>5 DEF ComblkType
  <2>7. d.sent = c.sent /\ d.events = c.events BY DEF ComblkType
  <2> HIDE DEF d
  <2>8. word.byte \in Replies
    <3>1. c.cmd_opcode \in Commands BY DEF ComblkType
    <3> QED BY <1>3, <3>1 DEF Replies, IsAnswer
  <2> QED BY <2>4, <2>6, <2>7, <2>8, TellsNothing
<1> QED BY <1>1, <1>2, <1>3

LEMMA RxDataType ==
  ASSUME NEW c \in ComblkType, c.sent = <<>>, c.events = <<>>, NEW word \in Word, ~word.command
  PROVE  Received(word, RxData(c, word.byte))
<1>0. c.response \in Response /\ c.response_idx \in Size /\ c.response_size \in Size
  BY DEF ComblkType
<1> DEFINE r == [c.response EXCEPT ![c.response_idx] = word.byte]
<1>1. r \in Response BY <1>0, ResponseType DEF Word
<1>2. CASE c.response[c.response_idx - 1] = POR_DIGEST_ERROR_OPCODE
  <2> DEFINE p == process_sys_ctrl_command(c, POR_DIGEST_ERROR_OPCODE)
             r2 == [p.response EXCEPT ![p.response_idx] = word.byte]
             q == [c EXCEPT !.events = Append(c.events, POR_DIGEST_ERROR_OPCODE)]
             d == [p EXCEPT !.response[c.response_idx] = word.byte, !.state = "IDLE"]
  <2>1. POR_DIGEST_ERROR_OPCODE \in Nat BY SMT DEF POR_DIGEST_ERROR_OPCODE
  <2>2. /\ p \in ComblkType /\ p.sent = <<>>
        /\ p.events = Append(<<>>, POR_DIGEST_ERROR_OPCODE)
    BY <2>1, ReportType
  <2>3. RxData(c, word.byte) = d BY <1>2 DEF RxData
  <2> HIDE DEF p
  <2>4. p.response \in Response BY <2>2 DEF ComblkType
  <2> DEFINE s == [p.response EXCEPT ![c.response_idx] = word.byte]
  <2>5. s \in Response BY <2>4, ResponseType DEF Word
  <2>6. d = [p EXCEPT !.response = s, !.state = "IDLE"] OBVIOUS
  <2> HIDE DEF s, d
  <2>7. "IDLE" \in States BY DEF States
  <2>8. d \in ComblkType BY <2>2, <2>5, <2>6, <2>7 DEF ComblkType
  <2>9. d.sent = p.sent /\ d.events = p.events BY <2>2, <2>6 DEF ComblkType
  <2>10. Append(<<>>, POR_DIGEST_ERROR_OPCODE) = <<POR_DIGEST_ERROR_OPCODE>> OBVIOUS
  <2>11. Told(word, d.events)
    BY <2>2, <2>9, <2>10, Zenon DEF Told, Replies
  <2> QED BY <2>2, <2>3, <2>8, <2>9, <2>11 DEF Received
<1>3. CASE c.response[c.response_idx - 1] # POR_DIGEST_ERROR_OPCODE
  <2> DEFINE s == IF c.response_idx < c.response_size
                    THEN [c EXCEPT !.response = r, !.response_idx = c.response_idx + 1]
                    ELSE c
             f == complete_request(s, s.response_idx)
             d == IF s.response_idx = s.response_size THEN [f EXCEPT !.state = "IDLE"] ELSE s
  <2>1. RxData(c, word.byte) = d BY <1>3 DEF RxData
  <2> HIDE DEF r
  <2>2. s \in ComblkType /\ s.sent = <<>> /\ s.events = <<>>
    <3>1. CASE c.response_idx < c.response_size
      <4> DEFINE j == c.response_idx + 1
      <4>1. j \in Size BY <1>0, <3>1, SMT DEF Size
      <4>2. s = [c EXCEPT !.response = r, !.response_idx = j] BY <3>1
      <4> HIDE DEF s, j
      <4>3. s \in ComblkType BY <1>1, <4>1, <4>2 DEF ComblkType
      <4>4. s.sent = c.sent /\ s.events = c.events BY <4>2 DEF ComblkType
      <4> QED BY <4>3, <4>4
    <3>2. CASE ~(c.response_idx < c.response_size) BY <3>2
    <3> QED BY <3>1, <3>2
  <2> HIDE DEF s
  <2>3. s.response_idx \in Size BY <2>2 DEF ComblkType
  <2>4. f \in ComblkType /\ Quiet(s, f) BY <2>2, <2>3, CompleteType
  <2> HIDE DEF f
  <2>5. "IDLE" \in States BY DEF States
  <2> DEFINE g == [f EXCEPT !.state = "IDLE"]
  <2>6. g \in ComblkType BY <2>4, <2>5 DEF ComblkType
  <2>7. g.sent = f.sent /\ g.events = f.events BY <2>4 DEF ComblkType
  <2> HIDE DEF g
  <2>8. /\ d = g \/ d = s BY DEF g
  <2> HIDE DEF d
  <2>9. d \in ComblkType /\ d.sent = <<>> /\ d.events = <<>>
    BY <2>2, <2>4, <2>6, <2>7, <2>8 DEF Quiet
  <2> QED BY <2>1, <2>9, TellsNothing
<1> QED BY <1>2, <1>3

LEMMA RxPagedType ==
  ASSUME NEW c \in ComblkType, c.sent = <<>>, c.events = <<>>, NEW word \in Word
  PROVE  Received(word, RxPagedData(c, word))
<1>1. CASE word.command BY <1>1, ReportsWord DEF RxPagedData
<1>2. CASE ~word.command
  <2> DEFINE r == [c.response EXCEPT ![1] = word.byte]
             s == [c EXCEPT !.response[1] = word.byte]
             f == complete_request(s, 2)
             d == [f EXCEPT !.state = "IDLE"]
  <2>1. RxPagedData(c, word) = d BY <1>2 DEF RxPagedData
  <2>2. s = [c EXCEPT !.response = r] OBVIOUS
  <2>3. c.response \in Response BY DEF ComblkType
  <2>4. r \in Response BY <2>3, ResponseType DEF Word
  <2> HIDE DEF r, s
  <2>5. s \in ComblkType /\ s.sent = c.sent /\ s.events = c.events
    <3>1. s \in ComblkType BY <2>2, <2>4 DEF ComblkType
    <3>2. s.sent = c.sent /\ s.events = c.events BY <2>2 DEF ComblkType
    <3> QED BY <3>1, <3>2
  <2>6. 2 \in Size /\ "IDLE" \in States BY DEF Size, States
  <2>7. f \in ComblkType /\ Quiet(s, f) BY <2>5, <2>6, CompleteType
  <2> HIDE DEF f
  <2>8. d \in ComblkType BY <2>6, <2>7 DEF ComblkType
  <2>9. d.sent = f.sent /\ d.events = f.events BY <2>7 DEF ComblkType
  <2> HIDE DEF d
  <2> QED BY <1>2, <2>1, <2>5, <2>7, <2>8, <2>9, TellsNothing DEF Quiet
<1> QED BY <1>1, <1>2

LEMMA HandleRx ==
  ASSUME NEW c \in ComblkType, c.sent = <<>>, c.events = <<>>, NEW word \in Word
  PROVE  Received(word, handle_rx_okay_irq(c, word))
<1>1. c.state \in States BY DEF ComblkType
<1>2. CASE c.state = "IDLE" BY <1>2, RxIdleType DEF handle_rx_okay_irq
<1>3. CASE c.state = "WAIT_RESPONSE" BY <1>3, RxWaitType DEF handle_rx_okay_irq
<1>4. CASE c.state = "RX_RESPONSE"
  <2>1. Received(word, RxResponse(c, word))
    <3>1. CASE word.command BY <3>1, ReportsWord DEF RxResponse
    <3>2. CASE ~word.command BY <3>2, RxDataType DEF RxResponse
    <3> QED BY <3>1, <3>2
  <2> QED BY <1>4, <2>1 DEF handle_rx_okay_irq
<1>5. CASE c.state = "TX_PAGED_DATA" BY <1>5, RxPagedType DEF handle_rx_okay_irq
<1>6. CASE c.state = "TX_CMD"
  <2>1. Received(word, RxSending(c, word))
    <3>1. CASE word.command BY <3>1, ReportsWord DEF RxSending
    <3>2. CASE ~word.command BY <3>2, TellsNothing DEF RxSending
    <3> QED BY <3>1, <3>2
  <2> QED BY <1>6, <2>1 DEF handle_rx_okay_irq
<1> QED BY <1>1, <1>2, <1>3, <1>4, <1>5, <1>6 DEF States

-----------------------------------------------------------------------------
(* Sending *)

LEMMA FitsIn ==
  ASSUME NEW bytes \in Text, NEW room \in Nat
  PROVE  Fits(bytes, room) \in 0..Len(bytes) /\ Fits(bytes, room) <= room
<1>1. Len(bytes) \in Nat BY DEF Text
<1> QED BY <1>1, SMT DEF Fits

LEMMA SentType ==
  ASSUME NEW bytes \in Text, NEW room \in Nat
  PROVE  /\ Sent(bytes, room) \in CommandWords
         /\ Len(Sent(bytes, room)) <= room
         /\ Rest(bytes, room) \in Text
<1> DEFINE n == Fits(bytes, room)
           front == SubSeq(bytes, 1, n)
<1>1. bytes \in Seq(Nat) /\ n \in 0..Len(bytes) /\ n <= room BY FitsIn DEF Text
<1> HIDE DEF n
<1>2. front \in Seq(Nat) /\ Len(front) = n BY <1>1, SMT
<1>3. SubSeq(bytes, n + 1, Len(bytes)) \in Seq(Nat) BY <1>1, SMT
<1> HIDE DEF front
<1>4. DOMAIN front = 1..n /\ \A i \in 1..n : front[i] \in Nat BY <1>1, <1>2, SMT
<1>5. \A i \in 1..n : Data(front[i]) \in CommandWord
  BY <1>4 DEF Data, CommandWord, Word
<1>6. Sent(bytes, room) = [i \in 1..n |-> Data(front[i])]
  BY <1>4 DEF Sent, Words, front, n
<1>7. [i \in 1..n |-> Data(front[i])] \in Seq(CommandWord)
  BY <1>1, <1>5
<1>8. Len(Sent(bytes, room)) = n BY <1>1, <1>6, SMT
<1> QED BY <1>1, <1>3, <1>6, <1>7, <1>8 DEF CommandWords, Text, Rest, n

\* What a step of the driver puts in the transmit FIFO.
Fed(c, room, d) == d \in ComblkType /\ Len(d.sent) <= room /\ d.events = c.events

LEMMA FeedsNothing ==
  ASSUME NEW c \in ComblkType, c.sent = <<>>, NEW room \in Nat,
         NEW d \in ComblkType, Quiet(c, d)
  PROVE  Fed(c, room, d)
<1>1. Len(<<>>) <= room BY SMT
<1> QED BY <1>1 DEF Fed, Quiet

LEMMA TxCmdType ==
  ASSUME NEW c \in ComblkType, c.sent = <<>>, NEW room \in Nat
  PROVE  Fed(c, room, TxCmd(c, room))
<1>1. CASE c.cmd = <<>> BY <1>1, AbortType, FeedsNothing DEF TxCmd
<1>2. CASE c.cmd # <<>>
  <2> DEFINE s == Sent(c.cmd, room)
             r == Rest(c.cmd, room)
             t == IF r = <<>> THEN "WAIT_RESPONSE" ELSE c.state
             d == [c EXCEPT !.sent = s, !.cmd = r, !.state = t]
  <2>1. c.cmd \in Text /\ c.state \in States BY DEF ComblkType
  <2>2. s \in CommandWords /\ Len(s) <= room /\ r \in Text BY <2>1, SentType
  <2>3. TxCmd(c, room) = d BY <1>2 DEF TxCmd
  <2> HIDE DEF s, r
  <2>4. t \in States BY <2>1 DEF States
  <2> HIDE DEF t
  <2>5. d \in ComblkType BY <2>2, <2>4 DEF ComblkType
  <2>6. d.sent = s /\ d.events = c.events BY DEF ComblkType
  <2> HIDE DEF d
  <2> QED BY <2>2, <2>3, <2>5, <2>6 DEF Fed
<1> QED BY <1>1, <1>2

LEMMA NextPageType ==
  ASSUME NEW c \in ComblkType
  PROVE  NextPage(c) \in ComblkType /\ Quiet(c, NextPage(c))
<1>1. CASE c.pages = <<>> BY <1>1 DEF NextPage, Quiet
<1>2. CASE c.pages # <<>>
  <2> DEFINE a == Head(c.pages)
             b == Tail(c.pages)
             d == [c EXCEPT !.data = a, !.pages = b]
  <2>1. c.pages \in Texts BY DEF ComblkType
  <2>2. a \in Text /\ b \in Texts BY <1>2, <2>1 DEF Text, Texts
  <2>3. NextPage(c) = d BY <1>2 DEF NextPage
  <2> HIDE DEF a, b
  <2>4. d \in ComblkType BY <2>2 DEF ComblkType
  <2>5. d.sent = c.sent /\ d.events = c.events BY DEF ComblkType
  <2> HIDE DEF d
  <2> QED BY <2>3, <2>4, <2>5 DEF Quiet
<1> QED BY <1>1, <1>2

LEMMA TxPagedType ==
  ASSUME NEW c \in ComblkType, c.sent = <<>>, NEW room \in Nat
  PROVE  Fed(c, room, TxPagedData(c, room))
<1> DEFINE p == IF c.data = <<>> THEN NextPage(c) ELSE c
           d == [p EXCEPT !.TXTOKAY = FALSE, !.state = "WAIT_RESPONSE"]
           s == Sent(p.data, room)
           r == Rest(p.data, room)
           e == [p EXCEPT !.sent = s, !.data = r]
<1>1. p \in ComblkType /\ Quiet(c, p) BY NextPageType DEF Quiet
<1>2. TxPagedData(c, room) = IF p.data = <<>> THEN d ELSE e BY DEF TxPagedData, SendsData
<1> HIDE DEF p
<1>3. "WAIT_RESPONSE" \in States BY DEF States
<1>4. d \in ComblkType BY <1>1, <1>3 DEF ComblkType
<1>5. d.sent = p.sent /\ d.events = p.events BY <1>1 DEF ComblkType
<1> HIDE DEF d
<1>6. p.data \in Text BY <1>1 DEF ComblkType
<1>7. s \in CommandWords /\ Len(s) <= room /\ r \in Text BY <1>6, SentType
<1> HIDE DEF s, r
<1>8. e \in ComblkType BY <1>1, <1>7 DEF ComblkType
<1>9. e.sent = s /\ e.events = p.events BY <1>1 DEF ComblkType
<1> HIDE DEF e
<1>10. Fed(c, room, d)
  <2>1. Quiet(c, d) BY <1>1, <1>5 DEF Quiet
  <2> QED BY <1>4, <2>1, FeedsNothing
<1>11. Fed(c, room, e) BY <1>1, <1>7, <1>8, <1>9 DEF Fed, Quiet
<1> QED BY <1>2, <1>10, <1>11

LEMMA HandleTx ==
  ASSUME NEW c \in ComblkType, c.sent = <<>>, NEW room \in Nat
  PROVE  Fed(c, room, handle_tx_okay_irq(c, room))
<1>1. CASE c.state = "TX_CMD" BY <1>1, TxCmdType DEF handle_tx_okay_irq
<1>2. CASE c.state = "TX_PAGED_DATA" BY <1>2, TxPagedType DEF handle_tx_okay_irq
<1>3. CASE c.state # "TX_CMD" /\ c.state # "TX_PAGED_DATA"
  <2> DEFINE f == complete_request(c, 0)
             d == [f EXCEPT !.TXTOKAY = FALSE, !.state = "IDLE"]
  <2>1. handle_tx_okay_irq(c, room) = d BY <1>3 DEF handle_tx_okay_irq
  <2>2. 0 \in Size /\ "IDLE" \in States BY DEF Size, States
  <2>3. f \in ComblkType /\ Quiet(c, f) BY <2>2, CompleteType
  <2> HIDE DEF f
  <2>4. d \in ComblkType BY <2>2, <2>3 DEF ComblkType
  <2>5. d.sent = f.sent /\ d.events = f.events BY <2>3 DEF ComblkType
  <2> HIDE DEF d
  <2>6. Quiet(c, d) BY <2>3, <2>5 DEF Quiet
  <2> QED BY <2>1, <2>4, <2>6, FeedsNothing
<1> QED BY <1>1, <1>2, <1>3

\* The interrupt handler: it puts in the FIFO what fits, and tells of the word it takes.
LEMMA HandleInterrupt ==
  ASSUME NEW c \in ComblkType, NEW words \in Seq(Word), NEW room \in Nat
  PROVE  LET d == ComBlk_IRQHandler(c, words, room)
         IN  /\ d \in ComblkType /\ Len(d.sent) <= room
             /\ IF c.RCVOKAY /\ words # <<>> THEN Told(Head(words), d.events) ELSE d.events = <<>>
<1> DEFINE s == Silent(c)
           taken == c.RCVOKAY /\ words # <<>>
           r == IF taken THEN handle_rx_okay_irq(s, Head(words)) ELSE s
           d == ComBlk_IRQHandler(c, words, room)
<1>1. s \in ComblkType /\ s.sent = <<>> /\ s.events = <<>> BY SilentType
<1>2. d = IF c.TXTOKAY /\ room > 0 THEN handle_tx_okay_irq(r, room) ELSE r
  BY DEF ComBlk_IRQHandler
<1> HIDE DEF s, d
<1>3. /\ r \in ComblkType /\ r.sent = <<>>
      /\ IF taken THEN Told(Head(words), r.events) ELSE r.events = <<>>
  <2>1. CASE taken
    <3>1. Head(words) \in Word BY <2>1
    <3>2. Received(Head(words), handle_rx_okay_irq(s, Head(words))) BY <1>1, <3>1, HandleRx
    <3> QED BY <2>1, <3>2 DEF Received
  <2>2. CASE ~taken BY <1>1, <2>2
  <2> QED BY <2>1, <2>2
<1> HIDE DEF r
<1>4. Fed(r, room, d)
  <2>1. Fed(r, room, handle_tx_okay_irq(r, room)) BY <1>3, HandleTx
  <2>2. Fed(r, room, r) BY <1>3, FeedsNothing DEF Quiet
  <2> QED BY <1>2, <2>1, <2>2
<1> QED BY <1>3, <1>4 DEF Fed, d

-----------------------------------------------------------------------------
(* The type invariant *)

Requests == {Serial, Digest, Isp}
Mains == {"idle", "signal", "prepare", "opcode", "params", "wait"}
Serving == [opcode : Commands, got : Text, reply : Seq(ReplyWord), answered : BOOLEAN]

DriverType ==
  /\ comblk \in ComblkType
  /\ g_request_in_progress \in BOOLEAN /\ g_last_response_length \in Size
  /\ tx \in CommandWords /\ Len(tx) <= Depth
  /\ told \in Text /\ reported \in Text

RestType ==
  /\ rx \in Seq(Word) /\ Len(rx) <= Depth
  /\ main \in Mains /\ request \in Requests
  /\ serving \in Serving
  /\ replied \in Text /\ returned \in Text /\ raised \in Text

Types == DriverType /\ RestType

LEMMA RoomNat ==
  ASSUME DriverType
  PROVE  Room \in Nat
<1>1. Len(tx) \in Nat /\ Len(tx) <= Depth /\ Depth \in Nat
  BY SysServicesAssumption DEF DriverType, CommandWords
<1> QED BY <1>1, SMT DEF Room

LEMMA CallsOfType ==
  ASSUME NEW c \in ComblkType, NEW handler
  PROVE  CallsOf(c, handler) \in HandlerCalls
<1>1. c.called \in Seq(HandlerCall) BY DEF ComblkType, HandlerCalls
<1> DEFINE S == {call \in ToSet(c.called) : call.handler = handler}
<1> HIDE DEF S
<1>2. Kept(c.called, S) \in Seq(HandlerCall \cap S) BY <1>1, KeptSeq
<1>3. Seq(HandlerCall \cap S) \subseteq Seq(HandlerCall) OBVIOUS
<1>4. CallsOf(c, handler) = Kept(c.called, S) BY DEF CallsOf, S
<1> QED BY <1>2, <1>3, <1>4 DEF HandlerCalls

\* The driver's state after a step that puts in the FIFO no more than fits.
LEMMA SteppedType ==
  ASSUME DriverType, NEW c \in ComblkType, Len(c.sent) <= Room, Stepped(c)
  PROVE  DriverType'
<1>1. comblk' \in ComblkType
  <2>1. comblk' = Silent(c) BY DEF Stepped
  <2> QED BY <2>1, SilentType
<1>2. tx' \in CommandWords /\ Len(tx') <= Depth
  <2> DEFINE s == c.sent
             t == tx
             before == IF c.flushed THEN <<>> ELSE t
  <2>1. tx' = before \o s BY DEF Stepped
  <2>2. s \in Seq(CommandWord) BY DEF ComblkType, CommandWords
  <2>3. t \in Seq(CommandWord) /\ Len(t) <= Depth /\ Depth \in Nat /\ Len(s) <= Depth - Len(t)
    BY SysServicesAssumption DEF DriverType, CommandWords, Room
  <2> HIDE DEF s, t
  <2>4. CASE c.flushed
    <3>1. tx' = <<>> \o s BY <2>1, <2>4
    <3>2. <<>> \o s \in Seq(CommandWord) /\ Len(<<>> \o s) <= Depth BY <2>2, <2>3, SMT
    <3> QED BY <3>1, <3>2 DEF CommandWords
  <2>5. CASE ~c.flushed
    <3>1. tx' = t \o s BY <2>1, <2>5
    <3>2. t \o s \in Seq(CommandWord) /\ Len(t \o s) <= Depth BY <2>2, <2>3, SMT
    <3> QED BY <3>1, <3>2 DEF CommandWords
  <2> QED BY <2>4, <2>5
<1>3. told' \in Text
  <2>1. c.events \in Seq(Nat) /\ told \in Seq(Nat) BY DEF ComblkType, DriverType, Text
  <2>2. Kept(c.events, Known) \in Seq(Nat \cap Known) BY <2>1, KeptSeq
  <2>3. Seq(Nat \cap Known) \subseteq Seq(Nat) OBVIOUS
  <2> DEFINE k == Kept(c.events, Known)
  <2>4. told' = told \o k /\ k \in Seq(Nat) BY <2>2, <2>3 DEF Stepped
  <2> HIDE DEF k
  <2> QED BY <2>1, <2>4 DEF Text
<1>4. g_request_in_progress' \in BOOLEAN /\ g_last_response_length' \in Size
  <2> DEFINE k == CallsOf(c, "request")
  <2>1. k \in Seq(HandlerCall) BY CallsOfType DEF HandlerCalls
  <2>2. k # <<>> => Last(k).length \in Size
    <3> HIDE DEF k
    <3>1. k # <<>> => k[Len(k)] \in HandlerCall BY <2>1
    <3> QED BY <3>1 DEF Last, HandlerCall, Size
  <2>3. IF k = <<>> THEN UNCHANGED services
        ELSE g_request_in_progress' = FALSE /\ g_last_response_length' = Last(k).length
    BY DEF Stepped, request_completion_handler
  <2> HIDE DEF k
  <2> QED BY <2>2, <2>3 DEF DriverType, services
<1>5. reported' \in Text
  <2> DEFINE k == CallsOf(c, "isp")
             r == [i \in DOMAIN k |-> k[i].response[1]]
  <2>1. k \in Seq(HandlerCall) BY CallsOfType DEF HandlerCalls
  <2>2. reported' = reported \o r BY DEF Stepped, isp_sys_completion_handler
  <2> HIDE DEF k
  <2>3. \A i \in DOMAIN k : k[i].response[1] \in Nat
    <3>1. \A i \in DOMAIN k : k[i] \in HandlerCall BY <2>1
    <3>2. 1 \in ResponseBytes BY DEF ResponseBytes
    <3> QED BY <3>1, <3>2 DEF HandlerCall
  <2>4. r \in Seq(Nat)
    <3>1. DOMAIN k = 1..Len(k) /\ Len(k) \in Nat BY <2>1
    <3> QED BY <2>3, <3>1
  <2> HIDE DEF r
  <2> QED BY <2>2, <2>4 DEF DriverType, Text
<1> QED BY <1>1, <1>2, <1>3, <1>4, <1>5 DEF DriverType

LEMMA RequestTypes ==
  ASSUME request \in Requests
  PROVE  /\ request.opcode \in Commands /\ request.params \in Text /\ request.pages \in Texts
         /\ request.size \in Size /\ request.handler \in Handlers
         /\ request.kind \in {"ptr", "cmd", "paged"}
<1>1. Pages \in Texts
  <2> DEFINE B == 0..255
  <2>1. Pages \in Seq(Seq(B)) BY SysServicesAssumption
  <2>2. B \subseteq Nat BY SMT
  <2> HIDE DEF B
  <2>3. Seq(B) \subseteq Seq(Nat) BY <2>2, SeqGrows
  <2>4. Seq(Seq(B)) \subseteq Seq(Seq(Nat)) BY <2>3, SeqGrows
  <2> QED BY <2>1, <2>4 DEF Texts
<1>2. <<POINTER>> \in Text /\ <<1>> \in Text /\ <<0>> \in Text BY SMT DEF Text, POINTER
<1>3. <<>> \in Texts BY DEF Texts
<1>4. {6, 2} \subseteq Size BY SMT DEF Size
<1>5. CASE request = Serial BY <1>2, <1>3, <1>4, <1>5 DEF Serial, Commands, Handlers
<1>6. CASE request = Digest BY <1>2, <1>3, <1>4, <1>6 DEF Digest, Commands, Handlers
<1>7. CASE request = Isp BY <1>1, <1>2, <1>3, <1>4, <1>7 DEF Isp, Commands, Handlers
<1> QED BY <1>5, <1>6, <1>7 DEF Requests

LEMMA PreparedType ==
  ASSUME NEW c \in ComblkType, request \in Requests
  PROVE  /\ Prepared(c, request) \in ComblkType
         /\ Prepared(c, request).sent = <<>> /\ Prepared(c, request).events = <<>>
<1> DEFINE s == Silent(c)
           f == abort_current_cmd(s)
           opcode == request.opcode
           params == request.params
           pages == request.pages
           size == request.size
           handler == request.handler
           okay == request.kind = "cmd"
           p == [f EXCEPT !.nvic = FALSE, !.TXTOKAY = FALSE, !.RCVOKAY = okay,
                          !.request_in_progress = TRUE, !.completion_handler = handler]
           q == [p EXCEPT !.cmd_opcode = opcode, !.cmd = params, !.data = <<>>, !.pages = pages]
           d == [q EXCEPT !.response = Uninitialised, !.response_size = size, !.response_idx = 0]
<1>1. s \in ComblkType /\ s.sent = <<>> /\ s.events = <<>> BY SilentType
<1> HIDE DEF s
<1>2. f \in ComblkType /\ f.sent = <<>> /\ f.events = <<>> BY <1>1, AbortType DEF Quiet
<1>3. Prepared(c, request) = d BY DEF Prepared, s
<1> HIDE DEF f
<1>4. /\ opcode \in Commands /\ params \in Text /\ pages \in Texts
      /\ size \in Size /\ handler \in Handlers /\ okay \in BOOLEAN
  BY RequestTypes
<1> HIDE DEF opcode, params, pages, size, handler, okay
<1>5. p \in ComblkType BY <1>2, <1>4, ZenonT(60) DEF ComblkType
<1>6. p.sent = <<>> /\ p.events = <<>> BY <1>2 DEF ComblkType
<1> HIDE DEF p
<1>7. <<>> \in Text /\ 0 \in Size /\ Uninitialised \in Response
  BY DEF Text, Size, Uninitialised, Response, NoByte
<1>8. q \in ComblkType BY <1>4, <1>5, <1>7, ZenonT(60) DEF ComblkType
<1>9. q.sent = <<>> /\ q.events = <<>> BY <1>5, <1>6 DEF ComblkType
<1> HIDE DEF q
<1>10. d \in ComblkType BY <1>4, <1>7, <1>8 DEF ComblkType
<1>11. d.sent = <<>> /\ d.events = <<>> BY <1>8, <1>9 DEF ComblkType
<1> QED BY <1>3, <1>10, <1>11

LEMMA SendOpcodeType ==
  ASSUME NEW c \in ComblkType
  PROVE  /\ send_cmd_opcode(c) \in ComblkType
         /\ send_cmd_opcode(c).sent = <<Opcode(c.cmd_opcode)>> /\ send_cmd_opcode(c).events = <<>>
<1> DEFINE s == Silent(c)
           w == <<Opcode(c.cmd_opcode)>>
           d == [s EXCEPT !.sent = w]
<1>1. s \in ComblkType /\ s.events = <<>> BY SilentType
<1>2. c.cmd_opcode \in Commands BY DEF ComblkType
<1>3. w \in CommandWords
  <2>1. Opcode(c.cmd_opcode) \in CommandWord
    <3>1. c.cmd_opcode \in Nat BY <1>2 DEF Commands, SERIAL_NUMBER, DIGEST_CHECK, ISP_PROGRAMMING
    <3> QED BY <1>2, <3>1 DEF Opcode, CommandWord, Word
  <2> QED BY <2>1 DEF CommandWords
<1>4. send_cmd_opcode(c) = d BY DEF send_cmd_opcode
<1> HIDE DEF s, w
<1>5. d \in ComblkType BY <1>1, <1>3 DEF ComblkType
<1>6. d.sent = w /\ d.events = <<>> BY <1>1 DEF ComblkType
<1> QED BY <1>4, <1>5, <1>6 DEF w

LEMMA ArmedType ==
  ASSUME NEW c \in ComblkType, NEW kind \in {"ptr", "cmd", "paged"}, NEW room \in Nat
  PROVE  /\ Armed(c, kind, room) \in ComblkType
         /\ Len(Armed(c, kind, room).sent) <= room /\ Armed(c, kind, room).events = <<>>
<1> DEFINE s == Silent(c)
           w == Sent(c.cmd, room)
           r == Rest(c.cmd, room)
           t == IF r # <<>> THEN "TX_CMD" ELSE AfterCommand(kind)
           tok == kind = "paged"
           d == [s EXCEPT !.sent = w, !.cmd = r, !.state = t,
                          !.TXTOKAY = tok, !.RCVOKAY = TRUE, !.nvic = TRUE]
           p == [s EXCEPT !.sent = w, !.cmd = r, !.state = t]
           q == [p EXCEPT !.TXTOKAY = tok, !.RCVOKAY = TRUE, !.nvic = TRUE]
<1>1. s \in ComblkType /\ s.events = <<>> BY SilentType
<1>2. c.cmd \in Text BY DEF ComblkType
<1>3. w \in CommandWords /\ Len(w) <= room /\ r \in Text BY <1>2, SentType
<1>4. Armed(c, kind, room) = d BY DEF Armed
<1>5. d = q OBVIOUS
<1> HIDE DEF d, s, w, r
<1>6. t \in States /\ tok \in BOOLEAN BY DEF States, AfterCommand
<1> HIDE DEF t, tok
<1>7. p \in ComblkType BY <1>1, <1>3, <1>6, ZenonT(60) DEF ComblkType
<1>8. p.sent = w /\ p.events = <<>> BY <1>1 DEF ComblkType
<1> HIDE DEF p
<1>9. q \in ComblkType BY <1>6, <1>7, ZenonT(60) DEF ComblkType
<1>10. q.sent = w /\ q.events = <<>> BY <1>7, <1>8 DEF ComblkType
<1> QED BY <1>3, <1>4, <1>5, <1>9, <1>10

LEMMA TypesInit == Init => Types
<1> SUFFICES ASSUME Init PROVE Types
  OBVIOUS
<1>1. <<>> \in Text /\ <<>> \in CommandWords /\ Len(<<>>) <= Depth
  BY SysServicesAssumption DEF Text, CommandWords
<1>2. comblk \in ComblkType
  <2>1. /\ "IDLE" \in States /\ 0 \in Commands /\ <<>> \in Texts /\ 0 \in Size
        /\ "none" \in Handlers /\ <<>> \in HandlerCalls
    BY DEF States, Commands, Texts, Size, Handlers, HandlerCalls
  <2>2. Uninitialised \in Response
    BY DEF Uninitialised, Response, NoByte
  <2> HIDE DEF Uninitialised
  <2> QED BY <1>1, <2>1, <2>2 DEF Init, Initialised, ComblkType
<1>3. serving \in Serving
  <2>1. ASSUME NEW s \in Status
        PROVE  <<Opcode(POR_DIGEST_ERROR_OPCODE), Data(s)>> \in Seq(ReplyWord)
    <3>1. Opcode(POR_DIGEST_ERROR_OPCODE) \in ReplyWord
      BY DEF Opcode, ReplyWord, Word, POR_DIGEST_ERROR_OPCODE
    <3>2. Data(s) \in ReplyWord BY DEF Data, ReplyWord, Word, Status
    <3> QED BY <3>1, <3>2
  <2>2. PICK power_on \in {<<>>} \union {<<Opcode(POR_DIGEST_ERROR_OPCODE), Data(s)>> : s \in Status} :
               serving = [Idle EXCEPT !.reply = power_on]
    BY DEF Init
  <2>4. power_on \in Seq(ReplyWord)
    <3>1. <<>> \in Seq(ReplyWord) OBVIOUS
    <3>2. CASE power_on = <<>> BY <3>1, <3>2
    <3>3. CASE \E s \in Status : power_on = <<Opcode(POR_DIGEST_ERROR_OPCODE), Data(s)>>
      BY <2>1, <3>3
    <3> QED BY <3>2, <3>3
  <2>3. 0 \in Commands BY DEF Commands
  <2> QED BY <1>1, <2>2, <2>3, <2>4 DEF Idle, Serving
<1>4. DriverType
  <2>1. /\ g_request_in_progress = FALSE /\ g_last_response_length = 0
        /\ tx = <<>> /\ told = <<>> /\ reported = <<>>
    BY DEF Init
  <2>2. 0 \in Size BY DEF Size
  <2> QED BY <1>1, <1>2, <2>1, <2>2 DEF DriverType
<1>5. RestType BY <1>1, <1>3 DEF Init, RestType, Mains, Requests
<1> QED BY <1>4, <1>5 DEF Types

\* What leaves the driver alone, and what leaves the others.
LEMMA DriverKept == DriverType /\ UNCHANGED driver => DriverType'
BY DEF DriverType, driver, services

LEMMA TakesType ==
  ASSUME Types, ControllerTakes
  PROVE  Types'
<1>1. tx \in Seq(CommandWord) /\ tx # <<>> /\ Len(tx) <= Depth
  BY DEF Types, DriverType, CommandWords, ControllerTakes
<1>2. Head(tx) \in CommandWord /\ Tail(tx) \in Seq(CommandWord) /\ Len(Tail(tx)) <= Depth
  BY <1>1, SysServicesAssumption
<1>3. DriverType'
  BY <1>2 DEF Types, DriverType, ControllerTakes, CommandWords, services
<1>4. serving' \in Serving
  <2> DEFINE w == Head(tx)
             g == Append(serving.got, w.byte)
  <2>1. w \in CommandWord /\ serving \in Serving BY <1>2 DEF Types, RestType
  <2>2. serving' = IF w.command
                     THEN [opcode |-> w.byte, got |-> <<>>, reply |-> <<>>, answered |-> FALSE]
                     ELSE [serving EXCEPT !.got = g]
    BY DEF ControllerTakes
  <2> HIDE DEF w
  <2>3. w.command => w.byte \in Commands BY <2>1 DEF CommandWord
  <2>4. g \in Text BY <2>1 DEF CommandWord, Word, Serving, Text
  <2> HIDE DEF g
  <2>5. <<>> \in Text /\ <<>> \in Seq(ReplyWord) BY DEF Text
  <2> QED BY <2>1, <2>2, <2>3, <2>4, <2>5 DEF Serving
<1>5. RestType' BY <1>4 DEF Types, RestType, ControllerTakes
<1> QED BY <1>3, <1>5 DEF Types

LEMMA AnswersType ==
  ASSUME Types, ControllerAnswers
  PROVE  Types'
<1>1. PICK status \in Status :
        /\ replied' = Append(replied, status)
        /\ serving' = [serving EXCEPT !.answered = TRUE,
            !.reply = <<Opcode(serving.opcode), Data(status)>> \o
                      (IF serving.opcode = SERIAL_NUMBER THEN Words(PointerBytes) ELSE <<>>)]
  BY DEF ControllerAnswers
<1>2. serving \in Serving BY DEF Types, RestType
<1> DEFINE a == <<Opcode(serving.opcode), Data(status)>>
           b == IF serving.opcode = SERIAL_NUMBER THEN Words(PointerBytes) ELSE <<>>
           r == a \o b
<1>3. a \in Seq(ReplyWord)
  <2>1. serving.opcode \in Commands /\ serving.opcode \in Nat
    BY <1>2 DEF Serving, Commands, SERIAL_NUMBER, DIGEST_CHECK, ISP_PROGRAMMING
  <2>2. Opcode(serving.opcode) \in ReplyWord BY <2>1 DEF Opcode, ReplyWord, Word
  <2>3. Data(status) \in ReplyWord BY DEF Data, ReplyWord, Word, Status
  <2> QED BY <2>2, <2>3
<1>4. b \in Seq(ReplyWord)
  <2>1. PointerBytes \in Seq(0..255) BY SysServicesAssumption
  <2>2. DOMAIN PointerBytes = 1..Len(PointerBytes) /\ Len(PointerBytes) \in Nat
        /\ \A i \in DOMAIN PointerBytes : PointerBytes[i] \in Nat
    <3> DEFINE B == 0..255
    <3>1. PointerBytes \in Seq(B) /\ B \subseteq Nat BY <2>1, SMT
    <3> HIDE DEF B
    <3>2. DOMAIN PointerBytes = 1..Len(PointerBytes) /\ Len(PointerBytes) \in Nat
          /\ \A i \in DOMAIN PointerBytes : PointerBytes[i] \in B
      BY <3>1, ElementsOf
    <3> QED BY <3>1, <3>2
  <2>3. \A i \in DOMAIN PointerBytes : Data(PointerBytes[i]) \in ReplyWord
    BY <2>2 DEF Data, ReplyWord, Word
  <2>4. Words(PointerBytes) \in Seq(ReplyWord) BY <2>2, <2>3 DEF Words
  <2>5. <<>> \in Seq(ReplyWord) OBVIOUS
  <2> QED BY <2>4, <2>5
<1>5. serving' = [serving EXCEPT !.answered = TRUE, !.reply = r] BY <1>1
<1> HIDE DEF a, b
<1>6. r \in Seq(ReplyWord) BY <1>3, <1>4
<1> HIDE DEF r
<1>7. serving' \in Serving BY <1>2, <1>5, <1>6 DEF Serving
<1>8. replied' \in Text
  <2>1. status \in Nat BY DEF Status
  <2> QED BY <1>1, <2>1 DEF Types, RestType, Text
<1>9. DriverType' BY DriverKept DEF Types, ControllerAnswers
<1>10. RestType' BY <1>7, <1>8 DEF Types, RestType, ControllerAnswers
<1> QED BY <1>9, <1>10 DEF Types

LEMMA SendsType ==
  ASSUME Types, ControllerSends
  PROVE  Types'
<1>1. serving \in Serving /\ serving.reply # <<>> BY DEF Types, RestType, ControllerSends
<1> DEFINE w == Head(serving.reply)
           r == Tail(serving.reply)
<1>2. w \in ReplyWord /\ r \in Seq(ReplyWord) BY <1>1 DEF Serving
<1>3. serving' = [serving EXCEPT !.reply = r] /\ rx' = Append(rx, w) BY DEF ControllerSends
<1> HIDE DEF w, r
<1>4. serving' \in Serving BY <1>1, <1>2, <1>3 DEF Serving
<1>5. rx' \in Seq(Word) /\ Len(rx') <= Depth
  <2>1. w \in Word BY <1>2 DEF ReplyWord
  <2>2. rx \in Seq(Word) /\ Len(rx) < Depth /\ Depth \in Nat
    BY SysServicesAssumption DEF Types, RestType, ControllerSends
  <2> QED BY <1>3, <2>1, <2>2, SMT
<1>6. DriverType' BY DriverKept DEF Types, ControllerSends
<1>7. RestType' BY <1>4, <1>5 DEF Types, RestType, ControllerSends
<1> QED BY <1>6, <1>7 DEF Types

LEMMA RaisesType ==
  ASSUME Types, ControllerRaises
  PROVE  Types'
<1>1. PICK e \in Events : rx' = Append(rx, Opcode(e)) /\ raised' = Append(raised, e)
  BY DEF ControllerRaises
<1>2. e \in Nat BY SysServicesAssumption
<1> DEFINE w == Opcode(e)
<1>3. w \in Word BY <1>2 DEF Opcode, Word
<1> HIDE DEF w
<1>4. rx' \in Seq(Word) /\ Len(rx') <= Depth
  <2>1. rx \in Seq(Word) /\ Len(rx) < Depth /\ Depth \in Nat /\ rx' = Append(rx, w)
    BY <1>1, SysServicesAssumption DEF Types, RestType, ControllerRaises, w
  <2> QED BY <1>3, <2>1, SMT
<1>5. raised' \in Text BY <1>1, <1>2 DEF Types, RestType, Text
<1>6. DriverType' BY DriverKept DEF Types, ControllerRaises
<1>7. RestType' BY <1>4, <1>5 DEF Types, RestType, ControllerRaises
<1> QED BY <1>6, <1>7 DEF Types

LEMMA InterruptType ==
  ASSUME Types, Interrupt
  PROVE  Types'
<1> DEFINE d == ComBlk_IRQHandler(comblk, rx, Room)
<1>1. Room \in Nat BY RoomNat DEF Types
<1>2. comblk \in ComblkType /\ rx \in Seq(Word) BY DEF Types, DriverType, RestType
<1>3. d \in ComblkType /\ Len(d.sent) <= Room
  <2> HIDE DEF d
  <2> DEFINE room == Room
  <2>1. room \in Nat BY <1>1
  <2>2. d = ComBlk_IRQHandler(comblk, rx, room) BY DEF d
  <2> HIDE DEF room
  <2>3. d \in ComblkType /\ Len(d.sent) <= room BY <1>2, <2>1, <2>2, HandleInterrupt
  <2> QED BY <2>3 DEF room
<1>4. Stepped(d) BY DEF Interrupt
<1> HIDE DEF d
<1>5. DriverType' BY <1>3, <1>4, SteppedType DEF Types
<1>6. rx' \in Seq(Word) /\ Len(rx') <= Depth
  <2>1. rx' = IF comblk.RCVOKAY /\ rx # <<>> THEN Tail(rx) ELSE rx BY DEF Interrupt
  <2>2. rx # <<>> => Tail(rx) \in Seq(Word) /\ Len(Tail(rx)) <= Len(rx) BY <1>2
  <2>3. Len(rx) <= Depth /\ Len(rx) \in Nat /\ Depth \in Nat
    BY <1>2, SysServicesAssumption DEF Types, RestType
  <2>4. rx # <<>> => Len(Tail(rx)) <= Depth
    <3>1. rx # <<>> => Len(Tail(rx)) \in Nat BY <1>2
    <3> QED BY <2>2, <2>3, <3>1, SMT
  <2> QED BY <1>2, <2>1, <2>2, <2>3, <2>4
<1>7. RestType' BY <1>6 DEF Types, RestType, Interrupt, controller
<1> QED BY <1>5, <1>7 DEF Types

LEMMA CallsType ==
  ASSUME Types, NEW r \in Requests, Call(r)
  PROVE  Types'
<1>1. DriverType' BY DriverKept DEF Types, Call
<1>2. RestType' BY DEF Types, RestType, Call, controller, Mains
<1> QED BY <1>1, <1>2 DEF Types

LEMMA ApplicationType ==
  ASSUME Types, Application
  PROVE  Types'
<1>0. comblk \in ComblkType /\ request \in Requests BY DEF Types, DriverType, RestType
<1>1. CASE signal_request_start
  <2>1. DriverType' BY <1>1 DEF signal_request_start, Types, DriverType, Size
  <2>2. RestType' BY <1>1 DEF signal_request_start, Types, RestType, controller, Mains
  <2> QED BY <2>1, <2>2 DEF Types
<1>2. CASE Prepares
  <2> DEFINE d == Prepared(comblk, request)
  <2>1. d \in ComblkType /\ d.sent = <<>> BY <1>0, PreparedType
  <2>2. Stepped(d) BY <1>2 DEF Prepares
  <2> HIDE DEF d
  <2>3. Len(d.sent) <= Room BY <2>1, RoomNat DEF Types
  <2>4. DriverType' BY <2>1, <2>2, <2>3, SteppedType DEF Types
  <2>5. RestType' BY <1>2 DEF Prepares, Types, RestType, controller, Mains
  <2> QED BY <2>4, <2>5 DEF Types
<1>3. CASE SendsOpcode
  <2> DEFINE d == send_cmd_opcode(comblk)
  <2>1. d \in ComblkType /\ d.sent = <<Opcode(comblk.cmd_opcode)>> BY <1>0, SendOpcodeType
  <2>2. Stepped(d) BY <1>3 DEF SendsOpcode
  <2> HIDE DEF d
  <2>3. Len(d.sent) <= Room
    <3>1. Len(d.sent) = 1 BY <2>1
    <3>2. Room > 0 /\ Room \in Nat BY <1>3, RoomNat DEF SendsOpcode, Types
    <3> QED BY <3>1, <3>2, SMT
  <2>4. DriverType' BY <2>1, <2>2, <2>3, SteppedType DEF Types
  <2>5. RestType' BY <1>3 DEF SendsOpcode, Types, RestType, controller, Mains
  <2> QED BY <2>4, <2>5 DEF Types
<1>4. CASE SendsParameters
  <2> DEFINE room == Room
             d == Armed(comblk, request.kind, room)
  <2>1. request.kind \in {"ptr", "cmd", "paged"} BY <1>0, RequestTypes
  <2>2. room \in Nat BY RoomNat DEF Types
  <2>3. Stepped(d) BY <1>4 DEF SendsParameters
  <2> HIDE DEF room
  <2>4. d \in ComblkType /\ Len(d.sent) <= room BY <1>0, <2>1, <2>2, ArmedType
  <2> HIDE DEF d
  <2>5. Len(d.sent) <= Room BY <2>4 DEF room
  <2>6. DriverType' BY <2>3, <2>4, <2>5, SteppedType DEF Types
  <2>7. RestType' BY <1>4 DEF SendsParameters, Types, RestType, controller, Mains
  <2> QED BY <2>6, <2>7 DEF Types
<1>5. CASE wait_for_request_completion
  <2>1. DriverType' BY <1>5, DriverKept DEF wait_for_request_completion, Types
  <2>2. ServiceStatus \in Nat
    <3>1. comblk.response \in [0..5 -> Nat] BY <1>0 DEF ComblkType, Response, ResponseBytes
    <3>2. comblk.response[1] \in Nat BY <3>1
    <3> QED BY <3>2 DEF ServiceStatus, MSS_SYS_UNEXPECTED_ERROR
  <2>3. returned' \in Text BY <1>5, <2>2 DEF wait_for_request_completion, Types, RestType, Text
  <2>4. RestType' BY <1>5, <2>3 DEF wait_for_request_completion, Types, RestType, controller, Mains
  <2> QED BY <2>1, <2>4 DEF Types
<1> QED BY <1>1, <1>2, <1>3, <1>4, <1>5 DEF Application

LEMMA TypesNext == Types /\ [Next]_vars => Types'
<1> SUFFICES ASSUME Types, [Next]_vars PROVE Types'
  OBVIOUS
<1>1. CASE ControllerTakes BY <1>1, TakesType
<1>2. CASE ControllerAnswers BY <1>2, AnswersType
<1>3. CASE ControllerSends BY <1>3, SendsType
<1>4. CASE ControllerRaises BY <1>4, RaisesType
<1>5. CASE MSS_SYS_get_serial_number
  BY <1>5, CallsType DEF MSS_SYS_get_serial_number, Requests
<1>6. CASE MSS_SYS_check_digest BY <1>6, CallsType DEF MSS_SYS_check_digest, Requests
<1>7. CASE MSS_SYS_start_isp BY <1>7, CallsType DEF MSS_SYS_start_isp, Requests
<1>8. CASE Application BY <1>8, ApplicationType
<1>9. CASE Interrupt BY <1>9, InterruptType
<1>10. CASE UNCHANGED vars
  BY <1>10 DEF vars, driver, services, controller, Types, DriverType, RestType
<1> QED BY <1>1, <1>2, <1>3, <1>4, <1>5, <1>6, <1>7, <1>8, <1>9, <1>10 DEF Next

\* The FIFOs never hold more than they can, the counter of the response stays within the longest
\* one, and the driver is always in a state its handlers know.
THEOREM TypesHold == Spec => []TypeInvariant
<1>1. Types => TypeInvariant
  <2> SUFFICES ASSUME Types PROVE TypeInvariant
    OBVIOUS
  <2>1. /\ comblk.state \in States /\ comblk.completion_handler \in Handlers
        /\ comblk.response_idx \in Size
        /\ comblk.TXTOKAY \in BOOLEAN /\ comblk.RCVOKAY \in BOOLEAN /\ comblk.nvic \in BOOLEAN
    BY DEF Types, DriverType, ComblkType
  <2>2. comblk.response_idx \in ResponseBytes \union {6} BY <2>1, SMT DEF Size, ResponseBytes
  <2> QED BY <2>1, <2>2
       DEF Types, DriverType, RestType, TypeInvariant, States, Handlers, Mains, Size
<1>2. Init => Types BY TypesInit
<1>3. Types /\ [Next]_vars => Types' BY TypesNext
<1> QED BY <1>1, <1>2, <1>3, PTL DEF Spec

-----------------------------------------------------------------------------
(* Events *)

Bytes(words) == [i \in DOMAIN words |-> words[i].byte]
EventWords == {Opcode(e) : e \in Events}
Waiting(words) == Bytes(Kept(words, EventWords))

Delivered == Kept(told, Events) \o Waiting(rx) = raised

LEMMA BytesType ==
  ASSUME NEW s \in Seq(Word)
  PROVE  Bytes(s) \in Seq(Nat)
<1>1. DOMAIN s = 1..Len(s) /\ Len(s) \in Nat /\ \A i \in DOMAIN s : s[i] \in Word BY ElementsOf
<1>2. \A i \in DOMAIN s : s[i].byte \in Nat BY <1>1 DEF Word
<1> QED BY <1>1, <1>2 DEF Bytes

LEMMA BytesOf ==
  ASSUME NEW s \in Seq(Word)
  PROVE  /\ Bytes(s) \in Seq(Nat) /\ Len(Bytes(s)) = Len(s)
         /\ \A i \in 1..Len(s) : Bytes(s)[i] = s[i].byte
<1>1. DOMAIN s = 1..Len(s) /\ Len(s) \in Nat BY ElementsOf
<1>2. Bytes(s) = [i \in 1..Len(s) |-> s[i].byte] BY <1>1 DEF Bytes
<1>3. Bytes(s) \in Seq(Nat) BY BytesType
<1>4. Len(Bytes(s)) = Len(s) BY <1>1, <1>2, SMT
<1> QED BY <1>2, <1>3, <1>4

LEMMA BytesAppend ==
  ASSUME NEW s \in Seq(Word), NEW w \in Word
  PROVE  Bytes(Append(s, w)) = Append(Bytes(s), w.byte)
<1>1. DOMAIN s = 1..Len(s) /\ Len(s) \in Nat BY ElementsOf
<1> DEFINE t == Append(s, w)
<1>2. DOMAIN t = 1..Len(s) + 1 /\ t[Len(s) + 1] = w /\ \A i \in 1..Len(s) : t[i] = s[i]
  BY SMT
<1>3. Bytes(s) \in Seq(Nat) /\ Len(Bytes(s)) = Len(s) /\ \A i \in 1..Len(s) : Bytes(s)[i] = s[i].byte
  BY BytesOf
<1> DEFINE a == Bytes(t)
           b == Append(Bytes(s), w.byte)
<1> HIDE DEF t
<1>4. a = [i \in 1..Len(s) + 1 |-> t[i].byte] BY <1>2 DEF Bytes
<1>5. DOMAIN b = 1..Len(s) + 1 /\ b[Len(s) + 1] = w.byte /\ \A i \in 1..Len(s) : b[i] = s[i].byte
  BY <1>3, SMT
<1>6. b = [i \in 1..Len(s) + 1 |-> b[i]] BY <1>3, <1>5, SMT
<1>7. \A i \in 1..Len(s) + 1 : b[i] = t[i].byte
  <2> TAKE i \in 1..Len(s) + 1
  <2>1. i = Len(s) + 1 \/ i \in 1..Len(s) BY <1>1, SMT
  <2> QED BY <1>2, <1>5, <2>1
<1> HIDE DEF a, b
<1>8. a = b BY <1>4, <1>6, <1>7
<1> QED BY <1>8 DEF a, b, t

LEMMA EventWord ==
  ASSUME NEW w \in Word
  PROVE  w \in EventWords <=> w.command /\ w.byte \in Events
<1>1. w \in EventWords => w.command /\ w.byte \in Events BY DEF EventWords, Opcode
<1>2. ASSUME w.command, w.byte \in Events PROVE w \in EventWords
  <2>1. w.command = TRUE BY <1>2 DEF Word
  <2>2. w = [command |-> TRUE, byte |-> w.byte] BY <2>1 DEF Word
  <2> QED BY <1>2, <2>2 DEF EventWords, Opcode
<1> QED BY <1>1, <1>2

LEMMA WaitingType ==
  ASSUME NEW s \in Seq(Word)
  PROVE  Waiting(s) \in Seq(Nat)
<1>1. Kept(s, EventWords) \in Seq(Word)
  <2>1. Kept(s, EventWords) \in Seq(Word \cap EventWords) BY KeptSeq
  <2>2. Word \cap EventWords \subseteq Word OBVIOUS
  <2> QED BY <2>1, <2>2, SeqGrows
<1> QED BY <1>1, BytesType DEF Waiting

\* A word at the end of the FIFO, and one at its head.
LEMMA WaitingAppend ==
  ASSUME NEW s \in Seq(Word), NEW w \in Word
  PROVE  Waiting(Append(s, w)) =
           IF w.command /\ w.byte \in Events THEN Append(Waiting(s), w.byte) ELSE Waiting(s)
<1> DEFINE k == Kept(s, EventWords)
<1>1. k \in Seq(Word)
  <2>1. k \in Seq(Word \cap EventWords) BY KeptSeq
  <2>2. Word \cap EventWords \subseteq Word OBVIOUS
  <2> QED BY <2>1, <2>2, SeqGrows
<1>2. Kept(Append(s, w), EventWords) = IF w \in EventWords THEN Append(k, w) ELSE k
  BY KeptAppend
<1>3. Bytes(Append(k, w)) = Append(Bytes(k), w.byte)
  <2> HIDE DEF k
  <2> QED BY <1>1, BytesAppend
<1> QED BY <1>2, <1>3, EventWord DEF Waiting

LEMMA Prepended ==
  ASSUME NEW A, NEW s \in Seq(A), NEW x \in A
  PROVE  /\ <<x>> \o s \in Seq(A)
         /\ DOMAIN (<<x>> \o s) = 1..Len(s) + 1
         /\ (<<x>> \o s)[1] = x /\ \A i \in 1..Len(s) : (<<x>> \o s)[i + 1] = s[i]
BY SMT

LEMMA BytesPrepend ==
  ASSUME NEW s \in Seq(Word), NEW w \in Word
  PROVE  Bytes(<<w>> \o s) = <<w.byte>> \o Bytes(s)
<1> DEFINE t == <<w>> \o s
           n == Len(s)
           y == w.byte
           c == Bytes(s)
           a == Bytes(t)
           b == <<y>> \o c
<1>1. n \in Nat BY ElementsOf
<1>2. DOMAIN t = 1..n + 1 /\ t[1] = w /\ \A i \in 1..n : t[i + 1] = s[i]
  BY SMT
<1>3. c \in Seq(Nat) /\ Len(c) = n /\ (\A i \in 1..n : c[i] = s[i].byte) /\ y \in Nat
  BY BytesOf DEF Word
<1> HIDE DEF t, c, y
<1>4. a = [i \in 1..n + 1 |-> t[i].byte] BY <1>2 DEF Bytes
<1> HIDE DEF n
<1>5. DOMAIN b = 1..n + 1 /\ b[1] = y /\ \A i \in 1..n : b[i + 1] = c[i]
  <2>1. /\ DOMAIN (<<y>> \o c) = 1..Len(c) + 1 /\ (<<y>> \o c)[1] = y
        /\ \A i \in 1..Len(c) : (<<y>> \o c)[i + 1] = c[i]
    <3>1. c \in Seq(Nat) /\ y \in Nat BY <1>3
    <3> QED BY <3>1, Prepended
  <2> QED BY <1>3, <2>1
<1>6. b = [i \in 1..n + 1 |-> b[i]] BY <1>1, <1>3, <1>5, SMT
<1>7. \A i \in 1..n + 1 : b[i] = t[i].byte
  <2> TAKE i \in 1..n + 1
  <2>1. i = 1 \/ (i - 1 \in 1..n /\ i = i - 1 + 1) BY <1>1, SMT
  <2>2. CASE i = 1 BY <1>2, <1>5, <2>2 DEF y
  <2>3. CASE i - 1 \in 1..n /\ i = i - 1 + 1
    <3> DEFINE j == i - 1
    <3>1. j \in 1..n /\ i = j + 1 BY <2>3
    <3> HIDE DEF j
    <3> QED BY <1>2, <1>3, <1>5, <3>1
  <2> QED BY <2>1, <2>2, <2>3
<1> HIDE DEF a, b
<1>8. a = b BY <1>4, <1>6, <1>7
<1> QED BY <1>8 DEF a, b, t, c, y

LEMMA WaitingHead ==
  ASSUME NEW s \in Seq(Word), s # <<>>
  PROVE  Waiting(s) =
           (IF Head(s).command /\ Head(s).byte \in Events THEN <<Head(s).byte>> ELSE <<>>)
             \o Waiting(Tail(s))
<1> DEFINE w == Head(s)
           k == Kept(Tail(s), EventWords)
<1>1. w \in Word /\ Tail(s) \in Seq(Word) OBVIOUS
<1>2. k \in Seq(Word)
  <2>1. k \in Seq(Word \cap EventWords) BY <1>1, KeptSeq
  <2>2. Word \cap EventWords \subseteq Word OBVIOUS
  <2> QED BY <2>1, <2>2, SeqGrows
<1>3. Kept(s, EventWords) = (IF w \in EventWords THEN <<w>> ELSE <<>>) \o k
  BY KeptHead
<1>4. w \in EventWords <=> w.command /\ w.byte \in Events BY <1>1, EventWord
<1>5. Waiting(Tail(s)) = Bytes(k) /\ Waiting(s) = Bytes(Kept(s, EventWords)) BY DEF Waiting
<1> HIDE DEF w, k
<1>6. CASE w \in EventWords
  <2>1. Bytes(<<w>> \o k) = <<w.byte>> \o Bytes(k) BY <1>1, <1>2, BytesPrepend
  <2> QED BY <1>3, <1>4, <1>5, <1>6, <2>1 DEF w
<1>7. CASE w \notin EventWords
  <2>1. <<>> \o k = k BY <1>2
  <2>2. <<>> \o Bytes(k) = Bytes(k)
    <3> DEFINE b == Bytes(k)
    <3>1. b \in Seq(Nat) BY <1>2, BytesType
    <3> HIDE DEF b
    <3>2. <<>> \o b = b BY <3>1
    <3> QED BY <3>2 DEF b
  <2> QED BY <1>3, <1>4, <1>5, <1>7, <2>1, <2>2 DEF w
<1> QED BY <1>6, <1>7

LEMMA EventsApart ==
  ASSUME Events \subseteq Known
  PROVE  Events \cap Replies = {}
<1>1. \A n \in Commands : n \notin Known
  BY SMT DEF Commands, Known, SERIAL_NUMBER, DIGEST_CHECK, ISP_PROGRAMMING, POR_DIGEST_ERROR_OPCODE
<1> QED BY <1>1, SysServicesAssumption DEF Replies

\* What the application is told of a word is the event in it.
LEMMA ToldKept ==
  ASSUME Events \subseteq Known, NEW word \in Word, NEW events, Told(word, events)
  PROVE  Kept(Kept(events, Known), Events) =
           IF word.command /\ word.byte \in Events THEN <<word.byte>> ELSE <<>>
<1>1. ASSUME NEW b PROVE Kept(Kept(<<b>>, Known), Events) = IF b \in Events THEN <<b>> ELSE <<>>
  <2>1. CASE b \in Known
    <3>1. Kept(<<b>>, Known) = <<b>> BY <2>1, KeptOne
    <3> QED BY <3>1, KeptOne
  <2>2. CASE b \notin Known
    <3>1. Kept(<<b>>, Known) = <<>> BY <2>2, KeptOne
    <3> QED BY <2>2, <3>1, KeptNone
  <2> QED BY <2>1, <2>2
<1>2. Kept(Kept(<<>>, Known), Events) = <<>> BY KeptNone
<1>3. \A b \in Replies : b \notin Events BY EventsApart
<1>4. CASE word.command /\ word.byte \notin Replies
  <2>1. events = <<word.byte>> BY <1>4 DEF Told
  <2> QED BY <1>1, <1>4, <2>1
<1>5. CASE ~(word.command /\ word.byte \notin Replies)
  <2>1. events = <<>> \/ \E b \in Replies : events = <<b>> BY <1>5 DEF Told
  <2>2. ~(word.command /\ word.byte \in Events) BY <1>3, <1>5
  <2>3. CASE events = <<>> BY <1>2, <2>2, <2>3
  <2>4. CASE \E b \in Replies : events = <<b>>
    <3>1. PICK b \in Replies : events = <<b>> BY <2>4
    <3> QED BY <1>1, <1>3, <2>2, <3>1
  <2> QED BY <2>1, <2>3, <2>4
<1> QED BY <1>4, <1>5

LEMMA KeptText ==
  ASSUME NEW s \in Text, NEW S
  PROVE  Kept(s, S) \in Text
<1>1. Kept(s, S) \in Seq(Nat \cap S) BY KeptSeq DEF Text
<1>2. Nat \cap S \subseteq Nat OBVIOUS
<1> QED BY <1>1, <1>2, SeqGrows DEF Text

LEMMA DeliveredInit ==
  Init => Delivered
<1> SUFFICES ASSUME Init PROVE Delivered
  OBVIOUS
<1>1. told = <<>> /\ rx = <<>> /\ raised = <<>> BY DEF Init
<1>2. Kept(<<>>, Events) = <<>> /\ Waiting(<<>>) = <<>>
  <2>1. Kept(<<>>, Events) = <<>> /\ Kept(<<>>, EventWords) = <<>> BY KeptNone
  <2>2. Bytes(<<>>) = <<>> BY DEF Bytes
  <2> QED BY <2>1, <2>2 DEF Waiting
<1>3. <<>> \o <<>> = <<>> OBVIOUS
<1> QED BY <1>1, <1>2, <1>3 DEF Delivered

\* A step of the application: nothing is told, and nothing leaves the FIFO.
LEMMA DeliveredSame ==
  ASSUME Types, Delivered, NEW c \in ComblkType, c.events = <<>>, Stepped(c),
         UNCHANGED <<rx, raised>>
  PROVE  Delivered'
<1>1. told' = told
  <2>1. Kept(c.events, Known) = <<>> BY KeptNone
  <2>2. told \in Seq(Nat) BY DEF Types, DriverType, Text
  <2>3. told \o <<>> = told BY <2>2
  <2> QED BY <2>1, <2>3 DEF Stepped
<1> QED BY <1>1 DEF Delivered, Waiting, Bytes

LEMMA DeliveredInterrupt ==
  ASSUME Events \subseteq Known, Types, Delivered, Interrupt
  PROVE  Delivered'
<1> DEFINE room == Room
           d == ComBlk_IRQHandler(comblk, rx, room)
           taken == comblk.RCVOKAY /\ rx # <<>>
<1>1. comblk \in ComblkType /\ rx \in Seq(Word) /\ told \in Text
  BY DEF Types, DriverType, RestType
<1>2. Stepped(d) /\ rx' = (IF taken THEN Tail(rx) ELSE rx) /\ raised' = raised
  BY DEF Interrupt, controller
<1>3. room \in Nat BY RoomNat DEF Types
<1> HIDE DEF room
<1>4. d \in ComblkType /\ IF taken THEN Told(Head(rx), d.events) ELSE d.events = <<>>
  BY <1>1, <1>3, HandleInterrupt
<1> HIDE DEF d
<1>5. CASE ~taken
  <2>1. UNCHANGED <<rx, raised>> BY <1>2, <1>5
  <2> HIDE DEF taken
  <2> QED BY <1>2, <1>4, <1>5, <2>1, DeliveredSame
<1>6. CASE taken
  <2> DEFINE w == Head(rx)
             u == Tail(rx)
             e == IF w.command /\ w.byte \in Events THEN <<w.byte>> ELSE <<>>
             k == Kept(d.events, Known)
             a == Kept(told, Events)
             b == Waiting(u)
  <2>1. w \in Word /\ u \in Seq(Word) /\ rx # <<>> BY <1>1, <1>6
  <2>2. Waiting(rx) = e \o b BY <1>1, <2>1, WaitingHead
  <2>3. Kept(k, Events) = e
    <3> HIDE DEF w, k
    <3>1. Told(w, d.events) BY <1>4, <1>6 DEF w
    <3> QED BY <2>1, <3>1, <1>2, ToldKept DEF k
  <2>4. told' = told \o k BY <1>2 DEF Stepped
  <2>5. k \in Text
    <3>1. d.events \in Text BY <1>4 DEF ComblkType
    <3> QED BY <3>1, KeptText
  <2>6. Kept(told \o k, Events) = a \o e
    <3> HIDE DEF k
    <3>1. told \in Seq(Nat) /\ k \in Seq(Nat) BY <1>1, <2>5 DEF Text
    <3>2. Kept(told \o k, Events) = Kept(told, Events) \o Kept(k, Events)
      BY <3>1, KeptConcat
    <3> QED BY <2>3, <3>2
  <2>7. a \in Seq(Nat) /\ b \in Seq(Nat) /\ e \in Seq(Nat)
    <3>1. a \in Seq(Nat) BY <1>1, KeptText DEF Text
    <3>2. b \in Seq(Nat) BY <2>1, WaitingType
    <3> HIDE DEF a, b, w
    <3>3. w.byte \in Nat BY <2>1 DEF Word
    <3> QED BY <3>1, <3>2, <3>3
  <2>8. rx' = u BY <1>2, <1>6
  <2>9. a \o (e \o b) = raised BY <2>2 DEF Delivered
  <2>10. (Kept(told, Events))' = a \o e BY <2>4, <2>6
  <2>11. (Waiting(rx))' = b BY <2>8 DEF Waiting, Bytes
  <2> HIDE DEF a, b, e
  <2>12. (a \o e) \o b = a \o (e \o b) BY <2>7, SMT
  <2> QED BY <1>2, <2>9, <2>10, <2>11, <2>12 DEF Delivered
<1> QED BY <1>5, <1>6

LEMMA DeliveredSends ==
  ASSUME Events \subseteq Known, Types, Delivered, ControllerSends
  PROVE  Delivered'
<1> DEFINE w == Head(serving.reply)
<1>1. w \in ReplyWord BY DEF Types, RestType, Serving, ControllerSends
<1>2. rx' = Append(rx, w) /\ raised' = raised /\ told' = told
  BY DEF ControllerSends, driver
<1> HIDE DEF w
<1>3. w \in Word /\ ~(w.command /\ w.byte \in Events)
  BY <1>1, EventsApart DEF ReplyWord, Replies
<1>4. rx \in Seq(Word) BY DEF Types, RestType
<1>5. Waiting(Append(rx, w)) = Waiting(rx) BY <1>3, <1>4, WaitingAppend
<1>6. (Waiting(rx))' = Waiting(rx) BY <1>2, <1>5 DEF Waiting, Bytes
<1> QED BY <1>2, <1>6 DEF Delivered

LEMMA DeliveredRaises ==
  ASSUME Types, Delivered, ControllerRaises
  PROVE  Delivered'
<1>1. PICK e \in Events : rx' = Append(rx, Opcode(e)) /\ raised' = Append(raised, e)
  BY DEF ControllerRaises
<1>2. told' = told BY DEF ControllerRaises, driver
<1> DEFINE w == Opcode(e)
           a == Kept(told, Events)
           b == Waiting(rx)
<1>3. e \in Nat BY SysServicesAssumption
<1>4. w \in Word /\ w.command /\ w.byte = e BY <1>3 DEF Opcode, Word
<1>5. rx \in Seq(Word) BY DEF Types, RestType
<1> HIDE DEF w
<1>6. Waiting(Append(rx, w)) = Append(b, e) BY <1>4, <1>5, WaitingAppend
<1>7. (Waiting(rx))' = Append(b, e) BY <1>1, <1>6 DEF Waiting, Bytes, w
<1>8. a \in Seq(Nat) /\ b \in Seq(Nat)
  <2>1. told \in Text BY DEF Types, DriverType
  <2> QED BY <1>5, <2>1, KeptText, WaitingType DEF Text
<1>9. (Kept(told, Events))' = a BY <1>2
<1>10. a \o b = raised BY DEF Delivered
<1> HIDE DEF a, b
<1>11. a \o Append(b, e) = Append(a \o b, e) BY <1>3, <1>8, SMT
<1> QED BY <1>1, <1>7, <1>9, <1>10, <1>11 DEF Delivered

LEMMA DeliveredUnchanged ==
  ASSUME Delivered, UNCHANGED <<told, rx, raised>>
  PROVE  Delivered'
BY DEF Delivered, Waiting, Bytes

LEMMA DeliveredNext ==
  ASSUME Events \subseteq Known
  PROVE  Types /\ Delivered /\ [Next]_vars => Delivered'
<1> SUFFICES ASSUME Types, Delivered, [Next]_vars PROVE Delivered'
  OBVIOUS
<1>0. comblk \in ComblkType /\ request \in Requests BY DEF Types, DriverType, RestType
<1>1. CASE ControllerTakes
  <2>1. UNCHANGED <<told, rx, raised>> BY <1>1 DEF ControllerTakes
  <2> QED BY <2>1, DeliveredUnchanged
<1>2. CASE ControllerAnswers
  <2>1. UNCHANGED <<told, rx, raised>> BY <1>2 DEF ControllerAnswers, driver
  <2> QED BY <2>1, DeliveredUnchanged
<1>3. CASE ControllerSends BY <1>3, DeliveredSends
<1>4. CASE ControllerRaises BY <1>4, DeliveredRaises
<1>5. CASE MSS_SYS_get_serial_number \/ MSS_SYS_check_digest \/ MSS_SYS_start_isp
  <2>1. UNCHANGED <<told, rx, raised>>
    BY <1>5 DEF MSS_SYS_get_serial_number, MSS_SYS_check_digest, MSS_SYS_start_isp, Call,
                driver, controller
  <2> QED BY <2>1, DeliveredUnchanged
<1>6. CASE signal_request_start
  <2>1. UNCHANGED <<told, rx, raised>> BY <1>6 DEF signal_request_start, controller
  <2> QED BY <2>1, DeliveredUnchanged
<1>7. CASE Prepares
  <2> DEFINE d == Prepared(comblk, request)
  <2>1. d \in ComblkType /\ d.events = <<>> BY <1>0, PreparedType
  <2>2. Stepped(d) /\ UNCHANGED <<rx, raised>> BY <1>7 DEF Prepares, controller
  <2> HIDE DEF d
  <2> QED BY <2>1, <2>2, DeliveredSame
<1>8. CASE SendsOpcode
  <2> DEFINE d == send_cmd_opcode(comblk)
  <2>1. d \in ComblkType /\ d.events = <<>> BY <1>0, SendOpcodeType
  <2>2. Stepped(d) /\ UNCHANGED <<rx, raised>> BY <1>8 DEF SendsOpcode, controller
  <2> HIDE DEF d
  <2> QED BY <2>1, <2>2, DeliveredSame
<1>9. CASE SendsParameters
  <2> DEFINE room == Room
             d == Armed(comblk, request.kind, room)
  <2>1. request.kind \in {"ptr", "cmd", "paged"} BY <1>0, RequestTypes
  <2>2. room \in Nat BY RoomNat DEF Types
  <2>3. Stepped(d) /\ UNCHANGED <<rx, raised>> BY <1>9 DEF SendsParameters, controller
  <2> HIDE DEF room
  <2>4. d \in ComblkType /\ d.events = <<>> BY <1>0, <2>1, <2>2, ArmedType
  <2> HIDE DEF d
  <2> QED BY <2>3, <2>4, DeliveredSame
<1>10. CASE wait_for_request_completion
  <2>1. UNCHANGED <<told, rx, raised>>
    BY <1>10 DEF wait_for_request_completion, controller, driver
  <2> QED BY <2>1, DeliveredUnchanged
<1>11. CASE Interrupt BY <1>11, DeliveredInterrupt
<1>12. CASE UNCHANGED vars
  <2>1. UNCHANGED <<told, rx, raised>> BY <1>12 DEF vars, driver, controller
  <2> QED BY <2>1, DeliveredUnchanged
<1> QED
  BY <1>1, <1>2, <1>3, <1>4, <1>5, <1>6, <1>7, <1>8, <1>9, <1>10, <1>11, <1>12 DEF Next, Application

\* Whatever the application and the controller do beside it, every event that the controller raises
\* reaches the application once, and in the order in which they were raised: those told and those
\* in the FIFO are those raised. (asynchronous_event_handler drops the opcodes it does not know.)
THEOREM EventsReachApplication ==
  ASSUME Events \subseteq Known
  PROVE  Spec => []EventsDelivered
<1>1. Delivered <=> EventsDelivered
  BY DEF Delivered, EventsDelivered, Waiting, Bytes, EventWords
<1>2. Init => Types /\ Delivered BY TypesInit, DeliveredInit
<1>3. Types /\ Delivered /\ [Next]_vars => (Types /\ Delivered)' BY TypesNext, DeliveredNext
<1> QED BY <1>1, <1>2, <1>3, PTL DEF Spec

-----------------------------------------------------------------------------
(* What FlattenSeq returns *)

Flattens(f, n, s) == f = [i \in 1..n |-> IF i = 1 THEN s[i] ELSE f[i - 1] \o s[i]]

First(f, s) == f[1] = s[1]
Joins(f, s, i) == f[i] = f[i - 1] \o s[i]
Grows(f, s, i) == f[i + 1] = f[i] \o s[i + 1]
Agree(f, g, i) == f[i] = g[i]

LEMMA FlattensStep ==
  ASSUME NEW f, NEW n, NEW s, Flattens(f, n, s)
  PROVE  \A i \in 1..n : IF i = 1 THEN f[i] = s[i] ELSE Joins(f, s, i)
BY Zenon DEF Flattens, Joins

LEMMA FlattensOne ==
  ASSUME NEW f, NEW n, NEW s, Flattens(f, n, s), 1 \in 1..n
  PROVE  First(f, s)
BY FlattensStep, Zenon DEF First

LEMMA FlattensNext ==
  ASSUME NEW f, NEW n \in Nat, NEW s, Flattens(f, n, s), NEW i \in 1..n, i # 1
  PROVE  Joins(f, s, i)
BY FlattensStep, Zenon

LEMMA FlattensGrow ==
  ASSUME NEW f, NEW n \in Nat, NEW s, Flattens(f, n, s), NEW i \in Nat, i # 0, i + 1 \in 1..n
  PROVE  Grows(f, s, i)
<1>1. PICK j \in 1..n : j = i + 1 /\ j # 1 /\ j - 1 = i BY SMT
<1>2. Joins(f, s, j) BY <1>1, FlattensNext, Zenon
<1>3. f[j] = f[j - 1] \o s[j] BY <1>2 DEF Joins
<1>4. f[j] = f[i] \o s[j] BY <1>1, <1>3, Zenon
<1> QED BY <1>1, <1>4, Zenon DEF Grows

LEMMA FlattensExists ==
  ASSUME NEW s
  PROVE  \A n \in Nat : \E f : Flattens(f, n, s)
<1> DEFINE P == {n \in Nat : \E f : Flattens(f, n, s)}
<1>1. 0 \in P
  <2> DEFINE f == [i \in 1..0 |-> <<>>]
  <2>1. Flattens(f, 0, s) BY SMT DEF Flattens
  <2> HIDE DEF f
  <2> QED BY <2>1
<1>2. ASSUME NEW n \in Nat, n \in P PROVE n + 1 \in P
  <2>1. PICK f : Flattens(f, n, s) BY <1>2
  <2> DEFINE g == [i \in 1..n + 1 |->
                     IF i = n + 1 THEN IF n = 0 THEN s[n + 1] ELSE f[n] \o s[n + 1]
                     ELSE f[i]]
  <2>2. ASSUME NEW i \in 1..n + 1
        PROVE  g[i] = IF i = 1 THEN s[i] ELSE g[i - 1] \o s[i]
    <3>1. CASE i = n + 1 /\ n # 0
      <4>1. i # 1 /\ i - 1 = n /\ n \in 1..n + 1 /\ n # n + 1 BY <3>1, SMT
      <4>2. g[n] = f[n] BY <4>1, Zenon
      <4>3. g[i] = f[n] \o s[n + 1] BY <3>1, Zenon
      <4> QED BY <3>1, <4>1, <4>2, <4>3, Zenon
    <3>2. CASE n = 0
      <4>1. i = 1 /\ i = n + 1 BY <3>2, SMT
      <4> QED BY <3>2, <4>1, Zenon
    <3>3. CASE i = 1 /\ n # 0
      <4>1. i # n + 1 /\ 1 \in 1..n BY <3>3, SMT
      <4>2. f[1] = s[1]
        <5>1. First(f, s) BY <2>1, <4>1, FlattensOne, Zenon
        <5> QED BY <5>1 DEF First
      <4>3. g[i] = f[i] BY <4>1, Zenon
      <4> QED BY <3>3, <4>2, <4>3, Zenon
    <3>4. CASE i \in 1..n /\ i # 1
      <4>1. i # n + 1 /\ i - 1 \in 1..n + 1 /\ i - 1 # n + 1 BY <3>4, SMT
      <4>2. g[i] = f[i] /\ g[i - 1] = f[i - 1] BY <4>1, Zenon
      <4>3. f[i] = f[i - 1] \o s[i]
        <5>1. Joins(f, s, i) BY <2>1, <3>4, FlattensNext, Zenon
        <5> QED BY <5>1 DEF Joins
      <4> QED BY <3>4, <4>2, <4>3, Zenon
    <3>5. (i = n + 1 /\ n # 0) \/ n = 0 \/ (i = 1 /\ n # 0) \/ (i \in 1..n /\ i # 1) BY SMT
    <3> QED BY <3>1, <3>2, <3>3, <3>4, <3>5
  <2>3. Flattens(g, n + 1, s)
    <3>1. g = [i \in 1..n + 1 |-> g[i]] BY Zenon
    <3> HIDE DEF g
    <3>2. [i \in 1..n + 1 |-> g[i]] = [i \in 1..n + 1 |-> IF i = 1 THEN s[i] ELSE g[i - 1] \o s[i]]
      BY <2>2, Zenon
    <3> QED BY <3>1, <3>2, Zenon DEF Flattens
  <2> HIDE DEF g
  <2> QED BY <2>3
<1> HIDE DEF P
<1>3. Nat \subseteq P BY <1>1, <1>2, Induct
<1> QED BY <1>3 DEF P

LEMMA FlattenIs ==
  ASSUME NEW s, Len(s) \in Nat, Len(s) # 0
  PROVE  \E f : Flattens(f, Len(s), s) /\ FlattenSeq(s) = f[Len(s)]
<1>1. \E f : Flattens(f, Len(s), s) BY FlattensExists
<1>2. Flattens(CHOOSE f : Flattens(f, Len(s), s), Len(s), s) BY <1>1
<1>3. FlattenSeq(s) = (CHOOSE f : Flattens(f, Len(s), s))[Len(s)] BY DEF FlattenSeq, Flattens
<1> QED BY <1>2, <1>3

LEMMA FlattensSame ==
  ASSUME NEW s, NEW t, NEW n \in Nat, NEW m \in Nat, NEW k \in Nat, n <= m, n <= k, n # 0,
         \A i \in 1..n : s[i] = t[i],
         NEW f, Flattens(f, m, s), NEW g, Flattens(g, k, t)
  PROVE  Agree(f, g, n)
<1> DEFINE P == {i \in Nat : i + 1 <= n => Agree(f, g, i + 1)}
<1> HIDE DEF P
<1>0. 1 \in 1..m /\ 1 \in 1..k /\ 1 \in 1..n BY SMT
<1>1. 0 \in P
  <2>1. First(f, s) /\ First(g, t) BY <1>0, FlattensOne, Zenon
  <2>2. s[1] = t[1] /\ 0 + 1 = 1 BY <1>0
  <2> QED BY <2>1, <2>2 DEF First, Agree, P
<1>2. ASSUME NEW j \in Nat, j \in P PROVE j + 1 \in P
  <2> SUFFICES ASSUME j + 1 + 1 <= n PROVE Agree(f, g, j + 1 + 1)
    BY DEF P
  <2>1. j + 1 <= n /\ j + 1 + 1 \in 1..n /\ j + 1 # 0 /\ j + 1 \in Nat BY SMT
  <2>2. s[j + 1 + 1] = t[j + 1 + 1] BY <2>1
  <2>3. j + 1 + 1 \in 1..m /\ j + 1 + 1 \in 1..k BY SMT
  <2>4. Agree(f, g, j + 1) BY <1>2, <2>1 DEF P
  <2>5. Grows(f, s, j + 1) BY <2>1, <2>3, FlattensGrow, Zenon
  <2>6. Grows(g, t, j + 1) BY <2>1, <2>3, FlattensGrow, Zenon
  <2> QED BY <2>2, <2>4, <2>5, <2>6, Zenon DEF Grows, Agree
<1>3. n - 1 \in P
  <2>1. n - 1 \in Nat BY SMT
  <2> QED BY <1>1, <1>2, <2>1, Induct
<1>4. n - 1 + 1 = n /\ n <= n BY SMT
<1> QED BY <1>3, <1>4 DEF P

LEMMA FlattenNone == FlattenSeq(<<>>) = <<>>
BY SMT DEF FlattenSeq

LEMMA FlattenAppend ==
  ASSUME NEW A, NEW s \in Seq(Seq(A)), NEW x \in Seq(A)
  PROVE  FlattenSeq(Append(s, x)) = FlattenSeq(s) \o x
<1> DEFINE t == Append(s, x)
           n == Len(s)
<1>1. Len(t) = n + 1 /\ n \in Nat /\ t[n + 1] = x /\ \A i \in 1..n : s[i] = t[i]
  BY SMT
<1>0. n = 0 => s = <<>> BY SMT
<1> HIDE DEF t, n
<1>2. Len(t) \in Nat /\ Len(t) # 0 /\ Len(t) - 1 = n BY <1>1, SMT
<1>3. PICK g : Flattens(g, Len(t), t) /\ FlattenSeq(t) = g[Len(t)] BY <1>2, FlattenIs
<1>4. CASE n = 0
  <2>1. FlattenSeq(s) = <<>> BY <1>0, <1>4, FlattenNone
  <2>3. Len(t) = 1 /\ t[1] = x /\ 1 \in 1..Len(t) BY <1>1, <1>4, SMT
  <2>2. First(g, t) BY <1>3, <2>3, FlattensOne, Zenon
  <2>4. <<>> \o x = x OBVIOUS
  <2> QED BY <1>3, <2>1, <2>2, <2>3, <2>4 DEF t, First
<1>5. CASE n # 0
  <2>1. PICK f : Flattens(f, n, s) /\ FlattenSeq(s) = f[n] BY <1>1, <1>5, FlattenIs DEF n
  <2>2. n <= n /\ n <= Len(t) BY <1>1, <1>2, SMT
  <2>3. Agree(f, g, n)
    <3>1. Flattens(f, n, s) /\ Flattens(g, Len(t), t) BY <1>3, <2>1
    <3>2. n \in Nat /\ Len(t) \in Nat /\ \A i \in 1..n : s[i] = t[i] BY <1>1, <1>2
    <3> QED BY <1>5, <2>2, <3>1, <3>2, FlattensSame, Zenon
  <2>4. Len(t) \in 1..Len(t) /\ Len(t) # 1 BY <1>1, <1>2, <1>5, SMT
  <2>5. Joins(g, t, Len(t)) BY <1>2, <1>3, <2>4, FlattensNext, Zenon
  <2>6. t[Len(t)] = x BY <1>1
  <2>7. g[Len(t)] = g[n] \o x BY <1>2, <2>5, <2>6, Zenon DEF Joins
  <2> QED BY <1>3, <2>1, <2>3, <2>7 DEF t, Agree
<1> QED BY <1>4, <1>5

LEMMA FlattenType ==
  ASSUME NEW A
  PROVE  \A s \in Seq(Seq(A)) : FlattenSeq(s) \in Seq(A)
<1> DEFINE T == {s \in Seq(Seq(A)) : FlattenSeq(s) \in Seq(A)}
<1> HIDE DEF T
<1>1. <<>> \in T
  <2>1. <<>> \in Seq(Seq(A)) /\ <<>> \in Seq(A) OBVIOUS
  <2> QED BY <2>1, FlattenNone DEF T
<1>2. ASSUME NEW s \in Seq(Seq(A)), NEW x \in Seq(A), s \in T PROVE Append(s, x) \in T
  <2>1. FlattenSeq(Append(s, x)) = FlattenSeq(s) \o x BY FlattenAppend
  <2>2. FlattenSeq(s) \in Seq(A) BY <1>2 DEF T
  <2>3. FlattenSeq(s) \o x \in Seq(A) BY <2>2
  <2>4. Append(s, x) \in Seq(Seq(A)) OBVIOUS
  <2> QED BY <2>1, <2>3, <2>4 DEF T
<1>3. Seq(Seq(A)) \subseteq T BY <1>1, <1>2, SeqInduct
<1> QED BY <1>3 DEF T

LEMMA FlattenPrepend ==
  ASSUME NEW A, NEW x \in Seq(A)
  PROVE  \A s \in Seq(Seq(A)) : FlattenSeq(<<x>> \o s) = x \o FlattenSeq(s)
<1> DEFINE T == {s \in Seq(Seq(A)) : FlattenSeq(<<x>> \o s) = x \o FlattenSeq(s)}
<1> HIDE DEF T
<1>0. <<>> \in Seq(Seq(A)) OBVIOUS
<1>1. <<>> \in T
  <2>1. <<x>> \o <<>> = Append(<<>>, x) /\ <<>> \o x = x /\ x \o <<>> = x OBVIOUS
  <2>2. FlattenSeq(Append(<<>>, x)) = FlattenSeq(<<>>) \o x BY <1>0, FlattenAppend
  <2> QED BY <1>0, <2>1, <2>2, FlattenNone DEF T
<1>2. ASSUME NEW s \in Seq(Seq(A)), NEW y \in Seq(A), s \in T PROVE Append(s, y) \in T
  <2> DEFINE h == <<x>>
             u == FlattenSeq(s)
  <2>1. h \in Seq(Seq(A)) /\ h \o s \in Seq(Seq(A)) /\ Append(s, y) \in Seq(Seq(A)) OBVIOUS
  <2>2. h \o Append(s, y) = Append(h \o s, y)
    <3> HIDE DEF h
    <3> QED BY <2>1, SMT
  <2>3. FlattenSeq(h \o s) = x \o u BY <1>2 DEF T
  <2>4. FlattenSeq(Append(h \o s, y)) = FlattenSeq(h \o s) \o y BY <2>1, FlattenAppend
  <2>5. FlattenSeq(Append(s, y)) = u \o y BY FlattenAppend
  <2>6. u \in Seq(A) BY FlattenType
  <2> HIDE DEF u, h
  <2>7. (x \o u) \o y = x \o (u \o y) BY <2>6, SMT
  <2> QED BY <2>1, <2>2, <2>3, <2>4, <2>5, <2>7 DEF T, h
<1>3. Seq(Seq(A)) \subseteq T BY <1>1, <1>2, SeqInduct
<1> QED BY <1>3 DEF T

LEMMA FlattenHead ==
  ASSUME NEW A, NEW s \in Seq(Seq(A)), s # <<>>
  PROVE  FlattenSeq(s) = Head(s) \o FlattenSeq(Tail(s))
<1> DEFINE h == Head(s)
           u == Tail(s)
<1>1. h \in Seq(A) /\ u \in Seq(Seq(A)) OBVIOUS
<1>2. s = <<h>> \o u BY SMT
<1> HIDE DEF h, u
<1>3. FlattenSeq(<<h>> \o u) = h \o FlattenSeq(u) BY <1>1, FlattenPrepend
<1> QED BY <1>2, <1>3 DEF h, u

-----------------------------------------------------------------------------
(* What the handlers leave alone, and whom they call *)

\* At most one completion handler is called, and then it is forgotten.
Completes(c, d) ==
  \/ d.called = c.called /\ d.completion_handler = c.completion_handler
  \/ /\ c.completion_handler # "none" /\ d.completion_handler = "none"
     /\ \E call \in HandlerCall :
          call.handler = c.completion_handler /\ d.called = Append(c.called, call)

Unsent(c, d) == d.cmd = c.cmd /\ d.data = c.data /\ d.pages = c.pages

\* A step that sends nothing: it may end a response or begin one.
Listens(c, d) ==
  /\ Unsent(c, d) /\ d.cmd_opcode = c.cmd_opcode /\ d.flushed = c.flushed
  /\ d.state \in {c.state, "IDLE", "RX_RESPONSE"}
  /\ Completes(c, d)

LEMMA CompletesTwice ==
  ASSUME NEW c, NEW d, NEW e, Completes(c, d), Completes(d, e)
  PROVE  Completes(c, e)
BY Zenon DEF Completes

LEMMA SilentListens ==
  ASSUME NEW c \in ComblkType
  PROVE  Silent(c).completion_handler = c.completion_handler
         /\ Silent(c).request_in_progress = c.request_in_progress
<1> DEFINE d == Silent(c)
<1>1. d = [c EXCEPT !.flushed = FALSE, !.sent = <<>>, !.events = <<>>, !.called = <<>>]
  BY DEF Silent
<1> HIDE DEF d
<1>2. d.completion_handler = c.completion_handler /\ d.request_in_progress = c.request_in_progress
  BY <1>1 DEF ComblkType
<1> QED BY <1>2 DEF d

LEMMA ReportListens ==
  ASSUME NEW c \in ComblkType, NEW opcode
  PROVE  Listens(c, process_sys_ctrl_command(c, opcode))
<1> DEFINE e == Append(c.events, opcode)
           d == process_sys_ctrl_command(c, opcode)
<1>1. d = [c EXCEPT !.events = e] BY DEF process_sys_ctrl_command
<1> HIDE DEF d, e
<1>2. d.cmd = c.cmd /\ d.data = c.data /\ d.pages = c.pages BY <1>1 DEF ComblkType
<1>3. d.cmd_opcode = c.cmd_opcode /\ d.flushed = c.flushed /\ d.state = c.state
  BY <1>1 DEF ComblkType
<1>4. d.called = c.called /\ d.completion_handler = c.completion_handler BY <1>1 DEF ComblkType
<1> QED BY <1>2, <1>3, <1>4, Zenon DEF Listens, Unsent, Completes, d

LEMMA CompleteListens ==
  ASSUME NEW c \in ComblkType, NEW length \in Size
  PROVE  Listens(c, complete_request(c, length)) /\ complete_request(c, length).state = c.state
<1> DEFINE call == [handler |-> c.completion_handler, length |-> length, response |-> c.response]
           a == Append(c.called, call)
           d == complete_request(c, length)
<1>1. call \in HandlerCall /\ call.handler = c.completion_handler
  <2>1. c.completion_handler \in Handlers /\ c.response \in Response BY SMT DEF ComblkType
  <2> QED BY <2>1 DEF HandlerCall, Response, Size
<1>2. d = IF c.completion_handler = "none" THEN c
          ELSE [c EXCEPT !.called = a, !.completion_handler = "none", !.request_in_progress = FALSE]
  BY DEF complete_request
<1> HIDE DEF call, d
<1>3. CASE c.completion_handler = "none"
  BY <1>2, <1>3, Zenon DEF Listens, Unsent, Completes, d
<1>4. CASE c.completion_handler # "none"
  <2>1. d = [c EXCEPT !.called = a, !.completion_handler = "none", !.request_in_progress = FALSE]
    BY <1>2, <1>4
  <2> HIDE DEF a
  <2>2. d.cmd = c.cmd /\ d.data = c.data /\ d.pages = c.pages BY <2>1 DEF ComblkType
  <2>3. d.cmd_opcode = c.cmd_opcode /\ d.flushed = c.flushed /\ d.state = c.state
    BY <2>1 DEF ComblkType
  <2>4. d.called = a /\ d.completion_handler = "none" BY <2>1 DEF ComblkType
  <2>5. Completes(c, d) BY <1>1, <1>4, <2>4, Zenon DEF Completes, a
  <2> QED BY <2>2, <2>3, <2>5, Zenon DEF Listens, Unsent, d
<1> QED BY <1>3, <1>4

LEMMA NothingListens ==
  ASSUME NEW c
  PROVE  Listens(c, c)
BY Zenon DEF Listens, Unsent, Completes

LEMMA ListensTwice ==
  ASSUME NEW c, NEW d, NEW e, Listens(c, d), Listens(d, e)
  PROVE  Listens(c, e)
<1>1. Completes(c, e) BY CompletesTwice DEF Listens
<1> QED BY <1>1 DEF Listens, Unsent

\* The response, and the state that goes with it.
LEMMA RespondListens ==
  ASSUME NEW c \in ComblkType, NEW r, NEW i, NEW t \in {"IDLE", "RX_RESPONSE", c.state}
  PROVE  Listens(c, [c EXCEPT !.response = r, !.response_idx = i, !.state = t])
<1> DEFINE d == [c EXCEPT !.response = r, !.response_idx = i, !.state = t]
<1>1. d.cmd = c.cmd /\ d.data = c.data /\ d.pages = c.pages BY DEF ComblkType
<1>2. d.cmd_opcode = c.cmd_opcode /\ d.flushed = c.flushed BY DEF ComblkType
<1>3. d.called = c.called /\ d.completion_handler = c.completion_handler BY DEF ComblkType
<1>4. d.state = t BY DEF ComblkType
<1> HIDE DEF d
<1> QED BY <1>1, <1>2, <1>3, <1>4, Zenon DEF Listens, Unsent, Completes, d

LEMMA IdleListens ==
  ASSUME NEW c \in ComblkType
  PROVE  Listens(c, [c EXCEPT !.state = "IDLE"])
<1> DEFINE d == [c EXCEPT !.state = "IDLE"]
<1>1. d.cmd = c.cmd /\ d.data = c.data /\ d.pages = c.pages BY DEF ComblkType
<1>2. d.cmd_opcode = c.cmd_opcode /\ d.flushed = c.flushed BY DEF ComblkType
<1>3. d.called = c.called /\ d.completion_handler = c.completion_handler BY DEF ComblkType
<1>4. d.state = "IDLE" BY DEF ComblkType
<1> HIDE DEF d
<1> QED BY <1>1, <1>2, <1>3, <1>4, Zenon DEF Listens, Unsent, Completes, d

LEMMA HandleRxListens ==
  ASSUME NEW c \in ComblkType, NEW word \in Word
  PROVE  Listens(c, handle_rx_okay_irq(c, word))
<1>0. c.state \in States /\ word.byte \in Nat /\ c.response_idx \in Size
  BY DEF ComblkType, Word
<1>1. Listens(c, c) BY NothingListens
<1>2. Listens(c, process_sys_ctrl_command(c, word.byte)) BY ReportListens
<1>3. CASE c.state = "IDLE"
  <2> DEFINE r == [c.response EXCEPT ![0] = word.byte, ![1] = 0]
             d == [c EXCEPT !.response = r, !.response_idx = 1, !.state = "RX_RESPONSE"]
  <2>1. Listens(c, d)
    <3> HIDE DEF r
    <3> QED BY RespondListens
  <2>2. \/ handle_rx_okay_irq(c, word) = c
        \/ handle_rx_okay_irq(c, word) = process_sys_ctrl_command(c, word.byte)
        \/ handle_rx_okay_irq(c, word) = d
    BY <1>3 DEF handle_rx_okay_irq, RxIdle
  <2> HIDE DEF d
  <2> QED BY <1>1, <1>2, <2>1, <2>2
<1>4. CASE c.state = "WAIT_RESPONSE"
  <2> DEFINE r == [c.response EXCEPT ![0] = word.byte]
             d == [c EXCEPT !.response = r, !.response_idx = 1, !.state = "RX_RESPONSE"]
  <2>1. Listens(c, d)
    <3> HIDE DEF r
    <3> QED BY RespondListens
  <2>2. \/ handle_rx_okay_irq(c, word) = c
        \/ handle_rx_okay_irq(c, word) = process_sys_ctrl_command(c, word.byte)
        \/ handle_rx_okay_irq(c, word) = d
    BY <1>4 DEF handle_rx_okay_irq, RxWait
  <2> HIDE DEF d
  <2> QED BY <1>1, <1>2, <2>1, <2>2
<1>5. CASE c.state = "RX_RESPONSE"
  <2> DEFINE r == [c.response EXCEPT ![c.response_idx] = word.byte]
             j == c.response_idx + 1
             p == process_sys_ctrl_command(c, POR_DIGEST_ERROR_OPCODE)
             rp == [p.response EXCEPT ![c.response_idx] = word.byte]
             d == [p EXCEPT !.response[c.response_idx] = word.byte, !.state = "IDLE"]
             s == IF c.response_idx < c.response_size
                    THEN [c EXCEPT !.response = r, !.response_idx = j]
                    ELSE c
             f == complete_request(s, s.response_idx)
             g == [f EXCEPT !.state = "IDLE"]
  <2>1. \/ handle_rx_okay_irq(c, word) = process_sys_ctrl_command(c, word.byte)
        \/ handle_rx_okay_irq(c, word) = d
        \/ handle_rx_okay_irq(c, word) = s
        \/ handle_rx_okay_irq(c, word) = g
    BY <1>5 DEF handle_rx_okay_irq, RxResponse, RxData
  <2>2. p \in ComblkType /\ Listens(c, p)
    <3>1. POR_DIGEST_ERROR_OPCODE \in Nat BY SMT DEF POR_DIGEST_ERROR_OPCODE
    <3> QED BY <3>1, ReportType, ReportListens
  <2>3. Listens(c, d)
    <3>1. d = [p EXCEPT !.response = rp, !.state = "IDLE"] OBVIOUS
    <3> HIDE DEF p, rp, d
    <3>3. d.cmd = p.cmd /\ d.data = p.data /\ d.pages = p.pages BY <2>2, <3>1 DEF ComblkType
    <3>4. d.cmd_opcode = p.cmd_opcode /\ d.flushed = p.flushed BY <2>2, <3>1 DEF ComblkType
    <3>5. d.called = p.called /\ d.completion_handler = p.completion_handler
      BY <2>2, <3>1 DEF ComblkType
    <3>6. d.state = "IDLE" BY <2>2, <3>1 DEF ComblkType
    <3>7. Listens(p, d) BY <3>3, <3>4, <3>5, <3>6, Zenon DEF Listens, Unsent, Completes
    <3> QED BY <2>2, <3>7, ListensTwice
  <2> HIDE DEF d, p, rp
  <2>4. s \in ComblkType /\ Listens(c, s)
    <3>1. CASE c.response_idx < c.response_size
      <4>1. c.response \in Response /\ c.response_size \in Size BY DEF ComblkType
      <4>2. r \in Response BY <4>1, ResponseType, <1>0
      <4>3. j \in Size BY <1>0, <3>1, <4>1, SMT DEF Size
      <4>4. s = [c EXCEPT !.response = r, !.response_idx = j] BY <3>1
      <4> HIDE DEF s, r, j
      <4>5. s \in ComblkType BY <4>2, <4>3, <4>4 DEF ComblkType
      <4>6. s.cmd = c.cmd /\ s.data = c.data /\ s.pages = c.pages BY <4>4 DEF ComblkType
      <4>7. s.cmd_opcode = c.cmd_opcode /\ s.flushed = c.flushed BY <4>4 DEF ComblkType
      <4>8. s.called = c.called /\ s.completion_handler = c.completion_handler /\ s.state = c.state
        BY <4>4 DEF ComblkType
      <4> QED BY <4>5, <4>6, <4>7, <4>8, Zenon DEF Listens, Unsent, Completes
    <3>2. CASE ~(c.response_idx < c.response_size) BY <1>1, <3>2
    <3> QED BY <3>1, <3>2
  <2> HIDE DEF s
  <2>5. f \in ComblkType /\ Listens(s, f)
    <3>1. s.response_idx \in Size BY <2>4 DEF ComblkType
    <3> QED BY <2>4, <3>1, CompleteType, CompleteListens
  <2> HIDE DEF f
  <2>6. Listens(f, g) BY <2>5, IdleListens
  <2> HIDE DEF g
  <2>7. Listens(c, g) BY <2>4, <2>5, <2>6, ListensTwice
  <2> QED BY <1>2, <2>1, <2>3, <2>4, <2>7
<1>6. CASE c.state = "TX_PAGED_DATA"
  <2> DEFINE r == [c.response EXCEPT ![1] = word.byte]
             s == [c EXCEPT !.response[1] = word.byte]
             f == complete_request(s, 2)
             g == [f EXCEPT !.state = "IDLE"]
  <2>1. \/ handle_rx_okay_irq(c, word) = process_sys_ctrl_command(c, word.byte)
        \/ handle_rx_okay_irq(c, word) = g
    BY <1>6 DEF handle_rx_okay_irq, RxPagedData
  <2>2. s = [c EXCEPT !.response = r] OBVIOUS
  <2>3. c.response \in Response BY DEF ComblkType
  <2>4. r \in Response BY <1>0, <2>3, ResponseType
  <2> HIDE DEF r, s
  <2>5. s \in ComblkType /\ Listens(c, s)
    <3>1. s \in ComblkType BY <2>2, <2>4 DEF ComblkType
    <3>2. s.cmd = c.cmd /\ s.data = c.data /\ s.pages = c.pages BY <2>2 DEF ComblkType
    <3>3. s.cmd_opcode = c.cmd_opcode /\ s.flushed = c.flushed BY <2>2 DEF ComblkType
    <3>4. s.called = c.called /\ s.completion_handler = c.completion_handler /\ s.state = c.state
      BY <2>2 DEF ComblkType
    <3> QED BY <3>1, <3>2, <3>3, <3>4, Zenon DEF Listens, Unsent, Completes
  <2>6. f \in ComblkType /\ Listens(s, f)
    <3>1. 2 \in Size BY DEF Size
    <3> QED BY <2>5, <3>1, CompleteType, CompleteListens
  <2> HIDE DEF f
  <2>7. Listens(f, g) BY <2>6, IdleListens
  <2> HIDE DEF g
  <2>8. Listens(c, g) BY <2>5, <2>6, <2>7, ListensTwice
  <2> QED BY <1>2, <2>1, <2>8
<1>7. CASE c.state = "TX_CMD"
  <2>1. \/ handle_rx_okay_irq(c, word) = process_sys_ctrl_command(c, word.byte)
        \/ handle_rx_okay_irq(c, word) = c
    BY <1>7 DEF handle_rx_okay_irq, RxSending
  <2> QED BY <1>1, <1>2, <2>1
<1> QED BY <1>0, <1>3, <1>4, <1>5, <1>6, <1>7 DEF States

-----------------------------------------------------------------------------
(* What is sent is what was left to send *)

DataWord == {w \in Word : ~w.command}
Left(c) == c.cmd \o (c.data \o FlattenSeq(c.pages))

\* The parameter of an ISP command goes before its pages.
ParameterFirst(c) == c.cmd = <<>> \/ (c.cmd = <<0>> /\ c.data = <<>> /\ c.pages = Pages)
Ready(c) == /\ c.state = "TX_CMD" => c.cmd # <<>>
            /\ c.state = "TX_PAGED_DATA" => c.cmd = <<>>

Joined(a, b, c) == (a \o b) \o c = a \o (b \o c)

LEMMA Joining ==
  ASSUME NEW A, NEW a \in Seq(A), NEW b \in Seq(A), NEW c \in Seq(A)
  PROVE  Joined(a, b, c)
BY ConcatAssociative DEF Joined

\* A step of the transmit interrupt, and what it does to an ISP command.
Transmits(c, d) ==
  d.sent \in Seq(DataWord) /\ d.cmd_opcode = c.cmd_opcode /\ Completes(c, d)

TransmitsIsp(c, d) ==
  /\ d.flushed = c.flushed /\ ParameterFirst(d) /\ Ready(d)
  /\ Bytes(d.sent) \o Left(d) = Left(c)

LEMMA SentBytes ==
  ASSUME NEW bytes \in Text, NEW room \in Nat
  PROVE  /\ Sent(bytes, room) \in Seq(DataWord)
         /\ Bytes(Sent(bytes, room)) \o Rest(bytes, room) = bytes
<1> DEFINE n == Fits(bytes, room)
           front == SubSeq(bytes, 1, n)
           back == SubSeq(bytes, n + 1, Len(bytes))
<1>1. bytes \in Seq(Nat) /\ n \in 0..Len(bytes) BY FitsIn DEF Text
<1> HIDE DEF n
<1>2. front \in Seq(Nat) /\ Len(front) = n BY <1>1, SMT
<1>3. front \o back = bytes
  <2> DEFINE l == Len(bytes)
  <2>1. l \in Nat BY <1>1
  <2>2. 1 \in 1..l + 1 /\ n \in 1 - 1..l /\ l \in n..l BY <1>1, <2>1, SMT
  <2> HIDE DEF l
  <2>3. SubSeq(bytes, 1, n) \o SubSeq(bytes, n + 1, l) = SubSeq(bytes, 1, l)
    <3>1. 1 \in 1..Len(bytes) + 1 /\ n \in 1 - 1..Len(bytes) /\ l \in n..Len(bytes)
      BY <2>2 DEF l
    <3> QED BY <1>1, <3>1, ConcatAdjacentSubSeq, Zenon
  <2>4. SubSeq(bytes, 1, Len(bytes)) = bytes BY <1>1, SubSeqFull
  <2> QED BY <2>3, <2>4 DEF l
<1> HIDE DEF front, back
<1>4. DOMAIN front = 1..n /\ n \in Nat /\ \A i \in 1..n : front[i] \in Nat BY <1>1, <1>2, SMT
<1>5. \A i \in 1..n : Data(front[i]) \in DataWord /\ Data(front[i]).byte = front[i]
  BY <1>4 DEF Data, DataWord, Word
<1> DEFINE s == Sent(bytes, room)
<1>6. s = [i \in 1..n |-> Data(front[i])]
  BY <1>4 DEF Sent, Words, front, n
<1> HIDE DEF s
<1>7. s \in Seq(DataWord) BY <1>4, <1>5, <1>6
<1>8. Bytes(s) = [i \in 1..n |-> s[i].byte] BY <1>6 DEF Bytes
<1>9. \A i \in 1..n : s[i].byte = front[i] BY <1>5, <1>6
<1>10. front = [i \in 1..n |-> front[i]] BY <1>2, <1>4, SMT
<1>11. Bytes(s) = front
  <2>1. [i \in 1..n |-> s[i].byte] = [i \in 1..n |-> front[i]] BY <1>9, Zenon
  <2> QED BY <1>8, <1>10, <2>1, Zenon
<1> QED BY <1>3, <1>7, <1>11 DEF Rest, s, n, back

LEMMA LeftType ==
  ASSUME NEW c \in ComblkType
  PROVE  c.cmd \in Seq(Nat) /\ c.data \in Seq(Nat) /\ FlattenSeq(c.pages) \in Seq(Nat)
         /\ Left(c) \in Seq(Nat)
<1>1. c.cmd \in Seq(Nat) /\ c.data \in Seq(Nat) /\ c.pages \in Seq(Seq(Nat))
  BY DEF ComblkType, Text, Texts
<1> DEFINE f == FlattenSeq(c.pages)
<1>2. f \in Seq(Nat) BY <1>1, FlattenType
<1> HIDE DEF f
<1>3. c.cmd \o (c.data \o f) \in Seq(Nat) BY <1>1, <1>2
<1> QED BY <1>1, <1>2, <1>3 DEF f, Left

LEMMA NothingSent ==
  ASSUME NEW c \in ComblkType, NEW d \in ComblkType, Unsent(c, d), d.sent = <<>>
  PROVE  d.sent \in Seq(DataWord) /\ Bytes(d.sent) \o Left(d) = Left(c)
<1>1. Left(d) = Left(c) BY DEF Unsent, Left
<1>2. Bytes(<<>>) = <<>> BY DEF Bytes
<1> DEFINE l == Left(c)
<1>3. l \in Seq(Nat) BY LeftType
<1> HIDE DEF l
<1>4. <<>> \o l = l /\ <<>> \in Seq(DataWord) BY <1>3
<1> QED BY <1>1, <1>2, <1>4 DEF l

LEMMA AbortCompletes ==
  ASSUME NEW c \in ComblkType
  PROVE  Completes(c, abort_current_cmd(c)) /\ abort_current_cmd(c).cmd_opcode = c.cmd_opcode
<1>1. c.response_idx \in Size BY SMT DEF ComblkType
<1> DEFINE d == complete_request(c, c.response_idx)
           e == abort_current_cmd(c)
<1>2. d \in ComblkType /\ Listens(c, d) BY <1>1, CompleteType, CompleteListens
<1>3. e = IF c.request_in_progress THEN [d EXCEPT !.flushed = TRUE] ELSE c
  BY DEF abort_current_cmd
<1> HIDE DEF d, e
<1>4. CASE c.request_in_progress
  <2>1. e = [d EXCEPT !.flushed = TRUE] BY <1>3, <1>4
  <2>2. /\ e.called = d.called /\ e.completion_handler = d.completion_handler
        /\ e.cmd_opcode = d.cmd_opcode
    BY <1>2, <2>1 DEF ComblkType
  <2> QED BY <1>2, <2>2, Zenon DEF Listens, Completes, e
<1>5. CASE ~c.request_in_progress BY <1>3, <1>5, Zenon DEF Completes, e
<1> QED BY <1>4, <1>5

\* What is left of one byte, or of none, is that byte or nothing.
LEMMA RestOfOne ==
  ASSUME NEW b \in Seq(Nat), NEW r \in Seq(Nat), b \o r = << 0 >> \/ b \o r = <<>>
  PROVE  r = <<>> \/ (r = <<0>> /\ b \o r = <<0>>)
<1>1. Len(b \o r) = Len(b) + Len(r) OBVIOUS
<1>2. Len(<<0>>) = 1 /\ Len(<<>>) = 0 OBVIOUS
<1>3. Len(r) = 0 \/ (Len(r) = 1 /\ Len(b) = 0 /\ b \o r = <<0>>)
  <2> DEFINE n == Len(b)
             m == Len(r)
             k == Len(b \o r)
  <2>3. k = 1 \/ k = 0
    <3>1. CASE b \o r = <<0>> BY <1>2, <3>1
    <3>2. CASE b \o r = <<>> BY <1>2, <3>2
    <3> QED BY <3>1, <3>2
  <2>4. n \in Nat /\ m \in Nat OBVIOUS
  <2>1. k = n + m /\ (k = 1 \/ k = 0) /\ n \in Nat /\ m \in Nat BY <1>1, <2>3, <2>4
  <2> HIDE DEF n, m, k
  <2>2. m = 0 \/ (m = 1 /\ n = 0 /\ k = 1) BY <2>1, SMT
  <2> QED BY <1>2, <2>2 DEF n, m, k
<1>4. CASE Len(r) = 0 BY <1>4
<1>5. CASE Len(r) = 1 /\ Len(b) = 0 /\ b \o r = <<0>>
  <2>1. b = <<>> BY <1>5
  <2>2. <<>> \o r = r OBVIOUS
  <2> QED BY <1>5, <2>1, <2>2
<1> QED BY <1>3, <1>4, <1>5

\* The words of the command that fit are sent.
LEMMA CommandLeaves ==
  ASSUME NEW c \in ComblkType, NEW d \in ComblkType, NEW room \in Nat,
         d.sent = Sent(c.cmd, room), d.cmd = Rest(c.cmd, room),
         d.data = c.data, d.pages = c.pages
  PROVE  /\ d.sent \in Seq(DataWord) /\ Bytes(d.sent) \o Left(d) = Left(c)
         /\ ParameterFirst(c) => ParameterFirst(d)
<1> DEFINE s == Sent(c.cmd, room)
           r == Rest(c.cmd, room)
           b == Bytes(s)
           e == c.data
           g == FlattenSeq(c.pages)
<1>1. c.cmd \in Text BY DEF ComblkType
<1>2. s \in Seq(DataWord) /\ b \o r = c.cmd /\ r \in Seq(Nat) BY <1>1, SentType, SentBytes DEF Text
<1>3. b \in Seq(Nat)
  <2> HIDE DEF s
  <2>1. s \in Seq(Word) BY <1>2, SeqGrows DEF DataWord
  <2> QED BY <2>1, BytesType
<1>4. e \in Seq(Nat) /\ g \in Seq(Nat) BY LeftType
<1>5. Left(d) = r \o (e \o g) /\ Left(c) = c.cmd \o (e \o g) BY DEF Left
<1>6. Bytes(d.sent) = b /\ d.cmd = r OBVIOUS
<1> HIDE DEF s, b, r, e, g
<1>7. Bytes(d.sent) \o Left(d) = Left(c)
  <2>1. e \o g \in Seq(Nat) BY <1>4
  <2>2. (b \o r) \o (e \o g) = b \o (r \o (e \o g))
    <3>1. b \in Seq(Nat) /\ r \in Seq(Nat) BY <1>2, <1>3
    <3>2. Joined(b, r, e \o g) BY <2>1, <3>1, Joining, Zenon
    <3> QED BY <3>2 DEF Joined
  <2> QED BY <1>2, <1>5, <1>6, <2>2
<1>8. ASSUME ParameterFirst(c) PROVE ParameterFirst(d)
  <2>1. b \o r = <<0>> \/ b \o r = <<>> BY <1>2, <1>8 DEF ParameterFirst
  <2>2. r = <<>> \/ (r = <<0>> /\ c.cmd = <<0>>) BY <1>2, <1>3, <2>1, RestOfOne
  <2>3. <<0>> # <<>> OBVIOUS
  <2> QED BY <1>6, <1>8, <2>2, <2>3 DEF ParameterFirst
<1> QED BY <1>2, <1>7, <1>8 DEF s

LEMMA TxCmdSends ==
  ASSUME NEW c \in ComblkType, c.sent = <<>>, NEW room \in Nat
  PROVE  /\ Transmits(c, TxCmd(c, room))
         /\ c.state = "TX_CMD" /\ ParameterFirst(c) /\ Ready(c) =>
              TransmitsIsp(c, TxCmd(c, room))
<1>0. <<>> \in Seq(DataWord) OBVIOUS
<1>1. CASE c.cmd = <<>>
  <2>1. TxCmd(c, room) = abort_current_cmd(c) BY <1>1 DEF TxCmd
  <2>2. abort_current_cmd(c).sent = <<>> BY AbortType DEF Quiet
  <2> QED BY <1>0, <1>1, <2>1, <2>2, AbortCompletes DEF Transmits, Ready
<1>2. CASE c.cmd # <<>>
  <2> DEFINE s == Sent(c.cmd, room)
             r == Rest(c.cmd, room)
             t == IF r = <<>> THEN "WAIT_RESPONSE" ELSE c.state
             d == [c EXCEPT !.sent = s, !.cmd = r, !.state = t]
  <2>1. TxCmd(c, room) = d BY <1>2 DEF TxCmd
  <2>2. d \in ComblkType
    <3>1. Fed(c, room, TxCmd(c, room)) BY TxCmdType
    <3> QED BY <2>1, <3>1 DEF Fed
  <2> HIDE DEF s, r
  <2>3. d.data = c.data /\ d.pages = c.pages /\ d.cmd = r BY DEF ComblkType
  <2>4. d.sent = s /\ d.cmd_opcode = c.cmd_opcode /\ d.flushed = c.flushed BY DEF ComblkType
  <2>5. d.called = c.called /\ d.completion_handler = c.completion_handler BY DEF ComblkType
  <2>6. d.state = t BY DEF ComblkType
  <2> HIDE DEF d
  <2>7. /\ d.sent \in Seq(DataWord) /\ Bytes(d.sent) \o Left(d) = Left(c)
        /\ ParameterFirst(c) => ParameterFirst(d)
    BY <2>2, <2>3, <2>4, CommandLeaves DEF s, r
  <2>8. Transmits(c, d) BY <2>4, <2>5, <2>7, Zenon DEF Transmits, Completes
  <2>9. c.state = "TX_CMD" => Ready(d) BY <2>3, <2>6 DEF Ready
  <2> QED BY <2>1, <2>4, <2>7, <2>8, <2>9 DEF TransmitsIsp
<1> QED BY <1>1, <1>2

\* The next page, if there is one, is taken from what is left.
LEMMA NextPageLeaves ==
  ASSUME NEW c \in ComblkType, c.data = <<>>
  PROVE  LET p == NextPage(c)
         IN  /\ p.cmd = c.cmd /\ p.cmd_opcode = c.cmd_opcode /\ p.flushed = c.flushed
             /\ p.state = c.state /\ Completes(c, p)
             /\ p.data \o FlattenSeq(p.pages) = c.data \o FlattenSeq(c.pages)
<1>1. Completes(c, c) BY Zenon DEF Completes
<1>2. CASE c.pages = <<>> BY <1>1, <1>2 DEF NextPage
<1>3. CASE c.pages # <<>>
  <2> DEFINE a == Head(c.pages)
             b == Tail(c.pages)
             d == [c EXCEPT !.data = a, !.pages = b]
             f == FlattenSeq(b)
             g == FlattenSeq(c.pages)
  <2>1. c.pages \in Seq(Seq(Nat)) BY DEF ComblkType, Texts
  <2>2. a \in Seq(Nat) /\ b \in Seq(Seq(Nat)) BY <1>3, <2>1
  <2>3. g = a \o f BY <1>3, <2>1, FlattenHead
  <2>4. NextPage(c) = d BY <1>3 DEF NextPage
  <2>5. f \in Seq(Nat) BY <2>2, FlattenType
  <2> HIDE DEF a, b
  <2>6. d.cmd = c.cmd /\ d.data = a /\ d.pages = b BY DEF ComblkType
  <2>7. d.cmd_opcode = c.cmd_opcode /\ d.flushed = c.flushed /\ d.state = c.state BY DEF ComblkType
  <2>8. d.called = c.called /\ d.completion_handler = c.completion_handler BY DEF ComblkType
  <2> HIDE DEF d
  <2>9. Completes(c, d) BY <2>8, Zenon DEF Completes
  <2>10. d.data \o FlattenSeq(d.pages) = a \o f BY <2>6
  <2> HIDE DEF f, g
  <2>11. <<>> \o g = g
    <3>1. g \in Seq(Nat) BY <2>2, <2>3, <2>5
    <3> QED BY <3>1
  <2> QED BY <2>3, <2>4, <2>6, <2>7, <2>9, <2>10, <2>11 DEF g
<1> QED BY <1>2, <1>3

LEMMA TxPagedSends ==
  ASSUME NEW c \in ComblkType, c.sent = <<>>, NEW room \in Nat
  PROVE  /\ Transmits(c, TxPagedData(c, room))
         /\ c.state = "TX_PAGED_DATA" /\ ParameterFirst(c) /\ Ready(c) =>
              TransmitsIsp(c, TxPagedData(c, room))
<1> DEFINE p == IF c.data = <<>> THEN NextPage(c) ELSE c
           d == [p EXCEPT !.TXTOKAY = FALSE, !.state = "WAIT_RESPONSE"]
           s == Sent(p.data, room)
           r == Rest(p.data, room)
           e == [p EXCEPT !.sent = s, !.data = r]
<1>1. p \in ComblkType /\ p.sent = <<>> BY NextPageType DEF Quiet
<1>2. /\ p.cmd = c.cmd /\ p.cmd_opcode = c.cmd_opcode /\ p.flushed = c.flushed
      /\ p.state = c.state /\ Completes(c, p)
      /\ p.data \o FlattenSeq(p.pages) = c.data \o FlattenSeq(c.pages)
  <2>1. Completes(c, c) BY Zenon DEF Completes
  <2>2. CASE c.data = <<>> BY <2>2, NextPageLeaves
  <2>3. CASE c.data # <<>> BY <2>1, <2>3
  <2> QED BY <2>2, <2>3
<1>3. TxPagedData(c, room) = IF p.data = <<>> THEN d ELSE e BY DEF TxPagedData, SendsData
<1> HIDE DEF p
<1>4. Left(p) = Left(c)
  <2> DEFINE a == p.data \o FlattenSeq(p.pages)
             b == c.data \o FlattenSeq(c.pages)
  <2>1. Left(p) = p.cmd \o a /\ Left(c) = c.cmd \o b BY DEF Left
  <2> HIDE DEF a, b
  <2> QED BY <1>2, <2>1 DEF a, b
<1>5. d.cmd = p.cmd /\ d.data = p.data /\ d.pages = p.pages BY <1>1 DEF ComblkType
<1>6. d.sent = p.sent /\ d.cmd_opcode = p.cmd_opcode /\ d.flushed = p.flushed BY <1>1 DEF ComblkType
<1>7. /\ d.called = p.called /\ d.completion_handler = p.completion_handler
      /\ d.state = "WAIT_RESPONSE"
  BY <1>1 DEF ComblkType
<1>8. d \in ComblkType
  <2>1. "WAIT_RESPONSE" \in States BY DEF States
  <2> QED BY <1>1, <2>1 DEF ComblkType
<1> HIDE DEF d
<1>9. p.data \in Text BY <1>1 DEF ComblkType
<1>10. s \in Seq(DataWord) /\ Bytes(s) \o r = p.data /\ r \in Text
  BY <1>9, SentType, SentBytes
<1> HIDE DEF s, r
<1>11. e.cmd = p.cmd /\ e.data = r /\ e.pages = p.pages BY <1>1 DEF ComblkType
<1>12. e.sent = s /\ e.cmd_opcode = p.cmd_opcode /\ e.flushed = p.flushed BY <1>1 DEF ComblkType
<1>13. e.called = p.called /\ e.completion_handler = p.completion_handler /\ e.state = p.state
  BY <1>1 DEF ComblkType
<1> HIDE DEF e
<1>14. Completes(c, d) /\ Completes(c, e)
  <2>1. Completes(p, d) /\ Completes(p, e) BY <1>7, <1>13, Zenon DEF Completes
  <2> QED BY <1>2, <2>1, CompletesTwice
<1>15. d.sent \in Seq(DataWord) /\ Bytes(d.sent) \o Left(d) = Left(p)
  BY <1>1, <1>5, <1>6, <1>8, NothingSent DEF Unsent
<1>16. p.cmd = <<>> => Bytes(e.sent) \o Left(e) = Left(p)
  <2> DEFINE b == Bytes(s)
             g == FlattenSeq(p.pages)
  <2>1. b \in Seq(Nat)
    <3>1. s \in Seq(Word) BY <1>10, SeqGrows DEF DataWord
    <3> QED BY <3>1, BytesType
  <2>2. g \in Seq(Nat) /\ r \in Seq(Nat) BY <1>1, <1>10, LeftType DEF Text
  <2> SUFFICES ASSUME p.cmd = <<>> PROVE Bytes(e.sent) \o Left(e) = Left(p)
    OBVIOUS
  <2>3. Left(e) = <<>> \o (r \o g) /\ Left(p) = <<>> \o ((b \o r) \o g)
    BY <1>10, <1>11 DEF Left
  <2> HIDE DEF b, g
  <2>4. <<>> \o (r \o g) = r \o g /\ <<>> \o ((b \o r) \o g) = (b \o r) \o g BY <2>1, <2>2
  <2>5. (b \o r) \o g = b \o (r \o g)
    <3>1. Joined(b, r, g) BY <2>1, <2>2, Joining, Zenon
    <3> QED BY <3>1 DEF Joined
  <2> QED BY <1>12, <2>3, <2>4, <2>5 DEF b
<1>17. Transmits(c, d) /\ Transmits(c, e)
  BY <1>2, <1>6, <1>10, <1>12, <1>14, <1>15 DEF Transmits
<1>18. ASSUME c.state = "TX_PAGED_DATA", ParameterFirst(c), Ready(c)
       PROVE  TransmitsIsp(c, d) /\ TransmitsIsp(c, e)
  <2>1. c.cmd = <<>> BY <1>18 DEF Ready
  <2>2. ParameterFirst(d) /\ ParameterFirst(e) BY <1>2, <1>5, <1>11, <2>1 DEF ParameterFirst
  <2>3. Ready(d) /\ Ready(e) BY <1>2, <1>5, <1>7, <1>11, <1>13, <1>18, <2>1 DEF Ready
  <2> QED BY <1>2, <1>4, <1>6, <1>12, <1>15, <1>16, <2>1, <2>2, <2>3 DEF TransmitsIsp
<1> QED BY <1>3, <1>17, <1>18

LEMMA ListensTransmits ==
  ASSUME NEW c \in ComblkType, NEW d \in ComblkType, d.sent = <<>>, Listens(c, d)
  PROVE  /\ Transmits(c, d)
         /\ ParameterFirst(c) /\ Ready(c) => TransmitsIsp(c, d)
<1>1. d.sent \in Seq(DataWord) /\ Bytes(d.sent) \o Left(d) = Left(c)
  BY NothingSent DEF Listens
<1>2. Transmits(c, d) BY <1>1 DEF Transmits, Listens
<1>3. ParameterFirst(c) => ParameterFirst(d) BY DEF ParameterFirst, Listens, Unsent
<1>4. Ready(c) => Ready(d)
  <2>1. d.state \in {c.state, "IDLE", "RX_RESPONSE"} /\ d.cmd = c.cmd BY DEF Listens, Unsent
  <2> QED BY <2>1 DEF Ready
<1> QED BY <1>1, <1>2, <1>3, <1>4 DEF TransmitsIsp, Listens

LEMMA HandleTxSends ==
  ASSUME NEW c \in ComblkType, c.sent = <<>>, NEW room \in Nat
  PROVE  /\ Transmits(c, handle_tx_okay_irq(c, room))
         /\ ParameterFirst(c) /\ Ready(c) => TransmitsIsp(c, handle_tx_okay_irq(c, room))
<1>1. CASE c.state = "TX_CMD" BY <1>1, TxCmdSends DEF handle_tx_okay_irq
<1>2. CASE c.state = "TX_PAGED_DATA" BY <1>2, TxPagedSends DEF handle_tx_okay_irq
<1>3. CASE c.state # "TX_CMD" /\ c.state # "TX_PAGED_DATA"
  <2> DEFINE f == complete_request(c, 0)
             d == [f EXCEPT !.TXTOKAY = FALSE, !.state = "IDLE"]
  <2>1. handle_tx_okay_irq(c, room) = d BY <1>3 DEF handle_tx_okay_irq
  <2>2. 0 \in Size /\ "IDLE" \in States BY DEF Size, States
  <2>3. f \in ComblkType /\ f.sent = <<>> /\ Listens(c, f) BY <2>2, CompleteType, CompleteListens DEF Quiet
  <2> HIDE DEF f
  <2>4. d \in ComblkType /\ d.sent = <<>>
    <3>1. d \in ComblkType BY <2>2, <2>3 DEF ComblkType
    <3>2. d.sent = f.sent BY <2>3 DEF ComblkType
    <3> QED BY <2>3, <3>1, <3>2
  <2>5. d.cmd = f.cmd /\ d.data = f.data /\ d.pages = f.pages BY <2>3 DEF ComblkType
  <2>6. d.cmd_opcode = f.cmd_opcode /\ d.flushed = f.flushed BY <2>3 DEF ComblkType
  <2>7. /\ d.called = f.called /\ d.completion_handler = f.completion_handler
        /\ d.state = "IDLE"
    BY <2>3 DEF ComblkType
  <2> HIDE DEF d
  <2>8. Listens(f, d) BY <2>5, <2>6, <2>7, Zenon DEF Listens, Unsent, Completes
  <2>9. Listens(c, d) BY <2>3, <2>8, ListensTwice
  <2> QED BY <2>1, <2>4, <2>9, ListensTransmits
<1> QED BY <1>1, <1>2, <1>3

\* The completion handler that a step of the driver calls, if it calls one.
Called(c, d) ==
  \/ d.called = <<>>
  \/ /\ c.completion_handler # "none"
     /\ \E call \in HandlerCall : call.handler = c.completion_handler /\ d.called = <<call>>

Calls(c, d) ==
  /\ Called(c, d)
  /\ d.completion_handler = c.completion_handler => d.completion_handler = "none" \/ d.called = <<>>
  /\ d.completion_handler \in {c.completion_handler, "none"}

LEMMA SilentCalls ==
  ASSUME NEW c \in ComblkType, NEW d \in ComblkType, Completes(Silent(c), d)
  PROVE  Calls(c, d)
<1> DEFINE s == Silent(c)
<1>1. s.called = <<>> /\ s.completion_handler = c.completion_handler BY SilentType, SilentListens
<1> HIDE DEF s
<1>2. CASE d.called = s.called /\ d.completion_handler = s.completion_handler
  BY <1>1, <1>2 DEF Calls, Called
<1>3. CASE /\ s.completion_handler # "none" /\ d.completion_handler = "none"
           /\ \E call \in HandlerCall :
                call.handler = s.completion_handler /\ d.called = Append(s.called, call)
  <2>1. PICK call \in HandlerCall :
          call.handler = s.completion_handler /\ d.called = Append(s.called, call)
    BY <1>3
  <2>2. Append(<<>>, call) = <<call>> OBVIOUS
  <2> QED BY <1>1, <1>3, <2>1, <2>2 DEF Calls, Called
<1> QED BY <1>2, <1>3 DEF Completes, s

\* A step tells mss_sys_services.c of a completion only through the handler it was given.
LEMMA CallsRequest ==
  ASSUME NEW c, NEW d, Called(c, d)
  PROVE  /\ d.called = <<>> \/ c.completion_handler # "request" => CallsOf(d, "request") = <<>>
<1> DEFINE S == {call \in ToSet(d.called) : call.handler = "request"}
<1>1. CallsOf(d, "request") = Kept(d.called, S) BY DEF CallsOf
<1>2. CASE d.called = <<>>
  <2> HIDE DEF S
  <2> QED BY <1>1, <1>2, KeptNone
<1>3. ASSUME c.completion_handler # "request", d.called # <<>>
      PROVE  CallsOf(d, "request") = <<>>
  <2>1. PICK call \in HandlerCall : call.handler = c.completion_handler /\ d.called = <<call>>
    BY <1>3 DEF Called
  <2>2. call \notin S BY <1>3, <2>1
  <2> HIDE DEF S
  <2> QED BY <1>1, <2>1, <2>2, KeptOne
<1> QED BY <1>2, <1>3

LEMMA InterruptSends ==
  ASSUME NEW c \in ComblkType, NEW words \in Seq(Word), NEW room \in Nat
  PROVE  LET d == ComBlk_IRQHandler(c, words, room)
         IN  /\ d.sent \in Seq(DataWord) /\ d.cmd_opcode = c.cmd_opcode /\ Calls(c, d)
             /\ ParameterFirst(c) /\ Ready(c) =>
                  /\ d.flushed = FALSE /\ ParameterFirst(d) /\ Ready(d)
                  /\ Bytes(d.sent) \o Left(d) = Left(c)
<1> DEFINE s == Silent(c)
           taken == c.RCVOKAY /\ words # <<>>
           r == IF taken THEN handle_rx_okay_irq(s, Head(words)) ELSE s
           d == ComBlk_IRQHandler(c, words, room)
<1>0. d \in ComblkType BY HandleInterrupt
<1>1. s \in ComblkType /\ s.sent = <<>> /\ s.events = <<>> BY SilentType
<1>2. d = IF c.TXTOKAY /\ room > 0 THEN handle_tx_okay_irq(r, room) ELSE r
  BY DEF ComBlk_IRQHandler
<1>3. /\ s.flushed = FALSE /\ s.state = c.state /\ s.cmd_opcode = c.cmd_opcode
      /\ s.cmd = c.cmd /\ s.data = c.data /\ s.pages = c.pages
  BY SilentType
<1>4. Completes(s, d) => Calls(c, d) BY <1>0, SilentCalls
<1> HIDE DEF s, d
<1>5. r \in ComblkType /\ r.sent = <<>> /\ Listens(s, r)
  <2>1. CASE taken
    <3>1. Head(words) \in Word BY <2>1
    <3>2. Received(Head(words), handle_rx_okay_irq(s, Head(words))) BY <1>1, <3>1, HandleRx
    <3>3. Listens(s, handle_rx_okay_irq(s, Head(words))) BY <1>1, <3>1, HandleRxListens
    <3> QED BY <2>1, <3>2, <3>3 DEF Received
  <2>2. CASE ~taken BY <1>1, <2>2, NothingListens
  <2> QED BY <2>1, <2>2
<1> HIDE DEF r
<1>6. /\ Transmits(r, d)
      /\ ParameterFirst(r) /\ Ready(r) => TransmitsIsp(r, d)
  <2>1. /\ Transmits(r, handle_tx_okay_irq(r, room))
        /\ ParameterFirst(r) /\ Ready(r) => TransmitsIsp(r, handle_tx_okay_irq(r, room))
    BY <1>5, HandleTxSends
  <2>2. Transmits(r, r) /\ (ParameterFirst(r) /\ Ready(r) => TransmitsIsp(r, r))
    BY <1>5, NothingListens, ListensTransmits
  <2> QED BY <1>2, <2>1, <2>2
<1>7. d.sent \in Seq(DataWord) /\ d.cmd_opcode = c.cmd_opcode BY <1>3, <1>5, <1>6 DEF Transmits, Listens
<1>8. Calls(c, d)
  <2>1. Completes(s, d) BY <1>5, <1>6, CompletesTwice DEF Transmits, Listens
  <2> QED BY <1>4, <2>1
<1>9. ASSUME ParameterFirst(c), Ready(c)
      PROVE  /\ d.flushed = FALSE /\ ParameterFirst(d) /\ Ready(d)
             /\ Bytes(d.sent) \o Left(d) = Left(c)
  <2>1. r.cmd = c.cmd /\ r.data = c.data /\ r.pages = c.pages /\ r.flushed = FALSE
    BY <1>3, <1>5 DEF Listens, Unsent
  <2>2. r.state \in {c.state, "IDLE", "RX_RESPONSE"} BY <1>3, <1>5 DEF Listens
  <2>3. ParameterFirst(r) BY <1>9, <2>1 DEF ParameterFirst
  <2>4. Ready(r) BY <1>9, <2>1, <2>2 DEF Ready
  <2>5. Left(r) = Left(c) BY <2>1 DEF Left
  <2> QED BY <1>6, <2>1, <2>3, <2>4, <2>5 DEF TransmitsIsp
<1> QED BY <1>7, <1>8, <1>9 DEF d

LEMMA PreparedRequest ==
  ASSUME NEW c \in ComblkType, request \in Requests
  PROVE  LET d == Prepared(c, request)
         IN  /\ d.cmd = request.params /\ d.data = <<>> /\ d.pages = request.pages
             /\ d.cmd_opcode = request.opcode /\ d.completion_handler = request.handler
             /\ d.nvic = FALSE /\ Called(c, d)
<1> DEFINE s == Silent(c)
           f == abort_current_cmd(s)
           opcode == request.opcode
           params == request.params
           pages == request.pages
           size == request.size
           handler == request.handler
           okay == request.kind = "cmd"
           p == [f EXCEPT !.nvic = FALSE, !.TXTOKAY = FALSE, !.RCVOKAY = okay,
                          !.request_in_progress = TRUE, !.completion_handler = handler]
           q == [p EXCEPT !.cmd_opcode = opcode, !.cmd = params, !.data = <<>>, !.pages = pages]
           d == [q EXCEPT !.response = Uninitialised, !.response_size = size, !.response_idx = 0]
<1>1. s \in ComblkType BY SilentType
<1>2. f \in ComblkType BY <1>1, AbortType
<1>3. Calls(c, f)
  <2>1. Completes(s, f) BY <1>1, AbortCompletes
  <2> QED BY <1>2, <2>1, SilentCalls
<1>4. Prepared(c, request) = d BY DEF Prepared, s
<1> HIDE DEF f
<1>5. /\ opcode \in Commands /\ params \in Text /\ pages \in Texts
      /\ size \in Size /\ handler \in Handlers /\ okay \in BOOLEAN
  BY RequestTypes
<1> HIDE DEF opcode, params, pages, size, handler, okay
<1>6. p \in ComblkType BY <1>2, <1>5, ZenonT(60) DEF ComblkType
<1>7. p.nvic = FALSE /\ p.completion_handler = handler /\ p.called = f.called
  BY <1>2 DEF ComblkType
<1> HIDE DEF p
<1>8. <<>> \in Text BY DEF Text
<1>9. q \in ComblkType BY <1>5, <1>6, <1>8, ZenonT(60) DEF ComblkType
<1>10. q.cmd = params /\ q.data = <<>> /\ q.pages = pages BY <1>6 DEF ComblkType
<1>11. q.cmd_opcode = opcode /\ q.completion_handler = handler BY <1>6, <1>7 DEF ComblkType
<1>12. q.nvic = FALSE /\ q.called = f.called BY <1>6, <1>7 DEF ComblkType
<1> HIDE DEF q
<1>13. d.cmd = params /\ d.data = <<>> /\ d.pages = pages BY <1>9, <1>10 DEF ComblkType
<1>14. d.cmd_opcode = opcode /\ d.completion_handler = handler BY <1>9, <1>11 DEF ComblkType
<1>15. d.nvic = FALSE /\ d.called = f.called BY <1>9, <1>12 DEF ComblkType
<1> HIDE DEF d
<1>16. Called(c, d) BY <1>3, <1>15 DEF Calls, Called
<1> QED BY <1>4, <1>13, <1>14, <1>15, <1>16 DEF opcode, params, pages, handler

LEMMA SendOpcodeSends ==
  ASSUME NEW c \in ComblkType
  PROVE  LET d == send_cmd_opcode(c)
         IN  /\ Unsent(c, d) /\ d.cmd_opcode = c.cmd_opcode /\ d.nvic = c.nvic
             /\ d.completion_handler = c.completion_handler
             /\ d.called = <<>> /\ d.flushed = FALSE
<1> DEFINE s == Silent(c)
           w == <<Opcode(c.cmd_opcode)>>
           d == [s EXCEPT !.sent = w]
<1>1. /\ s \in ComblkType /\ s.called = <<>> /\ s.flushed = FALSE
      /\ s.cmd_opcode = c.cmd_opcode /\ s.cmd = c.cmd /\ s.data = c.data /\ s.pages = c.pages
  BY SilentType
<1>2. s.completion_handler = c.completion_handler BY SilentListens
<1>3. s.nvic = c.nvic BY DEF Silent, ComblkType
<1>4. send_cmd_opcode(c) = d BY DEF send_cmd_opcode
<1> HIDE DEF s, w
<1>5. d.cmd = s.cmd /\ d.data = s.data /\ d.pages = s.pages BY <1>1 DEF ComblkType
<1>6. d.cmd_opcode = s.cmd_opcode /\ d.nvic = s.nvic BY <1>1 DEF ComblkType
<1>7. d.completion_handler = s.completion_handler /\ d.called = s.called /\ d.flushed = s.flushed
  BY <1>1 DEF ComblkType
<1> HIDE DEF d
<1> QED BY <1>1, <1>2, <1>3, <1>4, <1>5, <1>6, <1>7 DEF Unsent

LEMMA ArmedSends ==
  ASSUME NEW c \in ComblkType, NEW kind \in {"ptr", "cmd", "paged"}, NEW room \in Nat
  PROVE  LET d == Armed(c, kind, room)
         IN  /\ d.cmd_opcode = c.cmd_opcode /\ d.completion_handler = c.completion_handler
             /\ d.called = <<>> /\ d.flushed = FALSE
             /\ d.sent \in Seq(DataWord) /\ Bytes(d.sent) \o Left(d) = Left(c)
             /\ ParameterFirst(c) => ParameterFirst(d)
             /\ kind = "paged" => Ready(d)
<1> DEFINE s == Silent(c)
           w == Sent(c.cmd, room)
           r == Rest(c.cmd, room)
           t == IF r # <<>> THEN "TX_CMD" ELSE AfterCommand(kind)
           tok == kind = "paged"
           d == [s EXCEPT !.sent = w, !.cmd = r, !.state = t,
                          !.TXTOKAY = tok, !.RCVOKAY = TRUE, !.nvic = TRUE]
           p == [s EXCEPT !.sent = w, !.cmd = r, !.state = t]
           q == [p EXCEPT !.TXTOKAY = tok, !.RCVOKAY = TRUE, !.nvic = TRUE]
<1>0. Armed(c, kind, room) \in ComblkType BY ArmedType
<1>1. /\ s \in ComblkType /\ s.called = <<>> /\ s.flushed = FALSE
      /\ s.cmd_opcode = c.cmd_opcode /\ s.data = c.data /\ s.pages = c.pages
  BY SilentType
<1>2. s.completion_handler = c.completion_handler BY SilentListens
<1>3. c.cmd \in Text BY DEF ComblkType
<1>4. w \in CommandWords /\ r \in Text BY <1>3, SentType
<1>5. Armed(c, kind, room) = d BY DEF Armed
<1>6. d = q OBVIOUS
<1> HIDE DEF d, s, w, r
<1>7. t \in States /\ tok \in BOOLEAN BY DEF States, AfterCommand
<1>8. (t = "TX_CMD" => r # <<>>) /\ (kind = "paged" /\ t = "TX_PAGED_DATA" => r = <<>>)
  BY DEF AfterCommand
<1> HIDE DEF t, tok
<1>9. p \in ComblkType BY <1>1, <1>4, <1>7, ZenonT(60) DEF ComblkType
<1>10. p.sent = w /\ p.cmd = r /\ p.state = t BY <1>1 DEF ComblkType
<1>11. p.data = s.data /\ p.pages = s.pages /\ p.cmd_opcode = s.cmd_opcode BY <1>1 DEF ComblkType
<1>12. p.completion_handler = s.completion_handler /\ p.called = s.called /\ p.flushed = s.flushed
  BY <1>1 DEF ComblkType
<1> HIDE DEF p
<1>13. q.sent = w /\ q.cmd = r /\ q.state = t BY <1>9, <1>10 DEF ComblkType
<1>14. q.data = c.data /\ q.pages = c.pages /\ q.cmd_opcode = c.cmd_opcode
  BY <1>1, <1>9, <1>11 DEF ComblkType
<1>15. q.completion_handler = c.completion_handler /\ q.called = <<>> /\ q.flushed = FALSE
  BY <1>1, <1>2, <1>9, <1>12 DEF ComblkType
<1>16. q \in ComblkType BY <1>0, <1>5, <1>6
<1> HIDE DEF q
<1>17. /\ q.sent \in Seq(DataWord) /\ Bytes(q.sent) \o Left(q) = Left(c)
       /\ ParameterFirst(c) => ParameterFirst(q)
  BY <1>13, <1>14, <1>16, CommandLeaves DEF w, r
<1>18. kind = "paged" => Ready(q) BY <1>8, <1>13 DEF Ready
<1> QED BY <1>5, <1>6, <1>14, <1>15, <1>17, <1>18

-----------------------------------------------------------------------------
(* The bitstream on its way *)

IspWord == Opcode(ISP_PROGRAMMING)
OtherWord == CommandWord \ {IspWord}
IspBytes == <<0>> \o Bitstream

NotSent(words, ctrl) == words \in Seq(OtherWord) /\ ctrl.opcode # ISP_PROGRAMMING

\* What the controller has got, what is in the FIFO behind the command, and what is left.
Streams(words, ctrl, left) ==
  \/ /\ ctrl.opcode # ISP_PROGRAMMING
     /\ \E before \in Seq(OtherWord), after \in Seq(DataWord) :
          words = before \o (<<IspWord>> \o after) /\ Bytes(after) \o left = IspBytes
  \/ /\ ctrl.opcode = ISP_PROGRAMMING /\ words \in Seq(DataWord)
     /\ ctrl.got \o (Bytes(words) \o left) = IspBytes

Order(c, words, ctrl, m) ==
  IF c.cmd_opcode # ISP_PROGRAMMING THEN NotSent(words, ctrl)
  ELSE /\ ParameterFirst(c) /\ (m \notin {"opcode", "params"} => Ready(c))
       /\ IF m = "opcode" THEN NotSent(words, ctrl) /\ Left(c) = IspBytes
          ELSE Streams(words, ctrl, Left(c))

\* Whose turn it is: a service's completion ends its own request, the driver's interrupt is off
\* while a command is written, and after ISP no request is ever granted.
Turn(c, granted, m, r) ==
  /\ c.completion_handler = "request" => granted /\ m # "prepare"
  /\ m \in {"prepare", "opcode", "params"} => granted
  /\ m \in {"opcode", "params"} => c.nvic = FALSE /\ c.cmd_opcode = r.opcode
  /\ c.cmd_opcode = ISP_PROGRAMMING =>
       /\ granted /\ c.completion_handler # "request"
       /\ m \in {"opcode", "params", "idle", "signal"}

Turns == Turn(comblk, g_request_in_progress, main, request)
Ordered == Order(comblk, tx, serving, main)

LEMMA WordSets ==
  /\ DataWord \subseteq OtherWord /\ OtherWord \subseteq Word /\ DataWord \subseteq Word
  /\ \A w \in OtherWord : w.command => w.byte # ISP_PROGRAMMING
<1>1. ISP_PROGRAMMING \in Nat BY DEF ISP_PROGRAMMING
<1>2. IspWord.command = TRUE /\ IspWord.byte = ISP_PROGRAMMING BY DEF IspWord, Opcode
<1>3. DataWord \subseteq OtherWord BY <1>2 DEF DataWord, OtherWord, CommandWord
<1>4. OtherWord \subseteq Word /\ DataWord \subseteq Word BY DEF OtherWord, CommandWord, DataWord
<1>5. ASSUME NEW w \in OtherWord, w.command PROVE w.byte # ISP_PROGRAMMING
  <2>1. w \in Word /\ w # IspWord BY DEF OtherWord, CommandWord
  <2>2. w.command = TRUE BY <1>5, <2>1 DEF Word
  <2>3. w = [command |-> TRUE, byte |-> w.byte] BY <2>1, <2>2 DEF Word
  <2> QED BY <2>1, <2>3 DEF IspWord, Opcode
<1> QED BY <1>3, <1>4, <1>5

LEMMA BytesConcat ==
  ASSUME NEW s \in Seq(Word)
  PROVE  \A t \in Seq(Word) : Bytes(s \o t) = Bytes(s) \o Bytes(t)
<1> DEFINE T == {t \in Seq(Word) : Bytes(s \o t) = Bytes(s) \o Bytes(t)}
<1> HIDE DEF T
<1>1. <<>> \in T
  <2> DEFINE b == Bytes(s)
  <2>1. b \in Seq(Nat) BY BytesType
  <2>2. Bytes(<<>>) = <<>> BY DEF Bytes
  <2>3. s \o <<>> = s /\ <<>> \in Seq(Word) OBVIOUS
  <2> HIDE DEF b
  <2>4. b \o <<>> = b BY <2>1
  <2> QED BY <2>2, <2>3, <2>4 DEF T, b
<1>2. ASSUME NEW t \in Seq(Word), NEW w \in Word, t \in T PROVE Append(t, w) \in T
  <2> DEFINE a == Bytes(s)
             b == Bytes(t)
             y == w.byte
  <2>1. a \in Seq(Nat) /\ b \in Seq(Nat) BY BytesType
  <2>2. s \o Append(t, w) = Append(s \o t, w) /\ s \o t \in Seq(Word) BY SMT
  <2>3. Bytes(s \o t) = a \o b BY <1>2 DEF T
  <2>4. Bytes(Append(s \o t, w)) = Append(Bytes(s \o t), y) BY <2>2, BytesAppend
  <2>5. Bytes(Append(t, w)) = Append(b, y) BY BytesAppend
  <2>6. y \in Nat BY DEF Word
  <2>7. Append(t, w) \in Seq(Word) OBVIOUS
  <2> HIDE DEF a, b, y
  <2>8. a \o Append(b, y) = Append(a \o b, y) BY <2>1, <2>6, SMT
  <2> QED BY <2>2, <2>3, <2>4, <2>5, <2>7, <2>8 DEF T, a
<1>3. Seq(Word) \subseteq T BY <1>1, <1>2, SeqInduct
<1> QED BY <1>3 DEF T

LEMMA DataBytes ==
  ASSUME NEW s \in Seq(DataWord)
  PROVE  s \in Seq(Word) /\ Bytes(s) \in Seq(Nat)
<1>1. s \in Seq(Word) BY WordSets, SeqGrows
<1> QED BY <1>1, BytesType

\* The driver sends the beginning of what is left.
LEMMA StreamsOn ==
  ASSUME NEW words, NEW ctrl, NEW left \in Seq(Nat), Streams(words, ctrl, left),
         ctrl.got \in Seq(Nat),
         NEW s \in Seq(DataWord), NEW rest \in Seq(Nat), Bytes(s) \o rest = left
  PROVE  Streams(words \o s, ctrl, rest)
<1> DEFINE b == Bytes(s)
<1>1. b \in Seq(Nat) /\ s \in Seq(Word) BY DataBytes
<1>2. CASE ctrl.opcode # ISP_PROGRAMMING
  <2>1. PICK before \in Seq(OtherWord), after \in Seq(DataWord) :
          words = before \o (<<IspWord>> \o after) /\ Bytes(after) \o left = IspBytes
    BY <1>2 DEF Streams
  <2> DEFINE t == after \o s
             a == Bytes(after)
             h == <<IspWord>>
  <2>2. t \in Seq(DataWord) OBVIOUS
  <2>3. words \o s = before \o (h \o t)
    <3> DEFINE W == Word \union {IspWord}
               k == h \o after
    <3>1. DataWord \subseteq W /\ OtherWord \subseteq W /\ h \in Seq(W) BY WordSets
    <3>2. before \in Seq(W) BY <3>1, SeqGrows
    <3>6. h \in Seq(W) /\ after \in Seq(W) /\ s \in Seq(W) BY <3>1, SeqGrows
    <3> HIDE DEF h, W
    <3>7. k \in Seq(W) /\ s \in Seq(W) BY <3>6
    <3>3. words = before \o k BY <2>1 DEF h
    <3>4. k \o s = h \o t
      <4>1. Joined(h, after, s) BY <3>6, Joining, Zenon
      <4> QED BY <4>1 DEF Joined
    <3> HIDE DEF k, t
    <3>5. (before \o k) \o s = before \o (k \o s)
      <4>1. Joined(before, k, s) BY <3>2, <3>7, Joining, Zenon
      <4> QED BY <4>1 DEF Joined
    <3> QED BY <3>3, <3>4, <3>5
  <2>4. a \in Seq(Nat) /\ after \in Seq(Word) BY DataBytes
  <2>5. Bytes(t) = a \o b BY <1>1, <2>4, BytesConcat
  <2> HIDE DEF a, b, t
  <2>6. (a \o b) \o rest = a \o (b \o rest)
    <3>1. a \in Seq(Nat) /\ b \in Seq(Nat) BY <1>1, <2>4
    <3>2. Joined(a, b, rest) BY <3>1, Joining, Zenon
    <3> QED BY <3>2 DEF Joined
  <2>7. Bytes(t) \o rest = IspBytes BY <2>1, <2>5, <2>6 DEF a, b
  <2> QED BY <1>2, <2>2, <2>3, <2>7 DEF Streams
<1>3. CASE ctrl.opcode = ISP_PROGRAMMING
  <2> DEFINE a == Bytes(words)
             g == ctrl.got
  <2>1. words \in Seq(DataWord) /\ g \o (a \o left) = IspBytes BY <1>3 DEF Streams
  <2>2. a \in Seq(Nat) /\ words \in Seq(Word) BY <2>1, DataBytes
  <2>3. Bytes(words \o s) = a \o b BY <1>1, <2>2, BytesConcat
  <2>4. words \o s \in Seq(DataWord) BY <2>1
  <2> HIDE DEF a, b
  <2>5. (a \o b) \o rest = a \o (b \o rest)
    <3>1. a \in Seq(Nat) /\ b \in Seq(Nat) BY <1>1, <2>2
    <3>2. Joined(a, b, rest) BY <3>1, Joining, Zenon
    <3> QED BY <3>2 DEF Joined
  <2>6. Bytes(words \o s) \o rest = a \o left BY <2>3, <2>5 DEF b
  <2> QED BY <1>3, <2>1, <2>4, <2>6 DEF Streams
<1> QED BY <1>2, <1>3

\* The controller takes the next word.
Taken(ctrl, w) ==
  IF w.command THEN [opcode |-> w.byte, got |-> <<>>, reply |-> <<>>, answered |-> FALSE]
  ELSE [ctrl EXCEPT !.got = Append(@, w.byte)]

LEMMA TakenFields ==
  ASSUME NEW ctrl \in Serving, NEW w \in Word
  PROVE  /\ w.command => Taken(ctrl, w).opcode = w.byte /\ Taken(ctrl, w).got = <<>>
         /\ ~w.command => /\ Taken(ctrl, w).opcode = ctrl.opcode
                          /\ Taken(ctrl, w).got = Append(ctrl.got, w.byte)
BY DEF Taken, Serving

LEMMA NotSentTaken ==
  ASSUME NEW words, words # <<>>, NEW ctrl \in Serving, NotSent(words, ctrl)
  PROVE  NotSent(Tail(words), Taken(ctrl, Head(words)))
<1> DEFINE w == Head(words)
           u == Tail(words)
<1>1. w \in OtherWord /\ u \in Seq(OtherWord) BY DEF NotSent
<1>2. w \in Word BY <1>1, WordSets
<1>3. w.command => w.byte # ISP_PROGRAMMING BY <1>1, WordSets
<1> HIDE DEF w, u
<1>4. Taken(ctrl, w).opcode # ISP_PROGRAMMING BY <1>2, <1>3, TakenFields DEF NotSent
<1> QED BY <1>1, <1>4 DEF NotSent, w, u

LEMMA HeadOfConcat ==
  ASSUME NEW A, NEW s \in Seq(A), NEW t \in Seq(A), s # <<>>
  PROVE  Head(s \o t) = Head(s) /\ Tail(s \o t) = Tail(s) \o t
<1> DEFINE x == Head(s)
           u == Tail(s)
<1>1. x \in A /\ u \in Seq(A) /\ s = <<x>> \o u BY SMT
<1> HIDE DEF x, u
<1> DEFINE h == <<x>>
           k == u \o t
<1>2. h \in Seq(A) /\ k \in Seq(A) BY <1>1
<1>3. (h \o u) \o t = h \o k
  <2>1. Joined(h, u, t) BY <1>1, <1>2, Joining, Zenon
  <2> QED BY <2>1 DEF Joined
<1> HIDE DEF k
<1>4. Head(h \o k) = x /\ Tail(h \o k) = k BY <1>1, <1>2, SMT
<1> QED BY <1>1, <1>3, <1>4 DEF x, u, k

LEMMA StreamsTaken ==
  ASSUME NEW words, words # <<>>, NEW ctrl \in Serving, NEW left \in Seq(Nat),
         Streams(words, ctrl, left)
  PROVE  Streams(Tail(words), Taken(ctrl, Head(words)), left)
<1> DEFINE w == Head(words)
           u == Tail(words)
           next == Taken(ctrl, w)
<1>1. CASE ctrl.opcode # ISP_PROGRAMMING
  <2>1. PICK before \in Seq(OtherWord), after \in Seq(DataWord) :
          words = before \o (<<IspWord>> \o after) /\ Bytes(after) \o left = IspBytes
    BY <1>1 DEF Streams
  <2> DEFINE W == Word \union {IspWord}
             k == <<IspWord>> \o after
             b == Bytes(after) \o left
  <2>2. before \in Seq(W) /\ after \in Seq(W) /\ k \in Seq(W)
    <3>1. DataWord \subseteq W /\ OtherWord \subseteq W BY WordSets
    <3>2. before \in Seq(W) /\ after \in Seq(W) BY <3>1, SeqGrows
    <3> QED BY <3>2
  <2>3. CASE before = <<>>
    <3>1. words = k
      <4> HIDE DEF k, W
      <4>1. words = <<>> \o k BY <2>1, <2>3 DEF k
      <4> QED BY <2>2, <4>1
    <3>2. w = IspWord /\ u = after BY <3>1, SMT
    <3>3. IspWord \in Word /\ IspWord.command /\ IspWord.byte = ISP_PROGRAMMING
      BY DEF IspWord, Opcode, Word, ISP_PROGRAMMING
    <3> HIDE DEF w, u
    <3>4. next.opcode = ISP_PROGRAMMING /\ next.got = <<>> BY <3>2, <3>3, TakenFields
    <3>5. b \in Seq(Nat) /\ b = IspBytes
      <4> DEFINE a == Bytes(after)
      <4>1. a \in Seq(Nat) BY DataBytes
      <4> HIDE DEF a
      <4>2. a \o left \in Seq(Nat) BY <4>1
      <4> QED BY <2>1, <4>2 DEF a
    <3> HIDE DEF b, next
    <3>6. <<>> \o b = b BY <3>5
    <3> QED BY <3>2, <3>4, <3>5, <3>6 DEF Streams, b, u, next, w
  <2>4. CASE before # <<>>
    <3> DEFINE v == Tail(before)
    <3>1. Head(before) \in OtherWord /\ v \in Seq(OtherWord) BY <2>4
    <3>2. w = Head(before) /\ u = v \o k
      <4> HIDE DEF k, W, v
      <4>1. words = before \o k BY <2>1 DEF k
      <4>2. Head(before \o k) = Head(before) /\ Tail(before \o k) = Tail(before) \o k
        BY <2>2, <2>4, HeadOfConcat
      <4> QED BY <4>1, <4>2 DEF v
    <3> HIDE DEF w, u, v
    <3>3. w \in Word /\ (w.command => w.byte # ISP_PROGRAMMING) BY <3>1, <3>2, WordSets
    <3>4. next.opcode # ISP_PROGRAMMING BY <1>1, <3>3, TakenFields
    <3> HIDE DEF next
    <3> QED BY <2>1, <3>1, <3>2, <3>4 DEF Streams, u, next, w
  <2> QED BY <2>3, <2>4
<1>2. CASE ctrl.opcode = ISP_PROGRAMMING
  <2> DEFINE a == Bytes(u)
             g == ctrl.got
             y == w.byte
             h == <<y>>
  <2>1. words \in Seq(DataWord) /\ g \o (Bytes(words) \o left) = IspBytes BY <1>2 DEF Streams
  <2>2. w \in DataWord /\ u \in Seq(DataWord) /\ words = <<w>> \o u BY <2>1, SMT
  <2>3. w \in Word /\ ~w.command /\ y \in Nat BY <2>2 DEF DataWord, Word
  <2> HIDE DEF w, u
  <2>4. a \in Seq(Nat) /\ u \in Seq(Word) BY <2>2, DataBytes
  <2>5. Bytes(words) = h \o a BY <2>2, <2>3, <2>4, BytesPrepend
  <2>6. next.opcode = ISP_PROGRAMMING /\ next.got = Append(g, y) BY <1>2, <2>3, TakenFields
  <2>7. g \in Seq(Nat) BY DEF Serving, Text
  <2> HIDE DEF a, g, y, next
  <2>8. Append(g, y) = g \o h /\ h \in Seq(Nat) BY <2>3, <2>7, SMT
  <2> HIDE DEF h
  <2> DEFINE z == a \o left
  <2>9. z \in Seq(Nat) BY <2>4
  <2>10. (h \o a) \o left = h \o z
    <3>1. Joined(h, a, left) BY <2>4, <2>8, Joining, Zenon
    <3> QED BY <3>1 DEF Joined
  <2> HIDE DEF z
  <2>11. (g \o h) \o z = g \o (h \o z)
    <3>1. Joined(g, h, z) BY <2>7, <2>8, <2>9, Joining, Zenon
    <3> QED BY <3>1 DEF Joined
  <2>12. next.got \o (a \o left) = IspBytes BY <2>1, <2>5, <2>6, <2>8, <2>10, <2>11 DEF g, z
  <2> QED BY <2>2, <2>6, <2>12 DEF Streams, a, u, next, w
<1> QED BY <1>1, <1>2

LEMMA NothingFlattened == Bitstream \in Seq(Nat) /\ IspBytes \in Seq(Nat)
<1>1. Pages \in Seq(Seq(Nat))
  <2> DEFINE B == 0..255
  <2>1. Pages \in Seq(Seq(B)) BY SysServicesAssumption
  <2>2. B \subseteq Nat BY SMT
  <2> HIDE DEF B
  <2>3. Seq(B) \subseteq Seq(Nat) BY <2>2, SeqGrows
  <2>4. Seq(Seq(B)) \subseteq Seq(Seq(Nat)) BY <2>3, SeqGrows
  <2> QED BY <2>1, <2>4
<1>2. Bitstream \in Seq(Nat) BY <1>1, FlattenType DEF Bitstream
<1> DEFINE b == Bitstream
<1> HIDE DEF b
<1>3. b \in Seq(Nat) BY <1>2 DEF b
<1>4. <<0>> \o b \in Seq(Nat) BY <1>3
<1> QED BY <1>2, <1>4 DEF IspBytes, b

LEMMA OpcodeIsp ==
  ASSUME request \in Requests, request.opcode = ISP_PROGRAMMING
  PROVE  /\ request.kind = "paged" /\ request.handler = "isp"
         /\ request.params = <<0>> /\ request.pages = Pages
<1>1. request # Serial /\ request # Digest
  BY DEF Serial, Digest, SERIAL_NUMBER, DIGEST_CHECK, ISP_PROGRAMMING
<1>2. request = Isp BY <1>1 DEF Requests
<1> QED BY <1>2 DEF Isp

\* The driver's record after a step, with all but what the step did beyond the globals.
LEMMA SilentKeeps ==
  ASSUME NEW d \in ComblkType
  PROVE  LET s == Silent(d)
         IN  /\ s.cmd_opcode = d.cmd_opcode /\ s.completion_handler = d.completion_handler
             /\ s.nvic = d.nvic /\ Left(s) = Left(d)
             /\ ParameterFirst(s) <=> ParameterFirst(d)
             /\ Ready(s) <=> Ready(d)
<1> DEFINE s == Silent(d)
<1>1. /\ s.state = d.state /\ s.cmd_opcode = d.cmd_opcode
      /\ s.cmd = d.cmd /\ s.data = d.data /\ s.pages = d.pages
  BY SilentType
<1>2. s.completion_handler = d.completion_handler BY SilentListens
<1>3. s.nvic = d.nvic BY DEF Silent, ComblkType
<1> HIDE DEF s
<1>4. Left(s) = Left(d) BY <1>1 DEF Left
<1>5. (ParameterFirst(s) <=> ParameterFirst(d)) /\ (Ready(s) <=> Ready(d))
  BY <1>1 DEF ParameterFirst, Ready
<1> QED BY <1>1, <1>2, <1>3, <1>4, <1>5 DEF s

\* A step that calls no service's handler leaves the grant of requests as it is.
LEMMA SteppedGrant ==
  ASSUME NEW c, NEW d, Stepped(d), Called(c, d),
         d.called = <<>> \/ c.completion_handler # "request"
  PROVE  g_request_in_progress' = g_request_in_progress
<1>1. CallsOf(d, "request") = <<>> BY CallsRequest
<1>2. request_completion_handler(d) BY DEF Stepped
<1> QED BY <1>1, <1>2 DEF request_completion_handler, services

LEMMA NotSentMore ==
  ASSUME NEW words, NEW ctrl, NotSent(words, ctrl), NEW s \in Seq(OtherWord), NEW flushed
  PROVE  NotSent((IF flushed THEN <<>> ELSE words) \o s, ctrl)
<1>1. words \in Seq(OtherWord) BY DEF NotSent
<1>2. <<>> \o s \in Seq(OtherWord) /\ words \o s \in Seq(OtherWord) BY <1>1
<1> QED BY <1>2 DEF NotSent

LEMMA BitstreamInit == Init => Turns /\ Ordered
<1> SUFFICES ASSUME Init PROVE Turns /\ Ordered
  OBVIOUS
<1>1. comblk = Initialised /\ main = "idle" /\ tx = <<>> BY DEF Init
<1>2. 0 # ISP_PROGRAMMING BY DEF ISP_PROGRAMMING
<1>3. comblk.completion_handler = "none" /\ comblk.cmd_opcode # ISP_PROGRAMMING
  BY <1>1, <1>2 DEF Initialised
<1>4. serving.opcode # ISP_PROGRAMMING
  <2>1. PICK power_on \in {<<>>} \union {<<Opcode(POR_DIGEST_ERROR_OPCODE), Data(s)>> : s \in Status} :
               serving = [Idle EXCEPT !.reply = power_on]
    BY DEF Init
  <2> QED BY <1>2, <2>1 DEF Idle
<1>5. <<>> \in Seq(OtherWord) OBVIOUS
<1> QED BY <1>1, <1>3, <1>4, <1>5 DEF Turns, Turn, Ordered, Order, NotSent

LEMMA BitstreamInterrupt ==
  ASSUME Types, Turns, Ordered, Interrupt
  PROVE  Turns' /\ Ordered'
<1> DEFINE room == Room
           c == comblk
           d == ComBlk_IRQHandler(comblk, rx, room)
<1>1. c \in ComblkType /\ rx \in Seq(Word) /\ serving.got \in Seq(Nat)
  BY DEF Types, DriverType, RestType, Serving, Text
<1>2. room \in Nat BY RoomNat DEF Types
<1>3. Stepped(d) /\ UNCHANGED <<main, request, serving>> /\ c.nvic
  BY DEF Interrupt, controller, InterruptPending
<1> HIDE DEF room
<1>4. /\ d \in ComblkType
      /\ d.sent \in Seq(DataWord) /\ d.cmd_opcode = c.cmd_opcode /\ Calls(c, d)
      /\ ParameterFirst(c) /\ Ready(c) =>
           /\ d.flushed = FALSE /\ ParameterFirst(d) /\ Ready(d)
           /\ Bytes(d.sent) \o Left(d) = Left(c)
  BY <1>1, <1>2, HandleInterrupt, InterruptSends
<1> HIDE DEF d, c
<1>5. comblk' = Silent(d) /\ tx' = (IF d.flushed THEN <<>> ELSE tx) \o d.sent
  BY <1>3 DEF Stepped
<1>6. Turn(c, g_request_in_progress, main, request) /\ Order(c, tx, serving, main)
  BY DEF Turns, Ordered, c
<1>7. main \notin {"opcode", "params"} BY <1>3, <1>6 DEF Turn
<1>8. /\ comblk'.cmd_opcode = c.cmd_opcode /\ comblk'.completion_handler = d.completion_handler
      /\ Left(comblk') = Left(d)
      /\ ParameterFirst(comblk') <=> ParameterFirst(d)
      /\ Ready(comblk') <=> Ready(d)
  BY <1>4, <1>5, SilentKeeps
<1>9. c.completion_handler # "request" \/ d.called = <<>> =>
        g_request_in_progress' = g_request_in_progress
  BY <1>3, <1>4, SteppedGrant DEF Calls
<1>10. d.completion_handler \in {c.completion_handler, "none"}
       /\ (d.completion_handler = "request" => d.called = <<>>)
  BY <1>4 DEF Calls
<1>11. Turn(comblk', g_request_in_progress', main, request)
  <2>1. comblk'.completion_handler = "request" => g_request_in_progress' /\ main # "prepare"
    BY <1>6, <1>8, <1>9, <1>10 DEF Turn
  <2>2. main \in {"prepare", "opcode", "params"} => g_request_in_progress'
    BY <1>6, <1>7, <1>9 DEF Turn
  <2>3. c.cmd_opcode = ISP_PROGRAMMING =>
          /\ g_request_in_progress' /\ comblk'.completion_handler # "request"
          /\ main \in {"opcode", "params", "idle", "signal"}
    BY <1>6, <1>8, <1>9, <1>10 DEF Turn
  <2> QED BY <1>7, <1>8, <2>1, <2>2, <2>3 DEF Turn
<1>12. Order(comblk', tx', serving, main)
  <2>1. CASE c.cmd_opcode # ISP_PROGRAMMING
    <3>1. NotSent(tx, serving) BY <1>6, <2>1 DEF Order
    <3>2. d.sent \in Seq(OtherWord)
      <4>1. d.sent \in Seq(DataWord) /\ DataWord \subseteq OtherWord BY <1>4, WordSets
      <4> QED BY <4>1, SeqGrows
    <3>3. NotSent(tx', serving) BY <1>5, <3>1, <3>2, NotSentMore
    <3> QED BY <1>8, <2>1, <3>3 DEF Order
  <2>2. CASE c.cmd_opcode = ISP_PROGRAMMING
    <3>1. ParameterFirst(c) /\ Ready(c) /\ Streams(tx, serving, Left(c))
      BY <1>6, <1>7, <2>2 DEF Order
    <3>2. /\ d.flushed = FALSE /\ ParameterFirst(d) /\ Ready(d)
          /\ Bytes(d.sent) \o Left(d) = Left(c)
      BY <1>4, <3>1
    <3>3. tx' = tx \o d.sent BY <1>5, <3>2
    <3>4. Left(c) \in Seq(Nat) /\ Left(d) \in Seq(Nat)
      <4>1. Left(c) \in Seq(Nat) BY <1>1, LeftType DEF c
      <4>2. Left(d) \in Seq(Nat) BY <1>4, LeftType
      <4> QED BY <4>1, <4>2
    <3>5. Streams(tx \o d.sent, serving, Left(d))
      <4> DEFINE s == d.sent
                 l == Left(c)
                 r == Left(d)
      <4>1. s \in Seq(DataWord) /\ l \in Seq(Nat) /\ r \in Seq(Nat) /\ Bytes(s) \o r = l
        BY <1>4, <3>2, <3>4
      <4>2. Streams(tx, serving, l) BY <3>1
      <4> HIDE DEF s, l, r
      <4>3. Streams(tx \o s, serving, r) BY <1>1, <4>1, <4>2, StreamsOn
      <4> QED BY <4>3 DEF s, r
    <3> QED BY <1>7, <1>8, <2>2, <3>2, <3>3, <3>5 DEF Order
  <2> QED BY <2>1, <2>2
<1> QED BY <1>3, <1>11, <1>12 DEF Turns, Ordered

LEMMA BitstreamPrepares ==
  ASSUME Types, Turns, Ordered, Prepares
  PROVE  Turns' /\ Ordered'
<1> DEFINE c == comblk
           d == Prepared(comblk, request)
<1>1. c \in ComblkType /\ request \in Requests BY DEF Types, DriverType, RestType
<1>2. Stepped(d) /\ UNCHANGED <<request, serving>> /\ main = "prepare" /\ main' = "opcode"
  BY DEF Prepares, controller
<1>3. d \in ComblkType /\ d.sent = <<>> BY <1>1, PreparedType
<1>4. /\ d.cmd = request.params /\ d.data = <<>> /\ d.pages = request.pages
      /\ d.cmd_opcode = request.opcode /\ d.completion_handler = request.handler
      /\ d.nvic = FALSE /\ Called(c, d)
  BY <1>1, PreparedRequest
<1> HIDE DEF d, c
<1>5. comblk' = Silent(d) /\ tx' = (IF d.flushed THEN <<>> ELSE tx) \o d.sent
  BY <1>2 DEF Stepped
<1>6. Turn(c, g_request_in_progress, main, request) /\ Order(c, tx, serving, main)
  BY DEF Turns, Ordered, c
<1>7. c.completion_handler # "request" /\ g_request_in_progress /\ c.cmd_opcode # ISP_PROGRAMMING
  BY <1>2, <1>6 DEF Turn
<1>8. g_request_in_progress' = g_request_in_progress BY <1>2, <1>4, <1>7, SteppedGrant
<1>9. /\ comblk'.cmd_opcode = request.opcode /\ comblk'.completion_handler = request.handler
      /\ comblk'.nvic = FALSE /\ Left(comblk') = Left(d)
      /\ ParameterFirst(comblk') <=> ParameterFirst(d)
  BY <1>3, <1>4, <1>5, SilentKeeps
<1>10. NotSent(tx', serving)
  <2>1. NotSent(tx, serving) BY <1>6, <1>7 DEF Order
  <2>2. d.sent \in Seq(OtherWord)
    <3>1. <<>> \in Seq(OtherWord) OBVIOUS
    <3> QED BY <1>3, <3>1
  <2> QED BY <1>5, <2>1, <2>2, NotSentMore
<1>11. CASE request.opcode # ISP_PROGRAMMING
  <2>1. Turn(comblk', g_request_in_progress', main', request')
    BY <1>2, <1>7, <1>8, <1>9, <1>11 DEF Turn
  <2>2. Order(comblk', tx', serving', main') BY <1>2, <1>9, <1>10, <1>11 DEF Order
  <2> QED BY <2>1, <2>2 DEF Turns, Ordered
<1>12. CASE request.opcode = ISP_PROGRAMMING
  <2>1. request.handler = "isp" /\ request.params = <<0>> /\ request.pages = Pages
    BY <1>1, <1>12, OpcodeIsp
  <2>2. Left(d) = IspBytes /\ ParameterFirst(d)
    <3> DEFINE b == Bitstream
    <3>1. Left(d) = <<0>> \o (<<>> \o b) BY <1>4, <2>1 DEF Left, Bitstream
    <3>2. b \in Seq(Nat) BY NothingFlattened
    <3> HIDE DEF b
    <3>3. <<>> \o b = b BY <3>2
    <3> QED BY <1>4, <2>1, <3>1, <3>3 DEF IspBytes, ParameterFirst, b
  <2>3. Turn(comblk', g_request_in_progress', main', request')
    BY <1>2, <1>7, <1>8, <1>9, <1>12, <2>1 DEF Turn
  <2>4. Order(comblk', tx', serving', main')
    BY <1>2, <1>9, <1>10, <1>12, <2>2 DEF Order
  <2> QED BY <2>3, <2>4 DEF Turns, Ordered
<1> QED BY <1>11, <1>12

LEMMA BitstreamSendsOpcode ==
  ASSUME Types, Turns, Ordered, SendsOpcode
  PROVE  Turns' /\ Ordered'
<1> DEFINE c == comblk
           d == send_cmd_opcode(comblk)
<1>1. c \in ComblkType /\ request \in Requests BY DEF Types, DriverType, RestType
<1>2. Stepped(d) /\ UNCHANGED <<request, serving>> /\ main = "opcode" /\ main' = "params"
  BY DEF SendsOpcode, controller
<1>3. d \in ComblkType /\ d.sent = <<Opcode(c.cmd_opcode)>> BY <1>1, SendOpcodeType
<1>4. /\ Unsent(c, d) /\ d.cmd_opcode = c.cmd_opcode /\ d.nvic = c.nvic
      /\ d.completion_handler = c.completion_handler /\ d.called = <<>> /\ d.flushed = FALSE
  BY <1>1, SendOpcodeSends
<1>0. c.cmd_opcode \in Commands BY <1>1 DEF ComblkType
<1> HIDE DEF d, c
<1>5. comblk' = Silent(d) /\ tx' = tx \o d.sent
  BY <1>2, <1>4 DEF Stepped
<1>6. Turn(c, g_request_in_progress, main, request) /\ Order(c, tx, serving, main)
  BY DEF Turns, Ordered, c
<1>8. g_request_in_progress' = g_request_in_progress
  <2>1. Called(c, d) BY <1>4 DEF Called
  <2> QED BY <1>2, <1>4, <2>1, SteppedGrant
<1>9. /\ comblk'.cmd_opcode = c.cmd_opcode /\ comblk'.completion_handler = c.completion_handler
      /\ comblk'.nvic = c.nvic /\ Left(comblk') = Left(d)
      /\ ParameterFirst(comblk') <=> ParameterFirst(d)
  BY <1>3, <1>4, <1>5, SilentKeeps
<1>10. Turn(comblk', g_request_in_progress', main', request')
  BY <1>2, <1>6, <1>8, <1>9 DEF Turn
<1>11. CASE c.cmd_opcode # ISP_PROGRAMMING
  <2>1. NotSent(tx, serving) BY <1>6, <1>11 DEF Order
  <2>2. Opcode(c.cmd_opcode) \in OtherWord
    <3>1. c.cmd_opcode \in Nat BY <1>0 DEF Commands, SERIAL_NUMBER, DIGEST_CHECK, ISP_PROGRAMMING
    <3> QED BY <1>0, <1>11, <3>1 DEF Opcode, OtherWord, IspWord, CommandWord, Word
  <2>3. d.sent \in Seq(OtherWord)
    <3>1. <<Opcode(c.cmd_opcode)>> \in Seq(OtherWord) BY <2>2
    <3> QED BY <1>3, <3>1
  <2>4. NotSent(tx \o d.sent, serving)
    <3>1. NotSent((IF FALSE THEN <<>> ELSE tx) \o d.sent, serving) BY <2>1, <2>3, NotSentMore
    <3> QED BY <3>1
  <2>5. Order(comblk', tx', serving', main') BY <1>2, <1>5, <1>9, <1>11, <2>4 DEF Order
  <2> QED BY <1>10, <2>5 DEF Turns, Ordered
<1>12. CASE c.cmd_opcode = ISP_PROGRAMMING
  <2>1. NotSent(tx, serving) /\ Left(c) = IspBytes /\ ParameterFirst(c)
    BY <1>2, <1>6, <1>12 DEF Order
  <2>2. Left(d) = IspBytes /\ ParameterFirst(d) BY <1>4, <2>1 DEF Left, Unsent, ParameterFirst
  <2>3. d.sent = <<IspWord>> BY <1>3, <1>12 DEF IspWord
  <2>4. Streams(tx \o d.sent, serving, Left(d))
    <3> DEFINE h == <<IspWord>>
               e == <<>>
               b == IspBytes
    <3>1. h \o e = h /\ e \in Seq(DataWord) OBVIOUS
    <3>2. Bytes(e) = <<>> BY DEF Bytes
    <3>3. b \in Seq(Nat) BY NothingFlattened
    <3> HIDE DEF b
    <3>4. <<>> \o b = b BY <3>3
    <3> HIDE DEF e
    <3>5. tx \in Seq(OtherWord) /\ serving.opcode # ISP_PROGRAMMING BY <2>1 DEF NotSent
    <3>6. tx \o d.sent = tx \o (h \o e) /\ Bytes(e) \o Left(d) = IspBytes
      BY <2>2, <2>3, <3>1, <3>2, <3>4 DEF b
    <3> QED BY <3>1, <3>5, <3>6 DEF Streams
  <2>5. Order(comblk', tx', serving', main')
    BY <1>2, <1>5, <1>9, <1>12, <2>2, <2>4 DEF Order
  <2> QED BY <1>10, <2>5 DEF Turns, Ordered
<1> QED BY <1>11, <1>12

LEMMA BitstreamSendsParameters ==
  ASSUME Types, Turns, Ordered, SendsParameters
  PROVE  Turns' /\ Ordered'
<1> DEFINE c == comblk
           room == Room
           kind == request.kind
           d == Armed(comblk, kind, room)
<1>1. c \in ComblkType /\ request \in Requests /\ serving.got \in Seq(Nat)
  BY DEF Types, DriverType, RestType, Serving, Text
<1>2. /\ Stepped(d) /\ UNCHANGED <<request, serving>>
      /\ main = "params" /\ main' = IF kind = "paged" THEN "idle" ELSE "wait"
  BY DEF SendsParameters, controller
<1>3. room \in Nat /\ kind \in {"ptr", "cmd", "paged"} BY <1>1, RoomNat, RequestTypes DEF Types
<1> HIDE DEF room, kind
<1>4. /\ d \in ComblkType
      /\ d.cmd_opcode = c.cmd_opcode /\ d.completion_handler = c.completion_handler
      /\ d.called = <<>> /\ d.flushed = FALSE
      /\ d.sent \in Seq(DataWord) /\ Bytes(d.sent) \o Left(d) = Left(c)
      /\ ParameterFirst(c) => ParameterFirst(d)
      /\ kind = "paged" => Ready(d)
  BY <1>1, <1>3, ArmedType, ArmedSends
<1> HIDE DEF d, c
<1>5. comblk' = Silent(d) /\ tx' = tx \o d.sent BY <1>2, <1>4 DEF Stepped
<1>6. Turn(c, g_request_in_progress, main, request) /\ Order(c, tx, serving, main)
  BY DEF Turns, Ordered, c
<1>8. g_request_in_progress' = g_request_in_progress
  <2>1. Called(c, d) BY <1>4 DEF Called
  <2> QED BY <1>2, <1>4, <2>1, SteppedGrant
<1>9. /\ comblk'.cmd_opcode = c.cmd_opcode /\ comblk'.completion_handler = c.completion_handler
      /\ Left(comblk') = Left(d)
      /\ ParameterFirst(comblk') <=> ParameterFirst(d)
      /\ Ready(comblk') <=> Ready(d)
  BY <1>4, <1>5, SilentKeeps
<1>10. main' \in {"idle", "wait"} BY <1>2
<1>11. CASE c.cmd_opcode # ISP_PROGRAMMING
  <2>1. NotSent(tx, serving) BY <1>6, <1>11 DEF Order
  <2>2. d.sent \in Seq(OtherWord)
    <3>1. d.sent \in Seq(DataWord) /\ DataWord \subseteq OtherWord BY <1>4, WordSets
    <3> QED BY <3>1, SeqGrows
  <2>3. NotSent(tx \o d.sent, serving)
    <3>1. NotSent((IF FALSE THEN <<>> ELSE tx) \o d.sent, serving) BY <2>1, <2>2, NotSentMore
    <3> QED BY <3>1
  <2>4. Turn(comblk', g_request_in_progress', main', request')
    BY <1>2, <1>6, <1>8, <1>9, <1>10, <1>11 DEF Turn
  <2>5. Order(comblk', tx', serving', main') BY <1>2, <1>5, <1>9, <1>11, <2>3 DEF Order
  <2> QED BY <2>4, <2>5 DEF Turns, Ordered
<1>12. CASE c.cmd_opcode = ISP_PROGRAMMING
  <2>1. ParameterFirst(c) /\ Streams(tx, serving, Left(c)) BY <1>2, <1>6, <1>12 DEF Order
  <2>2. kind = "paged"
    <3>1. request.opcode = ISP_PROGRAMMING BY <1>2, <1>6, <1>12 DEF Turn
    <3> QED BY <1>1, <3>1, OpcodeIsp DEF kind
  <2>3. Streams(tx \o d.sent, serving, Left(d))
    <3> DEFINE s == d.sent
               l == Left(c)
               r == Left(d)
    <3>1. l \in Seq(Nat) BY <1>1, LeftType DEF c
    <3>2. r \in Seq(Nat) BY <1>4, LeftType
    <3>3. s \in Seq(DataWord) /\ Bytes(s) \o r = l /\ Streams(tx, serving, l) BY <1>4, <2>1
    <3> HIDE DEF s, l, r
    <3>4. Streams(tx \o s, serving, r) BY <1>1, <3>1, <3>2, <3>3, StreamsOn
    <3> QED BY <3>4 DEF s, r
  <2>4. Turn(comblk', g_request_in_progress', main', request')
    BY <1>2, <1>6, <1>8, <1>9, <1>12, <2>2 DEF Turn
  <2>5. main' = "idle" BY <1>2, <2>2
  <2>6. Order(comblk', tx', serving', main')
    BY <1>2, <1>4, <1>5, <1>9, <1>12, <2>1, <2>2, <2>3, <2>5 DEF Order
  <2> QED BY <2>4, <2>6 DEF Turns, Ordered
<1> QED BY <1>11, <1>12

LEMMA BitstreamTakes ==
  ASSUME Types, Turns, Ordered, ControllerTakes
  PROVE  Turns' /\ Ordered'
<1> DEFINE w == Head(tx)
           next == Taken(serving, w)
<1>1. /\ tx # <<>> /\ tx' = Tail(tx) /\ serving' = next
      /\ UNCHANGED <<comblk, g_request_in_progress, main, request>>
  BY DEF ControllerTakes, services, Taken
<1>2. serving \in Serving /\ comblk \in ComblkType BY DEF Types, DriverType, RestType
<1> HIDE DEF next
<1>3. Turns' BY <1>1 DEF Turns
<1>4. NotSent(tx, serving) => NotSent(tx', serving')
  <2>1. NotSent(tx, serving) => NotSent(Tail(tx), next) BY <1>1, <1>2, NotSentTaken DEF next
  <2> QED BY <1>1, <2>1
<1>5. Streams(tx, serving, Left(comblk)) => Streams(tx', serving', Left(comblk))
  <2> DEFINE l == Left(comblk)
  <2>1. l \in Seq(Nat) BY <1>2, LeftType
  <2> HIDE DEF l
  <2>2. Streams(tx, serving, l) => Streams(Tail(tx), next, l) BY <1>1, <1>2, <2>1, StreamsTaken DEF next
  <2> QED BY <1>1, <2>2 DEF l
<1>6. Order(comblk, tx', serving', main) BY <1>4, <1>5 DEF Ordered, Order
<1> QED BY <1>1, <1>3, <1>6 DEF Ordered

\* What matters of the controller is the command it serves and what it has got with it.
LEMMA BitstreamStays ==
  ASSUME Turns, Ordered, UNCHANGED <<comblk, g_request_in_progress, main, request, tx>>,
         serving'.opcode = serving.opcode, serving'.got = serving.got
  PROVE  Turns' /\ Ordered'
<1>1. Turns' BY DEF Turns
<1>2. NotSent(tx, serving) => NotSent(tx, serving') BY DEF NotSent
<1>3. Streams(tx, serving, Left(comblk)) => Streams(tx, serving', Left(comblk)) BY DEF Streams
<1>4. Order(comblk, tx, serving', main) BY <1>2, <1>3 DEF Ordered, Order
<1> QED BY <1>1, <1>4 DEF Ordered

LEMMA BitstreamNext == Types /\ Turns /\ Ordered /\ [Next]_vars => (Turns /\ Ordered)'
<1> SUFFICES ASSUME Types, Turns, Ordered, [Next]_vars PROVE Turns' /\ Ordered'
  OBVIOUS
<1>0. serving \in Serving /\ request \in Requests /\ g_request_in_progress \in BOOLEAN
  BY DEF Types, DriverType, RestType
<1>t. Turn(comblk, g_request_in_progress, main, request) /\ Order(comblk, tx, serving, main)
  BY DEF Turns, Ordered
<1>1. CASE ControllerTakes BY <1>1, BitstreamTakes
<1>2. CASE ControllerAnswers
  <2>1. UNCHANGED <<comblk, g_request_in_progress, main, request, tx>>
    BY <1>2 DEF ControllerAnswers, driver, services
  <2>2. PICK status \in Status :
          serving' = [serving EXCEPT !.answered = TRUE,
            !.reply = <<Opcode(serving.opcode), Data(status)>> \o
                      (IF serving.opcode = SERIAL_NUMBER THEN Words(PointerBytes) ELSE <<>>)]
    BY <1>2 DEF ControllerAnswers
  <2>3. serving'.opcode = serving.opcode /\ serving'.got = serving.got BY <1>0, <2>2 DEF Serving
  <2> QED BY <2>1, <2>3, BitstreamStays
<1>3. CASE ControllerSends
  <2>1. UNCHANGED <<comblk, g_request_in_progress, main, request, tx>>
    BY <1>3 DEF ControllerSends, driver, services
  <2>2. serving'.opcode = serving.opcode /\ serving'.got = serving.got
    BY <1>0, <1>3 DEF ControllerSends, Serving
  <2> QED BY <2>1, <2>2, BitstreamStays
<1>4. CASE ControllerRaises
  <2>1. UNCHANGED <<comblk, g_request_in_progress, main, request, tx, serving>>
    BY <1>4 DEF ControllerRaises, driver, services
  <2> QED BY <2>1, BitstreamStays
<1>5. CASE MSS_SYS_get_serial_number \/ MSS_SYS_check_digest \/ MSS_SYS_start_isp
  <2>1. /\ UNCHANGED <<comblk, g_request_in_progress, tx, serving>>
        /\ main = "idle" /\ main' = "signal"
    BY <1>5 DEF MSS_SYS_get_serial_number, MSS_SYS_check_digest, MSS_SYS_start_isp, Call,
                driver, controller, services
  <2>2. Turn(comblk, g_request_in_progress, main', request') BY <1>t, <2>1 DEF Turn
  <2>3. Order(comblk, tx, serving, main') BY <1>t, <2>1 DEF Order
  <2> QED BY <2>1, <2>2, <2>3 DEF Turns, Ordered
<1>6. CASE signal_request_start
  <2>1. /\ UNCHANGED <<comblk, request, tx, serving>> /\ g_request_in_progress' = TRUE
        /\ main = "signal" /\ main' = "prepare" /\ ~g_request_in_progress
    BY <1>6 DEF signal_request_start, controller
  <2>2. comblk.cmd_opcode # ISP_PROGRAMMING /\ comblk.completion_handler # "request"
    BY <1>t, <2>1 DEF Turn
  <2>3. Turn(comblk, g_request_in_progress', main', request) BY <2>1, <2>2 DEF Turn
  <2>4. Order(comblk, tx, serving, main') BY <1>t, <2>2 DEF Order
  <2> QED BY <2>1, <2>3, <2>4 DEF Turns, Ordered
<1>7. CASE Prepares BY <1>7, BitstreamPrepares
<1>8. CASE SendsOpcode BY <1>8, BitstreamSendsOpcode
<1>9. CASE SendsParameters BY <1>9, BitstreamSendsParameters
<1>10. CASE wait_for_request_completion
  <2>1. /\ UNCHANGED <<comblk, g_request_in_progress, request, tx, serving>>
        /\ main = "wait" /\ main' = "idle"
    BY <1>10 DEF wait_for_request_completion, controller, driver, services
  <2>2. Turn(comblk, g_request_in_progress, main', request) BY <1>t, <2>1 DEF Turn
  <2>3. comblk.cmd_opcode # ISP_PROGRAMMING BY <1>t, <2>1 DEF Turn
  <2>4. Order(comblk, tx, serving, main') BY <1>t, <2>3 DEF Order
  <2> QED BY <2>1, <2>2, <2>4 DEF Turns, Ordered
<1>11. CASE Interrupt BY <1>11, BitstreamInterrupt
<1>12. CASE UNCHANGED vars
  <2>1. UNCHANGED <<comblk, g_request_in_progress, main, request, tx, serving>>
    BY <1>12 DEF vars, driver, controller, services
  <2> QED BY <2>1, BitstreamStays
<1> QED
  BY <1>1, <1>2, <1>3, <1>4, <1>5, <1>6, <1>7, <1>8, <1>9, <1>10, <1>11, <1>12 DEF Next, Application

LEMMA LengthOfConcat ==
  ASSUME NEW A, NEW s \in Seq(A), NEW t \in Seq(A)
  PROVE  Len(s \o t) = Len(s) + Len(t)
OBVIOUS

\* Once the controller has got something, the parameter of the command is gone.
LEMMA ParameterGone ==
  ASSUME NEW c \in ComblkType, ParameterFirst(c), NEW got \in Seq(Nat), got # <<>>,
         NEW b \in Seq(Nat), got \o (b \o Left(c)) = IspBytes
  PROVE  c.cmd = <<>>
<1> SUFFICES ASSUME c.cmd = << 0 >>, c.data = <<>>, c.pages = Pages PROVE FALSE
  BY DEF ParameterFirst
<1> DEFINE l == IspBytes
           f == Bitstream
<1>1. l \in Seq(Nat) BY NothingFlattened
<1>2. Left(c) = l
  <2>1. Left(c) = <<0>> \o (<<>> \o f) BY DEF Left, Bitstream
  <2>2. f \in Seq(Nat) BY NothingFlattened
  <2> HIDE DEF f
  <2>3. <<>> \o f = f BY <2>2
  <2> QED BY <2>1, <2>3 DEF IspBytes, f
<1> HIDE DEF l
<1> DEFINE k == b \o l
<1>3. k \in Seq(Nat) /\ Len(k) = Len(b) + Len(l) BY <1>1
<1>4. got \o k = l BY <1>2 DEF l
<1> HIDE DEF k
<1>5. Len(got \o k) = Len(got) + Len(k) BY <1>3, LengthOfConcat, Zenon
<1>6. Len(got) \in Nat /\ Len(b) \in Nat /\ Len(l) \in Nat /\ Len(got) # 0 BY <1>1
<1> DEFINE x == Len(got)
           y == Len(b)
           z == Len(l)
           n == Len(k)
<1>7. x \in Nat /\ y \in Nat /\ z \in Nat /\ x # 0 /\ n = y + z /\ z = x + n
  BY <1>3, <1>4, <1>5, <1>6
<1> HIDE DEF x, y, z, n
<1> QED BY <1>7, SMT

LEMMA BitstreamOrdered == Types /\ Turns /\ Ordered => BitstreamInOrder
<1> SUFFICES ASSUME Types, Turns, Ordered, serving.opcode = ISP_PROGRAMMING, serving.got # <<>>
             PROVE  Tail(serving.got) \o Bytes(tx) \o comblk.data \o FlattenSeq(comblk.pages)
                      = Bitstream
  BY DEF BitstreamInOrder, Bytes
<1> DEFINE c == comblk
           g == serving.got
           b == Bytes(tx)
           e == comblk.data
           f == FlattenSeq(comblk.pages)
           v == Tail(g)
           s == Bitstream
<1>1. c \in ComblkType /\ g \in Seq(Nat) BY DEF Types, DriverType, RestType, Serving, Text
<1>2. Order(c, tx, serving, main) BY DEF Ordered
<1>3. ParameterFirst(c) /\ Streams(tx, serving, Left(c)) BY <1>2 DEF Order, NotSent
<1>4. tx \in Seq(DataWord) /\ g \o (b \o Left(c)) = IspBytes BY <1>3 DEF Streams
<1>5. b \in Seq(Nat) BY <1>4, DataBytes
<1>6. c.cmd = <<>>
  <2> HIDE DEF b, c, g
  <2> QED BY <1>1, <1>3, <1>4, <1>5, ParameterGone DEF g
<1>7. e \in Seq(Nat) /\ f \in Seq(Nat) BY <1>1, LeftType
<1>8. Left(c) = e \o f
  <2> DEFINE k == e \o f
  <2>1. Left(c) = <<>> \o k BY <1>6 DEF Left
  <2>2. k \in Seq(Nat) BY <1>7
  <2> HIDE DEF k
  <2>3. <<>> \o k = k BY <2>2
  <2> QED BY <2>1, <2>3 DEF k
<1>9. s \in Seq(Nat) BY NothingFlattened
<1>10. g \o (b \o (e \o f)) = <<0>> \o s BY <1>4, <1>8 DEF IspBytes
<1> HIDE DEF b, e, f, s
<1> DEFINE k == b \o (e \o f)
<1>11. k \in Seq(Nat) BY <1>5, <1>7
<1>12. g \o k = <<0>> \o s BY <1>10
<1>13. Tail(g \o k) = v \o k /\ v \in Seq(Nat)
  <2> HIDE DEF k, g
  <2>1. g # <<>> BY DEF g
  <2> QED BY <1>1, <1>11, <2>1, HeadOfConcat
<1>14. Tail(<<0>> \o s) = s
  <2> DEFINE h == <<0>>
             e0 == <<>>
  <2>1. h \in Seq(Nat) /\ h # <<>> /\ Tail(h) = e0 OBVIOUS
  <2> HIDE DEF h
  <2>2. Tail(h \o s) = Tail(h) \o s BY <1>9, <2>1, HeadOfConcat
  <2>3. e0 \o s = s BY <1>9
  <2> QED BY <2>1, <2>2, <2>3 DEF h
<1>15. v \o k = s BY <1>12, <1>13, <1>14
<1> HIDE DEF v
<1>16. ((v \o b) \o e) \o f = v \o k
  <2> DEFINE vb == v \o b
             ef == e \o f
  <2>1. vb \in Seq(Nat) /\ ef \in Seq(Nat) BY <1>5, <1>7, <1>13
  <2>2. Joined(v, b, ef) BY <1>5, <1>13, <2>1, Joining, Zenon
  <2> HIDE DEF vb
  <2>3. Joined(vb, e, f) BY <1>7, <2>1, Joining, Zenon
  <2>4. (vb \o e) \o f = vb \o ef BY <2>3 DEF Joined
  <2>5. vb \o ef = v \o (b \o ef) BY <2>2 DEF Joined, vb
  <2> QED BY <2>4, <2>5 DEF vb, k
<1> QED BY <1>15, <1>16 DEF v, g, b, e, f, s

\* The pages of the bitstream reach the controller in order, each byte once, however full the FIFO
\* is when an interrupt comes and whatever is received in the same interrupt: what the
\* controller has got, what is in the FIFO and what the driver still holds are the bitstream.
THEOREM BitstreamReachesController == Spec => []BitstreamInOrder
<1>1. Init => Types /\ Turns /\ Ordered BY TypesInit, BitstreamInit
<1>2. Types /\ Turns /\ Ordered /\ [Next]_vars => (Types /\ Turns /\ Ordered)'
  BY TypesNext, BitstreamNext
<1> QED BY <1>1, <1>2, BitstreamOrdered, PTL DEF Spec
=================================================================================
