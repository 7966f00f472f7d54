-------------------------- MODULE SysServices_answers --------------------------
(***************************************************************************)
(* Theorems about SysServices: whose answer a service returns, and what    *)
(* the completion handler of in-system programming is told.                *)
(***************************************************************************)
EXTENDS SysServices_proofs

-----------------------------------------------------------------------------
(* What the receive interrupt makes of a word while a service waits *)

\* What of the driver's globals an answer depends on.
Stays(c, d) ==
  /\ d.state = c.state /\ d.cmd_opcode = c.cmd_opcode /\ d.TXTOKAY = c.TXTOKAY
  /\ d.response = c.response /\ d.response_size = c.response_size /\ d.response_idx = c.response_idx
  /\ d.completion_handler = c.completion_handler

LEMMA StaysTwice ==
  ASSUME NEW c, NEW d, NEW e, Stays(c, d), Stays(d, e)
  PROVE  Stays(c, e)
BY DEF Stays

LEMMA SilentStays ==
  ASSUME NEW c \in ComblkType
  PROVE  Stays(c, Silent(c))
<1> DEFINE d == Silent(c)
<1>1. d = [c EXCEPT !.flushed = FALSE, !.sent = <<>>, !.events = <<>>, !.called = <<>>]
  BY DEF Silent
<1> HIDE DEF d
<1>2. d.state = c.state /\ d.cmd_opcode = c.cmd_opcode /\ d.TXTOKAY = c.TXTOKAY
  BY <1>1 DEF ComblkType
<1>3. d.response = c.response /\ d.response_size = c.response_size /\ d.response_idx = c.response_idx
  BY <1>1 DEF ComblkType
<1>4. d.completion_handler = c.completion_handler BY <1>1 DEF ComblkType
<1> QED BY <1>2, <1>3, <1>4 DEF Stays, d

LEMMA ReportStays ==
  ASSUME NEW c \in ComblkType, NEW opcode
  PROVE  /\ Stays(c, process_sys_ctrl_command(c, opcode))
         /\ process_sys_ctrl_command(c, opcode).called = c.called
<1> DEFINE e == Append(c.events, opcode)
           d == process_sys_ctrl_command(c, opcode)
<1>1. d = [c EXCEPT !.events = e] BY DEF process_sys_ctrl_command
<1> HIDE DEF d, e
<1>2. d.state = c.state /\ d.cmd_opcode = c.cmd_opcode /\ d.TXTOKAY = c.TXTOKAY
  BY <1>1 DEF ComblkType
<1>3. d.response = c.response /\ d.response_size = c.response_size /\ d.response_idx = c.response_idx
  BY <1>1 DEF ComblkType
<1>4. d.completion_handler = c.completion_handler /\ d.called = c.called BY <1>1 DEF ComblkType
<1> QED BY <1>2, <1>3, <1>4 DEF Stays, d

\* It does not touch the enable of the other interrupt.
LEMMA CompleteKeepsOkay ==
  ASSUME NEW c \in ComblkType, NEW length
  PROVE  complete_request(c, length).TXTOKAY = c.TXTOKAY
<1> DEFINE call == [handler |-> c.completion_handler, length |-> length, response |-> c.response]
           a == Append(c.called, call)
           d == complete_request(c, length)
<1>1. d = IF c.completion_handler = "none" THEN c
          ELSE [c EXCEPT !.called = a, !.completion_handler = "none", !.request_in_progress = FALSE]
  BY DEF complete_request
<1> HIDE DEF a, d
<1>2. d.TXTOKAY = c.TXTOKAY BY <1>1 DEF ComblkType
<1> QED BY <1>2 DEF d

\* The command word of the answer: a response begins.
LEMMA AnswerBegins ==
  ASSUME NEW c \in ComblkType, c.state = "WAIT_RESPONSE",
         NEW word \in Word, word.command, word.byte = c.cmd_opcode
  PROVE  LET d == handle_rx_okay_irq(c, word)
         IN  /\ d.state = "RX_RESPONSE" /\ d.response_idx = 1 /\ d.response[0] = c.cmd_opcode
             /\ d.cmd_opcode = c.cmd_opcode /\ d.response_size = c.response_size
             /\ d.completion_handler = c.completion_handler /\ d.TXTOKAY = c.TXTOKAY
             /\ d.called = c.called
<1> DEFINE r == [c.response EXCEPT ![0] = word.byte]
           d == [c EXCEPT !.response = r, !.response_idx = 1, !.state = "RX_RESPONSE"]
<1>1. handle_rx_okay_irq(c, word) = d BY DEF handle_rx_okay_irq, RxWait, IsAnswer
<1>2. r[0] = c.cmd_opcode
  <2>1. c.response \in Response /\ 0 \in ResponseBytes BY DEF ComblkType, ResponseBytes
  <2> QED BY <2>1 DEF Response
<1> HIDE DEF r
<1>3. d.state = "RX_RESPONSE" /\ d.response_idx = 1 /\ d.response = r BY DEF ComblkType
<1>4. d.cmd_opcode = c.cmd_opcode /\ d.response_size = c.response_size BY DEF ComblkType
<1>5. d.completion_handler = c.completion_handler /\ d.TXTOKAY = c.TXTOKAY BY DEF ComblkType
<1>6. d.called = c.called BY DEF ComblkType
<1> HIDE DEF d
<1> QED BY <1>1, <1>2, <1>3, <1>4, <1>5, <1>6

\* Any other word is none of a service that waits.
LEMMA OthersPass ==
  ASSUME NEW c \in ComblkType, NEW word \in Word,
         \/ c.state = "WAIT_RESPONSE" /\ (word.command => word.byte # c.cmd_opcode)
         \/ c.state = "RX_RESPONSE" /\ word.command
  PROVE  LET d == handle_rx_okay_irq(c, word) IN Stays(c, d) /\ d.called = c.called
<1> DEFINE p == process_sys_ctrl_command(c, word.byte)
<1>1. handle_rx_okay_irq(c, word) \in {c, p}
  BY DEF handle_rx_okay_irq, RxWait, IsAnswer, RxResponse
<1>2. Stays(c, p) /\ p.called = c.called BY ReportStays
<1>3. Stays(c, c) BY DEF Stays
<1> HIDE DEF p
<1> QED BY <1>1, <1>2, <1>3

\* A byte in the middle of a response, and the last one.
LEMMA ByteStored ==
  ASSUME NEW c \in ComblkType, c.state = "RX_RESPONSE", NEW word \in Word, ~word.command,
         NEW i, i = c.response_idx, i \in 1..(c.response_size - 1),
         c.response[i - 1] # POR_DIGEST_ERROR_OPCODE
  PROVE  LET d == handle_rx_okay_irq(c, word)
             r == [c.response EXCEPT ![i] = word.byte]
         IN  /\ d.cmd_opcode = c.cmd_opcode /\ d.response_size = c.response_size
             /\ d.response = r /\ d.TXTOKAY = c.TXTOKAY
             /\ IF i + 1 = c.response_size
                  THEN IF c.completion_handler = "none"
                         THEN d.completion_handler = "none" /\ d.called = c.called
                         ELSE /\ d.completion_handler = "none"
                              /\ d.called = Append(c.called, [handler |-> c.completion_handler,
                                                              length |-> i + 1, response |-> r])
                  ELSE /\ d.state = "RX_RESPONSE" /\ d.response_idx = i + 1
                       /\ d.completion_handler = c.completion_handler /\ d.called = c.called
<1> DEFINE r == [c.response EXCEPT ![i] = word.byte]
           n == i + 1
           s == [c EXCEPT !.response = r, !.response_idx = n]
           f == complete_request(s, n)
           e == [f EXCEPT !.state = "IDLE"]
           d == handle_rx_okay_irq(c, word)
<1>1. c.response_size \in Size /\ i \in Size /\ i < c.response_size /\ n \in Size
  <2>1. c.response_size \in 0..6 /\ c.response_idx \in 0..6 BY DEF ComblkType, Size
  <2> QED BY <2>1, SMT DEF Size
<1>2. r \in Response
  <2>1. c.response \in Response /\ word.byte \in Nat BY DEF ComblkType, Word
  <2> QED BY <2>1 DEF Response
<1>3. [c EXCEPT !.response[c.response_idx] = word.byte, !.response_idx = @ + 1] = s
  BY DEF ComblkType
<1> HIDE DEF r, n
<1>4. s \in ComblkType BY <1>1, <1>2 DEF ComblkType
<1>5. s.response = r /\ s.response_idx = n /\ s.response_size = c.response_size BY DEF ComblkType
<1>6. s.cmd_opcode = c.cmd_opcode /\ s.TXTOKAY = c.TXTOKAY /\ s.state = c.state BY DEF ComblkType
<1>7. s.completion_handler = c.completion_handler /\ s.called = c.called BY DEF ComblkType
<1>8. d = IF n = c.response_size THEN e ELSE s
  <2>1. d = RxData(c, word.byte) BY DEF handle_rx_okay_irq, RxResponse
  <2>2. i < c.response_size BY <1>1
  <2> DEFINE z == [c EXCEPT !.response[c.response_idx] = word.byte, !.response_idx = @ + 1]
             x == IF c.response_idx < c.response_size THEN z ELSE c
  <2>3. RxData(c, word.byte) = IF x.response_idx = x.response_size
               THEN [complete_request(x, x.response_idx) EXCEPT !.state = "IDLE"]
               ELSE x
    <3>1. c.response[c.response_idx - 1] # POR_DIGEST_ERROR_OPCODE OBVIOUS
    <3> QED BY <3>1, Zenon DEF RxData
  <2>4. x = s BY <1>3, <2>2
  <2> HIDE DEF x, s
  <2> QED BY <1>5, <2>1, <2>3, <2>4 DEF s
<1> HIDE DEF s
<1>9. CASE n # c.response_size
  BY <1>5, <1>6, <1>7, <1>8, <1>9 DEF r, n, d
<1>10. CASE n = c.response_size
  <2> DEFINE call == [handler |-> s.completion_handler, length |-> n, response |-> s.response]
             a == Append(s.called, call)
  <2>1. f = IF s.completion_handler = "none" THEN s
            ELSE [s EXCEPT !.called = a, !.completion_handler = "none", !.request_in_progress = FALSE]
    BY DEF complete_request
  <2>2. f \in ComblkType BY <1>1, <1>4, CompleteType
  <2> HIDE DEF a, f
  <2>3. f.response = s.response /\ f.cmd_opcode = s.cmd_opcode /\ f.response_size = s.response_size
    BY <1>4, <2>1 DEF ComblkType
  <2>4. /\ f.TXTOKAY = s.TXTOKAY /\ f.completion_handler = "none"
        /\ f.called = IF s.completion_handler = "none" THEN s.called ELSE a
    BY <1>4, <2>1 DEF ComblkType
  <2>5. e.response = f.response /\ e.cmd_opcode = f.cmd_opcode /\ e.response_size = f.response_size
    BY <2>2 DEF ComblkType
  <2>6. e.TXTOKAY = f.TXTOKAY /\ e.completion_handler = f.completion_handler /\ e.called = f.called
    BY <2>2 DEF ComblkType
  <2>7. a = Append(c.called, [handler |-> c.completion_handler, length |-> n, response |-> r])
    BY <1>5, <1>7 DEF a
  <2> HIDE DEF e, d
  <2>8. /\ d.cmd_opcode = c.cmd_opcode /\ d.response_size = c.response_size /\ d.response = r
        /\ d.TXTOKAY = c.TXTOKAY /\ d.completion_handler = "none"
        /\ d.called = IF c.completion_handler = "none" THEN c.called ELSE a
    BY <1>5, <1>6, <1>7, <1>8, <1>10, <2>3, <2>4, <2>5, <2>6
  <2> QED BY <1>10, <2>7, <2>8 DEF r, n, d
<1> QED BY <1>9, <1>10

LEMMA RxOkay ==
  ASSUME NEW c \in ComblkType, NEW word \in Word
  PROVE  handle_rx_okay_irq(c, word).TXTOKAY = c.TXTOKAY
<1> DEFINE p == process_sys_ctrl_command(c, word.byte)
           d == handle_rx_okay_irq(c, word)
<1>0. c.state \in States BY DEF ComblkType
<1>1. p.TXTOKAY = c.TXTOKAY BY ReportStays DEF Stays
<1>2. CASE c.state = "IDLE"
  <2> DEFINE r == [c.response EXCEPT ![0] = word.byte, ![1] = 0]
             e == [c EXCEPT !.response = r, !.response_idx = 1, !.state = "RX_RESPONSE"]
  <2>1. d \in {c, p, e} BY <1>2 DEF handle_rx_okay_irq, RxIdle
  <2> HIDE DEF r
  <2>2. e.TXTOKAY = c.TXTOKAY BY DEF ComblkType
  <2> HIDE DEF d, p, e
  <2>3. d.TXTOKAY = c.TXTOKAY BY <1>1, <2>1, <2>2
  <2> QED BY <2>3 DEF d
<1>3. CASE c.state = "WAIT_RESPONSE"
  <2> DEFINE r == [c.response EXCEPT ![0] = word.byte]
             e == [c EXCEPT !.response = r, !.response_idx = 1, !.state = "RX_RESPONSE"]
  <2>1. d \in {c, p, e} BY <1>3 DEF handle_rx_okay_irq, RxWait
  <2> HIDE DEF r
  <2>2. e.TXTOKAY = c.TXTOKAY BY DEF ComblkType
  <2> HIDE DEF d, p, e
  <2>3. d.TXTOKAY = c.TXTOKAY BY <1>1, <2>1, <2>2
  <2> QED BY <2>3 DEF d
<1>4. CASE c.state = "RX_RESPONSE"
  <2> DEFINE q == process_sys_ctrl_command(c, POR_DIGEST_ERROR_OPCODE)
             e == [q EXCEPT !.response[c.response_idx] = word.byte, !.state = "IDLE"]
             s == IF c.response_idx < c.response_size
                    THEN [c EXCEPT !.response[c.response_idx] = word.byte, !.response_idx = @ + 1]
                    ELSE c
             f == complete_request(s, s.response_idx)
             g == [f EXCEPT !.state = "IDLE"]
  <2>1. d \in {p, e, s, g} BY <1>4 DEF handle_rx_okay_irq, RxResponse, RxData
  <2>2. e.TXTOKAY = c.TXTOKAY
    <3>1. POR_DIGEST_ERROR_OPCODE \in Nat BY SMT DEF POR_DIGEST_ERROR_OPCODE
    <3>2. q \in ComblkType /\ q.TXTOKAY = c.TXTOKAY BY <3>1, ReportType, ReportStays DEF Stays
    <3> HIDE DEF q
    <3> QED BY <3>2 DEF ComblkType
  <2>3. s \in ComblkType /\ s.TXTOKAY = c.TXTOKAY /\ s.response_idx \in Size
    <3>1. c.response \in Response /\ c.response_idx \in Size /\ c.response_size \in Size /\ word.byte \in Nat
      BY DEF ComblkType, Word
    <3>2. CASE c.response_idx < c.response_size
      <4> DEFINE r == [c.response EXCEPT ![c.response_idx] = word.byte]
                 n == c.response_idx + 1
                 u == [c EXCEPT !.response = r, !.response_idx = n]
      <4>1. r \in Response BY <3>1, ResponseType
      <4>2. n \in Size BY <3>1, <3>2, SMT DEF Size
      <4>3. s = u BY <3>2
      <4> HIDE DEF s, r, n
      <4>4. u \in ComblkType BY <4>1, <4>2 DEF ComblkType
      <4>5. u.TXTOKAY = c.TXTOKAY /\ u.response_idx = n BY DEF ComblkType
      <4> QED BY <4>2, <4>3, <4>4, <4>5
    <3>3. CASE ~(c.response_idx < c.response_size) BY <3>1, <3>3
    <3> QED BY <3>2, <3>3
  <2> HIDE DEF s
  <2>4. f \in ComblkType /\ f.TXTOKAY = c.TXTOKAY BY <2>3, CompleteType, CompleteKeepsOkay
  <2> HIDE DEF f
  <2>5. g.TXTOKAY = c.TXTOKAY BY <2>4 DEF ComblkType
  <2> HIDE DEF d, p, e, g
  <2> QED BY <1>1, <2>1, <2>2, <2>3, <2>5 DEF d
<1>5. CASE c.state = "TX_PAGED_DATA"
  <2> DEFINE s == [c EXCEPT !.response[1] = word.byte]
             f == complete_request(s, 2)
             g == [f EXCEPT !.state = "IDLE"]
  <2>1. d \in {p, g} BY <1>5 DEF handle_rx_okay_irq, RxPagedData
  <2>2. s \in ComblkType /\ s.TXTOKAY = c.TXTOKAY
    <3> DEFINE r == [c.response EXCEPT ![1] = word.byte]
    <3>1. c.response \in Response /\ word.byte \in Nat BY DEF ComblkType, Word
    <3>2. r \in Response BY <3>1, ResponseType
    <3>3. s = [c EXCEPT !.response = r] OBVIOUS
    <3> HIDE DEF s, r
    <3> QED BY <3>2, <3>3 DEF ComblkType
  <2> HIDE DEF s
  <2>3. 2 \in Size BY DEF Size
  <2>4. f \in ComblkType /\ f.TXTOKAY = c.TXTOKAY BY <2>2, <2>3, CompleteType, CompleteKeepsOkay
  <2> HIDE DEF f
  <2>5. g.TXTOKAY = c.TXTOKAY BY <2>4 DEF ComblkType
  <2> HIDE DEF d, p, g
  <2> QED BY <1>1, <2>1, <2>5 DEF d
<1>6. CASE c.state = "TX_CMD"
  <2>1. d \in {p, c} BY <1>6 DEF handle_rx_okay_irq, RxSending
  <2> HIDE DEF d, p
  <2> QED BY <1>1, <2>1 DEF d
<1> QED BY <1>0, <1>2, <1>3, <1>4, <1>5, <1>6 DEF States

-----------------------------------------------------------------------------
(* The words that are on their way to the driver, but for events *)

NoServiceEvents == Events \cap Commands = {}

Plain == Word \ EventWords
Incoming == Kept(rx, Plain) \o serving.reply

LEMMA PlainReply ==
  ASSUME NoServiceEvents
  PROVE  ReplyWord \subseteq Plain /\ Plain \subseteq Word
<1> SUFFICES ASSUME NEW w \in ReplyWord PROVE w \in Plain
  BY DEF Plain
<1>1. w \in Word /\ (w.command => w.byte \in Commands \union {POR_DIGEST_ERROR_OPCODE}) BY DEF ReplyWord
<1>2. w.command => w.byte \notin Events BY <1>1, SysServicesAssumption DEF NoServiceEvents
<1> QED BY <1>1, <1>2, EventWord DEF Plain

LEMMA KeptPlain ==
  ASSUME NEW s \in Seq(Word)
  PROVE  Kept(s, Plain) \in Seq(Word)
<1>1. Kept(s, Plain) \in Seq(Word \cap Plain) BY KeptSeq
<1>2. Word \cap Plain \subseteq Word OBVIOUS
<1> QED BY <1>1, <1>2, SeqGrows

LEMMA IncomingType ==
  ASSUME RestType
  PROVE  Kept(rx, Plain) \in Seq(Word) /\ serving.reply \in Seq(Word) /\ Incoming \in Seq(Word)
<1>1. rx \in Seq(Word) /\ serving.reply \in Seq(ReplyWord) BY DEF RestType, Serving
<1>2. ReplyWord \subseteq Word BY DEF ReplyWord
<1>3. serving.reply \in Seq(Word) BY <1>1, <1>2, SeqGrows
<1>4. Kept(rx, Plain) \in Seq(Word) BY <1>1, KeptPlain
<1> QED BY <1>3, <1>4 DEF Incoming

\* A word goes from the answer to the FIFO.
LEMMA IncomingSends ==
  ASSUME RestType, NoServiceEvents, ControllerSends
  PROVE  Incoming' = Incoming
<1> DEFINE h == Head(serving.reply)
           u == Tail(serving.reply)
           k == Kept(rx, Plain)
           v == serving.reply
<1>1. /\ serving \in Serving /\ v # <<>> /\ rx' = Append(rx, h)
      /\ serving' = [serving EXCEPT !.reply = Tail(@)]
  BY DEF ControllerSends, RestType
<1>2. serving'.reply = u BY <1>1 DEF Serving
<1>3. rx \in Seq(Word) /\ v \in Seq(ReplyWord) BY DEF RestType, Serving
<1>4. h \in ReplyWord /\ u \in Seq(ReplyWord) /\ v = <<h>> \o u BY <1>1, <1>3, SMT
<1>5. h \in Plain /\ h \in Word BY <1>4, PlainReply
<1>6. Kept(Append(rx, h), Plain) = Append(k, h) BY <1>3, <1>5, KeptAppend
<1>7. k \in Seq(Word) /\ u \in Seq(Word)
  <2>1. ReplyWord \subseteq Word BY DEF ReplyWord
  <2>2. u \in Seq(Word) BY <1>4, <2>1, SeqGrows
  <2> QED BY <1>3, <2>2, KeptPlain
<1>8. Incoming' = Append(k, h) \o u BY <1>1, <1>2, <1>6 DEF Incoming
<1>9. Incoming = k \o (<<h>> \o u) BY <1>4 DEF Incoming
<1> HIDE DEF h, u, k, v
<1>10. Append(k, h) \o u = k \o (<<h>> \o u)
  <2> DEFINE o == <<h>>
  <2>1. o \in Seq(Word) /\ Append(k, h) = k \o o BY <1>5, <1>7, SMT
  <2> HIDE DEF o
  <2>2. Joined(k, o, u) BY <1>7, <2>1, Joining, Zenon
  <2> QED BY <2>1, <2>2 DEF Joined, o
<1> QED BY <1>8, <1>9, <1>10

\* An event changes nothing of it.
LEMMA IncomingRaises ==
  ASSUME RestType, ControllerRaises
  PROVE  Incoming' = Incoming
<1>1. PICK e \in Events : rx' = Append(rx, Opcode(e)) BY DEF ControllerRaises
<1>2. serving' = serving BY DEF ControllerRaises
<1>3. Opcode(e) \in Word /\ Opcode(e) \notin Plain
  <2>1. e \in Nat BY SysServicesAssumption
  <2> QED BY <2>1 DEF Opcode, Word, Plain, EventWords
<1>4. rx \in Seq(Word) BY DEF RestType
<1>5. Kept(Append(rx, Opcode(e)), Plain) = Kept(rx, Plain) BY <1>3, <1>4, KeptAppend
<1> QED BY <1>1, <1>2, <1>5 DEF Incoming

\* The interrupt takes an event, or the first of these words.
LEMMA IncomingTaken ==
  ASSUME RestType, rx # <<>>, rx' = Tail(rx), serving' = serving
  PROVE  LET h == Head(rx)
         IN  /\ h \in Word
             /\ \/ h.command /\ h.byte \in Events /\ Incoming' = Incoming
                \/ Incoming # <<>> /\ h = Head(Incoming) /\ Incoming' = Tail(Incoming)
<1> DEFINE h == Head(rx)
           k == Kept(Tail(rx), Plain)
           v == serving.reply
<1>1. rx \in Seq(Word) /\ v \in Seq(Word) BY IncomingType DEF RestType
<1>2. h \in Word /\ Tail(rx) \in Seq(Word) BY <1>1
<1>3. k \in Seq(Word) BY <1>2, KeptPlain
<1>4. Kept(rx, Plain) = (IF h \in Plain THEN <<h>> ELSE <<>>) \o k BY <1>1, KeptHead
<1>5. Incoming' = k \o v BY DEF Incoming
<1>6. Incoming = Kept(rx, Plain) \o v BY DEF Incoming
<1> HIDE DEF h, k, v
<1>7. CASE h \in Plain
  <2> DEFINE o == <<h>>
  <2>1. o \in Seq(Word) /\ o # <<>> /\ Head(o) = h /\ Tail(o) = <<>> BY <1>2
  <2>2. Incoming = (o \o k) \o v BY <1>4, <1>6, <1>7
  <2> HIDE DEF o
  <2> DEFINE kv == k \o v
  <2>3. kv \in Seq(Word) BY <1>1, <1>3
  <2>4. Joined(o, k, v) BY <1>1, <1>3, <2>1, Joining, Zenon
  <2>5. Incoming = o \o kv BY <2>2, <2>4 DEF Joined
  <2> HIDE DEF kv
  <2>6. Head(o \o kv) = h /\ Tail(o \o kv) = <<>> \o kv BY <2>1, <2>3, HeadOfConcat
  <2>7. <<>> \o kv = kv BY <2>3
  <2>8. o \o kv # <<>>
    <3>1. Len(o) # 0 /\ Len(o) \in Nat /\ Len(kv) \in Nat BY <2>1, <2>3
    <3>2. Len(o \o kv) = Len(o) + Len(kv) BY <2>1, <2>3, Zenon, LengthOfConcat
    <3> QED BY <3>1, <3>2, SMT
  <2> QED BY <1>2, <1>5, <2>5, <2>6, <2>7, <2>8 DEF h, kv
<1>8. CASE h \notin Plain
  <2>1. h.command /\ h.byte \in Events BY <1>2, <1>8, EventWord DEF Plain
  <2>2. <<>> \o k = k BY <1>3
  <2> QED BY <1>2, <1>4, <1>5, <1>6, <1>8, <2>1, <2>2 DEF h
<1> QED BY <1>7, <1>8

-----------------------------------------------------------------------------
(* The words of an answer, behind those of a power-on event *)

Harmless(w) == w.command => w.byte = POR_DIGEST_ERROR_OPCODE
Stale(words) == \A j \in 1..Len(words) : Harmless(words[j])

AnswerWord(r, status, j) ==
  IF j = 1 THEN Opcode(r.opcode) ELSE IF j = 2 THEN Data(status) ELSE Data(PointerBytes[j - 2])
Answer(r, status) == [j \in 1..r.size |-> AnswerWord(r, status, j)]

\* The words end with those of the answer a of n words, the first i of which are gone.
Ends(words, a, n, i) ==
  /\ n - i <= Len(words)
  /\ \A j \in 1..Len(words) :
       IF j <= Len(words) - (n - i) THEN Harmless(words[j]) ELSE words[j] = a[j - Len(words) + n]

LEMMA TailOf ==
  ASSUME NEW A, NEW s \in Seq(A), s # <<>>
  PROVE  /\ Len(s) \in Nat /\ Len(s) >= 1 /\ Tail(s) \in Seq(A) /\ Len(Tail(s)) = Len(s) - 1
         /\ Head(s) = s[1] /\ \A j \in 1..Len(s) - 1 : Tail(s)[j] = s[j + 1]
BY SMT

LEMMA SequenceOf ==
  ASSUME NEW A, NEW n \in Nat, NEW p \in [1..n -> A]
  PROVE  p \in Seq(A) /\ Len(p) = n
OBVIOUS

LEMMA ElementsOfBoth ==
  ASSUME NEW A, NEW s \in Seq(A), NEW t \in Seq(A)
  PROVE  /\ s \o t \in Seq(A) /\ Len(s \o t) = Len(s) + Len(t)
         /\ \A j \in 1..Len(s) + Len(t) : (s \o t)[j] = IF j <= Len(s) THEN s[j] ELSE t[j - Len(s)]
BY SMT

LEMMA StaleTail ==
  ASSUME NEW words \in Seq(Word), words # <<>>, Stale(words)
  PROVE  Harmless(Head(words)) /\ Stale(Tail(words))
<1> DEFINE u == Tail(words)
           n == Len(words)
<1>1. n \in Nat /\ n >= 1 /\ Len(u) = n - 1 /\ Head(words) = words[1] /\ \A j \in 1..n - 1 : u[j] = words[j + 1]
  BY TailOf
<1>2. \A j \in 1..n : Harmless(words[j]) BY DEF Stale
<1> HIDE DEF u, n
<1>3. Harmless(words[1]) BY <1>1, <1>2, SMT
<1>4. ASSUME NEW j \in 1..n - 1 PROVE Harmless(u[j])
  <2>1. j + 1 \in 1..n BY <1>1, SMT
  <2> QED BY <1>1, <1>2, <2>1, Zenon
<1> QED BY <1>1, <1>3, <1>4 DEF Stale, u

\* While there are more words than those of the answer, the first is harmless.
LEMMA EndsLater ==
  ASSUME NEW words \in Seq(Word), NEW a, NEW n \in Nat, NEW i \in 0..n, Ends(words, a, n, i),
         Len(words) # n - i
  PROVE  words # <<>> /\ Harmless(Head(words)) /\ Ends(Tail(words), a, n, i)
<1> DEFINE u == Tail(words)
           l == Len(words)
<1>1. l \in Nat /\ n - i <= l BY DEF Ends
<1>2. words # <<>> /\ l > n - i
  <2>1. l > n - i /\ l > 0 BY <1>1, SMT
  <2> QED BY <2>1
<1>3. l >= 1 /\ Len(u) = l - 1 /\ Head(words) = words[1] /\ \A j \in 1..l - 1 : u[j] = words[j + 1]
  BY <1>2, TailOf
<1>4. \A j \in 1..l : IF j <= l - (n - i) THEN Harmless(words[j]) ELSE words[j] = a[j - l + n]
  BY DEF Ends
<1> HIDE DEF u, l
<1>5. Harmless(words[1])
  <2>1. 1 \in 1..l /\ 1 <= l - (n - i) BY <1>1, <1>2, SMT
  <2> QED BY <1>4, <2>1, Zenon
<1>6. ASSUME NEW j \in 1..l - 1
      PROVE  IF j <= (l - 1) - (n - i) THEN Harmless(u[j]) ELSE u[j] = a[j - (l - 1) + n]
  <2> DEFINE k == j + 1
  <2>1. /\ k \in 1..l /\ (k <= l - (n - i) <=> j <= (l - 1) - (n - i))
        /\ k - l + n = j - (l - 1) + n
    BY <1>1, <1>3, SMT
  <2>3. u[j] = words[k] BY <1>3
  <2> HIDE DEF k
  <2>2. IF k <= l - (n - i) THEN Harmless(words[k]) ELSE words[k] = a[k - l + n]
    BY <1>4, <2>1, Zenon
  <2> QED BY <2>1, <2>2, <2>3, Zenon
<1>7. n - i <= l - 1 BY <1>1, <1>2, SMT
<1> QED BY <1>2, <1>3, <1>5, <1>6, <1>7 DEF Ends, u

\* Then the next word of the answer comes.
LEMMA EndsNext ==
  ASSUME NEW words \in Seq(Word), NEW a, NEW n \in Nat, NEW i \in 0..n - 1, Ends(words, a, n, i),
         Len(words) = n - i
  PROVE  /\ words # <<>> /\ Head(words) = a[i + 1]
         /\ Ends(Tail(words), a, n, i + 1) /\ Len(Tail(words)) = n - (i + 1)
<1> DEFINE u == Tail(words)
           l == Len(words)
<1>1. l \in Nat /\ l = n - i /\ l >= 1 BY SMT
<1>2. words # <<>> BY <1>1
<1>3. Len(u) = l - 1 /\ Head(words) = words[1] /\ \A j \in 1..l - 1 : u[j] = words[j + 1]
  BY <1>2, TailOf
<1>4. \A j \in 1..l : IF j <= l - (n - i) THEN Harmless(words[j]) ELSE words[j] = a[j - l + n]
  BY DEF Ends
<1> HIDE DEF u, l
<1>5. words[1] = a[i + 1]
  <2>1. 1 \in 1..l /\ ~(1 <= l - (n - i)) /\ 1 - l + n = i + 1 BY <1>1, SMT
  <2> QED BY <1>4, <2>1, Zenon
<1>6. ASSUME NEW j \in 1..l - 1
      PROVE  IF j <= (l - 1) - (n - (i + 1)) THEN Harmless(u[j]) ELSE u[j] = a[j - (l - 1) + n]
  <2> DEFINE k == j + 1
  <2>1. /\ k \in 1..l /\ ~(k <= l - (n - i)) /\ ~(j <= (l - 1) - (n - (i + 1)))
        /\ k - l + n = j - (l - 1) + n
    BY <1>1, SMT
  <2>3. u[j] = words[k] BY <1>3
  <2> HIDE DEF k
  <2>2. words[k] = a[k - l + n] BY <1>4, <2>1, Zenon
  <2> QED BY <2>1, <2>2, <2>3, Zenon
<1>7. n - (i + 1) <= l - 1 /\ l - 1 = n - (i + 1) BY <1>1, SMT
<1> QED BY <1>2, <1>3, <1>5, <1>6, <1>7 DEF Ends, u

\* An answer given behind harmless words.
LEMMA EndsBehind ==
  ASSUME NEW words \in Seq(Word), Stale(words), NEW n \in Nat, NEW a, NEW t \in Seq(Word),
         Len(t) = n, \A j \in 1..n : t[j] = a[j]
  PROVE  Ends(words \o t, a, n, 0)
<1> DEFINE k == words \o t
           m == Len(words)
<1>1. /\ m \in Nat /\ Len(k) = m + n /\ \A j \in 1..m : k[j] = words[j]
      /\ \A j \in 1..m + n : j > m => k[j] = t[j - m]
  BY SMT
<1> HIDE DEF k
<1>2. \A j \in 1..m : Harmless(words[j]) BY DEF Stale
<1> HIDE DEF m
<1>3. ASSUME NEW j \in 1..m + n
      PROVE  IF j <= (m + n) - (n - 0) THEN Harmless(k[j]) ELSE k[j] = a[j - (m + n) + n]
  <2>1. CASE j <= m
    <3>1. j \in 1..m /\ j <= (m + n) - (n - 0) BY <1>1, <2>1, SMT
    <3> QED BY <1>1, <1>2, <3>1, Zenon
  <2>2. CASE ~(j <= m)
    <3>1. /\ j - m \in 1..n /\ ~(j <= (m + n) - (n - 0)) /\ j - (m + n) + n = j - m /\ j > m
      BY <1>1, <2>2, SMT
    <3>2. k[j] = t[j - m] BY <1>1, <3>1
    <3>3. t[j - m] = a[j - m] BY <3>1
    <3> QED BY <3>1, <3>2, <3>3, Zenon
  <2> QED BY <2>1, <2>2
<1>4. n - 0 <= m + n BY <1>1, SMT
<1> QED BY <1>1, <1>3, <1>4 DEF Ends, k

\* What the controller sends back is the answer.
LEMMA AnswerSent ==
  ASSUME NEW r \in {Serial, Digest}, NEW status \in Status
  PROVE  LET t == <<Opcode(r.opcode), Data(status)>> \o
                    (IF r.opcode = SERIAL_NUMBER THEN Words(PointerBytes) ELSE <<>>)
         IN  /\ t \in Seq(Word) /\ Len(t) = r.size
             /\ \A j \in 1..r.size : t[j] = Answer(r, status)[j]
<1> DEFINE h == <<Opcode(r.opcode), Data(status)>>
           p == Words(PointerBytes)
<1>1. Opcode(r.opcode) \in Word /\ Data(status) \in Word
  BY DEF Opcode, Data, Word, Serial, Digest, SERIAL_NUMBER, DIGEST_CHECK, Status
<1>2. h \in Seq(Word) /\ Len(h) = 2 /\ h[1] = Opcode(r.opcode) /\ h[2] = Data(status)
  BY <1>1
<1>3. p \in Seq(Word) /\ Len(p) = 4 /\ \A j \in 1..4 : p[j] = Data(PointerBytes[j])
  <2>1. PointerBytes \in Seq(0..255) /\ Len(PointerBytes) = 4 BY SysServicesAssumption
  <2> DEFINE B == 0..255
  <2>7. PointerBytes \in Seq(B) /\ B \subseteq Nat BY <2>1, SMT
  <2> HIDE DEF B
  <2>8. DOMAIN PointerBytes = 1..Len(PointerBytes) /\ \A j \in DOMAIN PointerBytes : PointerBytes[j] \in B
    BY <2>7, ElementsOf
  <2>9. DOMAIN PointerBytes = 1..4 BY <2>1, <2>8
  <2>2. DOMAIN PointerBytes = 1..4 /\ \A j \in 1..4 : PointerBytes[j] \in Nat BY <2>7, <2>8, <2>9
  <2>3. p = [j \in 1..4 |-> Data(PointerBytes[j])] BY <2>2 DEF Words
  <2>4. \A j \in 1..4 : Data(PointerBytes[j]) \in Word BY <2>2 DEF Data, Word
  <2>5. p \in [1..4 -> Word] BY <2>3, <2>4
  <2>6. p \in Seq(Word) /\ Len(p) = 4
    <3>1. 4 \in Nat OBVIOUS
    <3> HIDE DEF p
    <3> QED BY <2>5, <3>1, SequenceOf, ZenonT(40)
  <2> QED BY <2>3, <2>6
<1> HIDE DEF h, p
<1>4. CASE r = Serial
  <2>1. r.opcode = SERIAL_NUMBER /\ r.size = 6 BY <1>4 DEF Serial
  <2> DEFINE t == h \o p
             m == Len(h)
             n == Len(p)
  <2>2. t \in Seq(Word) /\ Len(t) = 6 /\ \A j \in 1..6 : t[j] = IF j <= 2 THEN h[j] ELSE p[j - 2]
    <3>1. /\ t \in Seq(Word) /\ Len(t) = m + n
          /\ \A j \in 1..m + n : t[j] = IF j <= m THEN h[j] ELSE p[j - m]
      BY <1>2, <1>3, ElementsOfBoth, Zenon
    <3>2. m = 2 /\ n = 4 BY <1>2, <1>3
    <3> HIDE DEF t, m, n
    <3>3. m + n = 6 BY <3>2, SMT
    <3> QED BY <3>1, <3>2, <3>3, Zenon
  <2> HIDE DEF t
  <2>3. ASSUME NEW j \in 1..6 PROVE t[j] = Answer(r, status)[j]
    <3>1. Answer(r, status)[j] = AnswerWord(r, status, j) BY <2>1 DEF Answer
    <3>2. j = 1 \/ j = 2 \/ (j > 2 /\ j - 2 \in 1..4 /\ j # 1 /\ j # 2 /\ ~(j <= 2)) BY SMT
    <3>3. t[j] = IF j <= 2 THEN h[j] ELSE p[j - 2] BY <2>2 DEF t
    <3>4. CASE j = 1 BY <1>2, <3>1, <3>3, <3>4, SMT DEF AnswerWord
    <3>5. CASE j = 2 BY <1>2, <3>1, <3>3, <3>5, SMT DEF AnswerWord
    <3>6. CASE j > 2 /\ j - 2 \in 1..4 /\ j # 1 /\ j # 2 /\ ~(j <= 2)
      BY <1>3, <3>1, <3>3, <3>6 DEF AnswerWord
    <3> QED BY <3>2, <3>4, <3>5, <3>6
  <2> QED BY <2>1, <2>2, <2>3 DEF h, p, t
<1>5. CASE r = Digest
  <2>1. r.opcode # SERIAL_NUMBER /\ r.size = 2 BY <1>5 DEF Digest, DIGEST_CHECK, SERIAL_NUMBER
  <2>2. h \o <<>> = h BY <1>2
  <2>3. ASSUME NEW j \in 1..2 PROVE h[j] = Answer(r, status)[j]
    <3>1. Answer(r, status)[j] = AnswerWord(r, status, j) BY <2>1 DEF Answer
    <3>2. j = 1 \/ j = 2 BY SMT
    <3>3. 2 # 1 BY SMT
    <3> QED BY <1>2, <3>1, <3>2, <3>3 DEF AnswerWord
  <2> QED BY <1>2, <2>1, <2>2, <2>3 DEF h
<1> QED BY <1>4, <1>5

-----------------------------------------------------------------------------
(* An exchange of a request and its answer *)

Parameter == Data(Head(request.params))
LastStatus == replied[Len(replied)]
LastAnswer == Answer(request, LastStatus)

Asked ==
  /\ g_request_in_progress /\ request.opcode # ISP_PROGRAMMING
  /\ comblk.completion_handler = "request" /\ comblk.cmd_opcode = request.opcode
  /\ comblk.response_size = request.size

Serves == serving.opcode = request.opcode /\ ~serving.answered /\ serving.reply = <<>>

\* Nothing is asked, and nothing is on its way but what a power-on left.
Resting ==
  /\ main \in {"idle", "signal", "prepare"} /\ (main = "prepare" <=> g_request_in_progress)
  /\ comblk.completion_handler = "none" /\ tx = <<>> /\ serving.answered
  /\ Len(replied) = Len(returned) /\ Stale(Incoming)

Asking ==
  /\ main \in {"opcode", "params"} /\ Asked /\ ~comblk.nvic /\ comblk.cmd = request.params
  /\ \/ main = "opcode" /\ tx = <<>> /\ serving.answered
     \/ main = "params" /\ tx = <<Opcode(request.opcode)>> /\ serving.answered
     \/ main = "params" /\ tx = <<>> /\ Serves /\ serving.got = <<>>
  /\ Len(replied) = Len(returned) /\ Stale(Incoming)

Awaiting ==
  /\ main = "wait" /\ Asked /\ comblk.state = "WAIT_RESPONSE"
  /\ \/ tx = <<Opcode(request.opcode), Parameter>> /\ serving.answered
     \/ tx = <<Parameter>> /\ Serves /\ serving.got = <<>>
     \/ tx = <<>> /\ Serves
  /\ Len(replied) = Len(returned) /\ Stale(Incoming)

\* The answer is on its way, behind what the power-on left.
Coming == comblk.state = "WAIT_RESPONSE" /\ Ends(Incoming, LastAnswer, request.size, 0)

\* The first bytes of the answer have been stored, the others are on their way.
Collecting ==
  /\ comblk.state = "RX_RESPONSE" /\ comblk.response_idx \in 1..request.size - 1
  /\ Len(Incoming) = request.size - comblk.response_idx
  /\ Ends(Incoming, LastAnswer, request.size, comblk.response_idx)
  /\ \A j \in 1..comblk.response_idx : comblk.response[j - 1] = LastAnswer[j].byte

Receiving ==
  /\ main = "wait" /\ Asked /\ tx = <<>> /\ serving.answered
  /\ Len(replied) = Len(returned) + 1
  /\ Coming \/ Collecting

Complete ==
  /\ main = "wait" /\ ~g_request_in_progress /\ comblk.completion_handler = "none"
  /\ tx = <<>> /\ serving.answered
  /\ Len(replied) = Len(returned) + 1 /\ Incoming = <<>>
  /\ g_last_response_length = request.size
  /\ comblk.response[0] = request.opcode /\ comblk.response[1] = LastStatus

\* A byte 241 in the answer has ended it as if it were a power-on event: the service waits on.
CutOff ==
  /\ main = "wait" /\ g_request_in_progress /\ ~comblk.TXTOKAY
  /\ comblk.state = "IDLE" /\ comblk.completion_handler = "request"
  /\ tx = <<>> /\ serving.answered
  /\ \A j \in 1..Len(Incoming) : ~Incoming[j].command

Exchange == ~comblk.TXTOKAY /\ (Resting \/ Asking \/ Awaiting \/ Receiving \/ Complete)

\* ISP has been asked for: no service returns any more.
Programming == comblk.cmd_opcode = ISP_PROGRAMMING

Exchanges == Programming \/ Exchange \/ CutOff

LEMMA ExchangeInit == Init => Exchanges /\ AnswersMatch
<1> SUFFICES ASSUME Init PROVE Exchange /\ AnswersMatch
  BY DEF Exchanges
<1>1. /\ comblk = Initialised /\ g_request_in_progress = FALSE /\ tx = <<>> /\ rx = <<>>
      /\ main = "idle" /\ replied = <<>> /\ returned = <<>>
  BY DEF Init
<1>2. comblk.completion_handler = "none" /\ comblk.TXTOKAY = FALSE BY <1>1 DEF Initialised
<1>3. PICK p \in {<<>>} \union {<<Opcode(POR_DIGEST_ERROR_OPCODE), Data(s)>> : s \in Status} :
        serving = [Idle EXCEPT !.reply = p]
  BY DEF Init
<1>4. serving.answered /\ serving.reply = p BY <1>3 DEF Idle
<1>5. Kept(rx, Plain) = <<>> BY <1>1, KeptNone
<1>6. Stale(p) /\ <<>> \o p = p
  <2>1. CASE p = <<>> BY <2>1 DEF Stale
  <2>2. ASSUME NEW s \in Status, p = <<Opcode(POR_DIGEST_ERROR_OPCODE), Data(s)>>
        PROVE  Stale(p) /\ <<>> \o p = p
    <3> DEFINE o == Opcode(POR_DIGEST_ERROR_OPCODE)
               q == Data(s)
    <3>1. Harmless(o) /\ Harmless(q) BY DEF Harmless, Opcode, Data
    <3> HIDE DEF o, q
    <3>2. Len(p) = 2 /\ p[1] = o /\ p[2] = q /\ <<>> \o p = p BY <2>2 DEF o, q
    <3>3. ASSUME NEW j \in 1..2 PROVE Harmless(p[j])
      <4>1. j = 1 \/ j = 2 BY SMT
      <4> QED BY <3>1, <3>2, <4>1
    <3> QED BY <3>2, <3>3 DEF Stale
  <2> QED BY <2>1, <2>2
<1>7. Stale(Incoming) BY <1>4, <1>5, <1>6 DEF Incoming
<1>8. Len(replied) = Len(returned) /\ Len(returned) = 0 BY <1>1
<1>9. AnswersMatch BY <1>1 DEF AnswersMatch
<1> QED BY <1>1, <1>2, <1>4, <1>7, <1>8, <1>9 DEF Exchange, Resting

\* A step that takes nothing from what is on its way, and gives the controller nothing to do.
LEMMA ExchangeStays ==
  ASSUME Exchange, Stays(comblk, comblk'), Asking => UNCHANGED comblk,
         UNCHANGED <<services, tx, main, request, replied, returned>>,
         Incoming' = Incoming,
         serving'.opcode = serving.opcode, serving'.got = serving.got,
         serving'.answered = serving.answered, serving.reply = <<>> => serving'.reply = <<>>
  PROVE  Exchange'
<1>1. LastStatus' = LastStatus /\ LastAnswer' = LastAnswer /\ Parameter' = Parameter
  BY DEF LastStatus, LastAnswer, Parameter
<1>2. Asked => Asked' BY DEF Asked, services, Stays
<1>3. Serves => Serves' BY DEF Serves
<1>4. Stale(Incoming) => Stale(Incoming)' BY DEF Stale
<1>5. /\ main' = main /\ tx' = tx /\ request' = request
      /\ g_request_in_progress' = g_request_in_progress
      /\ g_last_response_length' = g_last_response_length
      /\ replied' = replied /\ returned' = returned
  BY DEF services
<1>13. /\ comblk'.state = comblk.state /\ comblk'.TXTOKAY = comblk.TXTOKAY
       /\ comblk'.response = comblk.response /\ comblk'.response_idx = comblk.response_idx
       /\ comblk'.completion_handler = comblk.completion_handler
  BY DEF Stays
<1>6. Resting => Resting' BY <1>4, <1>5, <1>13 DEF Resting
<1>7. Asking => Asking' BY <1>2, <1>3, <1>4, <1>5 DEF Asking
<1>8. Awaiting => Awaiting' BY <1>1, <1>2, <1>3, <1>4, <1>5, <1>13 DEF Awaiting
<1>9. Coming => Coming' BY <1>1, <1>5, <1>13 DEF Coming
<1>10. Collecting => Collecting' BY <1>1, <1>5, <1>13 DEF Collecting
<1>11. Receiving => Receiving' BY <1>2, <1>5, <1>9, <1>10 DEF Receiving
<1>12. Complete => Complete' BY <1>1, <1>5, <1>13 DEF Complete
<1> QED BY <1>6, <1>7, <1>8, <1>11, <1>12, <1>13 DEF Exchange

LEMMA ExchangeSends ==
  ASSUME Types, NoServiceEvents, Exchange, ControllerSends
  PROVE  Exchange'
<1>1. Incoming' = Incoming BY IncomingSends DEF Types
<1>2. serving \in Serving /\ serving.reply # <<>> /\ serving' = [serving EXCEPT !.reply = Tail(@)]
  BY DEF ControllerSends, Types, RestType
<1>3. /\ serving'.opcode = serving.opcode /\ serving'.got = serving.got
      /\ serving'.answered = serving.answered
  BY <1>2 DEF Serving
<1>4. UNCHANGED <<comblk, services, tx, main, request, replied, returned>>
  BY DEF ControllerSends, driver
<1>5. Stays(comblk, comblk') BY <1>4 DEF Stays
<1> QED BY <1>1, <1>2, <1>3, <1>4, <1>5, ExchangeStays

LEMMA ExchangeRaises ==
  ASSUME Types, Exchange, ControllerRaises
  PROVE  Exchange'
<1>1. Incoming' = Incoming BY IncomingRaises DEF Types
<1>2. UNCHANGED <<comblk, services, tx, main, request, serving, replied, returned>>
  BY DEF ControllerRaises, driver
<1>3. Stays(comblk, comblk') BY <1>2 DEF Stays
<1> QED BY <1>1, <1>2, <1>3, ExchangeStays

\* The controller takes the opcode of a request, or its parameter.
LEMMA ExchangeTakes ==
  ASSUME Types, Ordered, comblk.cmd_opcode # ISP_PROGRAMMING, Exchange, ControllerTakes
  PROVE  Exchange'
<1> DEFINE h == Head(tx)
<1>1. /\ tx # <<>> /\ (serving.reply = <<>> \/ serving.opcode = ISP_PROGRAMMING)
      /\ h.command => serving.answered
      /\ tx' = Tail(tx) /\ serving' = Taken(serving, h)
  BY DEF ControllerTakes, Taken
<1>2. UNCHANGED <<comblk, services, rx, main, request, replied, returned>> BY DEF ControllerTakes
<1>3. serving \in Serving /\ serving.reply = <<>>
  BY <1>1 DEF Types, RestType, Ordered, Order, NotSent
<1>4. serving'.reply = <<>> BY <1>1, <1>3 DEF Taken, Serving
<1>5. Incoming' = Incoming BY <1>2, <1>3, <1>4 DEF Incoming
<1>6. Asked => Asked' BY <1>2 DEF Asked, services
<1>7. Stale(Incoming) => Stale(Incoming)' BY <1>5 DEF Stale
<1>8. ~Resting /\ ~Receiving /\ ~Complete BY <1>1 DEF Resting, Receiving, Complete
<1>9. h.command => serving' = [opcode |-> h.byte, got |-> <<>>, reply |-> <<>>, answered |-> FALSE]
  BY <1>1 DEF Taken
<1>10. ~h.command /\ ~serving.answered =>
         ~serving'.answered /\ serving'.opcode = serving.opcode
  BY <1>1, <1>3 DEF Taken, Serving
<1>11. Parameter' = Parameter BY <1>2 DEF Parameter
<1>12. CASE Asking
  <2>1. main = "params" /\ tx = <<Opcode(request.opcode)>> BY <1>1, <1>12 DEF Asking, Serves
  <2>2. h = Opcode(request.opcode) /\ Tail(tx) = <<>> BY <2>1
  <2>3. h.command /\ h.byte = request.opcode BY <2>2 DEF Opcode
  <2>4. Serves' /\ serving'.got = <<>> BY <1>2, <1>9, <2>3 DEF Serves
  <2>5. tx' = <<>> BY <1>1, <2>2
  <2> HIDE DEF h
  <2>6. Asking' BY <1>2, <1>6, <1>7, <1>12, <2>1, <2>4, <2>5 DEF Asking
  <2> QED BY <1>2, <2>6 DEF Exchange
<1>13. CASE Awaiting
  <2> DEFINE o == Opcode(request.opcode)
  <2>1. ASSUME tx = <<o, Parameter>>, serving.answered PROVE Awaiting'
    <3>1. h = o /\ Tail(tx) = <<Parameter>> BY <2>1
    <3>2. h.command /\ h.byte = request.opcode BY <3>1 DEF Opcode
    <3>3. Serves' /\ serving'.got = <<>> BY <1>2, <1>9, <3>2 DEF Serves
    <3>4. tx' = <<Parameter>> BY <1>1, <3>1
    <3> HIDE DEF h
    <3> QED BY <1>2, <1>6, <1>7, <1>11, <1>13, <3>3, <3>4 DEF Awaiting
  <2>2. ASSUME tx = <<Parameter>>, Serves PROVE Awaiting'
    <3>1. h = Parameter /\ Tail(tx) = <<>> BY <2>2
    <3>2. ~h.command BY <3>1 DEF Parameter, Data
    <3>3. Serves' BY <1>2, <1>4, <1>10, <2>2, <3>2 DEF Serves
    <3>4. tx' = <<>> BY <1>1, <3>1
    <3> HIDE DEF h
    <3> QED BY <1>2, <1>6, <1>7, <1>13, <3>3, <3>4 DEF Awaiting
  <2>3. Awaiting' BY <1>1, <1>13, <2>1, <2>2, Zenon DEF Awaiting
  <2> QED BY <1>2, <2>3 DEF Exchange
<1> QED BY <1>8, <1>12, <1>13 DEF Exchange

\* The controller answers the request, once it has its parameter.
LEMMA ExchangeAnswers ==
  ASSUME Types, Exchange, ControllerAnswers
  PROVE  Exchange'
<1> DEFINE w == <<Opcode(serving.opcode), Data(replied'[Len(replied')])>> \o
                  (IF serving.opcode = SERIAL_NUMBER THEN Words(PointerBytes) ELSE <<>>)
<1>1. PICK status \in Status :
        /\ ~serving.answered /\ serving.got # <<>>
        /\ replied' = Append(replied, status)
        /\ serving' = [serving EXCEPT !.answered = TRUE,
             !.reply = <<Opcode(serving.opcode), Data(status)>> \o
                       (IF serving.opcode = SERIAL_NUMBER THEN Words(PointerBytes) ELSE <<>>)]
  BY DEF ControllerAnswers
<1>2. UNCHANGED <<comblk, services, tx, rx, main, request, returned>>
  BY DEF ControllerAnswers, driver
<1>3. serving \in Serving /\ request \in Requests /\ replied \in Text
  BY DEF Types, RestType
<1>4. Len(replied') = Len(replied) + 1 /\ LastStatus' = status
  <2>1. status \in Nat BY DEF Status
  <2>2. Append(replied, status)[Len(replied) + 1] = status /\ Len(Append(replied, status)) = Len(replied) + 1
    BY <1>3, <2>1 DEF Text
  <2> QED BY <1>1, <2>2 DEF LastStatus
<1>5. serving'.answered /\ serving'.reply = w
  BY <1>1, <1>3, <1>4 DEF Serving, LastStatus
<1>6. ~Resting /\ ~Asking /\ ~Receiving /\ ~Complete
  BY <1>1 DEF Resting, Asking, Receiving, Complete
<1>7. Awaiting /\ tx = <<>> /\ Serves BY <1>1, <1>6 DEF Exchange, Awaiting
<1>8. Asked' /\ request.opcode # ISP_PROGRAMMING /\ serving.opcode = request.opcode /\ serving.reply = <<>>
  BY <1>2, <1>7 DEF Awaiting, Asked, Serves, services
<1>9. request \in {Serial, Digest} BY <1>3, <1>8 DEF Requests, Isp
<1>10. /\ w \in Seq(Word) /\ Len(w) = request.size
       /\ \A j \in 1..request.size : w[j] = LastAnswer'[j]
  <2>1. LastAnswer' = Answer(request, status) BY <1>2, <1>4 DEF LastAnswer
  <2>2. w = <<Opcode(request.opcode), Data(status)>> \o
                    (IF request.opcode = SERIAL_NUMBER THEN Words(PointerBytes) ELSE <<>>)
    BY <1>4, <1>8 DEF LastStatus
  <2> HIDE DEF w
  <2> QED BY <1>9, <2>1, <2>2, AnswerSent
<1> HIDE DEF w
<1>11. Kept(rx, Plain) \in Seq(Word) BY IncomingType DEF Types
<1>12. Incoming = Kept(rx, Plain) /\ Incoming' = Kept(rx, Plain) \o w
  <2>1. Incoming' = Kept(rx, Plain) \o w BY <1>2, <1>5 DEF Incoming
  <2>2. Incoming = Kept(rx, Plain) \o <<>> BY <1>8 DEF Incoming
  <2> QED BY <1>11, <2>1, <2>2
<1>13. Stale(Kept(rx, Plain)) BY <1>7, <1>12 DEF Awaiting
<1>14. request.size \in Nat BY <1>3, RequestTypes DEF Size
<1>15. Ends(Kept(rx, Plain) \o w, LastAnswer', request.size, 0)
  BY <1>10, <1>11, <1>13, <1>14, EndsBehind
<1>16. Coming'
  <2>1. comblk'.state = "WAIT_RESPONSE" /\ request' = request BY <1>2, <1>7 DEF Awaiting
  <2>2. Ends(Incoming', LastAnswer', request', 0) = Ends(Incoming', LastAnswer', request', 0) OBVIOUS
  <2>3. Ends(Incoming', LastAnswer', request'.size, 0) BY <1>12, <1>15, <2>1
  <2> QED BY <2>1, <2>3 DEF Coming
<1>17. Len(replied') = Len(returned') + 1 /\ main' = "wait" /\ tx' = <<>>
  BY <1>2, <1>4, <1>7 DEF Awaiting
<1>18. Receiving' BY <1>5, <1>8, <1>16, <1>17 DEF Receiving
<1> QED BY <1>2, <1>18 DEF Exchange

-----------------------------------------------------------------------------
(* What the application does in an exchange *)

\* No handler has been called: the service goes on waiting.
LEMMA NobodyCalled ==
  ASSUME NEW d, d.called = <<>>, Stepped(d)
  PROVE  UNCHANGED services
<1>1. CallsOf(d, "request") = <<>> BY KeptNone DEF CallsOf
<1> QED BY <1>1 DEF Stepped, request_completion_handler

LEMMA SteppedStays ==
  ASSUME NEW d \in ComblkType, Stepped(d)
  PROVE  /\ Stays(d, comblk') /\ comblk'.cmd = d.cmd /\ comblk'.nvic = d.nvic
         /\ tx' = (IF d.flushed THEN <<>> ELSE tx) \o d.sent
<1>1. comblk' = Silent(d) BY DEF Stepped
<1> QED BY <1>1, SilentStays, SilentType, SilentKeeps DEF Stepped

LEMMA ExchangeCall ==
  ASSUME Exchange, NEW r, Call(r)
  PROVE  Exchange'
<1>1. main = "idle" /\ main' = "signal" /\ UNCHANGED <<comblk, services, tx, rx, serving, replied, returned>>
  BY DEF Call, driver, controller
<1>2. Resting BY <1>1 DEF Exchange, Asking, Awaiting, Receiving, Complete
<1>3. Incoming' = Incoming BY <1>1 DEF Incoming
<1>4. Stale(Incoming)' BY <1>2, <1>3 DEF Resting, Stale
<1>5. g_request_in_progress' = g_request_in_progress BY <1>1 DEF services
<1>6. Resting' BY <1>1, <1>2, <1>4, <1>5 DEF Resting
<1> QED BY <1>1, <1>6 DEF Exchange

LEMMA ExchangeSignal ==
  ASSUME Exchange, signal_request_start
  PROVE  Exchange'
<1>1. /\ main = "signal" /\ main' = "prepare" /\ g_request_in_progress' = TRUE
      /\ UNCHANGED <<comblk, tx, rx, serving, replied, returned>>
  BY DEF signal_request_start, controller
<1>2. Resting BY <1>1 DEF Exchange, Asking, Awaiting, Receiving, Complete
<1>3. Incoming' = Incoming BY <1>1 DEF Incoming
<1>4. Stale(Incoming)' BY <1>2, <1>3 DEF Resting, Stale
<1>5. Resting' BY <1>1, <1>2, <1>4 DEF Resting
<1> QED BY <1>1, <1>5 DEF Exchange

\* The service returns, with what has been received.
LEMMA ExchangeReturns ==
  ASSUME Types, AnswersMatch, Exchange, wait_for_request_completion
  PROVE  Exchange' /\ AnswersMatch'
<1>1. /\ main = "wait" /\ ~g_request_in_progress /\ main' = "idle"
      /\ returned' = Append(returned, ServiceStatus)
      /\ UNCHANGED <<comblk, services, tx, rx, serving, replied>>
  BY DEF wait_for_request_completion, driver, controller
<1>2. Complete BY <1>1 DEF Exchange, Resting, Asking, Awaiting, Asked, Receiving
<1>3. ServiceStatus = replied[Len(replied)] /\ Len(replied) = Len(returned) + 1
  BY <1>2 DEF Complete, ServiceStatus, LastStatus
<1>4. returned \in Seq(Nat) /\ replied \in Seq(Nat) BY DEF Types, RestType, Text
<1>5. Len(returned) \in Nat /\ Len(replied) \in Nat /\ DOMAIN returned = 1..Len(returned)
  BY <1>4
<1>6. /\ Len(returned') = Len(returned) + 1 /\ DOMAIN returned' = 1..Len(returned) + 1
      /\ returned'[Len(returned) + 1] = ServiceStatus
      /\ \A i \in 1..Len(returned) : returned'[i] = returned[i]
  <2>1. ServiceStatus \in Nat
    <3>1. Len(replied) \in 1..Len(replied) BY <1>3, <1>5, SMT
    <3> QED BY <1>3, <1>4, <3>1
  <2> DEFINE x == ServiceStatus
  <2> HIDE DEF x
  <2>2. x \in Nat /\ returned' = Append(returned, x) BY <1>1, <2>1 DEF x
  <2>3. returned'[Len(returned) + 1] = x BY <1>4, <2>2
  <2> QED BY <1>4, <2>2, <2>3 DEF x
<1>7. AnswersMatch'
  <2>1. ASSUME NEW i \in 1..Len(returned) + 1 PROVE returned'[i] = replied[i]
    <3>1. CASE i = Len(returned) + 1 BY <1>3, <1>6, <3>1, Zenon
    <3>2. CASE i # Len(returned) + 1
      <4>1. i \in 1..Len(returned) BY <1>5, <3>2, SMT
      <4>2. returned[i] = replied[i] BY <1>5, <4>1 DEF AnswersMatch
      <4> QED BY <1>6, <4>1, <4>2
    <3> QED BY <3>1, <3>2
  <2>2. Len(returned') <= Len(replied') BY <1>1, <1>3, <1>5, <1>6, SMT
  <2> QED BY <1>1, <1>6, <2>1, <2>2 DEF AnswersMatch
<1>8. Incoming' = <<>> BY <1>1, <1>2 DEF Incoming, Complete
<1>9. Stale(Incoming)' BY <1>8, SMT DEF Stale
<1>10. g_request_in_progress' = g_request_in_progress BY <1>1 DEF services
<1>11. Resting' BY <1>1, <1>2, <1>3, <1>6, <1>9, <1>10 DEF Resting, Complete
<1> QED BY <1>1, <1>2, <1>7, <1>11 DEF Exchange

LEMMA PreparedStays ==
  ASSUME NEW c \in ComblkType, NEW r
  PROVE  LET d == Prepared(c, r) IN d.TXTOKAY = FALSE /\ d.response_size = r.size
<1>1. Silent(c) \in ComblkType BY SilentType
<1>2. abort_current_cmd(Silent(c)) \in ComblkType BY <1>1, AbortType
<1> DEFINE a == abort_current_cmd(Silent(c))
           d == Prepared(c, r)
<1>3. d = [a EXCEPT
     !.nvic = FALSE, !.TXTOKAY = FALSE, !.RCVOKAY = (r.kind = "cmd"),
     !.request_in_progress = TRUE, !.completion_handler = r.handler,
     !.cmd_opcode = r.opcode, !.cmd = r.params, !.data = <<>>,
     !.pages = r.pages, !.response = Uninitialised,
     !.response_size = r.size, !.response_idx = 0]
  BY DEF Prepared
<1>4. a \in ComblkType BY <1>2
<1> HIDE DEF a, d
<1>5. d.TXTOKAY = FALSE /\ d.response_size = r.size BY <1>3, <1>4 DEF ComblkType
<1> QED BY <1>5 DEF d

LEMMA OtherRequests ==
  ASSUME request \in Requests, request.opcode # ISP_PROGRAMMING
  PROVE  /\ request.kind \in {"ptr", "cmd"} /\ request.handler = "request"
         /\ \E x \in Nat : request.params = <<x>> /\ Parameter = Data(x)
<1>1. request \in {Serial, Digest} BY DEF Requests, Isp
<1>2. CASE request = Serial
  <2>1. request.params = <<POINTER>> /\ request.kind = "ptr" /\ request.handler = "request" BY <1>2 DEF Serial
  <2>2. POINTER \in Nat BY SMT DEF POINTER
  <2> QED BY <2>1, <2>2 DEF Parameter
<1>3. CASE request = Digest
  <2>1. request.params = << 1 >> /\ request.kind = "cmd" /\ request.handler = "request" BY <1>3 DEF Digest
  <2>2. 1 \in Nat OBVIOUS
  <2> QED BY <2>1, <2>2 DEF Parameter
<1> QED BY <1>1, <1>2, <1>3

LEMMA ExchangePrepares ==
  ASSUME Types, Exchange, request.opcode # ISP_PROGRAMMING, Prepares
  PROVE  Exchange'
<1> DEFINE d == Prepared(comblk, request)
<1>1. /\ main = "prepare" /\ main' = "opcode" /\ Stepped(d)
      /\ UNCHANGED <<rx, request, serving, replied, returned>>
  BY DEF Prepares, controller
<1>2. comblk \in ComblkType /\ request \in Requests BY DEF Types, DriverType, RestType
<1>3. Resting BY <1>1 DEF Exchange, Asking, Awaiting, Receiving, Complete
<1>4. d \in ComblkType /\ d.sent = <<>> BY <1>2, PreparedType
<1>5. /\ d.cmd = request.params /\ d.cmd_opcode = request.opcode /\ d.completion_handler = request.handler
      /\ d.nvic = FALSE /\ Called(comblk, d)
  BY <1>2, PreparedRequest
<1>6. d.TXTOKAY = FALSE /\ d.response_size = request.size BY <1>2, PreparedStays
<1> HIDE DEF d
<1>7. g_request_in_progress' = g_request_in_progress
  <2>1. comblk.completion_handler # "request" BY <1>3 DEF Resting
  <2> QED BY <1>1, <1>5, <2>1, SteppedGrant
<1>8. /\ Stays(d, comblk') /\ comblk'.cmd = d.cmd /\ comblk'.nvic = d.nvic
      /\ tx' = (IF d.flushed THEN <<>> ELSE tx) \o d.sent
  BY <1>1, <1>4, SteppedStays
<1>9. tx' = <<>>
  <2>1. tx = <<>> BY <1>3 DEF Resting
  <2> QED BY <1>4, <1>8, <2>1
<1>10. Incoming' = Incoming BY <1>1 DEF Incoming
<1>11. Stale(Incoming)' BY <1>3, <1>10 DEF Resting, Stale
<1>12. Asked'
  <2>1. g_request_in_progress' BY <1>1, <1>3, <1>7 DEF Resting
  <2>2. request.handler = "request" BY <1>2, OtherRequests
  <2> QED BY <1>1, <1>5, <1>6, <1>8, <2>1, <2>2 DEF Asked, Stays
<1>13. Asking' BY <1>1, <1>3, <1>5, <1>8, <1>9, <1>11, <1>12 DEF Asking, Resting
<1> QED BY <1>6, <1>8, <1>13 DEF Exchange, Stays

LEMMA SendOpcodeStays ==
  ASSUME NEW c \in ComblkType
  PROVE  Stays(c, send_cmd_opcode(c))
<1> DEFINE s == Silent(c)
           o == <<Opcode(c.cmd_opcode)>>
           d == send_cmd_opcode(c)
<1>1. s \in ComblkType /\ Stays(c, s) BY SilentType, SilentStays
<1>2. d = [s EXCEPT !.sent = o] BY DEF send_cmd_opcode
<1> HIDE DEF s, o, d
<1>3. d.state = s.state /\ d.cmd_opcode = s.cmd_opcode /\ d.TXTOKAY = s.TXTOKAY
  BY <1>1, <1>2 DEF ComblkType
<1>4. d.response = s.response /\ d.response_size = s.response_size /\ d.response_idx = s.response_idx
  BY <1>1, <1>2 DEF ComblkType
<1>5. d.completion_handler = s.completion_handler BY <1>1, <1>2 DEF ComblkType
<1>6. Stays(s, d) BY <1>3, <1>4, <1>5 DEF Stays
<1> QED BY <1>1, <1>6, StaysTwice DEF d

LEMMA ExchangeSendsOpcode ==
  ASSUME Types, Exchange, SendsOpcode
  PROVE  Exchange'
<1> DEFINE d == send_cmd_opcode(comblk)
           o == Opcode(request.opcode)
<1>1. /\ main = "opcode" /\ main' = "params" /\ Stepped(d)
      /\ UNCHANGED <<rx, request, serving, replied, returned>>
  BY DEF SendsOpcode, controller
<1>2. comblk \in ComblkType BY DEF Types, DriverType
<1>3. Asking /\ tx = <<>> /\ serving.answered
  BY <1>1 DEF Exchange, Asking, Resting, Awaiting, Receiving, Complete
<1>4. d \in ComblkType /\ d.sent = <<Opcode(comblk.cmd_opcode)>> BY <1>2, SendOpcodeType
<1>5. /\ Unsent(comblk, d) /\ d.nvic = comblk.nvic /\ d.called = <<>> /\ d.flushed = FALSE
  BY <1>2, SendOpcodeSends
<1>6. Stays(comblk, d) BY <1>2, SendOpcodeStays
<1> HIDE DEF d
<1>7. UNCHANGED services BY <1>1, <1>5, NobodyCalled
<1>8. /\ Stays(d, comblk') /\ comblk'.cmd = d.cmd /\ comblk'.nvic = d.nvic
      /\ tx' = (IF d.flushed THEN <<>> ELSE tx) \o d.sent
  BY <1>1, <1>4, SteppedStays
<1>9. Stays(comblk, comblk') BY <1>6, <1>8, StaysTwice
<1>10. tx' = <<o>>
  <2>1. d.sent = <<o>> BY <1>3, <1>4 DEF Asking, Asked
  <2> HIDE DEF o
  <2> QED BY <1>3, <1>5, <1>8, <2>1
<1>11. Incoming' = Incoming BY <1>1 DEF Incoming
<1>12. Stale(Incoming)' BY <1>3, <1>11 DEF Asking, Stale
<1>13. Asked' BY <1>1, <1>3, <1>7, <1>9 DEF Asking, Asked, Stays, services
<1>14. ~comblk'.nvic /\ comblk'.cmd = request'.params
  BY <1>1, <1>3, <1>5, <1>8 DEF Asking, Unsent
<1>15. Asking'
  <2>1. tx' = <<Opcode(request'.opcode)>> BY <1>1, <1>10
  <2> QED BY <1>1, <1>3, <1>12, <1>13, <1>14, <2>1 DEF Asking
<1>16. ~comblk'.TXTOKAY BY <1>9 DEF Exchange, Stays
<1> QED BY <1>15, <1>16 DEF Exchange

LEMMA SentOne ==
  ASSUME NEW x \in Nat, NEW room \in Nat, room > 0
  PROVE  Sent(<< x >>, room) = <<Data(x)>> /\ Rest(<< x >>, room) = <<>>
<1> DEFINE b == << x >>
<1>1. b \in Seq(Nat) /\ Len(b) = 1 /\ b[1] = x OBVIOUS
<1>2. Fits(b, room) = 1
  <2>1. Fits(b, room) = IF 1 < room THEN 1 ELSE room BY <1>1 DEF Fits
  <2> QED BY <2>1, SMT
<1>3. SubSeq(b, 1, 1) = b /\ SubSeq(b, 2, 1) = <<>>
  <2> HIDE DEF b
  <2>1. SubSeq(b, 2, 1) = <<>> BY <1>1
  <2>2. SubSeq(b, 1, 1) = b BY <1>1
  <2> QED BY <2>1, <2>2
<1>4. Rest(b, room) = SubSeq(b, 2, 1)
  <2>1. Rest(b, room) = SubSeq(b, 1 + 1, 1) BY <1>1, <1>2 DEF Rest
  <2> QED BY <2>1
<1>5. Sent(b, room) = Words(b) BY <1>2, <1>3 DEF Sent
<1>6. Words(b) = <<Data(x)>>
  <2>1. Words(b) = [i \in 1..1 |-> Data(b[i])] BY DEF Words
  <2>2. Data(x) \in Word BY DEF Data, Word
  <2> QED BY <1>1, <2>1, <2>2
<1> QED BY <1>3, <1>4, <1>5, <1>6

LEMMA ArmedStays ==
  ASSUME NEW c \in ComblkType, NEW kind \in {"ptr", "cmd", "paged"}, NEW room \in Nat, room > 0,
         NEW x \in Nat, c.cmd = << x >>
  PROVE  LET d == Armed(c, kind, room)
         IN  /\ d.sent = <<Data(x)>> /\ d.state = AfterCommand(kind) /\ d.TXTOKAY = (kind = "paged")
             /\ d.response_size = c.response_size
<1> DEFINE s == Silent(c)
           o == Sent(c.cmd, room)
           q == Rest(c.cmd, room)
           st == IF Rest(c.cmd, room) # <<>> THEN "TX_CMD" ELSE AfterCommand(kind)
           t == (kind = "paged")
           d == Armed(c, kind, room)
<1>1. s \in ComblkType /\ s.response_size = c.response_size BY SilentType, SilentStays DEF Stays
<1>2. d = [s EXCEPT !.sent = o, !.cmd = q, !.state = st, !.TXTOKAY = t, !.RCVOKAY = TRUE, !.nvic = TRUE]
  BY DEF Armed
<1>3. o = <<Data(x)>> /\ q = <<>> BY SentOne
<1>4. st = AfterCommand(kind) BY <1>3
<1> HIDE DEF s, o, q, st, t, d
<1>5. d.sent = o /\ d.state = st BY <1>1, <1>2 DEF ComblkType
<1>6. d.TXTOKAY = t /\ d.response_size = s.response_size BY <1>1, <1>2 DEF ComblkType
<1> QED BY <1>1, <1>3, <1>4, <1>5, <1>6 DEF d, t

LEMMA TwoWords ==
  ASSUME NEW A, NEW o \in A, NEW p \in A
  PROVE  <<o>> \o <<p>> = <<o, p>> /\ <<>> \o <<p>> = <<p>>
<1>1. <<o>> \o <<p>> = Append(<<o>>, p) OBVIOUS
<1>2. <<o, p>> = Append(<<o>>, p) OBVIOUS
<1>3. <<>> \o <<p>> = <<p>> OBVIOUS
<1> QED BY <1>1, <1>2, <1>3

LEMMA ExchangeSendsParameters ==
  ASSUME Types, Exchange, SendsParameters
  PROVE  Exchange'
<1> DEFINE d == Armed(comblk, request.kind, Room)
           o == Opcode(request.opcode)
<1>1. /\ main = "params" /\ Stepped(d)
      /\ main' = IF request.kind = "paged" THEN "idle" ELSE "wait"
      /\ UNCHANGED <<rx, request, serving, replied, returned>>
  BY DEF SendsParameters, controller
<1>2. comblk \in ComblkType /\ request \in Requests BY DEF Types, DriverType, RestType
<1>3. /\ Asking
      /\ \/ tx = <<o>> /\ serving.answered
         \/ tx = <<>> /\ Serves /\ serving.got = <<>>
  BY <1>1 DEF Exchange, Asking, Resting, Awaiting, Receiving, Complete
<1>4. Asked /\ request.opcode # ISP_PROGRAMMING /\ comblk.cmd = request.params
  BY <1>3 DEF Asking, Asked
<1>5. request.kind \in {"ptr", "cmd"} BY <1>2, <1>4, OtherRequests
<1>6. PICK x \in Nat : request.params = <<x>> /\ Parameter = Data(x) BY <1>2, <1>4, OtherRequests
<1>7. Room \in Nat /\ Room > 0
  <2>1. Room \in Nat BY RoomNat DEF Types
  <2> HIDE DEF o
  <2>2. Len(tx) \in {0, 1} BY <1>3
  <2>3. Depth \in Nat /\ Depth > 1 BY SysServicesAssumption
  <2> DEFINE l == Len(tx)
  <2>5. l \in {0, 1} BY <2>2
  <2> HIDE DEF l
  <2>6. Depth - l > 0 BY <2>3, <2>5, SMT
  <2>4. Depth - Len(tx) > 0 BY <2>6 DEF l
  <2> QED BY <2>1, <2>4 DEF Room
<1>22. request.kind \in {"ptr", "cmd", "paged"} BY <1>5
<1>8. /\ d.sent = <<Parameter>> /\ d.state = "WAIT_RESPONSE" /\ d.TXTOKAY = FALSE
      /\ d.response_size = comblk.response_size
  <2>1. comblk.cmd = << x >> BY <1>4, <1>6
  <2>2. /\ d.sent = <<Data(x)>> /\ d.state = AfterCommand(request.kind) /\ d.TXTOKAY = (request.kind = "paged")
        /\ d.response_size = comblk.response_size
    BY <1>2, <1>7, <1>22, <2>1, ArmedStays
  <2> HIDE DEF d
  <2> QED BY <1>5, <1>6, <2>2 DEF AfterCommand
<1>9. d \in ComblkType BY <1>2, <1>7, <1>22, ArmedType
<1>10. /\ d.cmd_opcode = comblk.cmd_opcode /\ d.completion_handler = comblk.completion_handler
       /\ d.called = <<>> /\ d.flushed = FALSE
  BY <1>2, <1>7, <1>22, ArmedSends, Zenon
<1> HIDE DEF d, o
<1>11. UNCHANGED services BY <1>1, <1>10, NobodyCalled
<1>12. /\ Stays(d, comblk') /\ tx' = (IF d.flushed THEN <<>> ELSE tx) \o d.sent
  BY <1>1, <1>9, SteppedStays
<1>13. tx' = tx \o <<Parameter>> BY <1>8, <1>10, <1>12
<1>14. \/ tx' = <<o, Parameter>> /\ serving.answered
       \/ tx' = <<Parameter>> /\ Serves /\ serving.got = <<>>
  <2> DEFINE p == Parameter
             q == << p >>
             k == << o >>
  <2>1. k \o q = <<o, Parameter>> /\ <<>> \o q = q
    <3>2. o \in {o, p} /\ p \in {o, p} OBVIOUS
    <3> HIDE DEF p
    <3>1. k \o q = <<o, p>> /\ <<>> \o q = q BY <3>2, TwoWords
    <3> QED BY <3>1 DEF p
  <2>2. tx' = tx \o q BY <1>13
  <2> HIDE DEF q, k, p
  <2>3. CASE tx = k /\ serving.answered
    <3>1. tx' = <<o, Parameter>> BY <2>1, <2>2, <2>3
    <3> QED BY <2>3, <3>1
  <2>4. CASE tx = <<>> /\ Serves /\ serving.got = <<>>
    <3>1. tx' = q BY <2>1, <2>2, <2>4
    <3> QED BY <2>4, <3>1 DEF q, p
  <2> QED BY <1>3, <2>3, <2>4 DEF k
<1>15. Incoming' = Incoming /\ Parameter' = Parameter BY <1>1 DEF Incoming, Parameter
<1>16. Stale(Incoming)' BY <1>3, <1>15 DEF Asking, Stale
<1>17. Asked' BY <1>1, <1>4, <1>8, <1>10, <1>11, <1>12 DEF Asked, Stays, services
<1>18. main' = "wait" /\ comblk'.state = "WAIT_RESPONSE" /\ ~comblk'.TXTOKAY
  BY <1>1, <1>5, <1>8, <1>12 DEF Stays
<1>19. Serves => Serves' BY <1>1 DEF Serves
<1>20. \/ tx' = <<Opcode(request'.opcode), Parameter'>> /\ serving'.answered
       \/ tx' = <<Parameter'>> /\ Serves' /\ serving'.got = <<>>
  BY <1>1, <1>14, <1>15, <1>19 DEF o
<1>21. Awaiting' BY <1>1, <1>3, <1>16, <1>17, <1>18, <1>20 DEF Awaiting, Asking
<1> QED BY <1>18, <1>21 DEF Exchange

-----------------------------------------------------------------------------
(* What the interrupt does in an exchange *)

LEMMA EventPasses ==
  ASSUME NoServiceEvents, NEW c \in ComblkType, NEW word \in Word, word.command, word.byte \in Events
  PROVE  LET d == handle_rx_okay_irq(c, word) IN Stays(c, d) /\ d.called = c.called
<1> DEFINE p == process_sys_ctrl_command(c, word.byte)
<1>1. c.state \in States /\ c.cmd_opcode \in Commands BY DEF ComblkType
<1>2. word.byte # c.cmd_opcode BY <1>1 DEF NoServiceEvents
<1>3. word.byte # POR_DIGEST_ERROR_OPCODE BY SysServicesAssumption
<1>4. CASE c.state = "IDLE" \/ c.state = "TX_CMD" \/ c.state = "TX_PAGED_DATA"
  <2>1. handle_rx_okay_irq(c, word) = p
    BY <1>3, <1>4 DEF handle_rx_okay_irq, RxIdle, RxSending, RxPagedData
  <2>2. Stays(c, p) /\ p.called = c.called BY ReportStays
  <2> HIDE DEF p
  <2> QED BY <2>1, <2>2
<1>5. CASE c.state = "WAIT_RESPONSE" \/ c.state = "RX_RESPONSE"
  <2>1. \/ c.state = "WAIT_RESPONSE" /\ (word.command => word.byte # c.cmd_opcode)
        \/ c.state = "RX_RESPONSE" /\ word.command
    BY <1>2, <1>5
  <2> QED BY <2>1, OthersPass
<1> QED BY <1>1, <1>4, <1>5 DEF States

LEMMA AnswerWords ==
  ASSUME NEW r \in {Serial, Digest}, NEW status \in Status
  PROVE  LET a == Answer(r, status)
         IN  /\ r.size \in Size /\ r.size >= 2
             /\ a[1] = Opcode(r.opcode) /\ a[2] = Data(status)
             /\ \A j \in 1..r.size : j # 1 => ~a[j].command
<1> DEFINE a == Answer(r, status)
<1>1. r.size \in Size /\ (r.size = 2 \/ r.size = 6) BY DEF Serial, Digest, Size
<1>2. \A j \in 1..r.size : a[j] = AnswerWord(r, status, j) BY DEF Answer
<1> HIDE DEF a
<1>3. 1 \in 1..r.size /\ 2 \in 1..r.size /\ r.size >= 2 /\ 2 # 1 BY <1>1, SMT
<1>4. a[1] = Opcode(r.opcode) /\ a[2] = Data(status) BY <1>2, <1>3, Zenon DEF AnswerWord
<1>5. ASSUME NEW j \in 1..r.size, j # 1 PROVE ~a[j].command
  <2>1. a[j] = Data(status) \/ a[j] = Data(PointerBytes[j - 2]) BY <1>2, <1>5, Zenon DEF AnswerWord
  <2> DEFINE b == PointerBytes[j - 2]
  <2> HIDE DEF b
  <2>2. a[j] = Data(status) \/ a[j] = Data(b) BY <2>1 DEF b
  <2> QED BY <2>2 DEF Data
<1> QED BY <1>1, <1>3, <1>4, <1>5 DEF a

LEMMA StoredPrefix ==
  ASSUME NEW r \in Response, NEW a, NEW i \in 1..5, NEW byte, byte = a[i + 1].byte,
         \A j \in 1..i : r[j - 1] = a[j].byte
  PROVE  \A j \in 1..i + 1 : [r EXCEPT ![i] = byte][j - 1] = a[j].byte
<1> DEFINE q == [r EXCEPT ![i] = byte]
<1>1. DOMAIN r = 0..5 BY DEF Response, ResponseBytes
<1>2. i \in 0..5 BY SMT
<1>3. q[i] = byte /\ \A k \in 0..5 : k # i => q[k] = r[k] BY <1>1, <1>2
<1> HIDE DEF q
<1>4. ASSUME NEW j \in 1..i + 1 PROVE q[j - 1] = a[j].byte
  <2> DEFINE k == j - 1
  <2>1. CASE j = i + 1
    <3>1. k = i BY <2>1, SMT
    <3> HIDE DEF k
    <3>2. q[k] = a[j].byte BY <1>3, <2>1, <3>1, Zenon
    <3> QED BY <3>2 DEF k
  <2>2. CASE j # i + 1
    <3>1. k \in 0..5 /\ k # i /\ j \in 1..i BY <2>2, SMT
    <3>2. r[k] = a[j].byte BY <3>1
    <3> HIDE DEF k
    <3>3. q[k] = a[j].byte BY <1>3, <3>1, <3>2, Zenon
    <3> QED BY <3>3 DEF k
  <2> QED BY <2>1, <2>2
<1> QED BY <1>4 DEF q

\* What the interrupt leaves alone, whatever it is told.
LEMMA InterruptTakes ==
  ASSUME Types, ~comblk.TXTOKAY, Interrupt
  PROVE  LET c == Silent(comblk)
             d == handle_rx_okay_irq(c, Head(rx))
         IN  /\ comblk.nvic /\ rx # <<>> /\ rx' = Tail(rx) /\ Head(rx) \in Word
             /\ c \in ComblkType /\ Stays(comblk, c) /\ c.called = <<>>
             /\ d \in ComblkType /\ d.TXTOKAY = FALSE /\ Completes(c, d)
             /\ Stepped(d) /\ Stays(d, comblk') /\ tx' = tx
             /\ UNCHANGED <<main, request, serving, replied, returned>>
<1> DEFINE c == Silent(comblk)
           h == Head(rx)
           d == handle_rx_okay_irq(c, h)
<1>1. comblk \in ComblkType /\ rx \in Seq(Word) /\ tx \in CommandWords
  BY DEF Types, DriverType, RestType
<1>2. comblk.nvic /\ comblk.RCVOKAY /\ rx # <<>> BY DEF Interrupt, InterruptPending
<1>3. rx' = Tail(rx) /\ UNCHANGED <<main, request, serving, replied, returned>>
  BY <1>2 DEF Interrupt, controller
<1>4. h \in Word BY <1>1, <1>2
<1>5. /\ c \in ComblkType /\ Stays(comblk, c) /\ c.called = <<>> /\ c.sent = <<>> /\ c.events = <<>>
      /\ c.flushed = FALSE
  BY <1>1, SilentType, SilentStays
<1>6. ComBlk_IRQHandler(comblk, rx, Room) = d BY <1>2 DEF ComBlk_IRQHandler
<1>7. Stepped(d) BY <1>6 DEF Interrupt
<1> HIDE DEF c, h
<1>8. d \in ComblkType /\ d.sent = <<>> BY <1>4, <1>5, HandleRx DEF Received
<1>9. Listens(c, d) BY <1>4, <1>5, HandleRxListens
<1>10. d.TXTOKAY = c.TXTOKAY BY <1>4, <1>5, RxOkay
<1> HIDE DEF d
<1>11. d.flushed = FALSE /\ Completes(c, d) /\ d.TXTOKAY = FALSE
  <2>1. comblk.TXTOKAY = FALSE BY <1>1 DEF ComblkType
  <2> QED BY <1>5, <1>9, <1>10, <2>1 DEF Listens, Stays
<1>12. Stays(d, comblk') /\ tx' = (IF d.flushed THEN <<>> ELSE tx) \o d.sent
  BY <1>7, <1>8, SteppedStays
<1>13. tx' = tx BY <1>1, <1>8, <1>11, <1>12 DEF CommandWords
<1> QED BY <1>2, <1>3, <1>4, <1>5, <1>7, <1>8, <1>11, <1>12, <1>13 DEF c, d, h

Statuses == replied \in Seq(Status)

\* The word that the interrupt takes is none of an answer that the service waits for.
LEMMA InterruptPasses ==
  ASSUME Types, ~comblk.TXTOKAY, Interrupt,
         LET c == Silent(comblk)
             d == handle_rx_okay_irq(c, Head(rx))
         IN  Stays(c, d) /\ d.called = c.called
  PROVE  /\ Stays(comblk, comblk') /\ comblk.nvic
         /\ UNCHANGED <<services, tx, main, request, serving, replied, returned>>
<1> DEFINE c == Silent(comblk)
           d == handle_rx_okay_irq(c, Head(rx))
<1>1. Stays(c, d) /\ d.called = c.called OBVIOUS
<1>2. /\ comblk.nvic /\ Stays(comblk, c) /\ c.called = <<>>
      /\ Stepped(d) /\ Stays(d, comblk') /\ tx' = tx
      /\ UNCHANGED <<main, request, serving, replied, returned>>
  BY InterruptTakes
<1> HIDE DEF c, d
<1>3. Stays(comblk, comblk') BY <1>1, <1>2, StaysTwice
<1>4. UNCHANGED services BY <1>1, <1>2, NobodyCalled
<1> QED BY <1>2, <1>3, <1>4

LEMMA WaitsPast ==
  ASSUME NEW c \in ComblkType, c.state = "WAIT_RESPONSE", NEW word \in Word, Harmless(word)
  PROVE  LET d == handle_rx_okay_irq(c, word) IN Stays(c, d) /\ d.called = c.called
<1>1. word.command => word.byte # c.cmd_opcode
  <2>1. c.cmd_opcode \in Commands BY DEF ComblkType
  <2>2. POR_DIGEST_ERROR_OPCODE \notin Commands
    BY SMT DEF POR_DIGEST_ERROR_OPCODE, Commands, SERIAL_NUMBER, DIGEST_CHECK, ISP_PROGRAMMING
  <2> QED BY <2>1, <2>2 DEF Harmless
<1> QED BY <1>1, OthersPass

\* Nothing is asked: the power-on words change nothing that counts.
LEMMA RestingInterrupt ==
  ASSUME Types, Exchange, Resting, Interrupt,
         Incoming # <<>>, Incoming' = Tail(Incoming)
  PROVE  Exchange'
<1> DEFINE c == Silent(comblk)
           d == handle_rx_okay_irq(c, Head(rx))
<1>1. ~comblk.TXTOKAY BY DEF Exchange
<1>2. /\ Stays(comblk, c) /\ c.called = <<>> /\ d.TXTOKAY = FALSE /\ Completes(c, d)
      /\ Stepped(d) /\ Stays(d, comblk') /\ tx' = tx
      /\ UNCHANGED <<main, request, serving, replied, returned>>
  BY <1>1, InterruptTakes
<1> HIDE DEF c, d
<1>3. c.completion_handler = "none" BY <1>2 DEF Resting, Stays
<1>4. d.called = <<>> /\ d.completion_handler = "none" BY <1>2, <1>3 DEF Completes
<1>5. UNCHANGED services BY <1>2, <1>4, NobodyCalled
<1>6. Incoming \in Seq(Word) BY IncomingType DEF Types
<1>7. Stale(Tail(Incoming)) BY <1>6, StaleTail DEF Resting
<1>8. Stale(Incoming') BY <1>7
<1>9. comblk'.completion_handler = "none" /\ ~comblk'.TXTOKAY BY <1>2, <1>4 DEF Stays
<1>10. g_request_in_progress' = g_request_in_progress BY <1>5 DEF services
<1>11. Resting' BY <1>2, <1>8, <1>9, <1>10 DEF Resting, Stale
<1> QED BY <1>9, <1>11 DEF Exchange

LEMMA AwaitingInterrupt ==
  ASSUME Types, Exchange, Awaiting, Interrupt,
         Incoming # <<>>, Head(rx) = Head(Incoming), Incoming' = Tail(Incoming)
  PROVE  Exchange'
<1> DEFINE c == Silent(comblk)
           h == Head(rx)
           d == handle_rx_okay_irq(c, h)
<1>1. ~comblk.TXTOKAY BY DEF Exchange
<1>2. c \in ComblkType /\ Stays(comblk, c) /\ h \in Word BY <1>1, InterruptTakes
<1>3. Incoming \in Seq(Word) BY IncomingType DEF Types
<1>4. Harmless(h) /\ Stale(Tail(Incoming)) BY <1>3, StaleTail DEF Awaiting
<1>5. c.state = "WAIT_RESPONSE" BY <1>2 DEF Awaiting, Stays
<1>6. Stays(c, d) /\ d.called = c.called
  <2> HIDE DEF c, h
  <2> QED BY <1>2, <1>4, <1>5, WaitsPast
<1>7. /\ Stays(comblk, comblk')
      /\ UNCHANGED <<services, tx, main, request, serving, replied, returned>>
  BY <1>1, <1>6, InterruptPasses
<1> HIDE DEF c, d, h
<1>8. Asked' BY <1>7 DEF Awaiting, Asked, Stays, services
<1>9. Parameter' = Parameter /\ (Serves => Serves') BY <1>7 DEF Parameter, Serves
<1>10. Stale(Incoming') BY <1>4
<1>11. comblk'.state = "WAIT_RESPONSE" /\ ~comblk'.TXTOKAY BY <1>1, <1>7 DEF Awaiting, Stays
<1>12. Awaiting' BY <1>7, <1>8, <1>9, <1>10, <1>11 DEF Awaiting, Stale
<1> QED BY <1>11, <1>12 DEF Exchange

LEMMA LastAnswerIs ==
  ASSUME Types, Statuses, Asked, Len(replied) = Len(returned) + 1
  PROVE  request \in {Serial, Digest} /\ LastStatus \in Status
<1>1. request \in Requests /\ request.opcode # ISP_PROGRAMMING /\ returned \in Seq(Nat)
  BY DEF Types, RestType, Asked, Text
<1>2. request \in {Serial, Digest} BY <1>1 DEF Requests, Isp
<1>3. Len(returned) \in Nat BY <1>1
<1> DEFINE n == Len(replied)
<1>4. n = Len(returned) + 1 /\ n \in Nat BY <1>3
<1>5. \A i \in 1..n : replied[i] \in Status BY DEF Statuses
<1> HIDE DEF n
<1>6. n \in 1..n BY <1>3, <1>4, SMT
<1>7. replied[n] \in Status BY <1>5, <1>6
<1> QED BY <1>2, <1>7 DEF LastStatus, n

\* The answer begins, or another of the power-on words goes by.
LEMMA ComingInterrupt ==
  ASSUME Types, Statuses, Exchange, Receiving, Coming, Interrupt,
         Incoming # <<>>, Head(rx) = Head(Incoming), Incoming' = Tail(Incoming)
  PROVE  Exchange'
<1> DEFINE c == Silent(comblk)
           h == Head(rx)
           d == handle_rx_okay_irq(c, h)
           n == request.size
<1>1. ~comblk.TXTOKAY BY DEF Exchange
<1>2. /\ c \in ComblkType /\ Stays(comblk, c) /\ h \in Word /\ c.called = <<>>
      /\ d.TXTOKAY = FALSE
      /\ Stepped(d) /\ Stays(d, comblk') /\ tx' = tx
      /\ UNCHANGED <<main, request, serving, replied, returned>>
  BY <1>1, InterruptTakes
<1>3. Incoming \in Seq(Word) BY IncomingType DEF Types
<1>4. request \in {Serial, Digest} /\ LastStatus \in Status BY LastAnswerIs DEF Receiving
<1>5. n \in Nat /\ n >= 2 /\ LastAnswer[1] = Opcode(request.opcode)
  BY <1>4, AnswerWords DEF LastAnswer, Size
<1>6. Ends(Incoming, LastAnswer, n, 0) /\ c.state = "WAIT_RESPONSE" BY <1>2 DEF Coming, Stays
<1>7. LastStatus' = LastStatus /\ LastAnswer' = LastAnswer BY <1>2 DEF LastStatus, LastAnswer
<1>8. 0 \in 0..n /\ 0 \in 0..n - 1 BY <1>5, SMT
<1>9. CASE Len(Incoming) # n - 0
  <2>1. Harmless(h) /\ Ends(Tail(Incoming), LastAnswer, n, 0)
    BY <1>3, <1>5, <1>6, <1>8, <1>9, EndsLater
  <2>2. Stays(c, d) /\ d.called = c.called
    <3> HIDE DEF c, h
    <3> QED BY <1>2, <1>6, <2>1, WaitsPast
  <2>3. Stays(comblk, comblk') /\ UNCHANGED services BY <1>1, <2>2, InterruptPasses
  <2> HIDE DEF c, d, h
  <2>4. Asked' BY <1>2, <2>3 DEF Receiving, Asked, Stays, services
  <2>5. Ends(Incoming', LastAnswer', request'.size, 0) BY <1>2, <1>7, <2>1
  <2>6. comblk'.state = "WAIT_RESPONSE" BY <2>3 DEF Coming, Stays
  <2>7. Coming' BY <2>5, <2>6 DEF Coming
  <2>8. Receiving' BY <1>2, <2>4, <2>7 DEF Receiving
  <2> QED BY <1>1, <2>3, <2>8 DEF Exchange, Stays
<1>10. CASE Len(Incoming) = n - 0
  <2>1. /\ h = LastAnswer[0 + 1] /\ Ends(Tail(Incoming), LastAnswer, n, 0 + 1)
        /\ Len(Tail(Incoming)) = n - (0 + 1)
    BY <1>3, <1>5, <1>6, <1>8, <1>10, EndsNext
  <2>2. h = Opcode(request.opcode) /\ Ends(Tail(Incoming), LastAnswer, n, 1) /\ Len(Tail(Incoming)) = n - 1
    BY <1>5, <2>1
  <2>3. c.cmd_opcode = request.opcode /\ c.completion_handler = "request" /\ c.response_size = n
    BY <1>2 DEF Receiving, Asked, Stays
  <2>4. h.command /\ h.byte = c.cmd_opcode BY <2>2, <2>3 DEF Opcode
  <2>5. /\ d.state = "RX_RESPONSE" /\ d.response_idx = 1 /\ d.response[0] = c.cmd_opcode
        /\ d.cmd_opcode = c.cmd_opcode /\ d.response_size = c.response_size
        /\ d.completion_handler = c.completion_handler /\ d.called = c.called
    <3> HIDE DEF c, h
    <3> QED BY <1>2, <1>6, <2>4, AnswerBegins
  <2> HIDE DEF c, d, h
  <2>6. UNCHANGED services BY <1>2, <2>5, NobodyCalled
  <2>7. Asked' BY <1>2, <2>3, <2>5, <2>6 DEF Receiving, Asked, Stays, services
  <2>8. comblk'.state = "RX_RESPONSE" /\ comblk'.response_idx = 1 /\ comblk'.response[0] = request.opcode
    BY <1>2, <2>3, <2>5 DEF Stays
  <2>9. ASSUME NEW j \in 1..1 PROVE comblk'.response[j - 1] = LastAnswer'[j].byte
    <3>1. j = 1 /\ j - 1 = 0 BY SMT
    <3>2. LastAnswer[1].byte = request.opcode BY <1>5 DEF Opcode
    <3> QED BY <1>7, <2>8, <3>1, <3>2
  <2>10. 1 \in 1..n - 1 BY <1>5, SMT
  <2>11. /\ Len(Incoming') = request'.size - 1 /\ Ends(Incoming', LastAnswer', request'.size, 1)
         /\ 1 \in 1..request'.size - 1
    BY <1>2, <1>7, <2>2, <2>10
  <2>12. Collecting' BY <2>8, <2>9, <2>11 DEF Collecting
  <2>13. Receiving' BY <1>2, <2>7, <2>12 DEF Receiving
  <2>14. ~comblk'.TXTOKAY BY <1>2 DEF Stays
  <2> QED BY <2>13, <2>14 DEF Exchange
<1> QED BY <1>9, <1>10

LEMMA OneCalled ==
  ASSUME NEW d, NEW call, d.called = <<call>>, call.handler = "request", Stepped(d)
  PROVE  g_request_in_progress' = FALSE /\ g_last_response_length' = call.length
<1> DEFINE S == {x \in ToSet(d.called) : x.handler = "request"}
<1>1. call \in S
  <2>1. 1 \in DOMAIN d.called /\ d.called[1] = call BY SMT
  <2>2. call \in ToSet(d.called) BY <2>1 DEF ToSet
  <2> QED BY <2>2
<1> HIDE DEF S
<1>2. Kept(<<call>>, S) = <<call>> BY <1>1, KeptOne
<1>3. CallsOf(d, "request") = <<call>> BY <1>2 DEF CallsOf, S
<1>4. Last(CallsOf(d, "request")) = call /\ CallsOf(d, "request") # <<>>
  <2>1. Last(<<call>>) = call /\ <<call>> # <<>> BY DEF Last
  <2> QED BY <1>3, <2>1
<1> QED BY <1>4 DEF Stepped, request_completion_handler

\* The next byte of the answer is stored; with the last one the service is told.
LEMMA CollectingInterrupt ==
  ASSUME Types, Statuses, Exchange, Receiving, Collecting, Interrupt,
         Incoming # <<>>, Head(rx) = Head(Incoming), Incoming' = Tail(Incoming),
         comblk.response[comblk.response_idx - 1] # POR_DIGEST_ERROR_OPCODE
  PROVE  Exchange'
<1> DEFINE c == Silent(comblk)
           h == Head(rx)
           d == handle_rx_okay_irq(c, h)
           n == request.size
           i == comblk.response_idx
           r == [c.response EXCEPT ![i] = h.byte]
           call == [handler |-> c.completion_handler, length |-> i + 1, response |-> r]
<1>1. ~comblk.TXTOKAY BY DEF Exchange
<1>2. /\ c \in ComblkType /\ Stays(comblk, c) /\ h \in Word /\ c.called = <<>>
      /\ d.TXTOKAY = FALSE
      /\ Stepped(d) /\ Stays(d, comblk') /\ tx' = tx
      /\ UNCHANGED <<main, request, serving, replied, returned>>
  BY <1>1, InterruptTakes
<1>3. Incoming \in Seq(Word) BY IncomingType DEF Types
<1>4. request \in {Serial, Digest} /\ LastStatus \in Status BY LastAnswerIs DEF Receiving
<1>5. /\ n \in Size /\ n >= 2
      /\ LastAnswer[1] = Opcode(request.opcode) /\ LastAnswer[2] = Data(LastStatus)
      /\ \A j \in 1..n : j # 1 => ~LastAnswer[j].command
  BY <1>4, AnswerWords DEF LastAnswer
<1>6. /\ c.state = "RX_RESPONSE" /\ i = c.response_idx /\ c.response = comblk.response
      /\ c.cmd_opcode = request.opcode /\ c.completion_handler = "request" /\ c.response_size = n
  BY <1>2 DEF Receiving, Collecting, Asked, Stays
<1>7. /\ i \in 1..n - 1 /\ Len(Incoming) = n - i /\ Ends(Incoming, LastAnswer, n, i)
      /\ \A j \in 1..i : c.response[j - 1] = LastAnswer[j].byte
  BY <1>6 DEF Collecting
<1>8. LastStatus' = LastStatus /\ LastAnswer' = LastAnswer BY <1>2 DEF LastStatus, LastAnswer
<1> HIDE DEF c, h, d, i, n
<1>9. n \in Nat /\ i \in Nat /\ i \in 0..n - 1 /\ i \in 1..5 /\ i + 1 \in 1..n /\ i + 1 # 1 /\ i \in 1..i
  <2>1. n \in 0..6 /\ i \in 1..n - 1 BY <1>5, <1>7 DEF Size
  <2> QED BY <2>1, SMT
<1>10. /\ h = LastAnswer[i + 1] /\ Ends(Tail(Incoming), LastAnswer, n, i + 1)
       /\ Len(Tail(Incoming)) = n - (i + 1)
  <2>1. /\ Incoming # <<>> /\ Head(Incoming) = LastAnswer[i + 1]
         /\ Ends(Tail(Incoming), LastAnswer, n, i + 1) /\ Len(Tail(Incoming)) = n - (i + 1)
    BY <1>3, <1>7, <1>9, EndsNext
  <2> QED BY <2>1 DEF h
<1>11. ~h.command BY <1>5, <1>9, <1>10, Zenon
<1>12. c.response[i - 1] # POR_DIGEST_ERROR_OPCODE BY <1>6 DEF i
<1>13. c.response \in Response BY <1>2 DEF ComblkType
<1>14. \A j \in 1..i + 1 : r[j - 1] = LastAnswer[j].byte
  <2>1. h.byte = LastAnswer[i + 1].byte BY <1>10
  <2> DEFINE b == h.byte
             q == c.response
             s == [q EXCEPT ![i] = b]
  <2>2. b = LastAnswer[i + 1].byte /\ q \in Response /\ \A j \in 1..i : q[j - 1] = LastAnswer[j].byte
    BY <1>7, <1>13, <2>1
  <2>3. r = s OBVIOUS
  <2> HIDE DEF b, q
  <2> DEFINE la == LastAnswer
  <2>4. i \in 1..5 /\ b = la[i + 1].byte /\ q \in Response /\ \A j \in 1..i : q[j - 1] = la[j].byte
    BY <1>9, <2>2
  <2> HIDE DEF la
  <2>5. \A j \in 1..i + 1 : s[j - 1] = la[j].byte BY <2>4, StoredPrefix
  <2> HIDE DEF s, r
  <2> QED BY <2>3, <2>5 DEF la
<1>15. /\ d.cmd_opcode = c.cmd_opcode /\ d.response_size = c.response_size
       /\ d.response = r /\ d.TXTOKAY = c.TXTOKAY
       /\ IF i + 1 = c.response_size
            THEN IF c.completion_handler = "none"
                   THEN d.completion_handler = "none" /\ d.called = c.called
                   ELSE /\ d.completion_handler = "none"
                        /\ d.called = Append(c.called, call)
            ELSE /\ d.state = "RX_RESPONSE" /\ d.response_idx = i + 1
                 /\ d.completion_handler = c.completion_handler /\ d.called = c.called
  <2>1. i \in 1..(c.response_size - 1) BY <1>6, <1>7
  <2>2. /\ c \in ComblkType /\ c.state = "RX_RESPONSE" /\ h \in Word /\ ~h.command
        /\ i = c.response_idx /\ c.response[i - 1] # POR_DIGEST_ERROR_OPCODE
    BY <1>2, <1>6, <1>11, <1>12
  <2> QED BY <2>1, <2>2, ByteStored DEF d
<1> HIDE DEF r
<1>16. ~comblk'.TXTOKAY BY <1>2 DEF Stays
<1>17. comblk'.response = r BY <1>2, <1>15 DEF Stays
<1>18. CASE i + 1 # n
  <2>1. /\ d.state = "RX_RESPONSE" /\ d.response_idx = i + 1
        /\ d.completion_handler = "request" /\ d.called = <<>>
    BY <1>2, <1>6, <1>15, <1>18
  <2>2. UNCHANGED services BY <1>2, <2>1, NobodyCalled
  <2>3. Asked' BY <1>2, <1>6, <1>15, <2>1, <2>2 DEF Receiving, Asked, Stays, services, n
  <2>4. comblk'.state = "RX_RESPONSE" /\ comblk'.response_idx = i + 1 BY <1>2, <2>1 DEF Stays
  <2>5. request'.size = n BY <1>2 DEF n
  <2>6. i + 1 \in 1..n - 1 BY <1>9, <1>18, SMT
  <2>7. /\ Len(Incoming') = request'.size - (i + 1) /\ Ends(Incoming', LastAnswer', request'.size, i + 1)
        /\ i + 1 \in 1..request'.size - 1
    BY <1>8, <1>10, <2>5, <2>6
  <2>8. \A j \in 1..i + 1 : comblk'.response[j - 1] = LastAnswer'[j].byte BY <1>8, <1>14, <1>17
  <2>9. Collecting' BY <2>4, <2>7, <2>8 DEF Collecting
  <2>10. Receiving' BY <1>2, <2>3, <2>9 DEF Receiving
  <2> QED BY <1>16, <2>10 DEF Exchange
<1>19. CASE i + 1 = n
  <2>1. call.handler = "request" /\ call.length = n BY <1>6, <1>19
  <2>2. d.completion_handler = "none" /\ d.called = Append(<<>>, call) BY <1>2, <1>6, <1>15, <1>19
  <2> HIDE DEF call
  <2>3. d.called = <<call>> BY <2>2
  <2>4. g_request_in_progress' = FALSE /\ g_last_response_length' = n BY <1>2, <2>1, <2>3, OneCalled
  <2>5. Incoming' = <<>>
    <3> DEFINE u == Tail(Incoming)
    <3>1. Len(u) = n - (i + 1) BY <1>10
    <3>2. u \in Seq(Word) BY <1>3
    <3> HIDE DEF u
    <3>3. Len(u) = 0 BY <1>9, <1>19, <3>1, SMT
    <3>4. u = <<>> BY <3>2, <3>3
    <3> QED BY <3>4 DEF u
  <2>6. comblk'.response[0] = request.opcode /\ comblk'.response[1] = LastStatus
    <3>1. 1 \in 1..i + 1 /\ 2 \in 1..i + 1 /\ 1 - 1 = 0 /\ 2 - 1 = 1 BY <1>9, SMT
    <3>2. r[1 - 1] = LastAnswer[1].byte /\ r[2 - 1] = LastAnswer[2].byte BY <1>14, <3>1, Zenon
    <3>3. LastAnswer[1].byte = request.opcode /\ LastAnswer[2].byte = LastStatus
      BY <1>5 DEF Opcode, Data
    <3>4. r[0] = LastAnswer[1].byte /\ r[1] = LastAnswer[2].byte BY <3>1, <3>2
    <3> QED BY <1>17, <3>3, <3>4
  <2>7. request'.size = n /\ request'.opcode = request.opcode BY <1>2 DEF n
  <2>8. comblk'.completion_handler = "none" BY <1>2, <2>2 DEF Stays
  <2>9. Complete' BY <1>2, <1>8, <2>4, <2>5, <2>6, <2>7, <2>8 DEF Complete, Receiving
  <2> QED BY <1>16, <2>9 DEF Exchange
<1> QED BY <1>18, <1>19

\* A data byte behind a byte 241 ends the response, and no handler is told.
LEMMA ByteEnds ==
  ASSUME NEW c \in ComblkType, c.state = "RX_RESPONSE", NEW word \in Word, ~word.command,
         c.response[c.response_idx - 1] = POR_DIGEST_ERROR_OPCODE
  PROVE  LET d == handle_rx_okay_irq(c, word)
         IN  d.state = "IDLE" /\ d.completion_handler = c.completion_handler /\ d.called = c.called
<1> DEFINE q == process_sys_ctrl_command(c, POR_DIGEST_ERROR_OPCODE)
           r == [q.response EXCEPT ![c.response_idx] = word.byte]
           e == [q EXCEPT !.response = r, !.state = "IDLE"]
           d == handle_rx_okay_irq(c, word)
<1>1. POR_DIGEST_ERROR_OPCODE \in Nat BY SMT DEF POR_DIGEST_ERROR_OPCODE
<1>2. /\ q \in ComblkType /\ q.completion_handler = c.completion_handler
      /\ q.called = c.called
  BY <1>1, ReportType, ReportStays DEF Stays
<1>3. d = RxData(c, word.byte) BY DEF handle_rx_okay_irq, RxResponse
<1>4. RxData(c, word.byte) = [q EXCEPT !.response[c.response_idx] = word.byte, !.state = "IDLE"]
  BY Zenon DEF RxData
<1> HIDE DEF q
<1>5. [q EXCEPT !.response[c.response_idx] = word.byte, !.state = "IDLE"] = e
  BY <1>2 DEF ComblkType
<1>6. d = e BY <1>3, <1>4, <1>5
<1> HIDE DEF r, d
<1>7. /\ e.state = "IDLE" /\ e.completion_handler = q.completion_handler
      /\ e.called = q.called
  BY <1>2 DEF ComblkType
<1> QED BY <1>2, <1>6, <1>7 DEF d

\* A byte of the answer is 241, and the next one is not stored as one of it.
LEMMA CutOffBegins ==
  ASSUME Types, Statuses, Exchange, Receiving, Collecting, Interrupt,
         Incoming # <<>>, Head(rx) = Head(Incoming), Incoming' = Tail(Incoming),
         comblk.response[comblk.response_idx - 1] = POR_DIGEST_ERROR_OPCODE
  PROVE  CutOff'
<1> DEFINE c == Silent(comblk)
           h == Head(rx)
           d == handle_rx_okay_irq(c, h)
           n == request.size
           i == comblk.response_idx
           u == Tail(Incoming)
           a == LastAnswer
<1>1. ~comblk.TXTOKAY BY DEF Exchange
<1>2. /\ c \in ComblkType /\ Stays(comblk, c) /\ h \in Word /\ c.called = <<>>
      /\ d.TXTOKAY = FALSE
      /\ Stepped(d) /\ Stays(d, comblk') /\ tx' = tx
      /\ UNCHANGED <<main, request, serving, replied, returned>>
  BY <1>1, InterruptTakes
<1>3. Incoming \in Seq(Word) BY IncomingType DEF Types
<1>4. request \in {Serial, Digest} /\ LastStatus \in Status BY LastAnswerIs DEF Receiving
<1>5. n \in Size /\ n >= 2 /\ \A j \in 1..n : j # 1 => ~a[j].command
  BY <1>4, AnswerWords DEF LastAnswer
<1>6. /\ c.state = "RX_RESPONSE" /\ c.completion_handler = "request"
      /\ c.response[c.response_idx - 1] = POR_DIGEST_ERROR_OPCODE
  BY <1>2 DEF Receiving, Collecting, Asked, Stays
<1>7. i \in 1..n - 1 /\ Len(Incoming) = n - i /\ Ends(Incoming, a, n, i)
  BY DEF Collecting
<1> HIDE DEF c, h, d, i, n, a
<1>8. n \in Nat /\ i \in Nat /\ i \in 0..n - 1 /\ i + 1 \in 1..n /\ i + 1 # 1
  BY <1>5, <1>7, SMT DEF Size
<1>9. /\ h = a[i + 1] /\ Ends(u, a, n, i + 1) /\ Len(u) = n - (i + 1)
  <2>1. /\ Incoming # <<>> /\ Head(Incoming) = a[i + 1]
         /\ Ends(Tail(Incoming), a, n, i + 1) /\ Len(Tail(Incoming)) = n - (i + 1)
    BY <1>3, <1>7, <1>8, EndsNext
  <2> QED BY <2>1 DEF h
<1>10. ~h.command BY <1>5, <1>8, <1>9, Zenon
<1>11. d.state = "IDLE" /\ d.completion_handler = "request" /\ d.called = <<>>
  BY <1>2, <1>6, <1>10, ByteEnds DEF d
<1> HIDE DEF u
<1>12. ASSUME NEW j \in 1..Len(u) PROVE ~u[j].command
  <2> DEFINE k == j - Len(u) + n
  <2>1. ~(j <= Len(u) - (n - (i + 1))) /\ k \in 1..n /\ k # 1 BY <1>7, <1>8, <1>9, SMT
  <2> HIDE DEF k
  <2>2. u[j] = a[k] BY <1>9, <2>1, Zenon DEF Ends, k
  <2> QED BY <1>5, <2>1, <2>2
<1>13. UNCHANGED services BY <1>2, <1>11, NobodyCalled
<1>14. comblk'.state = "IDLE" /\ comblk'.completion_handler = "request" /\ ~comblk'.TXTOKAY
  BY <1>2, <1>11 DEF Stays
<1>15. main' = "wait" /\ g_request_in_progress' /\ tx' = <<>> /\ serving'.answered
  BY <1>2, <1>13 DEF Receiving, Asked, services
<1>16. Incoming' = u BY DEF u
<1>17. \A j \in 1..Len(Incoming') : ~Incoming'[j].command BY <1>12, <1>16
<1> QED BY <1>14, <1>15, <1>17 DEF CutOff

\* Then the service waits for ever: it returns nothing.
LEMMA CutOffStays ==
  ASSUME NoServiceEvents, Types, CutOff, [Next]_vars
  PROVE  CutOff'
<1>1. CASE Interrupt
  <2> DEFINE c == Silent(comblk)
             h == Head(rx)
  <2>1. ~comblk.TXTOKAY BY DEF CutOff
  <2>2. /\ rx # <<>> /\ rx' = Tail(rx) /\ h \in Word /\ c \in ComblkType /\ serving' = serving
        /\ Stays(comblk, c)
    BY <1>1, <2>1, InterruptTakes
  <2>3. Incoming \in Seq(Word) BY IncomingType DEF Types
  <2>4. \/ h.command /\ h.byte \in Events /\ Incoming' = Incoming
        \/ Incoming # <<>> /\ h = Head(Incoming) /\ Incoming' = Tail(Incoming)
    BY <2>2, IncomingTaken DEF Types
  <2>5. /\ LET d == handle_rx_okay_irq(c, h) IN Stays(c, d) /\ d.called = c.called
        /\ \A j \in 1..Len(Incoming') : ~Incoming'[j].command
    <3>1. CASE h.command /\ h.byte \in Events /\ Incoming' = Incoming
      <4>1. LET d == handle_rx_okay_irq(c, h) IN Stays(c, d) /\ d.called = c.called
        BY <2>2, <3>1, EventPasses, Zenon
      <4> QED BY <3>1, <4>1 DEF CutOff
    <3>2. CASE Incoming # <<>> /\ h = Head(Incoming) /\ Incoming' = Tail(Incoming)
      <4> DEFINE l == Len(Incoming)
      <4>1. /\ l \in Nat /\ l >= 1 /\ Len(Tail(Incoming)) = l - 1 /\ Head(Incoming) = Incoming[1]
            /\ \A j \in 1..l - 1 : Tail(Incoming)[j] = Incoming[j + 1]
        BY <2>3, <3>2, TailOf
      <4>2. \A j \in 1..l : ~Incoming[j].command BY DEF CutOff
      <4> HIDE DEF l
      <4>3. ~h.command
        <5>1. 1 \in 1..l BY <4>1, SMT
        <5> QED BY <3>2, <4>1, <4>2, <5>1
      <4>4. c.state = "IDLE" BY <2>2 DEF CutOff, Stays
      <4>5. handle_rx_okay_irq(c, h) = c BY <4>3, <4>4 DEF handle_rx_okay_irq, RxIdle
      <4>6. Stays(c, c) BY DEF Stays
      <4>7. ASSUME NEW j \in 1..l - 1 PROVE ~Tail(Incoming)[j].command
        <5>1. j + 1 \in 1..l BY <4>1, SMT
        <5> QED BY <4>1, <4>2, <5>1
      <4>8. \A j \in 1..Len(Incoming') : ~Incoming'[j].command BY <3>2, <4>1, <4>7
      <4> HIDE DEF c, h
      <4> QED BY <4>5, <4>6, <4>8
    <3> QED BY <2>4, <3>1, <3>2
  <2>6. /\ Stays(comblk, comblk') /\ UNCHANGED <<services, tx, main, request, serving, replied, returned>>
    BY <1>1, <2>1, <2>5, InterruptPasses
  <2> QED BY <2>5, <2>6 DEF CutOff, Stays, services
<1>2. CASE ~Interrupt
  <2>1. /\ UNCHANGED <<comblk, services, tx, main>> /\ serving'.answered = serving.answered
        /\ Incoming' = Incoming
    <3>1. CASE ControllerSends
      <4>1. serving \in Serving /\ serving' = [serving EXCEPT !.reply = Tail(@)]
        BY <3>1 DEF ControllerSends, Types, RestType
      <4>2. serving'.answered = serving.answered BY <4>1 DEF Serving
      <4> QED BY <3>1, <4>2, IncomingSends DEF ControllerSends, driver, Types
    <3>2. CASE ControllerRaises
      BY <3>2, IncomingRaises DEF ControllerRaises, driver, Types
    <3>3. CASE ~ControllerSends /\ ~ControllerRaises
      <4>1. UNCHANGED vars
        BY <1>2, <3>3 DEF CutOff, Next, Application, ControllerTakes, ControllerAnswers,
          MSS_SYS_get_serial_number, MSS_SYS_check_digest, MSS_SYS_start_isp, Call,
          signal_request_start, Prepares, SendsOpcode, SendsParameters, wait_for_request_completion
      <4> QED BY <4>1 DEF vars, driver, controller, Incoming
    <3> QED BY <3>1, <3>2, <3>3
  <2> QED BY <2>1 DEF CutOff, services
<1> QED BY <1>1, <1>2

LEMMA ExchangeInterrupt ==
  ASSUME NoServiceEvents, Types, Statuses, Exchange, Interrupt
  PROVE  Exchange' \/ CutOff'
<1> DEFINE c == Silent(comblk)
           h == Head(rx)
<1>1. ~comblk.TXTOKAY BY DEF Exchange
<1>2. comblk.nvic /\ rx # <<>> /\ rx' = Tail(rx) /\ h \in Word /\ c \in ComblkType /\ serving' = serving
  BY <1>1, InterruptTakes
<1>3. ~Asking BY <1>2 DEF Asking
<1>4. \/ h.command /\ h.byte \in Events /\ Incoming' = Incoming
      \/ Incoming # <<>> /\ h = Head(Incoming) /\ Incoming' = Tail(Incoming)
  BY <1>2, IncomingTaken DEF Types
<1>5. CASE h.command /\ h.byte \in Events /\ Incoming' = Incoming
  <2>1. LET d == handle_rx_okay_irq(c, h) IN Stays(c, d) /\ d.called = c.called
    BY <1>2, <1>5, EventPasses, Zenon
  <2>2. /\ Stays(comblk, comblk')
        /\ UNCHANGED <<services, tx, main, request, serving, replied, returned>>
    BY <1>1, <2>1, InterruptPasses
  <2> QED BY <1>3, <1>5, <2>2, ExchangeStays
<1>6. CASE Incoming # <<>> /\ h = Head(Incoming) /\ Incoming' = Tail(Incoming)
  <2>1. CASE Resting BY <1>6, <2>1, RestingInterrupt
  <2>2. CASE Awaiting BY <1>6, <2>2, AwaitingInterrupt
  <2>3. CASE Receiving /\ Coming BY <1>6, <2>3, ComingInterrupt
  <2>4. CASE Receiving /\ Collecting
    <3>1. CASE comblk.response[comblk.response_idx - 1] # POR_DIGEST_ERROR_OPCODE
      BY <1>6, <2>4, <3>1, CollectingInterrupt
    <3>2. CASE comblk.response[comblk.response_idx - 1] = POR_DIGEST_ERROR_OPCODE
      BY <1>6, <2>4, <3>2, CutOffBegins
    <3> QED BY <3>1, <3>2
  <2>5. ~Complete BY <1>6 DEF Complete
  <2> QED BY <1>3, <2>1, <2>2, <2>3, <2>4, <2>5 DEF Exchange, Receiving
<1> QED BY <1>4, <1>5, <1>6

LEMMA StatusesNext == Types /\ Statuses /\ [Next]_vars => Statuses'
<1> SUFFICES ASSUME Types, Statuses, [Next]_vars PROVE Statuses'
  OBVIOUS
<1>1. CASE ControllerAnswers
  <2>1. PICK status \in Status : replied' = Append(replied, status) BY <1>1 DEF ControllerAnswers
  <2> QED BY <2>1 DEF Statuses
<1>2. CASE ~ControllerAnswers
  <2>1. replied' = replied
    BY <1>2 DEF Next, Application, vars, controller, ControllerTakes, ControllerSends, ControllerRaises,
      MSS_SYS_get_serial_number, MSS_SYS_check_digest, MSS_SYS_start_isp, Call, signal_request_start,
      Prepares, SendsOpcode, SendsParameters, wait_for_request_completion, Interrupt
  <2> QED BY <2>1 DEF Statuses
<1> QED BY <1>1, <1>2

\* What the services have returned stands.
LEMMA AnswersStand ==
  ASSUME Types, AnswersMatch, [Next]_vars, ~wait_for_request_completion
  PROVE  AnswersMatch'
<1>1. returned' = returned
  BY DEF Next, Application, vars, ControllerTakes, ControllerAnswers, ControllerSends, ControllerRaises,
    MSS_SYS_get_serial_number, MSS_SYS_check_digest, MSS_SYS_start_isp, Call, signal_request_start,
    Prepares, SendsOpcode, SendsParameters, Interrupt
<1>2. returned \in Seq(Nat) /\ replied \in Seq(Nat) BY DEF Types, RestType, Text
<1>3. CASE ControllerAnswers
  <2>1. PICK status \in Nat : replied' = Append(replied, status) BY <1>3 DEF ControllerAnswers, Status
  <2>2. Len(replied') = Len(replied) + 1 /\ \A i \in 1..Len(replied) : replied'[i] = replied[i]
    BY <1>2, <2>1
  <2>3. Len(returned) \in Nat /\ Len(replied) \in Nat /\ DOMAIN returned = 1..Len(returned) BY <1>2
  <2>4. Len(returned) <= Len(replied) BY DEF AnswersMatch
  <2>5. ASSUME NEW i \in 1..Len(returned) PROVE returned[i] = replied'[i]
    <3>1. i \in 1..Len(replied) BY <2>3, <2>4, SMT
    <3>2. returned[i] = replied[i] BY <2>3 DEF AnswersMatch
    <3> QED BY <2>2, <3>1, <3>2
  <2>6. Len(returned) <= Len(replied') BY <2>2, <2>3, <2>4, SMT
  <2> QED BY <1>1, <2>3, <2>5, <2>6 DEF AnswersMatch
<1>4. CASE ~ControllerAnswers
  <2>1. replied' = replied
    BY <1>4 DEF Next, Application, vars, controller, ControllerTakes, ControllerSends, ControllerRaises,
      MSS_SYS_get_serial_number, MSS_SYS_check_digest, MSS_SYS_start_isp, Call, signal_request_start,
      Prepares, SendsOpcode, SendsParameters, wait_for_request_completion, Interrupt
  <2> QED BY <1>1, <2>1 DEF AnswersMatch
<1> QED BY <1>3, <1>4

LEMMA PreparesOpcode ==
  ASSUME Types, Prepares
  PROVE  comblk'.cmd_opcode = request.opcode
<1>1. comblk \in ComblkType /\ request \in Requests BY DEF Types, DriverType, RestType
<1>2. Stepped(Prepared(comblk, request)) BY DEF Prepares
<1>3. Prepared(comblk, request).cmd_opcode = request.opcode /\ Prepared(comblk, request) \in ComblkType
  BY <1>1, PreparedRequest, PreparedType
<1> QED BY <1>2, <1>3, SteppedStays DEF Stays

\* Only the preparation of a request changes the command of the driver.
LEMMA OpcodeKept ==
  ASSUME Types, [Next]_vars, ~Prepares
  PROVE  comblk'.cmd_opcode = comblk.cmd_opcode
<1>1. comblk \in ComblkType /\ request \in Requests BY DEF Types, DriverType, RestType
<1>2. CASE SendsOpcode
  <2>1. Stepped(send_cmd_opcode(comblk)) BY <1>2 DEF SendsOpcode
  <2>2. send_cmd_opcode(comblk) \in ComblkType /\ send_cmd_opcode(comblk).cmd_opcode = comblk.cmd_opcode
    BY <1>1, SendOpcodeType, SendOpcodeSends
  <2> QED BY <2>1, <2>2, SteppedStays DEF Stays
<1>3. CASE SendsParameters
  <2> DEFINE d == Armed(comblk, request.kind, Room)
  <2>1. Stepped(d) BY <1>3 DEF SendsParameters
  <2>2. request.kind \in {"ptr", "cmd", "paged"} /\ Room \in Nat
    BY <1>1, RequestTypes, RoomNat DEF Types
  <2>3. d \in ComblkType /\ d.cmd_opcode = comblk.cmd_opcode
    BY <1>1, <2>2, ArmedType, ArmedSends, Zenon
  <2> HIDE DEF d
  <2> QED BY <2>1, <2>3, SteppedStays DEF Stays
<1>4. CASE Interrupt
  <2> DEFINE d == ComBlk_IRQHandler(comblk, rx, Room)
  <2>1. Stepped(d) BY <1>4 DEF Interrupt
  <2>2. Room \in Nat /\ rx \in Seq(Word) BY RoomNat DEF Types, RestType
  <2>3. d \in ComblkType /\ d.cmd_opcode = comblk.cmd_opcode
    BY <1>1, <2>2, HandleInterrupt, InterruptSends
  <2> HIDE DEF d
  <2> QED BY <2>1, <2>3, SteppedStays DEF Stays
<1>5. CASE ~SendsOpcode /\ ~SendsParameters /\ ~Interrupt
  <2>1. comblk' = comblk
    BY <1>5 DEF Next, Application, vars, driver, ControllerTakes, ControllerAnswers, ControllerSends,
      ControllerRaises, MSS_SYS_get_serial_number, MSS_SYS_check_digest, MSS_SYS_start_isp, Call,
      signal_request_start, wait_for_request_completion
  <2> QED BY <2>1
<1> QED BY <1>2, <1>3, <1>4, <1>5

\* Once ISP has been asked for, it stays the command of the driver.
LEMMA ProgrammingStays ==
  ASSUME Types, Turns, Programming, [Next]_vars
  PROVE  Programming'
<1>1. ~Prepares BY DEF Prepares, Programming, Turns, Turn
<1> QED BY <1>1, OpcodeKept DEF Programming

LEMMA ExchangesNext ==
  ASSUME NoServiceEvents, Types, Turns, Ordered, Statuses, Exchanges, AnswersMatch,
         [Next]_vars
  PROVE  Exchanges' /\ AnswersMatch'
<1>1. CASE Programming
  <2>1. ~wait_for_request_completion
    BY <1>1 DEF Programming, wait_for_request_completion, Turns, Turn
  <2> QED BY <1>1, <2>1, AnswersStand, ProgrammingStays DEF Exchanges
<1>2. CASE CutOff
  <2>1. ~wait_for_request_completion BY <1>2 DEF CutOff, wait_for_request_completion
  <2> QED BY <1>2, <2>1, AnswersStand, CutOffStays DEF Exchanges
<1>3. CASE ~Programming /\ ~CutOff
  <2>1. Exchange /\ comblk.cmd_opcode # ISP_PROGRAMMING BY <1>3 DEF Exchanges, Programming
  <2>2. CASE wait_for_request_completion BY <2>1, <2>2, ExchangeReturns DEF Exchanges
  <2>3. CASE Prepares /\ request.opcode = ISP_PROGRAMMING
    <3>1. Programming' BY <2>3, PreparesOpcode DEF Programming
    <3>2. ~wait_for_request_completion BY <2>3 DEF Prepares, wait_for_request_completion
    <3> QED BY <3>1, <3>2, AnswersStand DEF Exchanges
  <2>4. CASE ~wait_for_request_completion /\ ~(Prepares /\ request.opcode = ISP_PROGRAMMING)
    <3>1. Exchange' \/ CutOff'
      <4>1. CASE ControllerTakes BY <2>1, <4>1, ExchangeTakes
      <4>2. CASE ControllerAnswers BY <2>1, <4>2, ExchangeAnswers
      <4>3. CASE ControllerSends BY <2>1, <4>3, ExchangeSends
      <4>4. CASE ControllerRaises BY <2>1, <4>4, ExchangeRaises
      <4>5. CASE \E r \in Requests : Call(r) BY <2>1, <4>5, ExchangeCall
      <4>6. CASE signal_request_start BY <2>1, <4>6, ExchangeSignal
      <4>7. CASE Prepares BY <2>1, <2>4, <4>7, ExchangePrepares
      <4>8. CASE SendsOpcode BY <2>1, <4>8, ExchangeSendsOpcode
      <4>9. CASE SendsParameters BY <2>1, <4>9, ExchangeSendsParameters
      <4>10. CASE Interrupt BY <2>1, <4>10, ExchangeInterrupt
      <4>11. CASE UNCHANGED vars
        <5>1. UNCHANGED <<comblk, services, tx, rx, main, request, serving, replied, returned>>
          BY <4>11 DEF vars, driver, controller
        <5>2. Incoming' = Incoming BY <5>1 DEF Incoming
        <5>3. Stays(comblk, comblk') BY <5>1 DEF Stays
        <5> QED BY <2>1, <5>1, <5>2, <5>3, ExchangeStays
      <4> QED
        BY <2>4, <4>1, <4>2, <4>3, <4>4, <4>5, <4>6, <4>7, <4>8, <4>9, <4>10, <4>11
        DEF Next, Application, MSS_SYS_get_serial_number, MSS_SYS_check_digest, MSS_SYS_start_isp, Requests
    <3> QED BY <2>4, <3>1, AnswersStand DEF Exchanges
  <2> QED BY <2>2, <2>3, <2>4
<1> QED BY <1>1, <1>2, <1>3

\* execute_service returns what the controller answered to this very request: no answer is taken
\* for another's, whatever events come in the middle and whatever a power-on left in the FIFO. The
\* events have no service's opcode. (A byte 241 of the buffer's address can keep a service waiting for
\* ever, but it returns nothing then.)
THEOREM ServicesReturnAnswers ==
  ASSUME NoServiceEvents
  PROVE  Spec => []AnswersMatch
<1>1. Init => Types /\ Turns /\ Ordered BY TypesInit, BitstreamInit
<1>2. Init => Statuses /\ Exchanges /\ AnswersMatch
  <2>1. Init => Statuses BY DEF Init, Statuses
  <2> QED BY <2>1, ExchangeInit
<1>3. Types /\ Turns /\ Ordered /\ [Next]_vars => (Types /\ Turns /\ Ordered)'
  BY TypesNext, BitstreamNext
<1>4. Types /\ Turns /\ Ordered /\ Statuses /\ Exchanges /\ AnswersMatch /\ [Next]_vars
        => (Statuses /\ Exchanges /\ AnswersMatch)'
  BY StatusesNext, ExchangesNext
<1> QED BY <1>1, <1>2, <1>3, <1>4, PTL DEF Spec

-----------------------------------------------------------------------------
(* In-system programming, as the last service and not the first *)

IspLast == ~IspFirst /\ ~AfterIsp

\* The services called, and those that have returned; ISP is called behind one of them.
Counted ==
  /\ calls = Len(returned) + (IF main = "idle" /\ ~IspStarted THEN 0 ELSE 1)
  /\ main = "wait" => ~IspStarted
  /\ IspStarted => returned # <<>>

\* When a service has returned, nothing is left of a power-on.
Emptied ==
  main \in {"idle", "signal", "prepare"} /\ returned # <<>> /\ ~Programming => Incoming = <<>>

LEMMA NotWaiting ==
  ASSUME [Next]_vars, ~wait_for_request_completion
  PROVE  returned' = returned
BY DEF Next, Application, vars, ControllerTakes, ControllerAnswers, ControllerSends, ControllerRaises,
    MSS_SYS_get_serial_number, MSS_SYS_check_digest, MSS_SYS_start_isp, Call, signal_request_start,
    Prepares, SendsOpcode, SendsParameters, Interrupt

LEMMA CountedInit == Init => Counted /\ Emptied
<1> SUFFICES ASSUME Init PROVE Counted /\ Emptied
  OBVIOUS
<1>1. returned = <<>> /\ main = "idle" /\ calls = 0 /\ ~IspStarted BY DEF Init, IspStarted, Serial
<1>2. Len(<<>>) = 0 OBVIOUS
<1> QED BY <1>1, <1>2 DEF Counted, Emptied

LEMMA CountedCall ==
  ASSUME IspLast, Types, Counted, NEW r \in Requests, Call(r), r.kind = "paged" => IspFirst \/ calls > 0
  PROVE  Counted'
<1>1. /\ main = "idle" /\ main' = "signal" /\ calls' = calls + 1 /\ request' = r /\ returned' = returned
      /\ ~IspStarted
  BY DEF Call, IspLast
<1>2. calls = Len(returned) + 0 BY <1>1 DEF Counted
<1>3. returned \in Seq(Nat) BY DEF Types, RestType, Text
<1>4. Len(returned) \in Nat BY <1>3
<1> DEFINE l == Len(returned)
<1>5. l \in Nat /\ calls = l + 0 BY <1>2, <1>4
<1>6. l # 0 => returned # <<>> OBVIOUS
<1> HIDE DEF l
<1>7. calls' = l + 1 BY <1>1, <1>5
<1>8. IspStarted' => returned # <<>>
  <2> SUFFICES ASSUME IspStarted' PROVE returned # <<>>
    OBVIOUS
  <2>1. calls > 0 BY <1>1 DEF IspStarted, IspLast
  <2> QED BY <1>5, <1>6, <2>1
<1>9. calls' = Len(returned') + 1 BY <1>1, <1>7 DEF l
<1> QED BY <1>1, <1>8, <1>9 DEF Counted

LEMMA CountedNext ==
  ASSUME IspLast, Types, Counted, [Next]_vars
  PROVE  Counted'
<1>1. CASE MSS_SYS_get_serial_number \/ MSS_SYS_check_digest \/ MSS_SYS_start_isp
  <2>1. CASE MSS_SYS_get_serial_number
    <3>1. Call(Serial) /\ Serial \in Requests /\ Serial.kind # "paged"
      BY <2>1 DEF MSS_SYS_get_serial_number, Requests, Serial
    <3> QED BY <3>1, CountedCall
  <2>2. CASE MSS_SYS_check_digest
    <3>1. Call(Digest) /\ Digest \in Requests /\ Digest.kind # "paged"
      BY <2>2 DEF MSS_SYS_check_digest, Requests, Digest
    <3> QED BY <3>1, CountedCall
  <2>3. CASE MSS_SYS_start_isp
    <3>1. Call(Isp) /\ Isp \in Requests /\ (IspFirst \/ calls > 0)
      BY <2>3 DEF MSS_SYS_start_isp, Requests
    <3> QED BY <3>1, CountedCall
  <2> QED BY <1>1, <2>1, <2>2, <2>3
<1>2. CASE wait_for_request_completion
  <2>1. /\ main = "wait" /\ main' = "idle" /\ returned' = Append(returned, ServiceStatus)
        /\ UNCHANGED <<request, calls>>
    BY <1>2 DEF wait_for_request_completion
  <2>2. ~IspStarted /\ ~IspStarted' BY <2>1 DEF Counted, IspStarted
  <2>3. returned \in Seq(Nat) /\ returned' \in Seq(Nat)
    BY TypesNext DEF Types, RestType, Text
  <2>4. Len(returned') = Len(returned) + 1
    <3> DEFINE x == ServiceStatus
    <3> HIDE DEF x
    <3>1. returned' = Append(returned, x) BY <2>1 DEF x
    <3> QED BY <2>3, <3>1
  <2>5. calls = Len(returned) + 1 BY <2>1 DEF Counted
  <2>6. calls' = Len(returned') + 0
    <3>1. Len(returned) \in Nat BY <2>3
    <3>2. Len(returned') \in Nat BY <2>3
    <3> QED BY <2>1, <2>4, <2>5, <3>1, <3>2
  <2> QED BY <2>1, <2>2, <2>6 DEF Counted
<1>3. CASE signal_request_start \/ Prepares \/ SendsOpcode \/ SendsParameters
  <2>1. /\ main # "idle" /\ main' \in {"prepare", "opcode", "params", "wait", "idle"}
        /\ UNCHANGED <<request, calls, returned>>
        /\ main' = "idle" => IspStarted
        /\ main' = "wait" => ~IspStarted
    BY <1>3 DEF signal_request_start, Prepares, SendsOpcode, SendsParameters, IspStarted
  <2>2. IspStarted' <=> IspStarted BY <2>1 DEF IspStarted
  <2> QED BY <2>1, <2>2 DEF Counted
<1>4. CASE \/ ControllerTakes \/ ControllerAnswers \/ ControllerSends \/ ControllerRaises
           \/ Interrupt \/ UNCHANGED vars
  <2>1. UNCHANGED <<main, request, calls, returned>>
    BY <1>4 DEF ControllerTakes, ControllerAnswers, ControllerSends, ControllerRaises, Interrupt, vars
  <2> QED BY <2>1 DEF Counted, IspStarted
<1> QED BY <1>1, <1>2, <1>3, <1>4 DEF Next, Application

LEMMA EmptiedNext ==
  ASSUME NoServiceEvents, Types, Turns, Exchanges, Emptied, [Next]_vars
  PROVE  Emptied'
<1> SUFFICES ASSUME main' \in {"idle", "signal", "prepare"}, returned' # <<>>, ~Programming'
             PROVE  Incoming' = <<>>
  BY DEF Emptied
<1>1. CASE Prepares BY <1>1 DEF Prepares
<1>2. CASE ~Prepares
  <2>1. ~Programming /\ Exchange
    <3>1. ~Programming BY <1>2, OpcodeKept DEF Programming
    <3>2. ~CutOff
      <4> SUFFICES ASSUME CutOff PROVE FALSE
        OBVIOUS
      <4>1. CutOff' BY CutOffStays
      <4> QED BY <4>1 DEF CutOff
    <3> QED BY <3>1, <3>2 DEF Exchanges
  <2>2. CASE wait_for_request_completion
    <3>1. main = "wait" /\ ~g_request_in_progress /\ UNCHANGED <<rx, serving>>
      BY <2>2 DEF wait_for_request_completion, controller
    <3>2. Complete BY <2>1, <3>1 DEF Exchange, Resting, Asking, Awaiting, Asked, Receiving
    <3> QED BY <3>1, <3>2 DEF Complete, Incoming
  <2>3. CASE ~wait_for_request_completion
    <3>1. returned # <<>> BY <2>3, NotWaiting
    <3>2. ~SendsOpcode BY DEF SendsOpcode
    <3>3. ~SendsParameters
      <4>1. SUFFICES ASSUME SendsParameters PROVE FALSE
        OBVIOUS
      <4>2. main = "params" /\ request.kind = "paged" BY <4>1 DEF SendsParameters
      <4>3. comblk.cmd_opcode = request.opcode BY <4>2 DEF Turns, Turn
      <4>4. request \in Requests BY DEF Types, RestType
      <4>5. request.opcode = ISP_PROGRAMMING BY <4>2, <4>4 DEF Requests, Serial, Digest, Isp
      <4> QED BY <2>1, <4>3, <4>5 DEF Programming
    <3>4. main \in {"idle", "signal", "prepare"}
      BY <1>2, <2>3, <3>2, <3>3 DEF Next, Application, vars, ControllerTakes, ControllerAnswers,
        ControllerSends, ControllerRaises, MSS_SYS_get_serial_number, MSS_SYS_check_digest,
        MSS_SYS_start_isp, Call, signal_request_start, Interrupt
    <3>5. Incoming = <<>> BY <2>1, <3>1, <3>4 DEF Emptied
    <3>6. Resting BY <2>1, <3>4 DEF Exchange, Asking, Awaiting, Receiving, Complete
    <3>7. CASE ControllerTakes \/ ControllerAnswers
      BY <3>6, <3>7 DEF ControllerTakes, ControllerAnswers, Resting
    <3>8. CASE ControllerSends BY <3>5, <3>8, IncomingSends DEF Types
    <3>9. CASE ControllerRaises BY <3>5, <3>9, IncomingRaises DEF Types
    <3>10. CASE Interrupt
      <4>1. ~comblk.TXTOKAY BY <2>1 DEF Exchange
      <4>2. rx # <<>> /\ rx' = Tail(rx) /\ serving' = serving BY <3>10, <4>1, InterruptTakes
      <4> QED BY <3>5, <4>2, IncomingTaken DEF Types
    <3>11. CASE ~ControllerTakes /\ ~ControllerAnswers /\ ~ControllerSends /\ ~ControllerRaises /\ ~Interrupt
      <4>1. UNCHANGED <<rx, serving>>
        BY <1>2, <2>3, <3>2, <3>3, <3>11 DEF Next, Application, vars, controller,
          MSS_SYS_get_serial_number, MSS_SYS_check_digest,
          MSS_SYS_start_isp, Call, signal_request_start
      <4> QED BY <3>5, <4>1 DEF Incoming
    <3> QED BY <3>7, <3>8, <3>9, <3>10, <3>11
  <2> QED BY <2>2, <2>3
<1> QED BY <1>1, <1>2

IspAnswer == <<IspWord, Data(LastStatus)>>
IspStatus == <<Data(LastStatus)>>

IspAsked ==
  comblk.completion_handler = "isp" /\ comblk.response_size = 2 /\ reported = <<>>

\* The controller has yet to take the opcode, or to answer.
Pending ==
  /\ \/ ~serving.answered /\ serving.opcode = ISP_PROGRAMMING
     \/ serving.answered /\ tx # <<>> /\ Head(tx) = IspWord
  /\ Len(replied) + 1 = calls /\ Incoming = <<>>

IspReplied ==
  serving.answered /\ serving.opcode = ISP_PROGRAMMING /\ Len(replied) = calls

PagesGo == comblk.state = "TX_PAGED_DATA"
PagesGone == comblk.state = "WAIT_RESPONSE" /\ ~comblk.TXTOKAY

IspBegins ==
  /\ main \in {"opcode", "params"} /\ IspAsked
  /\ ~comblk.nvic /\ ~comblk.TXTOKAY /\ comblk.cmd = <<0>>
  /\ \/ main = "opcode" /\ tx = <<>> /\ serving.answered
     \/ main = "params" /\ tx = <<IspWord>> /\ serving.answered
     \/ /\ main = "params" /\ tx = <<>> /\ serving.got = <<>>
        /\ ~serving.answered /\ serving.opcode = ISP_PROGRAMMING
  /\ Len(replied) + 1 = calls /\ Incoming = <<>>

IspGoes == main = "idle" /\ IspAsked /\ Pending /\ (PagesGo \/ PagesGone)

\* The status is lost when its opcode comes before the last page has been sent.
IspEnds ==
  /\ main = "idle" /\ IspAsked /\ IspReplied
  /\ \/ PagesGo /\ (Incoming = IspAnswer \/ Incoming = IspStatus)
     \/ PagesGone /\ (Incoming = IspAnswer \/ Incoming = IspStatus \/ Incoming = <<>>)
     \/ /\ comblk.state = "RX_RESPONSE" /\ ~comblk.TXTOKAY
        /\ comblk.response_idx = 1 /\ comblk.response[0] = ISP_PROGRAMMING
        /\ Incoming = IspStatus

IspDone ==
  /\ main = "idle" /\ comblk.completion_handler = "none" /\ IspReplied
  /\ reported = <<LastStatus>>

Reporting ==
  IF ~Programming THEN reported = <<>>
  ELSE IspStarted /\ (IspBegins \/ IspGoes \/ IspEnds \/ IspDone)

LEMMA ReportingInit == Init => Reporting
BY DEF Init, Reporting, Programming, Initialised, ISP_PROGRAMMING

LEMMA ReportingStays ==
  ASSUME Reporting, UNCHANGED <<comblk, tx, main, request, replied, reported, calls>>,
         Incoming' = Incoming, serving'.opcode = serving.opcode, serving'.got = serving.got,
         serving'.answered = serving.answered
  PROVE  Reporting'
<1>1. LastStatus' = LastStatus BY DEF LastStatus
<1>2. IspAnswer' = IspAnswer /\ IspStatus' = IspStatus BY <1>1 DEF IspAnswer, IspStatus
<1>3. /\ IspAsked => IspAsked'
      /\ Pending => Pending'
      /\ IspReplied => IspReplied'
  BY DEF IspAsked, Pending, IspReplied
<1>4. (PagesGo => PagesGo') /\ (PagesGone => PagesGone') BY DEF PagesGo, PagesGone
<1>5. IspBegins => IspBegins' BY <1>3 DEF IspBegins
<1>6. IspGoes => IspGoes' BY <1>3, <1>4 DEF IspGoes
<1>7. IspEnds => IspEnds' BY <1>2, <1>3, <1>4 DEF IspEnds
<1>8. IspDone => IspDone' BY <1>1, <1>3 DEF IspDone
<1>9. (Programming' <=> Programming) /\ (IspStarted' <=> IspStarted) BY DEF Programming, IspStarted
<1> QED BY <1>5, <1>6, <1>7, <1>8, <1>9 DEF Reporting

LEMMA CallsIsp ==
  ASSUME NEW c, NEW d, Called(c, d), d.called = <<>> \/ c.completion_handler # "isp"
  PROVE  CallsOf(d, "isp") = <<>>
<1> DEFINE S == {call \in ToSet(d.called) : call.handler = "isp"}
<1>1. CallsOf(d, "isp") = Kept(d.called, S) BY DEF CallsOf
<1>2. CASE d.called = <<>>
  <2> HIDE DEF S
  <2> QED BY <1>1, <1>2, KeptNone
<1>3. CASE d.called # <<>>
  <2>1. PICK call \in HandlerCall : call.handler = c.completion_handler /\ d.called = <<call>>
    BY <1>3 DEF Called
  <2>2. call \notin S BY <1>3, <2>1
  <2> HIDE DEF S
  <2> QED BY <1>1, <2>1, <2>2, KeptOne
<1> QED BY <1>2, <1>3

LEMMA NoneReported ==
  ASSUME Types, NEW d, Stepped(d), Called(comblk, d),
         d.called = <<>> \/ comblk.completion_handler # "isp"
  PROVE  reported' = reported
<1>1. CallsOf(d, "isp") = <<>> BY CallsIsp
<1> DEFINE k == CallsOf(d, "isp")
<1>2. reported' = reported \o [i \in DOMAIN k |-> k[i].response[1]]
  BY DEF Stepped, isp_sys_completion_handler
<1> HIDE DEF k
<1>3. [i \in DOMAIN k |-> k[i].response[1]] = <<>> BY <1>1 DEF k
<1>4. reported \in Seq(Nat) BY DEF Types, DriverType, Text
<1> QED BY <1>2, <1>3, <1>4

\* Before ISP is asked for, nothing is reported.
LEMMA NotReported ==
  ASSUME Types, Turns, Exchange \/ CutOff, [Next]_vars
  PROVE  reported' = reported
<1>1. comblk \in ComblkType /\ request \in Requests BY DEF Types, DriverType, RestType
<1>2. CASE Prepares
  <2> DEFINE d == Prepared(comblk, request)
  <2>1. Stepped(d) /\ main = "prepare" BY <1>2 DEF Prepares
  <2>2. Called(comblk, d) BY <1>1, PreparedRequest
  <2> HIDE DEF d
  <2>3. Resting BY <2>1 DEF Exchange, CutOff, Asking, Awaiting, Receiving, Complete
  <2>4. comblk.completion_handler = "none" BY <2>3 DEF Resting
  <2> QED BY <2>1, <2>2, <2>4, NoneReported
<1>3. CASE SendsOpcode
  <2> DEFINE d == send_cmd_opcode(comblk)
  <2>1. Stepped(d) BY <1>3 DEF SendsOpcode
  <2>2. d.called = <<>> BY <1>1, SendOpcodeSends
  <2> HIDE DEF d
  <2> QED BY <2>1, <2>2, NoneReported DEF Called
<1>4. CASE SendsParameters
  <2> DEFINE d == Armed(comblk, request.kind, Room)
  <2>1. Stepped(d) BY <1>4 DEF SendsParameters
  <2>2. request.kind \in {"ptr", "cmd", "paged"} /\ Room \in Nat
    BY <1>1, RequestTypes, RoomNat DEF Types
  <2>3. d.called = <<>> BY <1>1, <2>2, ArmedSends, Zenon
  <2> HIDE DEF d
  <2> QED BY <2>1, <2>3, NoneReported DEF Called
<1>5. CASE Interrupt
  <2> DEFINE d == ComBlk_IRQHandler(comblk, rx, Room)
  <2>1. Stepped(d) /\ comblk.nvic BY <1>5 DEF Interrupt, InterruptPending
  <2>2. Room \in Nat /\ rx \in Seq(Word) BY RoomNat DEF Types, RestType
  <2>3. Called(comblk, d) BY <1>1, <2>2, InterruptSends DEF Calls
  <2> HIDE DEF d
  <2>4. comblk.completion_handler # "isp"
    BY <2>1 DEF Exchange, CutOff, Resting, Asking, Awaiting, Asked, Receiving, Complete
  <2> QED BY <2>1, <2>3, <2>4, NoneReported
<1>6. CASE ~Prepares /\ ~SendsOpcode /\ ~SendsParameters /\ ~Interrupt
  BY <1>6 DEF Next, Application, vars, driver, ControllerTakes, ControllerAnswers, ControllerSends,
      ControllerRaises, MSS_SYS_get_serial_number, MSS_SYS_check_digest, MSS_SYS_start_isp, Call,
      signal_request_start, wait_for_request_completion
<1> QED BY <1>2, <1>3, <1>4, <1>5, <1>6

LEMMA IncomingNone ==
  ASSUME RestType, Incoming = <<>>
  PROVE  Kept(rx, Plain) = <<>> /\ serving.reply = <<>>
<1>1. Kept(rx, Plain) \in Seq(Word) /\ serving.reply \in Seq(Word) BY IncomingType
<1>2. Incoming = Kept(rx, Plain) \o serving.reply BY DEF Incoming
<1> DEFINE k == Kept(rx, Plain)
           v == serving.reply
<1>3. k \in Seq(Word) /\ v \in Seq(Word) /\ k \o v = <<>> BY <1>1, <1>2
<1> HIDE DEF k, v
<1>4. Len(k \o v) = Len(k) + Len(v) BY <1>3, LengthOfConcat, Zenon
<1>5. Len(k \o v) = 0 /\ Len(k) \in Nat /\ Len(v) \in Nat BY <1>3
<1>6. Len(k) = 0 /\ Len(v) = 0 BY <1>4, <1>5, SMT
<1>7. k = <<>> /\ v = <<>> BY <1>3, <1>6
<1> QED BY <1>7 DEF k, v

\* Behind its opcode only bytes follow.
LEMMA OnlyBytes ==
  ASSUME Ordered, Programming, main # "opcode", serving.opcode = ISP_PROGRAMMING
  PROVE  tx \in Seq(DataWord)
BY DEF Ordered, Order, Programming, Streams

LEMMA ReportingTakes ==
  ASSUME Types, Ordered, Programming, Reporting, ControllerTakes
  PROVE  Reporting'
<1> DEFINE h == Head(tx)
<1>1. /\ tx # <<>> /\ tx' = Tail(tx) /\ serving' = Taken(serving, h)
      /\ UNCHANGED <<comblk, rx, main, request, replied, reported, calls>>
  BY DEF ControllerTakes, Taken
<1>2. serving \in Serving BY DEF Types, RestType
<1>3. h.command => serving' = [opcode |-> h.byte, got |-> <<>>, reply |-> <<>>, answered |-> FALSE]
  BY <1>1 DEF Taken
<1>4. ~h.command => /\ serving'.answered = serving.answered /\ serving'.opcode = serving.opcode
                    /\ serving'.reply = serving.reply
  BY <1>1, <1>2 DEF Taken, Serving
<1>5. LastStatus' = LastStatus BY <1>1 DEF LastStatus
<1>6. IspAnswer' = IspAnswer /\ IspStatus' = IspStatus BY <1>5 DEF IspAnswer, IspStatus
<1>7. IspAsked => IspAsked' BY <1>1 DEF IspAsked
<1>8. (PagesGo => PagesGo') /\ (PagesGone => PagesGone') BY <1>1 DEF PagesGo, PagesGone
<1>9. Programming' /\ (IspStarted' <=> IspStarted) BY <1>1 DEF Programming, IspStarted
<1>10. Incoming = <<>> => Incoming' = <<>>
  <2> SUFFICES ASSUME Incoming = <<>> PROVE Incoming' = <<>>
    OBVIOUS
  <2>1. Kept(rx, Plain) = <<>> /\ serving.reply = <<>> BY IncomingNone DEF Types
  <2>2. serving'.reply = <<>> BY <1>3, <1>4, <2>1
  <2>3. Kept(rx', Plain) = <<>> BY <1>1, <2>1
  <2> QED BY <2>2, <2>3 DEF Incoming
<1>11. h = IspWord => /\ ~serving'.answered /\ serving'.opcode = ISP_PROGRAMMING
                      /\ serving'.got = <<>>
  BY <1>3 DEF IspWord, Opcode
<1>12. tx \in Seq(DataWord) => ~h.command BY <1>1 DEF DataWord
<1> HIDE DEF h
<1>13. CASE IspBegins
  <2>1. main = "params" /\ tx = <<IspWord>> BY <1>1, <1>13 DEF IspBegins
  <2>2. h = IspWord /\ Tail(tx) = <<>> BY <2>1 DEF h
  <2>3. IspBegins' BY <1>1, <1>7, <1>10, <1>11, <1>13, <2>1, <2>2 DEF IspBegins
  <2> QED BY <1>9, <2>3 DEF Reporting
<1>14. CASE IspGoes
  <2>1. CASE serving.answered
    <3>1. h = IspWord BY <1>14, <2>1 DEF IspGoes, Pending, h
    <3>2. Pending' BY <1>1, <1>10, <1>11, <1>14, <3>1 DEF IspGoes, Pending
    <3>3. IspGoes' BY <1>1, <1>7, <1>8, <1>14, <3>2 DEF IspGoes
    <3> QED BY <1>9, <3>3 DEF Reporting, IspGoes
  <2>2. CASE ~serving.answered
    <3>1. serving.opcode = ISP_PROGRAMMING /\ main = "idle" BY <1>14, <2>2 DEF IspGoes, Pending
    <3>2. ~h.command BY <1>12, <3>1, OnlyBytes
    <3>3. Pending' BY <1>1, <1>4, <1>10, <1>14, <2>2, <3>1, <3>2 DEF IspGoes, Pending
    <3>4. IspGoes' BY <1>1, <1>7, <1>8, <1>14, <3>3 DEF IspGoes
    <3> QED BY <1>9, <3>4 DEF Reporting, IspGoes
  <2> QED BY <2>1, <2>2
<1>15. CASE IspEnds \/ IspDone
  <2>1. serving.opcode = ISP_PROGRAMMING /\ main = "idle" BY <1>15 DEF IspEnds, IspDone, IspReplied
  <2>2. ~h.command BY <1>12, <2>1, OnlyBytes
  <2>3. IspReplied => IspReplied' BY <1>1, <1>4, <2>2 DEF IspReplied
  <2>4. Incoming' = Incoming BY <1>1, <1>4, <2>2 DEF Incoming
  <2>5. IspEnds => IspEnds' BY <1>1, <1>6, <1>7, <1>8, <2>3, <2>4 DEF IspEnds
  <2>6. IspDone => IspDone' BY <1>1, <1>5, <2>3 DEF IspDone
  <2> QED BY <1>9, <1>15, <2>5, <2>6 DEF Reporting
<1> QED BY <1>9, <1>13, <1>14, <1>15 DEF Reporting

LEMMA ReportingAnswers ==
  ASSUME Types, Programming, Reporting, ControllerAnswers
  PROVE  Reporting'
<1>1. PICK status \in Status :
        /\ ~serving.answered /\ serving.got # <<>>
        /\ replied' = Append(replied, status)
        /\ serving' = [serving EXCEPT !.answered = TRUE,
             !.reply = <<Opcode(serving.opcode), Data(status)>> \o
                       (IF serving.opcode = SERIAL_NUMBER THEN Words(PointerBytes) ELSE <<>>)]
  BY DEF ControllerAnswers
<1>2. UNCHANGED <<comblk, tx, rx, main, request, reported, calls>>
  BY DEF ControllerAnswers, driver
<1>3. serving \in Serving /\ replied \in Text BY DEF Types, RestType
<1>4. Len(replied') = Len(replied) + 1 /\ LastStatus' = status
  <2>1. status \in Nat BY DEF Status
  <2>2. Append(replied, status)[Len(replied) + 1] = status /\ Len(Append(replied, status)) = Len(replied) + 1
    BY <1>3, <2>1 DEF Text
  <2> QED BY <1>1, <2>2 DEF LastStatus
<1>5. IspGoes /\ IspStarted BY <1>1 DEF Reporting, IspBegins, IspEnds, IspDone, IspReplied
<1>6. serving.opcode = ISP_PROGRAMMING /\ Incoming = <<>> /\ Len(replied) + 1 = calls
  BY <1>1, <1>5 DEF IspGoes, Pending
<1>7. serving'.answered /\ serving'.opcode = ISP_PROGRAMMING
  BY <1>1, <1>3, <1>6 DEF Serving
<1>8. serving'.reply = IspAnswer'
  <2> DEFINE w == <<Opcode(ISP_PROGRAMMING), Data(status)>>
  <2>1. serving'.reply = w \o <<>>
    <3>1. ISP_PROGRAMMING # SERIAL_NUMBER BY SMT DEF ISP_PROGRAMMING, SERIAL_NUMBER
    <3> QED BY <1>1, <1>3, <1>6, <3>1 DEF Serving
  <2>2. IspAnswer' = w BY <1>4 DEF IspAnswer, IspWord
  <2>3. w \o <<>> = w OBVIOUS
  <2> QED BY <2>1, <2>2, <2>3
<1>9. Incoming' = IspAnswer'
  <2>1. Kept(rx', Plain) = <<>> BY <1>2, <1>6, IncomingNone DEF Types
  <2>2. Incoming' = <<>> \o IspAnswer' BY <1>8, <2>1 DEF Incoming
  <2>3. <<>> \o IspAnswer' = IspAnswer' BY DEF IspAnswer
  <2> QED BY <2>2, <2>3
<1>10. IspAsked' /\ main' = "idle" /\ (PagesGo' \/ PagesGone')
  BY <1>2, <1>5 DEF IspGoes, IspAsked, PagesGo, PagesGone
<1>11. IspReplied' BY <1>2, <1>4, <1>6, <1>7 DEF IspReplied
<1>12. IspEnds' BY <1>9, <1>10, <1>11 DEF IspEnds
<1>13. Programming' /\ IspStarted' BY <1>2, <1>5 DEF Programming, IspStarted
<1> QED BY <1>12, <1>13 DEF Reporting

LEMMA ReportingPrepares ==
  ASSUME Types, Turns, Exchange, ~Programming, Counted, Emptied, Reporting,
         Prepares, request.opcode = ISP_PROGRAMMING
  PROVE  Reporting'
<1> DEFINE d == Prepared(comblk, request)
<1>1. /\ main = "prepare" /\ main' = "opcode" /\ Stepped(d)
      /\ UNCHANGED <<rx, request, serving, replied, returned, calls>>
  BY DEF Prepares, controller
<1>2. comblk \in ComblkType /\ request \in Requests BY DEF Types, DriverType, RestType
<1>3. Resting BY <1>1 DEF Exchange, Asking, Awaiting, Receiving, Complete
<1>4. d \in ComblkType /\ d.sent = <<>> BY <1>2, PreparedType
<1>5. /\ d.cmd = request.params /\ d.cmd_opcode = request.opcode /\ d.completion_handler = request.handler
      /\ d.nvic = FALSE
  BY <1>2, PreparedRequest
<1>6. d.TXTOKAY = FALSE /\ d.response_size = request.size BY <1>2, PreparedStays
<1> HIDE DEF d
<1>7. /\ request.kind = "paged" /\ request.handler = "isp" /\ request.params = <<0>>
  BY <1>2, OpcodeIsp
<1>8. request.size = 2 BY <1>2, <1>7 DEF Requests, Serial, Digest, Isp
<1>9. /\ Stays(d, comblk') /\ comblk'.cmd = d.cmd /\ comblk'.nvic = d.nvic
      /\ tx' = (IF d.flushed THEN <<>> ELSE tx) \o d.sent
  BY <1>1, <1>4, SteppedStays
<1>10. tx' = <<>>
  <2>1. tx = <<>> BY <1>3 DEF Resting
  <2> QED BY <1>4, <1>9, <2>1
<1>11. Incoming' = <<>>
  <2>1. returned # <<>> BY <1>7 DEF Counted, IspStarted
  <2>2. Incoming = <<>> BY <1>1, <2>1 DEF Emptied
  <2> QED BY <1>1, <2>2 DEF Incoming
<1>12. Len(replied') + 1 = calls' BY <1>1, <1>3 DEF Resting, Counted
<1>13. reported' = <<>>
  <2>1. [Next]_vars BY DEF Next, Application
  <2> QED BY <2>1, NotReported DEF Reporting
<1>14. IspAsked' BY <1>5, <1>6, <1>7, <1>8, <1>9, <1>13 DEF IspAsked, Stays
<1>15. ~comblk'.nvic /\ ~comblk'.TXTOKAY /\ comblk'.cmd = <<0>> /\ comblk'.cmd_opcode = ISP_PROGRAMMING
  BY <1>5, <1>6, <1>7, <1>9 DEF Stays
<1>16. IspBegins' BY <1>1, <1>3, <1>10, <1>11, <1>12, <1>14, <1>15 DEF IspBegins, Resting
<1> QED BY <1>1, <1>7, <1>15, <1>16 DEF Reporting, Programming, IspStarted

LEMMA ReportingSendsOpcode ==
  ASSUME Types, Programming, Reporting, SendsOpcode
  PROVE  Reporting'
<1> DEFINE d == send_cmd_opcode(comblk)
<1>1. /\ main = "opcode" /\ main' = "params" /\ Stepped(d)
      /\ UNCHANGED <<rx, request, serving, replied, calls>>
  BY DEF SendsOpcode, controller
<1>2. comblk \in ComblkType BY DEF Types, DriverType
<1>3. IspBegins /\ IspStarted /\ tx = <<>> /\ serving.answered
  BY <1>1 DEF Reporting, IspBegins, IspGoes, IspEnds, IspDone
<1>4. d \in ComblkType /\ d.sent = <<Opcode(comblk.cmd_opcode)>> BY <1>2, SendOpcodeType
<1>5. /\ Unsent(comblk, d) /\ d.nvic = comblk.nvic /\ d.called = <<>> /\ d.flushed = FALSE
  BY <1>2, SendOpcodeSends
<1>6. Stays(comblk, d) BY <1>2, SendOpcodeStays
<1> HIDE DEF d
<1>7. reported' = reported BY <1>1, <1>5, NoneReported DEF Called
<1>8. /\ Stays(d, comblk') /\ comblk'.cmd = d.cmd /\ comblk'.nvic = d.nvic
      /\ tx' = (IF d.flushed THEN <<>> ELSE tx) \o d.sent
  BY <1>1, <1>4, SteppedStays
<1>9. Stays(comblk, comblk') BY <1>6, <1>8, StaysTwice
<1>10. tx' = <<IspWord>>
  <2> DEFINE o == IspWord
  <2>1. d.sent = <<o>> BY <1>4 DEF Programming, IspWord
  <2> HIDE DEF o
  <2>2. tx' = <<o>> BY <1>3, <1>5, <1>8, <2>1
  <2> QED BY <2>2 DEF o
<1>11. Incoming' = <<>> BY <1>1, <1>3 DEF Incoming, IspBegins
<1>12. IspAsked' BY <1>3, <1>7, <1>9 DEF IspBegins, IspAsked, Stays
<1>13. ~comblk'.nvic /\ ~comblk'.TXTOKAY /\ comblk'.cmd = <<0>> /\ comblk'.cmd_opcode = ISP_PROGRAMMING
  BY <1>3, <1>5, <1>8, <1>9 DEF IspBegins, Unsent, Stays, Programming
<1>14. IspBegins' BY <1>1, <1>3, <1>10, <1>11, <1>12, <1>13 DEF IspBegins
<1> QED BY <1>1, <1>3, <1>13, <1>14 DEF Reporting, Programming, IspStarted

LEMMA ArmedPages ==
  ASSUME NEW c \in ComblkType, NEW kind, kind = "paged", NEW room \in Nat, room > 0,
         NEW x \in Nat, c.cmd = << x >>
  PROVE  LET d == Armed(c, kind, room)
         IN  d.sent = <<Data(x)>> /\ d.state = "TX_PAGED_DATA" /\ d.response_size = c.response_size
<1> DEFINE d == Armed(c, kind, room)
<1>1. kind \in {"ptr", "cmd", "paged"} OBVIOUS
<1>2. /\ d.sent = <<Data(x)>> /\ d.state = AfterCommand(kind) /\ d.TXTOKAY = (kind = "paged")
      /\ d.response_size = c.response_size
  BY <1>1, ArmedStays
<1> HIDE DEF d
<1>3. d.sent = <<Data(x)>> /\ d.state = "TX_PAGED_DATA" /\ d.response_size = c.response_size
  BY <1>2 DEF AfterCommand
<1> QED BY <1>3 DEF d

LEMMA ReportingSendsParameters ==
  ASSUME Types, Programming, Reporting, SendsParameters
  PROVE  Reporting'
<1> DEFINE d == Armed(comblk, request.kind, Room)
<1>1. /\ main = "params" /\ Stepped(d)
      /\ main' = IF request.kind = "paged" THEN "idle" ELSE "wait"
      /\ UNCHANGED <<rx, request, serving, replied, calls>>
  BY DEF SendsParameters, controller
<1>2. comblk \in ComblkType BY DEF Types, DriverType
<1>3. /\ IspBegins /\ IspStarted
      /\ \/ tx = <<IspWord>> /\ serving.answered
         \/ tx = <<>> /\ ~serving.answered /\ serving.opcode = ISP_PROGRAMMING
  BY <1>1 DEF Reporting, IspBegins, IspGoes, IspEnds, IspDone
<1>4. request.kind = "paged" /\ comblk.cmd = << 0 >> BY <1>3 DEF IspStarted, IspBegins
<1>5. Room \in Nat /\ Room > 0
  <2>1. Room \in Nat BY RoomNat DEF Types
  <2>2. Len(tx) \in {0, 1} BY <1>3
  <2>3. Depth \in Nat /\ Depth > 1 BY SysServicesAssumption
  <2> DEFINE l == Len(tx)
  <2>4. l \in {0, 1} BY <2>2
  <2> HIDE DEF l
  <2>5. Depth - l > 0 BY <2>3, <2>4, SMT
  <2>6. Depth - Len(tx) > 0 BY <2>5 DEF l
  <2> QED BY <2>1, <2>6 DEF Room
<1>6. request.kind \in {"ptr", "cmd", "paged"} BY <1>4
<1>7. PICK x \in Nat : comblk.cmd = << x >>
  <2>1. 0 \in Nat OBVIOUS
  <2> QED BY <1>4, <2>1
<1>8. /\ d.sent = <<Data(x)>> /\ d.state = "TX_PAGED_DATA" /\ d.response_size = comblk.response_size
  BY <1>2, <1>4, <1>5, <1>7, ArmedPages, Zenon
<1>9. d \in ComblkType BY <1>2, <1>5, <1>6, ArmedType
<1>10. /\ d.cmd_opcode = comblk.cmd_opcode /\ d.completion_handler = comblk.completion_handler
       /\ d.called = <<>> /\ d.flushed = FALSE
  BY <1>2, <1>5, <1>6, ArmedSends, Zenon
<1> HIDE DEF d
<1>11. reported' = reported BY <1>1, <1>10, NoneReported DEF Called
<1>12. /\ Stays(d, comblk') /\ tx' = (IF d.flushed THEN <<>> ELSE tx) \o d.sent
  BY <1>1, <1>9, SteppedStays
<1>13. tx' = tx \o <<Data(x)>> BY <1>8, <1>10, <1>12
<1>14. Incoming' = <<>> /\ Len(replied') + 1 = calls' BY <1>1, <1>3 DEF Incoming, IspBegins
<1>15. Pending'
  <2>1. CASE tx = <<IspWord>> /\ serving.answered
    <3> DEFINE o == IspWord
               p == Data(x)
    <3>1. o \in {o, p} /\ p \in {o, p} /\ tx = <<o>> /\ tx' = tx \o <<p>> BY <1>13, <2>1
    <3> HIDE DEF o, p
    <3>2. tx' = <<o, p>> BY <3>1, TwoWords
    <3>3. tx' # <<>> /\ Head(tx') = o BY <3>2
    <3> QED BY <1>1, <1>14, <2>1, <3>3 DEF Pending, o
  <2>2. CASE ~serving.answered /\ serving.opcode = ISP_PROGRAMMING
    BY <1>1, <1>14, <2>2 DEF Pending
  <2> QED BY <1>3, <2>1, <2>2
<1>16. IspAsked' BY <1>3, <1>8, <1>10, <1>11, <1>12 DEF IspBegins, IspAsked, Stays
<1>17. PagesGo' /\ comblk'.cmd_opcode = ISP_PROGRAMMING
  BY <1>8, <1>10, <1>12 DEF PagesGo, Stays, Programming
<1>18. IspGoes' BY <1>1, <1>4, <1>15, <1>16, <1>17 DEF IspGoes
<1> QED BY <1>1, <1>3, <1>17, <1>18 DEF Reporting, Programming, IspStarted

-----------------------------------------------------------------------------
(* The interrupt while the pages go *)

LEMMA PagedTx ==
  ASSUME NEW c \in ComblkType, c.state = "TX_PAGED_DATA", NEW room \in Nat
  PROVE  LET d == handle_tx_okay_irq(c, room)
         IN  /\ d.called = c.called /\ d.completion_handler = c.completion_handler
             /\ d.response_size = c.response_size
             /\ d.state = "TX_PAGED_DATA" \/ (d.state = "WAIT_RESPONSE" /\ d.TXTOKAY = FALSE)
<1> DEFINE p == IF c.data = <<>> THEN NextPage(c) ELSE c
           e == [p EXCEPT !.TXTOKAY = FALSE, !.state = "WAIT_RESPONSE"]
           s == Sent(p.data, room)
           r == Rest(p.data, room)
           f == [p EXCEPT !.sent = s, !.data = r]
<1>1. handle_tx_okay_irq(c, room) = IF p.data = <<>> THEN e ELSE f
  BY DEF handle_tx_okay_irq, TxPagedData, SendsData
<1>2. /\ p \in ComblkType
      /\ p.called = c.called /\ p.completion_handler = c.completion_handler
      /\ p.response_size = c.response_size /\ p.state = c.state
  <2>1. CASE c.data = <<>> /\ c.pages # <<>>
    <3> DEFINE h == Head(c.pages)
               t == Tail(c.pages)
               q == [c EXCEPT !.data = h, !.pages = t]
    <3>1. p = q BY <2>1 DEF NextPage
    <3>2. p \in ComblkType BY <2>1, NextPageType
    <3> HIDE DEF p, h, t
    <3>3. q.called = c.called /\ q.completion_handler = c.completion_handler BY DEF ComblkType
    <3>4. q.response_size = c.response_size /\ q.state = c.state BY DEF ComblkType
    <3> QED BY <3>1, <3>2, <3>3, <3>4
  <2>2. CASE ~(c.data = <<>> /\ c.pages # <<>>)
    <3>1. p = c BY <2>2 DEF NextPage
    <3> QED BY <3>1
  <2> QED BY <2>1, <2>2
<1> HIDE DEF p, s, r
<1>3. e.called = p.called /\ e.completion_handler = p.completion_handler BY <1>2 DEF ComblkType
<1>4. e.response_size = p.response_size /\ e.state = "WAIT_RESPONSE" /\ e.TXTOKAY = FALSE
  BY <1>2 DEF ComblkType
<1>5. f.called = p.called /\ f.completion_handler = p.completion_handler BY <1>2 DEF ComblkType
<1>6. f.response_size = p.response_size /\ f.state = p.state BY <1>2 DEF ComblkType
<1> HIDE DEF e, f
<1> QED BY <1>1, <1>2, <1>3, <1>4, <1>5, <1>6

\* A byte while the pages go is the status of the service.
LEMMA PagedRx ==
  ASSUME NEW c \in ComblkType, c.state = "TX_PAGED_DATA", c.completion_handler = "isp",
         NEW word \in Word, ~word.command
  PROVE  LET d == handle_rx_okay_irq(c, word)
             call == [handler |-> "isp", length |-> 2, response |-> [c.response EXCEPT ![1] = word.byte]]
         IN  d.completion_handler = "none" /\ d.called = Append(c.called, call)
<1> DEFINE r == [c.response EXCEPT ![1] = word.byte]
           s == [c EXCEPT !.response = r]
           f == complete_request(s, 2)
           g == [f EXCEPT !.state = "IDLE"]
           d == handle_rx_okay_irq(c, word)
           call == [handler |-> "isp", length |-> 2, response |-> r]
<1>1. d = g
  <2>1. [c EXCEPT !.response[1] = word.byte] = s OBVIOUS
  <2> QED BY <2>1 DEF handle_rx_okay_irq, RxPagedData
<1>2. c.response \in Response /\ word.byte \in Nat BY DEF ComblkType, Word
<1>3. r \in Response BY <1>2, ResponseType
<1> HIDE DEF r
<1>4. s \in ComblkType BY <1>3 DEF ComblkType
<1>5. s.response = r /\ s.called = c.called /\ s.completion_handler = "isp" BY DEF ComblkType
<1> HIDE DEF s
<1> DEFINE a == Append(s.called, [handler |-> s.completion_handler, length |-> 2, response |-> s.response])
<1>6. f = [s EXCEPT !.called = a, !.completion_handler = "none", !.request_in_progress = FALSE]
  BY <1>5 DEF complete_request
<1>7. a = Append(c.called, call) BY <1>5
<1>8. f \in ComblkType
  <2>1. 2 \in Size BY DEF Size
  <2> QED BY <1>4, <2>1, CompleteType
<1> HIDE DEF a, f
<1>9. f.called = a /\ f.completion_handler = "none" BY <1>4, <1>6 DEF ComblkType
<1>10. g.called = f.called /\ g.completion_handler = f.completion_handler BY <1>8 DEF ComblkType
<1> HIDE DEF g, d, call
<1>11. d.completion_handler = "none" /\ d.called = Append(c.called, call) BY <1>1, <1>7, <1>9, <1>10
<1> QED BY <1>11 DEF d, call, r

\* What an interrupt does in the idle application, whatever it is told.
IspStep(c, e, d) ==
  /\ c \in ComblkType /\ Stays(comblk, c) /\ c.called = <<>>
  /\ e = IF comblk.RCVOKAY /\ rx # <<>> THEN handle_rx_okay_irq(c, Head(rx)) ELSE c
  /\ e \in ComblkType /\ e.TXTOKAY = c.TXTOKAY /\ Listens(c, e)
  /\ IF comblk.TXTOKAY /\ Room > 0 THEN d = handle_tx_okay_irq(e, Room) /\ Completes(e, d) ELSE d = e
  /\ d \in ComblkType /\ Stepped(d) /\ Stays(d, comblk')
  /\ tx # <<>> => tx' # <<>> /\ Head(tx') = Head(tx)
  /\ UNCHANGED <<main, request, serving, replied, returned, calls>>
  /\ IF comblk.RCVOKAY /\ rx # <<>> THEN rx' = Tail(rx) ELSE rx' = rx

LEMMA IspSteps ==
  ASSUME Types, Ordered, Programming, main = "idle", Interrupt
  PROVE  \E c, e, d : IspStep(c, e, d)
<1> DEFINE c == Silent(comblk)
           taken == comblk.RCVOKAY /\ rx # <<>>
           e == IF taken THEN handle_rx_okay_irq(c, Head(rx)) ELSE c
           d == IF comblk.TXTOKAY /\ Room > 0 THEN handle_tx_okay_irq(e, Room) ELSE e
<1>1. comblk \in ComblkType /\ rx \in Seq(Word) /\ tx \in Seq(Word) /\ Room \in Nat
  <2>1. CommandWord \subseteq Word BY DEF CommandWord
  <2>2. tx \in Seq(Word) BY <2>1, SeqGrows DEF Types, DriverType, CommandWords
  <2> QED BY <2>2, RoomNat DEF Types, DriverType, RestType
<1>2. c \in ComblkType /\ Stays(comblk, c) /\ c.called = <<>> /\ c.sent = <<>> /\ c.events = <<>>
  BY <1>1, SilentType, SilentStays
<1>3. d = ComBlk_IRQHandler(comblk, rx, Room) BY DEF ComBlk_IRQHandler
<1>4. Stepped(d) /\ UNCHANGED <<main, request, serving, replied, returned, calls>>
      /\ IF taken THEN rx' = Tail(rx) ELSE rx' = rx
  BY <1>3 DEF Interrupt, controller
<1>5. d \in ComblkType BY <1>1, <1>3, HandleInterrupt
<1>6. d.sent \in Seq(DataWord) /\ d.flushed = FALSE
  <2>1. ParameterFirst(comblk) /\ Ready(comblk) BY DEF Ordered, Order, Programming
  <2> DEFINE f == ComBlk_IRQHandler(comblk, rx, Room)
  <2>2. f.sent \in Seq(DataWord) /\ f.flushed = FALSE BY <1>1, <2>1, InterruptSends
  <2>3. d = f BY <1>3
  <2> HIDE DEF d, f
  <2> QED BY <2>2, <2>3
<1> HIDE DEF c
<1>7. e \in ComblkType /\ e.sent = <<>> /\ e.TXTOKAY = c.TXTOKAY /\ Listens(c, e)
  <2>1. CASE taken
    <3>1. Head(rx) \in Word BY <1>1, <2>1
    <3> QED BY <1>2, <2>1, <3>1, HandleRx, HandleRxListens, RxOkay DEF Received
  <2>2. CASE ~taken BY <1>2, <2>2, NothingListens
  <2> QED BY <2>1, <2>2
<1>8. e = IF comblk.RCVOKAY /\ rx # <<>> THEN handle_rx_okay_irq(c, Head(rx)) ELSE c OBVIOUS
<1> HIDE DEF e
<1>9. IF comblk.TXTOKAY /\ Room > 0 THEN d = handle_tx_okay_irq(e, Room) /\ Completes(e, d) ELSE d = e
  <2>1. Completes(e, handle_tx_okay_irq(e, Room)) BY <1>1, <1>7, HandleTxSends DEF Transmits
  <2> QED BY <2>1
<1> HIDE DEF d
<1>10. Stays(d, comblk') /\ tx' = (IF d.flushed THEN <<>> ELSE tx) \o d.sent BY <1>4, <1>5, SteppedStays
<1>11. tx # <<>> => tx' # <<>> /\ Head(tx') = Head(tx)
  <2>1. tx' = tx \o d.sent BY <1>6, <1>10
  <2> DEFINE s == d.sent
  <2>2. s \in Seq(Word) BY <1>6, DataBytes
  <2> HIDE DEF s
  <2> SUFFICES ASSUME tx # <<>> PROVE tx' # <<>> /\ Head(tx') = Head(tx)
    OBVIOUS
  <2>3. Head(tx \o s) = Head(tx) BY <1>1, <2>2, HeadOfConcat
  <2>4. tx \o s # <<>>
    <3>1. Len(tx \o s) = Len(tx) + Len(s) BY <1>1, <2>2, LengthOfConcat, Zenon
    <3>2. Len(tx) \in Nat /\ Len(s) \in Nat /\ Len(tx) # 0 BY <1>1, <2>2
    <3>3. Len(tx \o s) # 0 BY <3>1, <3>2, SMT
    <3> QED BY <3>3
  <2> QED BY <2>1, <2>3, <2>4 DEF s
<1> QED BY <1>2, <1>4, <1>5, <1>7, <1>8, <1>9, <1>10, <1>11 DEF IspStep

LEMMA ReportedOne ==
  ASSUME NEW d, NEW call, d.called = <<call>>, call.handler = "isp", Stepped(d), reported = <<>>
  PROVE  reported' = <<call.response[1]>>
<1> DEFINE S == {x \in ToSet(d.called) : x.handler = "isp"}
           k == CallsOf(d, "isp")
<1>1. call \in S
  <2>1. 1 \in DOMAIN d.called /\ d.called[1] = call BY SMT
  <2>2. call \in ToSet(d.called) BY <2>1 DEF ToSet
  <2> QED BY <2>2
<1> HIDE DEF S
<1>2. Kept(<<call>>, S) = <<call>> BY <1>1, KeptOne
<1>3. k = <<call>> BY <1>2 DEF CallsOf, S
<1>4. reported' = <<>> \o [i \in DOMAIN k |-> k[i].response[1]]
  BY DEF Stepped, isp_sys_completion_handler
<1> HIDE DEF k
<1>5. [i \in DOMAIN k |-> k[i].response[1]] = <<call.response[1]>>
  <2>1. DOMAIN k = 1..1 /\ k[1] = call BY <1>3
  <2> QED BY <2>1
<1> DEFINE v == call.response[1]
<1>6. <<>> \o <<v>> = <<v>>
  <2> HIDE DEF v
  <2> QED OBVIOUS
<1> QED BY <1>4, <1>5, <1>6

LEMMA TwoTail ==
  ASSUME NEW o, NEW p
  PROVE  /\ Head(<<o, p>>) = o /\ Tail(<<o, p>>) = <<p>>
         /\ Head(<<p>>) = p /\ Tail(<<p>>) = <<>>
OBVIOUS

\* The word that the interrupt takes: none or an event, or the next of the answer.
LEMMA IspTakes ==
  ASSUME NoServiceEvents, Types, NEW c, NEW e, NEW d, IspStep(c, e, d)
  PROVE  \/ Stays(c, e) /\ e.called = <<>> /\ Incoming' = Incoming
         \/ /\ Incoming # <<>> /\ Head(Incoming) \in Word /\ Incoming' = Tail(Incoming)
            /\ e = handle_rx_okay_irq(c, Head(Incoming))
<1>1. c \in ComblkType /\ c.called = <<>> /\ serving' = serving BY DEF IspStep
<1>2. CASE comblk.RCVOKAY /\ rx # <<>>
  <2> DEFINE h == Head(rx)
             f == handle_rx_okay_irq(c, h)
  <2>1. e = f /\ rx' = Tail(rx) BY <1>2 DEF IspStep
  <2>2. /\ h \in Word
        /\ \/ h.command /\ h.byte \in Events /\ Incoming' = Incoming
           \/ Incoming # <<>> /\ h = Head(Incoming) /\ Incoming' = Tail(Incoming)
    BY <1>1, <1>2, <2>1, IncomingTaken DEF Types
  <2>3. CASE h.command /\ h.byte \in Events /\ Incoming' = Incoming
    <3> HIDE DEF h
    <3>1. Stays(c, f) /\ f.called = c.called BY <1>1, <2>2, <2>3, EventPasses
    <3> HIDE DEF f
    <3> QED BY <1>1, <2>1, <2>3, <3>1
  <2> QED BY <2>1, <2>2, <2>3
<1>3. CASE ~(comblk.RCVOKAY /\ rx # <<>>)
  <2>1. e = c /\ rx' = rx BY <1>3 DEF IspStep
  <2>2. Incoming' = Incoming BY <1>1, <2>1 DEF Incoming
  <2> QED BY <1>1, <2>1, <2>2 DEF Stays
<1> QED BY <1>2, <1>3

LEMMA IspFrame ==
  ASSUME Types, Turns, Programming, Interrupt, NEW c, NEW e, NEW d, IspStep(c, e, d)
  PROVE  /\ Programming' /\ (IspStarted' <=> IspStarted) /\ main' = main
         /\ (IspReplied' <=> IspReplied) /\ LastStatus' = LastStatus
         /\ IspAnswer' = IspAnswer /\ IspStatus' = IspStatus
         /\ Pending /\ Incoming' = Incoming => Pending'
<1>1. UNCHANGED <<main, request, serving, replied, calls>> BY DEF IspStep
<1>2. LastStatus' = LastStatus BY <1>1 DEF LastStatus
<1>3. Programming'
  <2>1. [Next]_vars BY DEF Next
  <2> QED BY <2>1, ProgrammingStays
<1> QED BY <1>1, <1>2, <1>3 DEF IspStarted, IspReplied, IspAnswer, IspStatus, Pending, IspStep

\* A step that tells the driver nothing, but may send of the pages.
LEMMA IspGoesOn ==
  ASSUME Types, NEW c, NEW e, NEW d, IspStep(c, e, d), IspAsked, Stays(c, e), e.called = <<>>,
         PagesGo \/ ~comblk.TXTOKAY
  PROVE  /\ IspAsked' /\ (PagesGo => PagesGo' \/ PagesGone')
         /\ ~comblk.TXTOKAY => Stays(comblk, comblk')
<1>1. /\ Stays(comblk, c) /\ e \in ComblkType /\ d \in ComblkType /\ Stepped(d) /\ Stays(d, comblk')
  BY DEF IspStep
<1>2. Stays(comblk, e) BY <1>1, StaysTwice
<1>3. e.completion_handler = "isp" /\ e.response_size = 2 /\ reported = <<>>
  BY <1>2 DEF IspAsked, Stays
<1>4. CASE comblk.TXTOKAY /\ Room > 0
  <2>1. d = handle_tx_okay_irq(e, Room) BY <1>4 DEF IspStep
  <2>2. e.state = "TX_PAGED_DATA" BY <1>2, <1>4 DEF PagesGo, Stays
  <2>3. Room \in Nat BY RoomNat DEF Types
  <2> DEFINE f == handle_tx_okay_irq(e, Room)
  <2>4. /\ f.called = e.called /\ f.completion_handler = e.completion_handler
        /\ f.response_size = e.response_size
        /\ f.state = "TX_PAGED_DATA" \/ (f.state = "WAIT_RESPONSE" /\ f.TXTOKAY = FALSE)
    BY <1>1, <2>2, <2>3, PagedTx
  <2>5. d = f BY <2>1
  <2> HIDE DEF f
  <2>6. d.called = <<>> /\ d.completion_handler = "isp" /\ d.response_size = 2 BY <1>3, <2>4, <2>5
  <2>7. reported' = reported BY <1>1, <2>6, NoneReported DEF Called
  <2>8. IspAsked' BY <1>1, <1>3, <2>6, <2>7 DEF IspAsked, Stays
  <2>9. PagesGo' \/ PagesGone' BY <1>1, <2>4, <2>5 DEF PagesGo, PagesGone, Stays
  <2> QED BY <1>4, <2>8, <2>9
<1>5. CASE ~(comblk.TXTOKAY /\ Room > 0)
  <2>1. d = e BY <1>5 DEF IspStep
  <2>2. Stays(comblk, comblk') BY <1>1, <1>2, <2>1, StaysTwice
  <2>3. reported' = reported BY <1>1, <2>1, NoneReported DEF Called
  <2>4. IspAsked' BY <1>3, <2>2, <2>3 DEF IspAsked, Stays
  <2>5. PagesGo => PagesGo' BY <2>2 DEF PagesGo, Stays
  <2> QED BY <2>2, <2>4, <2>5
<1> QED BY <1>4, <1>5

\* The status is passed on, and the handler forgotten.
LEMMA IspReports ==
  ASSUME Types, Turns, Programming, Interrupt, NEW c, NEW e, NEW d, IspStep(c, e, d),
         main = "idle", IspReplied, reported = <<>>,
         NEW call, e.called = <<call>>, e.completion_handler = "none",
         call.handler = "isp", call.response[1] = LastStatus
  PROVE  IspDone'
<1>1. d \in ComblkType /\ Stepped(d) /\ Stays(d, comblk') BY DEF IspStep
<1>2. d.called = <<call>> /\ d.completion_handler = "none"
  <2>1. CASE d = e BY <2>1
  <2>2. CASE d # e
    <3>1. Completes(e, d) BY <2>2 DEF IspStep
    <3> QED BY <3>1 DEF Completes
  <2> QED BY <2>1, <2>2
<1>3. reported' = <<LastStatus>> BY <1>1, <1>2, ReportedOne
<1>4. main' = "idle" /\ IspReplied' /\ LastStatus' = LastStatus BY IspFrame
<1>5. comblk'.completion_handler = "none" BY <1>1, <1>2 DEF Stays
<1> QED BY <1>3, <1>4, <1>5 DEF IspDone

LEMMA IspDoneStays ==
  ASSUME Types, Turns, Programming, Interrupt, NEW c, NEW e, NEW d, IspStep(c, e, d), IspDone
  PROVE  IspDone'
<1>1. /\ Stays(comblk, c) /\ c.called = <<>> /\ Listens(c, e) /\ Stepped(d) /\ Stays(d, comblk')
  BY DEF IspStep
<1>2. c.completion_handler = "none" BY <1>1 DEF Stays, IspDone
<1>3. e.called = <<>> /\ e.completion_handler = "none" BY <1>1, <1>2 DEF Listens, Completes
<1>4. d.called = <<>> /\ d.completion_handler = "none"
  <2>1. CASE d = e BY <1>3, <2>1
  <2>2. CASE d # e
    <3>1. Completes(e, d) BY <2>2 DEF IspStep
    <3> QED BY <1>3, <3>1 DEF Completes
  <2> QED BY <2>1, <2>2
<1>5. reported' = reported BY <1>1, <1>4, NoneReported DEF Called
<1>6. main' = main /\ (IspReplied' <=> IspReplied) /\ LastStatus' = LastStatus BY IspFrame
<1>7. comblk'.completion_handler = "none" BY <1>1, <1>4 DEF Stays
<1> QED BY <1>5, <1>6, <1>7 DEF IspDone

IspWordTaken(c, e) ==
  /\ Head(Incoming) \in Word /\ Incoming' = Tail(Incoming)
  /\ e = handle_rx_okay_irq(c, Head(Incoming))

\* The status comes while the pages go.
LEMMA IspStatusEarly ==
  ASSUME Types, Turns, Programming, Interrupt, NEW c, NEW e, NEW d, IspStep(c, e, d),
         IspWordTaken(c, e), main = "idle", IspAsked, IspReplied, PagesGo, Incoming = IspStatus
  PROVE  IspDone'
<1> DEFINE w == Data(LastStatus)
           r == [c.response EXCEPT ![1] = w.byte]
           call == [handler |-> "isp", length |-> 2, response |-> r]
<1>1. Head(Incoming) = w /\ w \in Word /\ ~w.command /\ w.byte = LastStatus
  <2>1. w \in Word
    <3> HIDE DEF w
    <3>1. Incoming = <<w>> BY DEF IspStatus, w
    <3>2. Head(<<w>>) = w BY TwoTail
    <3> QED BY <3>1, <3>2 DEF IspWordTaken
  <2>2. Head(Incoming) = w
    <3> HIDE DEF w
    <3>1. Incoming = <<w>> BY DEF IspStatus, w
    <3> QED BY <3>1
  <2> QED BY <2>1, <2>2 DEF Data
<1>2. c \in ComblkType /\ Stays(comblk, c) /\ c.called = <<>> BY DEF IspStep
<1>3. c.state = "TX_PAGED_DATA" /\ c.completion_handler = "isp" /\ reported = <<>>
  BY <1>2 DEF PagesGo, IspAsked, Stays
<1>4. e = handle_rx_okay_irq(c, w) BY <1>1 DEF IspWordTaken
<1>5. r[1] = LastStatus
  <2>1. c.response \in Response BY <1>2 DEF ComblkType
  <2>2. 1 \in DOMAIN c.response BY <2>1, SMT DEF Response, ResponseBytes
  <2> QED BY <1>1, <2>2
<1> HIDE DEF w
<1> DEFINE f == handle_rx_okay_irq(c, w)
<1>6. f.completion_handler = "none" /\ f.called = Append(c.called, call) BY <1>1, <1>2, <1>3, PagedRx
<1> HIDE DEF f, r
<1>7. call.handler = "isp" /\ call.response[1] = LastStatus BY <1>5
<1> HIDE DEF call
<1>8. e = f BY <1>4 DEF f
<1>9. e.called = <<call>> /\ e.completion_handler = "none" BY <1>2, <1>6, <1>8
<1> QED BY <1>3, <1>7, <1>9, IspReports

\* The answer begins, after the last page.
LEMMA IspAnswerBegins ==
  ASSUME Types, Turns, Programming, Interrupt, NEW c, NEW e, NEW d, IspStep(c, e, d),
         IspWordTaken(c, e), main = "idle", IspAsked, IspReplied, PagesGone, Incoming = IspAnswer
  PROVE  IspEnds'
<1> DEFINE o == IspWord
           w == Data(LastStatus)
<1>1. o.command /\ o.byte = ISP_PROGRAMMING BY DEF IspWord, Opcode
<1>2. Incoming = <<o, w>> BY DEF IspAnswer
<1>3. IspStatus = <<w>> BY DEF IspStatus
<1> HIDE DEF o, w
<1>4. Head(Incoming) = o /\ Incoming' = IspStatus /\ o \in Word /\ e = handle_rx_okay_irq(c, o)
  BY <1>2, <1>3, TwoTail DEF IspWordTaken
<1>5. c \in ComblkType /\ Stays(comblk, c) /\ c.called = <<>> BY DEF IspStep
<1>6. /\ c.state = "WAIT_RESPONSE" /\ c.cmd_opcode = ISP_PROGRAMMING /\ c.response_size = 2
      /\ c.completion_handler = "isp" /\ c.TXTOKAY = FALSE
  BY <1>5 DEF PagesGone, IspAsked, Stays, Programming, ComblkType
<1> DEFINE f == handle_rx_okay_irq(c, o)
<1>7. o.byte = c.cmd_opcode BY <1>1, <1>6
<1>8. /\ f.state = "RX_RESPONSE" /\ f.response_idx = 1 /\ f.response[0] = c.cmd_opcode
      /\ f.cmd_opcode = c.cmd_opcode /\ f.response_size = c.response_size
      /\ f.completion_handler = c.completion_handler /\ f.TXTOKAY = c.TXTOKAY
      /\ f.called = c.called
  BY <1>1, <1>4, <1>5, <1>6, <1>7, AnswerBegins
<1>9. e = f /\ d = e BY <1>4 DEF PagesGone, IspStep
<1> HIDE DEF f
<1>10. Stepped(d) /\ Stays(d, comblk') BY DEF IspStep
<1>11. reported' = reported BY <1>5, <1>8, <1>9, <1>10, NoneReported DEF Called
<1>12. IspAsked' BY <1>6, <1>8, <1>9, <1>10, <1>11 DEF IspAsked, Stays
<1>13. /\ comblk'.state = "RX_RESPONSE" /\ ~comblk'.TXTOKAY
       /\ comblk'.response_idx = 1 /\ comblk'.response[0] = ISP_PROGRAMMING
  BY <1>6, <1>8, <1>9, <1>10 DEF Stays
<1>14. main' = "idle" /\ IspReplied' /\ Incoming' = IspStatus' BY <1>4, IspFrame
<1> QED BY <1>12, <1>13, <1>14 DEF IspEnds

\* The status follows its opcode: the response is complete.
LEMMA IspStatusLate ==
  ASSUME Types, Turns, Programming, Interrupt, NEW c, NEW e, NEW d, IspStep(c, e, d),
         IspWordTaken(c, e), main = "idle", IspAsked, IspReplied, Incoming = IspStatus,
         comblk.state = "RX_RESPONSE", comblk.response_idx = 1, comblk.response[0] = ISP_PROGRAMMING
  PROVE  IspDone'
<1> DEFINE w == Data(LastStatus)
<1>1. Incoming = <<w>> BY DEF IspStatus
<1>2. ~w.command /\ w.byte = LastStatus BY DEF Data
<1> HIDE DEF w
<1>3. Head(Incoming) = w /\ w \in Word /\ e = handle_rx_okay_irq(c, w)
  BY <1>1, TwoTail DEF IspWordTaken
<1>4. c \in ComblkType /\ Stays(comblk, c) /\ c.called = <<>> BY DEF IspStep
<1>5. /\ c.state = "RX_RESPONSE" /\ c.response_idx = 1 /\ c.response[0] = ISP_PROGRAMMING
      /\ c.completion_handler = "isp" /\ c.response_size = 2
  BY <1>4 DEF IspAsked, Stays
<1>6. PICK i \in Nat : i = 1 OBVIOUS
<1> DEFINE f == handle_rx_okay_irq(c, w)
           r == [c.response EXCEPT ![i] = w.byte]
           call == [handler |-> c.completion_handler, length |-> i + 1, response |-> r]
<1>7. i = c.response_idx /\ i \in 1..(c.response_size - 1) /\ i + 1 = c.response_size BY <1>5, <1>6
<1>8. c.response[i - 1] # POR_DIGEST_ERROR_OPCODE
  BY <1>5, <1>6 DEF ISP_PROGRAMMING, POR_DIGEST_ERROR_OPCODE
<1>9. r[1] = LastStatus
  <2>1. c.response \in Response BY <1>4 DEF ComblkType
  <2>2. 1 \in DOMAIN c.response BY <2>1, SMT DEF Response, ResponseBytes
  <2> QED BY <1>2, <1>6, <2>2
<1>10. /\ f.cmd_opcode = c.cmd_opcode /\ f.response_size = c.response_size
       /\ f.response = r /\ f.TXTOKAY = c.TXTOKAY
       /\ IF i + 1 = c.response_size
            THEN IF c.completion_handler = "none"
                   THEN f.completion_handler = "none" /\ f.called = c.called
                   ELSE /\ f.completion_handler = "none"
                        /\ f.called = Append(c.called, call)
            ELSE /\ f.state = "RX_RESPONSE" /\ f.response_idx = i + 1
                 /\ f.completion_handler = c.completion_handler /\ f.called = c.called
  BY <1>2, <1>3, <1>4, <1>5, <1>7, <1>8, ByteStored
<1> HIDE DEF f, r
<1>11. call.handler = "isp" /\ call.response[1] = LastStatus BY <1>5, <1>9
<1> HIDE DEF call
<1>12. e = f BY <1>3 DEF f
<1>13. c.completion_handler # "none" BY <1>5
<1>14. e.completion_handler = "none" /\ e.called = Append(c.called, call)
  BY <1>7, <1>10, <1>12, <1>13
<1>15. e.called = <<call>> BY <1>4, <1>14
<1>16. reported = <<>> BY DEF IspAsked
<1> QED BY <1>11, <1>14, <1>15, <1>16, IspReports

\* The opcode of the answer comes while the pages go: it is lost.
LEMMA IspAnswerEarly ==
  ASSUME Types, Turns, Programming, Interrupt, NEW c, NEW e, NEW d, IspStep(c, e, d),
         IspWordTaken(c, e), main = "idle", IspAsked, IspReplied, PagesGo, Incoming = IspAnswer
  PROVE  IspEnds'
<1> DEFINE o == IspWord
           w == Data(LastStatus)
<1>1. o.command BY DEF IspWord, Opcode
<1>2. Incoming = <<o, w>> /\ IspStatus = <<w>> BY DEF IspAnswer, IspStatus
<1> HIDE DEF o, w
<1>3. Incoming' = IspStatus /\ o \in Word /\ e = handle_rx_okay_irq(c, o)
  BY <1>2, TwoTail DEF IspWordTaken
<1>4. c \in ComblkType /\ Stays(comblk, c) /\ c.called = <<>> BY DEF IspStep
<1>5. Stays(c, e) /\ e.called = <<>>
  <2> DEFINE p == process_sys_ctrl_command(c, o.byte)
  <2>1. c.state = "TX_PAGED_DATA" BY <1>4 DEF PagesGo, Stays
  <2>2. e = p BY <1>1, <1>3, <2>1 DEF handle_rx_okay_irq, RxPagedData
  <2>3. Stays(c, p) /\ p.called = c.called BY <1>4, ReportStays
  <2> HIDE DEF p
  <2> QED BY <1>4, <2>2, <2>3
<1>6. IspAsked' /\ (PagesGo' \/ PagesGone') BY <1>5, IspGoesOn
<1>7. main' = "idle" /\ IspReplied' /\ Incoming' = IspStatus' BY <1>3, IspFrame
<1> QED BY <1>6, <1>7 DEF IspEnds

\* Without it the status is no answer that the driver waits for.
LEMMA IspStatusLost ==
  ASSUME Types, Turns, Programming, Interrupt, NEW c, NEW e, NEW d, IspStep(c, e, d),
         IspWordTaken(c, e), main = "idle", IspAsked, IspReplied, PagesGone, Incoming = IspStatus
  PROVE  IspEnds'
<1> DEFINE w == Data(LastStatus)
<1>1. ~w.command BY DEF Data
<1>2. Incoming = <<w>> BY DEF IspStatus
<1> HIDE DEF w
<1>3. Incoming' = <<>> /\ w \in Word /\ e = handle_rx_okay_irq(c, w)
  BY <1>2, TwoTail DEF IspWordTaken
<1>4. c \in ComblkType /\ Stays(comblk, c) /\ c.called = <<>> BY DEF IspStep
<1>5. c.state = "WAIT_RESPONSE" BY <1>4 DEF PagesGone, Stays
<1> DEFINE f == handle_rx_okay_irq(c, w)
<1>6. Stays(c, f) /\ f.called = c.called BY <1>1, <1>3, <1>4, <1>5, OthersPass
<1>7. e = f BY <1>3
<1> HIDE DEF f
<1>8. Stays(c, e) /\ e.called = <<>> BY <1>4, <1>6, <1>7
<1>9. ~comblk.TXTOKAY BY DEF PagesGone
<1>10. IspAsked' /\ Stays(comblk, comblk') BY <1>8, <1>9, IspGoesOn
<1>11. PagesGone' BY <1>10 DEF PagesGone, Stays
<1>12. main' = "idle" /\ IspReplied' BY IspFrame
<1> QED BY <1>3, <1>10, <1>11, <1>12 DEF IspEnds

LEMMA ReportingInterrupt ==
  ASSUME NoServiceEvents, Types, Turns, Ordered, Programming, Reporting, Interrupt
  PROVE  Reporting'
<1>1. IspStarted /\ (IspBegins \/ IspGoes \/ IspEnds \/ IspDone) BY DEF Reporting
<1>2. comblk.nvic BY DEF Interrupt, InterruptPending
<1>3. ~IspBegins BY <1>2 DEF IspBegins
<1>4. main = "idle" BY <1>1, <1>3 DEF IspGoes, IspEnds, IspDone
<1>5. PICK c, e, d : IspStep(c, e, d) BY <1>4, IspSteps
<1>6. /\ Programming' /\ IspStarted' /\ main' = "idle"
      /\ (IspReplied' <=> IspReplied)
      /\ IspAnswer' = IspAnswer /\ IspStatus' = IspStatus
      /\ Pending /\ Incoming' = Incoming => Pending'
  BY <1>1, <1>4, <1>5, IspFrame
<1>7. CASE IspDone
  <2>1. IspDone' BY <1>5, <1>7, IspDoneStays
  <2> QED BY <1>6, <2>1 DEF Reporting
<1>8. CASE ~IspDone /\ Stays(c, e) /\ e.called = <<>> /\ Incoming' = Incoming
  <2>1. IspAsked /\ (PagesGo \/ ~comblk.TXTOKAY)
    BY <1>1, <1>3, <1>8 DEF IspGoes, IspEnds, PagesGone
  <2>2. /\ IspAsked' /\ (PagesGo => PagesGo' \/ PagesGone')
        /\ ~comblk.TXTOKAY => Stays(comblk, comblk')
    BY <1>5, <1>8, <2>1, IspGoesOn
  <2>3. PagesGone => PagesGone' BY <2>2 DEF PagesGone, Stays
  <2>4. IspGoes => IspGoes' BY <1>6, <1>8, <2>2, <2>3 DEF IspGoes
  <2>5. CASE comblk.state = "RX_RESPONSE" /\ ~comblk.TXTOKAY
    <3>1. /\ comblk'.state = "RX_RESPONSE" /\ ~comblk'.TXTOKAY
          /\ comblk'.response_idx = comblk.response_idx /\ comblk'.response = comblk.response
      BY <2>2, <2>5 DEF Stays
    <3>2. IspEnds => IspEnds'
      BY <1>6, <1>8, <2>2, <2>5, <3>1 DEF IspEnds, PagesGo, PagesGone
    <3> QED BY <1>1, <1>3, <1>6, <1>8, <2>4, <3>2 DEF Reporting
  <2>6. CASE ~(comblk.state = "RX_RESPONSE" /\ ~comblk.TXTOKAY)
    <3>1. IspEnds => IspEnds' BY <1>6, <1>8, <2>2, <2>3, <2>6 DEF IspEnds
    <3> QED BY <1>1, <1>3, <1>6, <1>8, <2>4, <3>1 DEF Reporting
  <2> QED BY <2>5, <2>6
<1>9. CASE ~IspDone /\ Incoming # <<>> /\ IspWordTaken(c, e)
  <2>1. ~IspGoes BY <1>9 DEF IspGoes, Pending
  <2>2. IspEnds /\ IspAsked /\ IspReplied BY <1>1, <1>3, <1>9, <2>1 DEF IspEnds
  <2>3. CASE PagesGo /\ Incoming = IspAnswer
    BY <1>4, <1>5, <1>6, <1>9, <2>2, <2>3, IspAnswerEarly DEF Reporting
  <2>4. CASE PagesGo /\ Incoming = IspStatus
    BY <1>4, <1>5, <1>6, <1>9, <2>2, <2>4, IspStatusEarly DEF Reporting
  <2>5. CASE PagesGone /\ Incoming = IspAnswer
    BY <1>4, <1>5, <1>6, <1>9, <2>2, <2>5, IspAnswerBegins DEF Reporting
  <2>6. CASE PagesGone /\ Incoming = IspStatus
    BY <1>4, <1>5, <1>6, <1>9, <2>2, <2>6, IspStatusLost DEF Reporting
  <2>7. CASE /\ comblk.state = "RX_RESPONSE" /\ comblk.response_idx = 1
             /\ comblk.response[0] = ISP_PROGRAMMING /\ Incoming = IspStatus
    BY <1>4, <1>5, <1>6, <1>9, <2>2, <2>7, IspStatusLate DEF Reporting
  <2> QED BY <1>9, <2>2, <2>3, <2>4, <2>5, <2>6, <2>7 DEF IspEnds
<1>10. \/ Stays(c, e) /\ e.called = <<>> /\ Incoming' = Incoming
       \/ Incoming # <<>> /\ IspWordTaken(c, e)
  BY <1>5, IspTakes DEF IspWordTaken
<1> QED BY <1>7, <1>8, <1>9, <1>10

\* With ISP the last service: what was asked before it has been answered, and nothing comes after.
LEMMA ReportingNext ==
  ASSUME NoServiceEvents, IspLast, Types, Turns, Ordered, Exchanges, Counted, Emptied, Reporting,
         [Next]_vars
  PROVE  Reporting'
<1>1. CASE ~Programming
  <2>1. (Exchange \/ CutOff) /\ reported = <<>> BY <1>1 DEF Exchanges, Reporting
  <2>2. CASE Prepares /\ request.opcode = ISP_PROGRAMMING
    <3>1. Exchange BY <2>1, <2>2 DEF Prepares, CutOff
    <3> QED BY <1>1, <2>2, <3>1, ReportingPrepares
  <2>3. CASE ~(Prepares /\ request.opcode = ISP_PROGRAMMING)
    <3>1. reported' = reported BY <2>1, NotReported
    <3>2. ~Programming'
      <4>1. CASE Prepares BY <2>3, <4>1, PreparesOpcode DEF Programming
      <4>2. CASE ~Prepares BY <1>1, <4>2, OpcodeKept DEF Programming
      <4> QED BY <4>1, <4>2
    <3> QED BY <2>1, <3>1, <3>2 DEF Reporting
  <2> QED BY <2>2, <2>3
<1>2. CASE Programming
  <2>1. IspStarted /\ main \in {"opcode", "params", "idle"}
    BY <1>2 DEF Reporting, IspBegins, IspGoes, IspEnds, IspDone
  <2>2. ~MSS_SYS_get_serial_number /\ ~MSS_SYS_check_digest /\ ~MSS_SYS_start_isp
    BY <2>1 DEF IspLast, MSS_SYS_get_serial_number, MSS_SYS_check_digest, MSS_SYS_start_isp, Call
  <2>3. ~signal_request_start /\ ~Prepares /\ ~wait_for_request_completion
    BY <2>1 DEF signal_request_start, Prepares, wait_for_request_completion
  <2>4. CASE ControllerTakes BY <1>2, <2>4, ReportingTakes
  <2>5. CASE ControllerAnswers BY <1>2, <2>5, ReportingAnswers
  <2>6. CASE ControllerSends
    <3>1. Incoming' = Incoming BY <2>6, IncomingSends DEF Types
    <3>2. UNCHANGED <<comblk, tx, main, request, replied, reported, calls>>
      BY <2>6 DEF ControllerSends, driver
    <3>3. /\ serving'.opcode = serving.opcode /\ serving'.got = serving.got
          /\ serving'.answered = serving.answered
      <4>1. serving \in Serving /\ serving' = [serving EXCEPT !.reply = Tail(@)]
        BY <2>6 DEF ControllerSends, Types, RestType
      <4> QED BY <4>1 DEF Serving
    <3> QED BY <3>1, <3>2, <3>3, ReportingStays
  <2>7. CASE ControllerRaises
    <3>1. Incoming' = Incoming BY <2>7, IncomingRaises DEF Types
    <3>2. UNCHANGED <<comblk, tx, main, request, replied, reported, calls, serving>>
      BY <2>7 DEF ControllerRaises, driver
    <3> QED BY <3>1, <3>2, ReportingStays
  <2>8. CASE SendsOpcode BY <1>2, <2>8, ReportingSendsOpcode
  <2>9. CASE SendsParameters BY <1>2, <2>9, ReportingSendsParameters
  <2>10. CASE Interrupt BY <1>2, <2>10, ReportingInterrupt
  <2>11. CASE UNCHANGED vars
    <3>1. UNCHANGED <<comblk, tx, rx, main, request, replied, reported, calls, serving>>
      BY <2>11 DEF vars, driver, controller
    <3>2. Incoming' = Incoming BY <3>1 DEF Incoming
    <3> QED BY <3>1, <3>2, ReportingStays
  <2> QED
    BY <2>2, <2>3, <2>4, <2>5, <2>6, <2>7, <2>8, <2>9, <2>10, <2>11 DEF Next, Application
<1> QED BY <1>1, <1>2

LEMMA ReportingShows ==
  ASSUME Types, Reporting
  PROVE  IspReported
<1>1. CASE reported = <<>>
  <2>1. Len(<<>>) = 0 OBVIOUS
  <2> QED BY <1>1, <2>1 DEF IspReported
<1>2. CASE reported # <<>>
  <2>1. IspDone BY <1>2 DEF Reporting, IspBegins, IspGoes, IspEnds, IspAsked
  <2>2. reported = <<LastStatus>> /\ Len(replied) = calls BY <2>1 DEF IspDone, IspReplied
  <2> DEFINE s == LastStatus
  <2>3. s = replied[calls] BY <2>2 DEF LastStatus
  <2> HIDE DEF s
  <2>4. reported = <<s>> BY <2>2 DEF s
  <2>5. Len(reported) = 1 /\ reported[1] = s BY <2>4
  <2> QED BY <2>2, <2>3, <2>5 DEF IspReported
<1> QED BY <1>1, <1>2

\* The completion handler of MSS_SYS_start_isp is called at most once, and with the status that the
\* controller has answered, however the answer falls between the pages that the interrupt sends.
\* As in the run, ISP is not the first service and none comes after it.
THEOREM ServicesReportIsp ==
  ASSUME NoServiceEvents, IspLast
  PROVE  Spec => []IspReported
<1>1. Init => Types /\ Turns /\ Ordered BY TypesInit, BitstreamInit
<1>2. Init => Statuses /\ Exchanges /\ AnswersMatch
  <2>1. Init => Statuses BY DEF Init, Statuses
  <2> QED BY <2>1, ExchangeInit
<1>3. Init => Counted /\ Emptied /\ Reporting BY CountedInit, ReportingInit
<1>4. Types /\ Turns /\ Ordered /\ [Next]_vars => (Types /\ Turns /\ Ordered)'
  BY TypesNext, BitstreamNext
<1>5. Types /\ Turns /\ Ordered /\ Statuses /\ Exchanges /\ AnswersMatch /\ [Next]_vars
        => (Statuses /\ Exchanges /\ AnswersMatch)'
  BY StatusesNext, ExchangesNext
<1>6. Types /\ Turns /\ Ordered /\ Exchanges /\ Counted /\ Emptied /\ Reporting /\ [Next]_vars
        => (Counted /\ Emptied /\ Reporting)'
  BY CountedNext, EmptiedNext, ReportingNext
<1>7. Types /\ Reporting => IspReported BY ReportingShows
<1> QED BY <1>1, <1>2, <1>3, <1>4, <1>5, <1>6, <1>7, PTL DEF Spec
=============================================================================
