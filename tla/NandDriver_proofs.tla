-------------------------- MODULE NandDriver_proofs --------------------------
(***************************************************************************)
(* Theorems about NandDriver: the five address bytes lose nothing of an    *)
(* address in range, WP# is high only inside a write, and the calls of     *)
(* nand.c implement the page store of nand.h, whatever the pages, the      *)
(* bytes and the answers of the chips are.                                 *)
(***************************************************************************)
EXTENDS NandDriver, SequenceTheorems, TLAPS

\* nand_write_address (nand.c:111-115) and a chip that decodes the five bytes agree on every
\* address that nand.h allows, so no two pages of a chip share their address bytes.
THEOREM AddressRoundTrip ==
  ASSUME NEW column \in Nat, NEW plane \in Nat, NEW page \in Nat, NEW block \in Nat,
         column <= 16383, plane <= 1, page <= 127, block <= 2047
  PROVE  /\ AddressColumn(AddressBytes(column, plane, page, block)) = column
         /\ AddressRow(AddressBytes(column, plane, page, block)) = <<plane, page, block>>
<1> DEFINE a == AddressBytes(column, plane, page, block)
<1>1. /\ a[1] = column % 256 /\ a[2] = (column \div 256) % 64
      /\ a[3] = (plane % 2) * 128 + (page % 128)
      /\ a[4] = block % 256 /\ a[5] = (block \div 256) % 8
  BY DEF AddressBytes
<1>2. (column % 256) + 256 * (((column \div 256) % 64) % 64) = column
  <2>1. column = 256 * (column \div 256) + (column % 256) OBVIOUS
  <2>2. column \div 256 \in 0..63 OBVIOUS
  <2>3. \A q \in 0..63 : (q % 64) % 64 = q OBVIOUS
  <2> QED BY <2>1, <2>2, <2>3
<1>3. plane % 2 = plane /\ page % 128 = page
  OBVIOUS
<1>4. (plane * 128 + page) \div 128 = plane /\ (plane * 128 + page) % 128 = page
  <2>1. plane = 0 \/ plane = 1 OBVIOUS
  <2>2. page \div 128 = 0 /\ (128 + page) \div 128 = 1 OBVIOUS
  <2>3. page % 128 = page /\ (128 + page) % 128 = page OBVIOUS
  <2> QED BY <2>1, <2>2, <2>3
<1>5. (block % 256) + 256 * (((block \div 256) % 8) % 8) = block
  <2>1. block = 256 * (block \div 256) + (block % 256) OBVIOUS
  <2>2. block \div 256 \in 0..7 OBVIOUS
  <2>3. \A q \in 0..7 : (q % 8) % 8 = q OBVIOUS
  <2> QED BY <2>1, <2>2, <2>3
<1> HIDE DEF a
<1>6. AddressColumn(a) = column BY <1>1, <1>2 DEF AddressColumn
<1>7. AddressRow(a) = <<plane, page, block>> BY <1>1, <1>3, <1>4, <1>5 DEF AddressRow
<1> QED BY <1>6, <1>7 DEF a

-----------------------------------------------------------------------------
(* The scripts of the calls *)

\* A register access.
Acc == [do : {"command", "data", "take", "delay"}, value : Nat]

\* Nothing in s switches the protection off.
Quiet(s) == s \in Seq(Acc) /\ \A i \in 1..Len(s) : s[i] # Command(12)

\* Whatever switches the protection off in s is followed by what switches it on again.
Balanced(s) ==
  \A i \in 1..Len(s) : s[i] = Command(12) => \E j \in i + 1..Len(s) : s[j] = Command(11)

LEMMA QuietJoin == ASSUME NEW s, NEW t, Quiet(s), Quiet(t) PROVE Quiet(s \o t)
  BY DEF Quiet

LEMMA QuietCommand == ASSUME NEW v \in Nat, v # 12 PROVE Quiet(<<Command(v)>>)
  BY DEF Quiet, Acc, Command

LEMMA QuietPieces ==
  /\ \A c : Quiet(select_chip(c))
  /\ Quiet(disable_all_chips) /\ Quiet(reset_index)
  /\ \A v \in Nat \ {12} : Quiet(<<Command(v), Delay>>)
<1>1. \A c : Quiet(select_chip(c)) BY QuietCommand DEF select_chip
<1>2. Quiet(disable_all_chips) BY QuietCommand DEF disable_all_chips
<1>3. Quiet(reset_index) BY QuietCommand DEF reset_index
<1>4. \A v \in Nat \ {12} : Quiet(<<Command(v), Delay>>) BY DEF Quiet, Acc, Command, Delay
<1> QED BY <1>1, <1>2, <1>3, <1>4

LEMMA QuietLoad ==
  ASSUME NEW bytes \in Seq(Nat), NEW v \in Nat, v # 12 PROVE Quiet(Load(bytes, v))
<1> DEFINE n == 2 * Len(bytes)
<1>1. n \in Nat OBVIOUS
<1>2. ASSUME NEW k \in 1..n
      PROVE  /\ Load(bytes, v)[k] = IF k % 2 = 1 THEN SendByte(bytes[(k + 1) \div 2]) ELSE Command(v)
             /\ Load(bytes, v)[k] \in Acc /\ Load(bytes, v)[k] # Command(12)
  <2>1. Load(bytes, v)[k] = IF k % 2 = 1 THEN SendByte(bytes[(k + 1) \div 2]) ELSE Command(v)
    BY DEF Load
  <2>2. (k + 1) \div 2 \in 1..Len(bytes) BY <1>1
  <2>3. bytes[(k + 1) \div 2] \in Nat BY <2>2
  <2> QED BY <2>1, <2>3 DEF SendByte, Command, Acc
<1>3. DOMAIN Load(bytes, v) = 1..n BY DEF Load
<1>4. Load(bytes, v) \in [1..n -> Acc] BY <1>2, <1>3 DEF Load
<1>5. Load(bytes, v) \in Seq(Acc) /\ Len(Load(bytes, v)) = n BY <1>1, <1>4
<1> QED BY <1>2, <1>5 DEF Quiet

LEMMA QuietFetch == ASSUME NEW n \in Nat, NEW v \in Nat, v # 12 PROVE Quiet(Fetch(n, v))
<1>1. 2 * n \in Nat OBVIOUS
<1>2. ASSUME NEW k \in 1..2 * n PROVE Fetch(n, v)[k] \in Acc /\ Fetch(n, v)[k] # Command(12)
  BY DEF Fetch, Acc, Command, Take
<1>3. Fetch(n, v) \in [1..2 * n -> Acc] BY <1>2 DEF Fetch
<1>4. Fetch(n, v) \in Seq(Acc) /\ Len(Fetch(n, v)) = 2 * n BY <1>1, <1>3
<1> QED BY <1>2, <1>4 DEF Quiet

\* The five address bytes of the arguments of a call.
LEMMA QuietAddressBytes ==
  \A column, plane, page, block :
    column \in Nat /\ plane \in 0..1 /\ page \in 0..127 /\ block \in 0..2047
      => Quiet(Load(AddressBytes(column, plane, page, block), 19))
<1>1. TAKE column, plane, page, block
<1>2. HAVE column \in Nat /\ plane \in 0..1 /\ page \in 0..127 /\ block \in 0..2047
<1>3. column % 256 \in Nat /\ block % 256 \in Nat BY <1>2
<1>4. (column \div 256) % 64 \in Nat /\ (block \div 256) % 8 \in Nat
  <2>1. column \div 256 \in Nat /\ block \div 256 \in Nat BY <1>2, SMTT(20)
  <2>2. \A q \in Nat : q % 64 \in Nat /\ q % 8 \in Nat OBVIOUS
  <2> QED BY <2>1, <2>2
<1>5. (plane % 2) * 128 + (page % 128) \in Nat
  <2>1. plane % 2 \in 0..1 /\ page % 128 \in 0..127 BY <1>2
  <2> QED BY <2>1
<1>6. AddressBytes(column, plane, page, block) \in Seq(Nat)
  BY <1>3, <1>4, <1>5 DEF AddressBytes
<1> QED BY <1>6, QuietLoad

LEMMA QuietAddress ==
  ASSUME NEW column \in Nat, NEW row, row[1] \in 0..1, row[2] \in 0..127, row[3] \in 0..2047
  PROVE  Quiet(write_address(column, row))
<1>1. Quiet(Load(AddressBytes(column, row[1], row[2], row[3]), 19)) BY QuietAddressBytes
<1> QED BY <1>1, QuietPieces, QuietJoin DEF write_address

LEMMA QuietIsBalanced == ASSUME NEW s, Quiet(s) PROVE s \in Seq(Acc) /\ Balanced(s)
  BY DEF Quiet, Balanced

\* The end of a write protects the chips whatever came before.
LEMMA EndProtects ==
  ASSUME NEW p \in Seq(Acc)
  PROVE  LET s == p \o <<Command(7), Command(11)>> \o disable_all_chips
         IN  s \in Seq(Acc) /\ Balanced(s)
<1> DEFINE e == <<Command(7), Command(11)>>
           s == p \o e \o disable_all_chips
<1>1. e \in Seq(Acc) /\ Len(e) = 2 /\ e[2] = Command(11) /\ e[1] # Command(12) /\ e[2] # Command(12)
  BY DEF Acc, Command
<1>2. disable_all_chips \in Seq(Acc) /\ Len(disable_all_chips) = 1 /\ disable_all_chips[1] # Command(12)
  BY DEF Acc, Command, disable_all_chips
<1> DEFINE q == p \o e
<1> HIDE DEF e
<1>3. /\ q \in Seq(Acc) /\ Len(q) = Len(p) + 2
      /\ q[Len(p) + 1] = e[1] /\ q[Len(p) + 2] = e[2]
  <2>1. q \in Seq(Acc) /\ Len(q) = Len(p) + Len(e) BY <1>1, ConcatProperties, Zenon
  <2>2. \A i \in 1..Len(p) + Len(e) : q[i] = IF i <= Len(p) THEN p[i] ELSE e[i - Len(p)]
    BY <1>1, ConcatProperties, Zenon
  <2>3. Len(p) \in Nat BY LenProperties
  <2> HIDE DEF q
  <2> QED BY <1>1, <2>1, <2>2, <2>3, SMTT(30)
<1> HIDE DEF q
<1>4. /\ s \in Seq(Acc) /\ Len(s) = Len(p) + 3
      /\ s[Len(p) + 1] = e[1] /\ s[Len(p) + 2] = e[2] /\ s[Len(p) + 3] = disable_all_chips[1]
  <2>1. s = q \o disable_all_chips BY DEF q
  <2>2. Len(p) \in Nat BY LenProperties
  <2> HIDE DEF s
  <2>3. s \in Seq(Acc) /\ Len(s) = Len(q) + Len(disable_all_chips)
    BY <1>2, <1>3, <2>1, ConcatProperties, Zenon
  <2>4. \A i \in 1..Len(q) + Len(disable_all_chips) :
          s[i] = IF i <= Len(q) THEN q[i] ELSE disable_all_chips[i - Len(q)]
    BY <1>2, <1>3, <2>1, ConcatProperties, Zenon
  <2> QED BY <1>2, <1>3, <2>2, <2>3, <2>4, SMTT(30)
<1>5. s[Len(p) + 1] # Command(12) /\ s[Len(p) + 2] = Command(11) /\ s[Len(p) + 3] # Command(12)
  BY <1>1, <1>2, <1>4
<1>6. Command(11) # Command(12) BY DEF Command
<1> HIDE DEF s
<1>7. ASSUME NEW i \in 1..Len(s), s[i] = Command(12) PROVE \E j \in i + 1..Len(s) : s[j] = Command(11)
  <2>1. i < Len(p) + 2 BY <1>4, <1>5, <1>6, <1>7
  <2> QED BY <2>1, <1>4, <1>5
<1> QED BY <1>4, <1>7 DEF Balanced, s, e

-----------------------------------------------------------------------------
\* A row is a plane, a page and a block in range.
LEMMA RowParts ==
  ASSUME NEW r \in Row
  PROVE  r[1] \in 0..1 /\ r[2] \in 0..127 /\ r[3] \in 0..2047 /\ r = <<r[1], r[2], r[3]>>
<1>1. r \in (0..1) \X (0..127) \X (0..2047) BY CallAssumption
<1> QED BY <1>1

\* Every call but the write leaves the protection alone, and the write restores it.
LEMMA ScriptBalanced ==
  ASSUME NEW n \in 1..MaxCalls, NEW c \in Call(n)
  PROVE  /\ Script(c) \in Seq(Acc) /\ Balanced(Script(c))
         /\ c.op # "write" => Quiet(Script(c))
<1>1. CASE c.op = "init"
  <2>1. Script(c) = init BY <1>1 DEF Script
  <2>2. Quiet(init) BY QuietCommand, QuietPieces, QuietJoin DEF init
  <2> QED BY <2>1, <2>2, QuietIsBalanced
<1>2. CASE c.op = "jedec"
  <2>1. Script(c) = read_jedec_id(c.chip) BY <1>2 DEF Script
  <2>2. Quiet(Fetch(5, 14)) BY QuietFetch
  <2>3. Quiet(<<Command(3)>>) BY QuietCommand
  <2>4. Quiet(read_jedec_id(c.chip)) BY <2>2, <2>3, QuietPieces, QuietJoin DEF read_jedec_id
  <2> QED BY <2>1, <2>4, QuietIsBalanced
<1>3. CASE c.op = "param"
  <2>1. Script(c) = read_param_page(c.chip) BY <1>3 DEF Script
  <2>2. Quiet(Fetch(ParamBytes, 15)) BY QuietFetch, DriverAssumption DEF DriverAssumption
  <2>3. Quiet(<<Command(2), Delay>>) BY QuietPieces
  <2>4. Quiet(read_param_page(c.chip)) BY <2>2, <2>3, QuietPieces, QuietJoin DEF read_param_page
  <2> QED BY <2>1, <2>4, QuietIsBalanced
<1>4. CASE c.op = "write"
  <2>1. Script(c) = write_page(c) BY <1>4 DEF Script
  <2>2. PICK r \in Row, w \in Writes :
          /\ c.row = r /\ c.column = w[1]
          /\ c.data = [k \in 1..w[2] |-> HostByte[n][k]]
    <3>1. c \in WriteCalls(n) BY <1>4 DEF Call, ReadCalls
    <3>2. PICK x \in Chip, r \in Row, w \in Writes :
            c = [op |-> "write", chip |-> x, row |-> r, column |-> w[1], size |-> w[2],
                 data |-> [k \in 1..w[2] |-> HostByte[n][k]]]
      BY <3>1 DEF WriteCalls
    <3> QED BY <3>2
  <2>3. w[1] \in Nat /\ w[2] \in Nat BY CallAssumption DEF CallAssumption
  <2>4. c.data \in Seq(Nat)
    <3>1. ASSUME NEW k \in 1..w[2] PROVE HostByte[n][k] \in Nat
      <4>1. HostByte[n][k] \in 0..255 BY CallAssumption
      <4>2. 0..255 \subseteq Nat OBVIOUS
      <4> QED BY <4>1, <4>2, Zenon
    <3>2. c.data \in [1..w[2] -> Nat] BY <2>2, <3>1
    <3> QED BY <2>3, <3>2
  <2>5. Quiet(Load(c.data, 17)) BY <2>4, QuietLoad
  <2>6. r[1] \in 0..1 /\ r[2] \in 0..127 /\ r[3] \in 0..2047 BY RowParts, SMTT(20)
  <2>7. Quiet(write_address(c.column, c.row)) BY <2>2, <2>3, <2>6, QuietAddress, SMTT(20)
  <2> DEFINE p == select_chip(c.chip) \o reset_index \o <<Command(12)>> \o Load(c.data, 17)
                    \o write_address(c.column, c.row)
  <2>8. /\ select_chip(c.chip) \in Seq(Acc) /\ reset_index \in Seq(Acc)
        /\ Load(c.data, 17) \in Seq(Acc) /\ write_address(c.column, c.row) \in Seq(Acc)
    BY <2>5, <2>7, QuietPieces DEF Quiet
  <2>9. <<Command(12)>> \in Seq(Acc) BY DEF Acc, Command
  <2>10. p \in Seq(Acc)
    <3> HIDE DEF Acc
    <3>1. select_chip(c.chip) \o reset_index \in Seq(Acc) BY <2>8
    <3>2. select_chip(c.chip) \o reset_index \o <<Command(12)>> \in Seq(Acc) BY <3>1, <2>9
    <3>3. select_chip(c.chip) \o reset_index \o <<Command(12)>> \o Load(c.data, 17) \in Seq(Acc)
      BY <3>2, <2>8
    <3> QED BY <3>3, <2>8
  <2>11. Script(c) = p \o <<Command(7), Command(11)>> \o disable_all_chips
    BY <2>1 DEF write_page
  <2> HIDE DEF p
  <2> QED BY <1>4, <2>10, <2>11, EndProtects, Zenon
<1>5. CASE c.op = "read"
  <2>1. Script(c) = read_page(c) BY <1>5 DEF Script
  <2>2. PICK r \in Row, w \in Reads : c.row = r /\ c.column = w[1] /\ c.size = w[2]
    BY <1>5 DEF Call, WriteCalls, ReadCalls
  <2>3. c.column \in Nat /\ c.size \in Nat BY <2>2, CallAssumption DEF CallAssumption
  <2>4. r[1] \in 0..1 /\ r[2] \in 0..127 /\ r[3] \in 0..2047 BY RowParts, SMTT(20)
  <2>5. Quiet(write_address(c.column, c.row)) BY <2>2, <2>3, <2>4, QuietAddress
  <2>6. Quiet(Fetch(c.size, 16)) BY <2>3, QuietFetch
  <2>7. Quiet(<<Command(6), Delay>>) BY QuietPieces
  <2>8. Quiet(read_page(c)) BY <2>5, <2>6, <2>7, QuietPieces, QuietJoin DEF read_page
  <2> QED BY <2>1, <2>8, QuietIsBalanced
<1>6. c.op \in {"init", "jedec", "param", "write", "read"} BY DEF Call, WriteCalls, ReadCalls
<1> QED BY <1>1, <1>2, <1>3, <1>4, <1>5, <1>6

-----------------------------------------------------------------------------
(* WP# *)

Has(s, v) == \E i \in 1..Len(s) : s[i] = Command(v)

\* What holds between two accesses: an open chip has a write in progress that will close it,
\* and a script that has still to open it will close it after.
WillProtect ==
  /\ call = NoCall => script = <<>>
  /\ Balanced(script)
  /\ Has(script, 12) => call.op = "write"
  /\ nwp = 1 \/ core = 12 => call.op = "write" /\ (core = 11 \/ Has(script, 11))

ProtectInv == script \in Seq(Acc) /\ calls \in Nat /\ WillProtect

\* One access less: what is left is still balanced.
LEMMA TailBalanced ==
  ASSUME NEW s \in Seq(Acc), s # <<>>, Balanced(s)
  PROVE  /\ Tail(s) \in Seq(Acc) /\ Balanced(Tail(s))
         /\ \A v : Has(Tail(s), v) => Has(s, v)
         /\ \A v : Has(s, v) /\ Head(s) # Command(v) => Has(Tail(s), v)
         /\ Head(s) = Command(12) => Has(s, 12) /\ Has(Tail(s), 11)
<1>1. /\ Tail(s) \in Seq(Acc) /\ Len(s) \in Nat \ {0} /\ Len(Tail(s)) = Len(s) - 1
      /\ Head(s) = s[1] /\ \A i \in 1..Len(Tail(s)) : Tail(s)[i] = s[i + 1]
  OBVIOUS
<1> DEFINE t == Tail(s)
           n == Len(s)
<1>2. /\ Len(t) = n - 1 /\ n \in Nat \ {0} /\ \A i \in 1..n - 1 : t[i] = s[i + 1]
  BY <1>1
<1>3. Balanced(t)
  <2>1. SUFFICES ASSUME NEW i \in 1..n - 1, t[i] = Command(12)
                 PROVE  \E j \in i + 1..n - 1 : t[j] = Command(11)
    BY <1>2 DEF Balanced
  <2>2. i + 1 \in 1..n /\ s[i + 1] = Command(12) BY <1>2, <2>1
  <2>3. PICK j \in i + 2..n : s[j] = Command(11)
    <3>1. \E j \in (i + 1) + 1..n : s[j] = Command(11) BY <2>2 DEF Balanced
    <3> QED BY <3>1
  <2>4. j - 1 \in i + 1..n - 1 /\ t[j - 1] = s[j] BY <1>2, <2>3
  <2> QED BY <2>3, <2>4
<1>4. ASSUME NEW v, Has(t, v) PROVE Has(s, v)
  <2>1. PICK i \in 1..n - 1 : t[i] = Command(v) BY <1>2, <1>4 DEF Has
  <2>2. i + 1 \in 1..n /\ s[i + 1] = Command(v) BY <1>2, <2>1
  <2> QED BY <2>2 DEF Has
<1>5. ASSUME NEW v, Has(s, v), s[1] # Command(v) PROVE Has(t, v)
  <2>1. PICK i \in 1..n : s[i] = Command(v) BY <1>5 DEF Has
  <2>2. i - 1 \in 1..n - 1 /\ t[i - 1] = s[i] BY <1>2, <1>5, <2>1
  <2> QED BY <1>2, <2>1, <2>2 DEF Has
<1>6. ASSUME s[1] = Command(12) PROVE Has(s, 12) /\ Has(t, 11)
  <2>1. 1 \in 1..n BY <1>2
  <2>2. PICK j \in 2..n : s[j] = Command(11)
    <3>1. \E j \in 1 + 1..n : s[j] = Command(11) BY <1>6, <2>1 DEF Balanced
    <3> QED BY <3>1
  <2>3. j - 1 \in 1..n - 1 /\ t[j - 1] = s[j] BY <1>2, <2>2
  <2> QED BY <1>2, <1>6, <2>1, <2>2, <2>3 DEF Has
<1> QED BY <1>1, <1>3, <1>4, <1>5, <1>6

LEMMA EmptyBalanced == Balanced(<<>>) /\ <<>> \in Seq(Acc) /\ \A v : ~Has(<<>>, v)
  BY DEF Balanced, Has

LEMMA QuietHasNot == ASSUME NEW s, Quiet(s) PROVE ~Has(s, 12)
  BY DEF Quiet, Has

\* An access takes the head of the script; only send_command hands it to the controller.
LEMMA AccessStep ==
  ASSUME ProtectInv, NEW do, Access(do), Busy_bit = 1, do # "command",
         UNCHANGED <<call, calls, core, nwp>>
  PROVE  ProtectInv'
<1>1. script # <<>> /\ script' = Tail(script) /\ Head(script).do = do BY DEF Access
<1>2. \A v : Head(script) # Command(v) BY <1>1 DEF Command
<1>3. script \in Seq(Acc) /\ Balanced(script) BY DEF ProtectInv, WillProtect
<1>4. /\ script' \in Seq(Acc) /\ Balanced(script')
      /\ \A v : Has(script', v) <=> Has(script, v)
  BY <1>1, <1>2, <1>3, TailBalanced
<1>5. call # NoCall BY <1>1 DEF ProtectInv, WillProtect
<1> QED BY <1>4, <1>5 DEF ProtectInv, WillProtect, Balanced, Has

LEMMA Commands == \A v, w : Command(v) = Command(w) => v = w
  BY DEF Command

LEMMA SendStep ==
  ASSUME ProtectInv, send_command, Busy_bit = 1
  PROVE  ProtectInv'
<1>1. /\ script # <<>> /\ script' = Tail(script) /\ Head(script).do = "command"
      /\ core = Idle /\ core' = Head(script).value /\ UNCHANGED <<call, calls, nwp>>
  BY DEF send_command, Access, wait_busy, pins
<1>2. script \in Seq(Acc) /\ Balanced(script) /\ Head(script) \in Acc
  BY <1>1 DEF ProtectInv, WillProtect
<1>3. Head(script) = Command(core') BY <1>1, <1>2 DEF Acc, Command
<1>4. /\ script' \in Seq(Acc) /\ Balanced(script')
      /\ \A v : Has(script', v) => Has(script, v)
      /\ \A v : Has(script, v) /\ core' # v => Has(script', v)
      /\ core' = 12 => Has(script, 12) /\ Has(script', 11)
  BY <1>1, <1>2, <1>3, TailBalanced, Commands
<1>5. call # NoCall BY <1>1 DEF ProtectInv, WillProtect
<1>6. core # 12 /\ core # 11 BY <1>1 DEF Idle
<1> QED BY <1>1, <1>4, <1>5, <1>6 DEF ProtectInv, WillProtect

LEMMA BeginStep ==
  ASSUME ProtectInv, Begin, Busy_bit = 1
  PROVE  ProtectInv'
<1>1. /\ call = NoCall /\ core = Idle /\ calls < MaxCalls /\ calls' = calls + 1
      /\ call' \in Call(calls + 1) /\ script' = Script(call') /\ UNCHANGED <<core, nwp>>
  BY DEF Begin, wait_busy, pins
<1>2. calls + 1 \in 1..MaxCalls /\ calls' \in Nat
  BY <1>1, DriverAssumption DEF ProtectInv, DriverAssumption
<1>3. /\ script' \in Seq(Acc) /\ Balanced(script')
      /\ call'.op # "write" => Quiet(script')
  BY <1>1, <1>2, ScriptBalanced
<1>4. Has(script', 12) => call'.op = "write" BY <1>3, QuietHasNot
<1>5. script = <<>> BY <1>1 DEF ProtectInv, WillProtect
<1>6. ~(nwp = 1 \/ core = 12) BY <1>1, <1>5, EmptyBalanced DEF ProtectInv, WillProtect, Idle
<1>7. call' # NoCall
  <2>1. call'.op \in {"init", "jedec", "param", "write", "read"} BY <1>1 DEF Call, WriteCalls, ReadCalls
  <2> QED BY <2>1 DEF NoCall
<1> QED BY <1>1, <1>2, <1>3, <1>4, <1>6, <1>7 DEF ProtectInv, WillProtect

LEMMA ReturnStep ==
  ASSUME ProtectInv, Return, Busy_bit = 1
  PROVE  ProtectInv'
<1>1. /\ script = <<>> /\ core = Idle /\ UNCHANGED <<script, calls, core, nwp>>
  BY DEF Return, wait_busy, pins
<1>2. ~(nwp = 1 \/ core = 12) BY <1>1, EmptyBalanced DEF ProtectInv, WillProtect, Idle
<1> QED BY <1>1, <1>2, EmptyBalanced DEF ProtectInv, WillProtect

\* The controller lowers WP# on command 11 and raises it on command 12.
LEMMA CoreStep ==
  ASSUME ProtectInv, Core
  PROVE  ProtectInv'
<1>1. UNCHANGED <<call, script, calls>> /\ core' = Idle
  BY DEF Core, SelectChip, SetProtection, ResetIndex, GetByte, SetByte, NandReset, ReadId,
         ReadParamPage, ReadPage, PageProgram, Done, firmware
<1>2. \/ core \notin {11, 12} /\ nwp' = nwp
      \/ core = 11 /\ nwp' = 0
      \/ core = 12 /\ nwp' = 1
  BY DEF Core, SelectChip, SetProtection, ResetIndex, GetByte, SetByte, NandReset, ReadId,
         ReadParamPage, ReadPage, PageProgram, Done, pins
<1> QED BY <1>1, <1>2 DEF ProtectInv, WillProtect, Idle, Balanced, Has

LEMMA ResetStep ==
  ASSUME Reset, calls \in Nat
  PROVE  ProtectInv'
<1>1. call' = NoCall /\ script' = <<>> /\ core' = Idle /\ nwp' = 0 /\ calls' = calls
  BY DEF Reset
<1> QED BY <1>1, EmptyBalanced DEF ProtectInv, WillProtect, Idle

LEMMA ProtectInductive ==
  ASSUME Busy_bit = 1, ProtectInv, [Next]_vars
  PROVE  ProtectInv'
<1>1. CASE Begin BY <1>1, BeginStep
<1>2. CASE send_command BY <1>2, SendStep
<1>3. CASE send_data_byte
  BY <1>3, AccessStep DEF send_data_byte, pins
<1>4. CASE get_data_byte
  BY <1>4, AccessStep DEF get_data_byte, pins
<1>5. CASE Sleep
  BY <1>5, AccessStep DEF Sleep, pins
<1>6. CASE Return BY <1>6, ReturnStep
<1>7. CASE Core BY <1>7, CoreStep
<1>8. CASE Reset BY <1>8, ResetStep DEF ProtectInv
<1>9. CASE UNCHANGED vars
  BY <1>9 DEF vars, firmware, pins, ProtectInv, WillProtect, Balanced, Has
<1> QED BY <1>1, <1>2, <1>3, <1>4, <1>5, <1>6, <1>7, <1>8, <1>9 DEF Next, Firmware

\* With a poll that waits, WP# is high only inside nand_write_page (nand.c:133-145): no other
\* call and no reset leaves the chips open to a program or an erase.
THEOREM Protected ==
  ASSUME Busy_bit = 1 PROVE Spec => []ProtectedOutsideWrites
<1>1. Init => ProtectInv
  BY EmptyBalanced DEF Init, ProtectInv, WillProtect, Idle
<1>2. ProtectInv /\ [Next]_vars => ProtectInv' BY ProtectInductive
<1>3. ProtectInv => ProtectedOutsideWrites BY DEF ProtectInv, WillProtect, ProtectedOutsideWrites
<1> QED BY <1>1, <1>2, <1>3, PTL DEF Spec

-----------------------------------------------------------------------------
(* Where each access stands in the script of its call *)

ChipCommand(c) == Command(IF c.chip = 1 THEN 9 ELSE 24)

Address(c) == AddressBytes(c.column, c.row[1], c.row[2], c.row[3])

\* The accesses after place p that load bytes with cmd, or fetch n bytes with it.
LoadsAfter(s, p, n, bytes, cmd) ==
  \A k \in 1..n : s[p + 2 * k - 1] = SendByte(bytes[k]) /\ s[p + 2 * k] = Command(cmd)
FetchesAfter(s, p, n, cmd) ==
  \A k \in 1..n : s[p + 2 * k - 1] = Command(cmd) /\ s[p + 2 * k] = Take

WriteLayout(c, s, m) ==
  /\ Len(s) = 2 * m + 18
  /\ s[1] = ChipCommand(c) /\ s[2] = Command(13) /\ s[3] = Command(12)
  /\ LoadsAfter(s, 3, m, c.data, 17)
  /\ s[2 * m + 4] = Command(13)
  /\ LoadsAfter(s, 2 * m + 4, 5, Address(c), 19)
  /\ s[2 * m + 15] = Command(13) /\ s[2 * m + 16] = Command(7)
  /\ s[2 * m + 17] = Command(11) /\ s[2 * m + 18] = Command(10)

ReadLayout(c, s, m) ==
  /\ Len(s) = 2 * m + 17
  /\ s[1] = ChipCommand(c) /\ s[2] = Command(13)
  /\ LoadsAfter(s, 2, 5, Address(c), 19)
  /\ s[13] = Command(13) /\ s[14] = Command(6) /\ s[15] = Delay /\ s[16] = Command(13)
  /\ FetchesAfter(s, 16, m, 16)
  /\ s[2 * m + 17] = Command(10)

JedecLayout(c, s) ==
  /\ Len(s) = 15
  /\ s[1] = ChipCommand(c) /\ s[2] = Command(13) /\ s[3] = Command(3) /\ s[4] = Command(13)
  /\ FetchesAfter(s, 4, 5, 14)
  /\ s[15] = Command(10)

ParamLayout(c, s) ==
  /\ Len(s) = 2 * ParamBytes + 6
  /\ s[1] = ChipCommand(c) /\ s[2] = Command(13) /\ s[3] = Command(2) /\ s[4] = Delay
  /\ s[5] = Command(13)
  /\ FetchesAfter(s, 5, ParamBytes, 15)
  /\ s[2 * ParamBytes + 6] = Command(10)

InitLayout(s) ==
  /\ Len(s) = 4
  /\ s[1] = Command(9) /\ s[2] = Command(1) /\ s[3] = Command(24) /\ s[4] = Command(1)

LEMMA Joins ==
  ASSUME NEW s \in Seq(Acc), NEW t \in Seq(Acc)
  PROVE  /\ s \o t \in Seq(Acc) /\ Len(s \o t) = Len(s) + Len(t)
         /\ Len(s) \in Nat /\ Len(t) \in Nat
         /\ \A i \in 1..Len(s) : (s \o t)[i] = s[i]
         /\ \A j \in 1..Len(t) : (s \o t)[Len(s) + j] = t[j]
<1>1. Len(s) \in Nat /\ Len(t) \in Nat BY LenProperties
<1>2. s \o t \in Seq(Acc) /\ Len(s \o t) = Len(s) + Len(t) BY ConcatProperties, Zenon
<1>3. \A i \in 1..Len(s) + Len(t) : (s \o t)[i] = IF i <= Len(s) THEN s[i] ELSE t[i - Len(s)]
  BY ConcatProperties, Zenon
<1> DEFINE n == Len(s)
           m == Len(t)
           u == s \o t
<1> HIDE DEF n, m, u
<1>4. n \in Nat /\ m \in Nat /\ \A i \in 1..n + m : u[i] = IF i <= n THEN s[i] ELSE t[i - n]
  BY <1>1, <1>3 DEF n, m, u
<1>5. \A i \in 1..n : u[i] = s[i] BY <1>4
<1>6. \A j \in 1..m : u[n + j] = t[j]
  <2> TAKE j \in 1..m
  <2>1. n + j \in 1..n + m /\ ~(n + j <= n) /\ (n + j) - n = j BY <1>4
  <2> QED BY <1>4, <2>1
<1> QED BY <1>1, <1>2, <1>5, <1>6 DEF n, m, u

LEMMA LoadPlaces ==
  ASSUME NEW bytes \in Seq(Nat), NEW v \in Nat, v # 12
  PROVE  /\ Load(bytes, v) \in Seq(Acc) /\ Len(Load(bytes, v)) = 2 * Len(bytes)
         /\ LoadsAfter(Load(bytes, v), 0, Len(bytes), bytes, v)
<1>1. Load(bytes, v) \in Seq(Acc) BY QuietLoad DEF Quiet
<1>2. Len(bytes) \in Nat BY LenProperties
<1> DEFINE n == Len(bytes)
<1>3. Len(Load(bytes, v)) = 2 * n BY <1>2 DEF Load
<1>4. ASSUME NEW k \in 1..n
      PROVE  /\ Load(bytes, v)[2 * k - 1] = SendByte(bytes[k])
             /\ Load(bytes, v)[2 * k] = Command(v)
  <2>1. 2 * k - 1 \in 1..2 * n /\ 2 * k \in 1..2 * n BY <1>2
  <2>2. (2 * k - 1) % 2 = 1 /\ ((2 * k - 1) + 1) \div 2 = k /\ (2 * k) % 2 = 0 BY <1>2
  <2> QED BY <2>1, <2>2 DEF Load
<1> QED BY <1>1, <1>3, <1>4 DEF LoadsAfter

LEMMA FetchPlaces ==
  ASSUME NEW n \in Nat, NEW v \in Nat, v # 12
  PROVE  /\ Fetch(n, v) \in Seq(Acc) /\ Len(Fetch(n, v)) = 2 * n
         /\ FetchesAfter(Fetch(n, v), 0, n, v)
<1>1. Fetch(n, v) \in Seq(Acc) BY QuietFetch DEF Quiet
<1>2. Len(Fetch(n, v)) = 2 * n BY DEF Fetch
<1>3. ASSUME NEW k \in 1..n
      PROVE  Fetch(n, v)[2 * k - 1] = Command(v) /\ Fetch(n, v)[2 * k] = Take
  <2>1. 2 * k - 1 \in 1..2 * n /\ 2 * k \in 1..2 * n OBVIOUS
  <2>2. (2 * k - 1) % 2 = 1 /\ (2 * k) % 2 = 0 OBVIOUS
  <2> QED BY <2>1, <2>2 DEF Fetch
<1> QED BY <1>1, <1>2, <1>3 DEF FetchesAfter

\* The parts of the calls.
LEMMA CallParts ==
  ASSUME NEW n \in 1..MaxCalls, NEW c \in Call(n)
  PROVE  /\ c.op \in {"init", "jedec", "param", "write", "read"}
         /\ c.op # "init" => c.chip \in Chip
         /\ c.op \in {"write", "read"} => c.row \in Row /\ c.column \in Nat /\ c.size \in Nat
         /\ c.op = "write" => /\ <<c.column, c.size>> \in {<<w[1], w[2]>> : w \in Writes}
                              /\ c.data \in [1..c.size -> 0..255] /\ c.data \in Seq(Nat)
                              /\ Len(c.data) = c.size
         /\ c.op = "read" => <<c.column, c.size>> \in {<<w[1], w[2]>> : w \in Reads}
<1>1. CASE c \in [op : {"init"}] BY <1>1
<1>2. CASE c \in [op : {"jedec", "param"}, chip : Chip] BY <1>2
<1>3. CASE c \in WriteCalls(n)
  <2>1. PICK x \in Chip, r \in Row, w \in Writes :
          c = [op |-> "write", chip |-> x, row |-> r, column |-> w[1], size |-> w[2],
               data |-> [k \in 1..w[2] |-> HostByte[n][k]]]
    BY <1>3 DEF WriteCalls
  <2>2. w[1] \in Nat /\ w[2] \in Nat BY CallAssumption
  <2>3. \A k \in 1..w[2] : HostByte[n][k] \in 0..255 BY CallAssumption, SMTT(30)
  <2>4. c.data \in [1..c.size -> 0..255] BY <2>1, <2>3
  <2>5. c.data \in Seq(Nat) /\ Len(c.data) = c.size
    <3>1. c.data \in [1..c.size -> Nat]
      <4>1. 0..255 \subseteq Nat OBVIOUS
      <4> QED BY <2>4, <4>1
    <3>2. c.size \in Nat BY <2>1, <2>2
    <3> QED BY <3>1, <3>2
  <2> QED BY <2>1, <2>2, <2>4, <2>5
<1>4. CASE c \in ReadCalls
  <2>1. PICK x \in Chip, r \in Row, w \in Reads :
          c = [op |-> "read", chip |-> x, row |-> r, column |-> w[1], size |-> w[2]]
    BY <1>4 DEF ReadCalls
  <2>2. w[1] \in Nat /\ w[2] \in Nat BY CallAssumption
  <2> QED BY <2>1, <2>2
<1> QED BY <1>1, <1>2, <1>3, <1>4 DEF Call

\* AddressRoundTrip, for the row of a call.
LEMMA RowDecoded ==
  ASSUME NEW column \in Nat, NEW row \in Row, column <= 16383
  PROVE  /\ AddressColumn(AddressBytes(column, row[1], row[2], row[3])) = column
         /\ AddressRow(AddressBytes(column, row[1], row[2], row[3])) = row
<1> DEFINE p == row[1]
           q == row[2]
           k == row[3]
<1>0. p \in 0..1 /\ q \in 0..127 /\ k \in 0..2047
  <2>1. row[1] \in 0..1 /\ row[2] \in 0..127 /\ row[3] \in 0..2047 BY RowParts, SMTT(20)
  <2> QED BY <2>1
<1>2. row = <<p, q, k>> BY RowParts
<1> HIDE DEF p, q, k
<1>1. p \in Nat /\ q \in Nat /\ k \in Nat /\ p <= 1 /\ q <= 127 /\ k <= 2047 BY <1>0
<1>3. /\ AddressColumn(AddressBytes(column, p, q, k)) = column
      /\ AddressRow(AddressBytes(column, p, q, k)) = <<p, q, k>>
  BY <1>1, AddressRoundTrip
<1> QED BY <1>2, <1>3 DEF p, q, k

\* The five bytes of an address.
LEMMA AddressParts ==
  ASSUME NEW column \in Nat, NEW row \in Row
  PROVE  /\ AddressBytes(column, row[1], row[2], row[3]) \in Seq(Nat)
         /\ Len(AddressBytes(column, row[1], row[2], row[3])) = 5
         /\ \A k \in 1..5 : AddressBytes(column, row[1], row[2], row[3])[k] \in 0..255
         /\ AddressRow(AddressBytes(column, row[1], row[2], row[3])) = row
<1>0. row[1] \in 0..1 /\ row[2] \in 0..127 /\ row[3] \in 0..2047 /\ row = <<row[1], row[2], row[3]>>
  BY RowParts, SMTT(20)
<1> DEFINE r == row[3]
<1>8. r \in 0..2047 BY RowParts
<1>9. \A n \in 0..2047 : n \in Nat OBVIOUS
<1>10. r \in Nat
  <2> HIDE DEF r
  <2> QED BY <1>8, <1>9
<1> DEFINE a == AddressBytes(column, row[1], row[2], row[3])
           b == AddressBytes(0, row[1], row[2], row[3])
<1>1. a = <<column % 256, (column \div 256) % 64, (row[1] % 2) * 128 + (row[2] % 128),
            row[3] % 256, (row[3] \div 256) % 8>>
  BY DEF AddressBytes
<1>2. column % 256 \in 0..255 /\ row[3] % 256 \in 0..255
  <2>1. row[3] \in Nat BY <1>10
  <2>2. \A q \in Nat : q % 256 \in 0..255 OBVIOUS
  <2> QED BY <2>1, <2>2
<1>3. (column \div 256) % 64 \in 0..255 /\ (row[3] \div 256) % 8 \in 0..255
  <2>1. row[3] \in Nat BY <1>10
  <2>3. \A q \in Nat : q \div 256 \in Nat OBVIOUS
  <2>2. \A q \in Nat : q % 64 \in 0..255 /\ q % 8 \in 0..255 OBVIOUS
  <2>4. column \div 256 \in Nat /\ row[3] \div 256 \in Nat BY <2>1, <2>3
  <2> QED BY <2>2, <2>4
<1>4. (row[1] % 2) * 128 + (row[2] % 128) \in 0..255
  <2>1. row[1] % 2 \in 0..1 /\ row[2] % 128 \in 0..127 BY <1>0
  <2> QED BY <2>1
<1>5. /\ a \in Seq(Nat) /\ Len(a) = 5
      /\ a[1] \in 0..255 /\ a[2] \in 0..255 /\ a[3] \in 0..255 /\ a[4] \in 0..255 /\ a[5] \in 0..255
  BY <1>1, <1>2, <1>3, <1>4, SMTT(20)
<1>6. AddressRow(a) = row
  <2>1. a[3] = b[3] /\ a[4] = b[4] /\ a[5] = b[5] BY DEF AddressBytes
  <2>2. 0 \in Nat /\ 0 <= 16383 OBVIOUS
  <2>3. AddressRow(b) = <<row[1], row[2], row[3]>>
    BY <1>0, <2>2, RowDecoded
  <2> HIDE DEF a, b
  <2>4. AddressRow(a) = AddressRow(b) BY <2>1 DEF AddressRow
  <2> QED BY <1>0, <2>3, <2>4
<1>7. \A k \in 1..5 : a[k] \in 0..255
  <2> HIDE DEF a
  <2> TAKE k \in 1..5
  <2>1. k = 1 \/ k = 2 \/ k = 3 \/ k = 4 \/ k = 5 OBVIOUS
  <2> QED BY <1>5, <2>1
<1> QED BY <1>5, <1>6, <1>7, Zenon

-----------------------------------------------------------------------------
(* What each access has left behind *)

Byte == 0..255 \union {X}

\* The calls of the application stay inside a page: a write sends every byte from its column
\* to the end of the page, a read asks for no byte past the end. Columns have 14 bits.
CallsFit ==
  /\ \A w \in Writes : w[1] <= 16383 /\ w[2] <= PageBytes /\ PageBytes <= w[1] + w[2]
  /\ \A r \in Reads : r[1] <= 16383 /\ r[1] + r[2] <= PageBytes

\* n bytes are loaded after place p. At place e the index counts the bytes that are in the
\* memory, and a byte that has been sent waits in data_in.
Loading(p, n, bytes, e, index, byte, memory) ==
  /\ \A k \in 0..n - 1 : e = p + 2 * k \/ e = p + 2 * k + 1 => index = k
  /\ \A k \in 1..n : e = p + 2 * k - 1 => byte = bytes[k]
  /\ \A k \in 1..n : e >= p + 2 * k => memory[k] = bytes[k]

\* n bytes of the memory are fetched after place p into b.
Fetching(p, n, memory, e, index, byte, b) ==
  /\ \A k \in 0..n : e = p + 2 * k => index = k
  /\ \A k \in 1..n : e = p + 2 * k - 1 => index = k /\ byte = memory[k]
  /\ e <= p => Len(b) = 0
  /\ \A k \in 1..n : e = p + 2 * k - 1 => Len(b) = k - 1
  /\ \A k \in 1..n : e = p + 2 * k => Len(b) = k
  /\ e >= p + 2 * n => Len(b) = n
  /\ \A k \in 1..n : e >= p + 2 * k => b[k] = memory[k]

\* The page a read has asked for, as page_data holds it.
Asked(c) ==
  [i \in 1..PageBytes |-> IF c.column + i <= PageBytes THEN store[c.chip][c.row][c.column + i] ELSE X]

SettledWrite(c, m, e) ==
  /\ buffer = <<>>
  /\ 1 <= e /\ e < 2 * m + 18 => selected = c.chip
  /\ 3 <= e /\ e <= 2 * m + 16 => nwp = 1
  /\ pending <=> e < 2 * m + 16
  /\ Loading(2 * m + 4, 5, Address(c), e, page_idx, data_in, current_address)
  /\ CallsFit => /\ e = 2 => page_idx = 0
                 /\ Loading(3, m, c.data, e, page_idx, data_in, page_data)

SettledRead(c, m, e) ==
  /\ ~pending
  /\ 1 <= e /\ e < 2 * m + 17 => selected = c.chip
  /\ Loading(2, 5, Address(c), e, page_idx, data_in, current_address)
  /\ CallsFit => /\ e >= 14 => page_data = Asked(c)
                 /\ Fetching(16, m, Asked(c), e, page_idx, data_out, buffer)

SettledJedec(c, e) ==
  /\ ~pending
  /\ 1 <= e /\ e < 15 => selected = c.chip
  /\ e >= 3 => chip_id = Id[c.chip]
  /\ Fetching(4, 5, Id[c.chip], e, page_idx, data_out, buffer)

SettledParam(c, e) ==
  /\ ~pending
  /\ 1 <= e /\ e < 2 * ParamBytes + 6 => selected = c.chip
  /\ e >= 3 => page_param = ParamPage[c.chip]
  /\ Fetching(5, ParamBytes, ParamPage[c.chip], e, page_idx, data_out, buffer)

Settled(c, e) ==
  /\ c.op = "write" => SettledWrite(c, c.size, e)
  /\ c.op = "read"  => SettledRead(c, c.size, e)
  /\ c.op = "jedec" => SettledJedec(c, e)
  /\ c.op = "param" => SettledParam(c, e)
  /\ c.op = "init"  => ~pending /\ buffer = <<>>

\* What is left of s after place i.
Left(s, i) == Len(script) = Len(s) - i /\ \A j \in 1..Len(script) : script[j] = s[i + j]

\* The accesses up to place e have had their effect; the controller may be busy with the next.
Stands(s, e) ==
  /\ e \in 0..Len(s)
  /\ \/ core = Idle /\ Left(s, e)
     \/ core # Idle /\ e + 1 <= Len(s) /\ s[e + 1] = Command(core) /\ Left(s, e + 1)

DriverType ==
  /\ script \in Seq(Acc) /\ buffer \in Seq(Byte)
  /\ data_in \in 0..255 /\ data_out \in Byte
  /\ page_idx \in 0..PageBytes \union 0..ParamBytes \union 0..5
  /\ page_data \in [1..PageBytes -> Byte] /\ page_param \in [1..ParamBytes -> Byte]
  /\ chip_id \in [1..5 -> Byte] /\ current_address \in [1..5 -> 0..255]
  /\ selected \in {0} \union Chip /\ nwp \in {0, 1}
  /\ store \in [Chip -> [Row -> [1..PageBytes -> Byte]]]
  /\ pending \in BOOLEAN /\ calls \in Nat /\ resets \in Nat

\* The inductive invariant.
DriverInv ==
  /\ DriverType
  /\ call = NoCall => core = Idle /\ script = <<>> /\ ~pending
  /\ call # NoCall => \E n \in 1..MaxCalls : \E c \in Call(n) : \E e \in Nat :
                        call = c /\ Stands(Script(c), e) /\ Settled(c, e)

\* What a chip sends of itself are bytes.
LEMMA IdWords ==
  ASSUME NEW x \in Chip PROVE Id[x] \in [1..5 -> 0..255]
BY ChipAssumption, Zenon

LEMMA ParamWords ==
  ASSUME NEW x \in Chip PROVE ParamPage[x] \in [1..ParamBytes -> 0..255]
BY ChipAssumption, Zenon

\* So are the words of a chip, and a bus that no chip drives gives X.
LEMMA SentWords ==
  ASSUME NEW n \in Nat, NEW words \in [Chip -> [1..n -> 0..255]], selected \in {0} \union Chip
  PROVE  Sent(words, n) \in [1..n -> Byte]
<1>1. CASE selected = 0
  <2>1. X \in Byte BY DEF Byte
  <2> QED BY <1>1, <2>1, Zenon DEF Sent
<1>2. CASE selected # 0
  <2>1. words[selected] \in [1..n -> 0..255] BY <1>2
  <2>2. 0..255 \subseteq Byte BY DEF Byte
  <2>3. Sent(words, n) = words[selected] BY <1>2 DEF Sent
  <2> HIDE <1>2
  <2>4. \A i \in 1..n : words[selected][i] \in Byte BY <2>1, <2>2
  <2> QED BY <2>1, <2>3, <2>4
<1> QED BY <1>1, <1>2

-----------------------------------------------------------------------------
(* Loading and fetching, one access at a time *)

LEMMA LoadKeep ==
  ASSUME NEW p \in Nat, NEW n \in Nat, NEW bytes, NEW e \in Nat, NEW i, NEW b, NEW mem,
         NEW j, NEW d, Loading(p, n, bytes, e, i, b, mem), e + 1 < p \/ e >= p + 2 * n
  PROVE  Loading(p, n, bytes, e + 1, j, d, mem)
<1>1. \A k \in 0..n - 1 : ~(e + 1 = p + 2 * k \/ e + 1 = p + 2 * k + 1) OBVIOUS
<1>2. \A k \in 1..n : e + 1 # p + 2 * k - 1 OBVIOUS
<1>3. \A k \in 1..n : e + 1 >= p + 2 * k => mem[k] = bytes[k]
  <2> TAKE k \in 1..n
  <2>1. e + 1 >= p + 2 * k => e >= p + 2 * k OBVIOUS
  <2> QED BY <2>1 DEF Loading
<1> QED BY <1>1, <1>2, <1>3 DEF Loading

LEMMA LoadEnter ==
  ASSUME NEW p \in Nat, NEW n \in Nat, NEW bytes, NEW b, NEW mem
  PROVE  Loading(p, n, bytes, p, 0, b, mem)
<1>1. \A k \in 0..n - 1 : (p = p + 2 * k \/ p = p + 2 * k + 1) => 0 = k OBVIOUS
<1>2. \A k \in 1..n : p # p + 2 * k - 1 OBVIOUS
<1>3. \A k \in 1..n : ~(p >= p + 2 * k) OBVIOUS
<1> QED BY <1>1, <1>2, <1>3 DEF Loading

LEMMA LoadByte ==
  ASSUME NEW p \in Nat, NEW n \in Nat, NEW bytes, NEW i, NEW b, NEW mem,
         NEW k \in 1..n, Loading(p, n, bytes, p + 2 * k - 2, i, b, mem)
  PROVE  Loading(p, n, bytes, p + 2 * k - 1, i, bytes[k], mem)
<1>1. i = k - 1
  <2>1. k - 1 \in 0..n - 1 /\ p + 2 * k - 2 = p + 2 * (k - 1) OBVIOUS
  <2> QED BY <2>1 DEF Loading
<1>2. \A j \in 0..n - 1 : p + 2 * k - 1 = p + 2 * j \/ p + 2 * k - 1 = p + 2 * j + 1 => j = k - 1
  OBVIOUS
<1>3. \A j \in 1..n : p + 2 * k - 1 = p + 2 * j - 1 => j = k OBVIOUS
<1>4. \A j \in 1..n : p + 2 * k - 1 >= p + 2 * j => mem[j] = bytes[j]
  <2> TAKE j \in 1..n
  <2>1. p + 2 * k - 1 >= p + 2 * j => p + 2 * k - 2 >= p + 2 * j OBVIOUS
  <2> QED BY <2>1 DEF Loading
<1> QED BY <1>1, <1>2, <1>3, <1>4 DEF Loading

LEMMA LoadCommand ==
  ASSUME NEW p \in Nat, NEW n \in Nat, NEW limit \in Nat, n <= limit, NEW bytes, NEW V,
         NEW mem \in [1..limit -> V], NEW i, NEW b, NEW k \in 1..n,
         Loading(p, n, bytes, p + 2 * k - 1, i, b, mem)
  PROVE  /\ i < limit /\ i + 1 = k
         /\ Loading(p, n, bytes, p + 2 * k, i + 1, b, [mem EXCEPT ![i + 1] = b])
<1>1. i = k - 1 /\ b = bytes[k]
  <2>1. k - 1 \in 0..n - 1 /\ p + 2 * k - 1 = p + 2 * (k - 1) + 1 OBVIOUS
  <2> QED BY <2>1 DEF Loading
<1>2. i < limit /\ i + 1 = k BY <1>1
<1>3. \A j \in 0..n - 1 : p + 2 * k = p + 2 * j \/ p + 2 * k = p + 2 * j + 1 => j = k
  OBVIOUS
<1>4. \A j \in 1..n : p + 2 * k # p + 2 * j - 1 OBVIOUS
<1>5. \A j \in 1..n : p + 2 * k >= p + 2 * j => [mem EXCEPT ![k] = b][j] = bytes[j]
  <2> SUFFICES ASSUME NEW j \in 1..n, p + 2 * k >= p + 2 * j
               PROVE  [mem EXCEPT ![k] = b][j] = bytes[j]
    OBVIOUS
  <2>1. k \in 1..limit /\ j \in 1..limit OBVIOUS
  <2>2. CASE j = k BY <1>1, <2>1, <2>2
  <2>3. CASE j # k
    <3>1. p + 2 * k - 1 >= p + 2 * j BY <2>3
    <3>2. mem[j] = bytes[j] BY <3>1 DEF Loading
    <3> QED BY <2>1, <2>3, <3>2
  <2> QED BY <2>2, <2>3
<1> QED BY <1>2, <1>3, <1>4, <1>5 DEF Loading

LEMMA FetchBefore ==
  ASSUME NEW p \in Nat, NEW n \in Nat, NEW mem, NEW e \in Nat, NEW i, NEW x, NEW b, NEW j, NEW y,
         Fetching(p, n, mem, e, i, x, b), e + 1 <= p, e + 1 = p => j = 0
  PROVE  Fetching(p, n, mem, e + 1, j, y, b)
<1>1. Len(b) = 0
  <2>1. e <= p OBVIOUS
  <2> QED BY <2>1 DEF Fetching
<1>2. \A k \in 0..n : e + 1 = p + 2 * k => j = k OBVIOUS
<1>3. \A k \in 1..n : e + 1 # p + 2 * k - 1 /\ e + 1 # p + 2 * k /\ ~(e + 1 >= p + 2 * k) OBVIOUS
<1>4. e + 1 >= p + 2 * n => n = 0 OBVIOUS
<1> QED BY <1>1, <1>2, <1>3, <1>4 DEF Fetching

LEMMA FetchAfter ==
  ASSUME NEW p \in Nat, NEW n \in Nat, NEW mem, NEW e \in Nat, NEW i, NEW x, NEW b, NEW j, NEW y,
         Fetching(p, n, mem, e, i, x, b), e >= p + 2 * n
  PROVE  Fetching(p, n, mem, e + 1, j, y, b)
<1>1. Len(b) = n BY DEF Fetching
<1>2. \A k \in 0..n : e + 1 # p + 2 * k OBVIOUS
<1>3. \A k \in 1..n : e + 1 # p + 2 * k - 1 /\ e + 1 # p + 2 * k OBVIOUS
<1>4. ~(e + 1 <= p) OBVIOUS
<1>5. \A k \in 1..n : b[k] = mem[k]
  <2> TAKE k \in 1..n
  <2>1. e >= p + 2 * k OBVIOUS
  <2> QED BY <2>1 DEF Fetching
<1> QED BY <1>1, <1>2, <1>3, <1>4, <1>5 DEF Fetching

LEMMA FetchCommand ==
  ASSUME NEW p \in Nat, NEW n \in Nat, NEW mem, NEW i, NEW x, NEW b, NEW k \in 1..n,
         Fetching(p, n, mem, p + 2 * k - 2, i, x, b)
  PROVE  i = k - 1 /\ Fetching(p, n, mem, p + 2 * k - 1, k, mem[k], b)
<1>1. i = k - 1
  <2>1. k - 1 \in 0..n /\ p + 2 * k - 2 = p + 2 * (k - 1) OBVIOUS
  <2> QED BY <2>1 DEF Fetching
<1>2. Len(b) = k - 1
  <2>1. CASE k = 1
    <3>1. p + 2 * k - 2 <= p BY <2>1
    <3> QED BY <2>1, <3>1 DEF Fetching
  <2>2. CASE k # 1
    <3>1. k - 1 \in 1..n /\ p + 2 * k - 2 = p + 2 * (k - 1) BY <2>2
    <3> QED BY <3>1 DEF Fetching
  <2> QED BY <2>1, <2>2
<1>3. \A j \in 0..n : p + 2 * k - 1 # p + 2 * j OBVIOUS
<1>4. \A j \in 1..n : p + 2 * k - 1 = p + 2 * j - 1 => j = k OBVIOUS
<1>5. ~(p + 2 * k - 1 <= p) /\ ~(p + 2 * k - 1 >= p + 2 * n) OBVIOUS
<1>6. \A j \in 1..n : p + 2 * k - 1 >= p + 2 * j => b[j] = mem[j]
  <2> TAKE j \in 1..n
  <2>1. p + 2 * k - 1 >= p + 2 * j => p + 2 * k - 2 >= p + 2 * j OBVIOUS
  <2> QED BY <2>1 DEF Fetching
<1>7. \A j \in 1..n : p + 2 * k - 1 # p + 2 * j OBVIOUS
<1> QED BY <1>1, <1>2, <1>3, <1>4, <1>5, <1>6, <1>7 DEF Fetching

LEMMA FetchTake ==
  ASSUME NEW p \in Nat, NEW n \in Nat, NEW mem, NEW i, NEW x, NEW V, NEW b \in Seq(V),
         x \in V, NEW k \in 1..n, Fetching(p, n, mem, p + 2 * k - 1, i, x, b)
  PROVE  Fetching(p, n, mem, p + 2 * k, i, x, Append(b, x))
<1> DEFINE c == Append(b, x)
<1>1. i = k /\ x = mem[k] /\ Len(b) = k - 1 BY DEF Fetching
<1>2. Len(c) = k /\ c[k] = x /\ \A j \in 1..k - 1 : c[j] = b[j] BY <1>1
<1> HIDE DEF c
<1>3. \A j \in 0..n : p + 2 * k = p + 2 * j => j = k OBVIOUS
<1>4. \A j \in 1..n : p + 2 * k # p + 2 * j - 1 OBVIOUS
<1>5. ~(p + 2 * k <= p) /\ (p + 2 * k >= p + 2 * n => n = k) OBVIOUS
<1>6. \A j \in 1..n : p + 2 * k >= p + 2 * j => c[j] = mem[j]
  <2> SUFFICES ASSUME NEW j \in 1..n, p + 2 * k >= p + 2 * j PROVE c[j] = mem[j] OBVIOUS
  <2>1. CASE j = k BY <1>1, <1>2, <2>1
  <2>2. CASE j # k
    <3>1. j \in 1..k - 1 /\ p + 2 * k - 1 >= p + 2 * j BY <2>2
    <3>2. b[j] = mem[j] BY <3>1 DEF Fetching
    <3> QED BY <1>2, <3>1, <3>2
  <2> QED BY <2>1, <2>2
<1>7. \A j \in 1..n : p + 2 * k = p + 2 * j => j = k OBVIOUS
<1> QED BY <1>1, <1>2, <1>3, <1>4, <1>5, <1>6, <1>7 DEF Fetching, c

-----------------------------------------------------------------------------
(* The layout of the scripts *)

\* Two sequences joined before and after others keep their places.
LEMMA JoinPlaces ==
  ASSUME NEW s \in Seq(Acc), NEW t \in Seq(Acc), NEW p \in Nat, Len(s) = p,
         NEW n \in Nat, NEW v, NEW bytes
  PROVE  /\ LoadsAfter(t, 0, n, bytes, v) /\ 2 * n <= Len(t) => LoadsAfter(s \o t, p, n, bytes, v)
         /\ FetchesAfter(t, 0, n, v) /\ 2 * n <= Len(t) => FetchesAfter(s \o t, p, n, v)
         /\ \A q \in Nat : LoadsAfter(s, q, n, bytes, v) /\ q + 2 * n <= p
                             => LoadsAfter(s \o t, q, n, bytes, v)
         /\ \A q \in Nat : FetchesAfter(s, q, n, v) /\ q + 2 * n <= p
                             => FetchesAfter(s \o t, q, n, v)
<1> DEFINE u == s \o t
           l == Len(t)
<1>1. /\ l \in Nat /\ \A i \in 1..p : u[i] = s[i]
      /\ \A j \in 1..l : u[p + j] = t[j]
  BY Joins
<1> HIDE DEF u, l
<1>2. ASSUME 2 * n <= l, NEW k \in 1..n
      PROVE  u[p + 2 * k - 1] = t[0 + 2 * k - 1] /\ u[p + 2 * k] = t[0 + 2 * k]
  <2>1. 2 * k - 1 \in 1..l /\ 2 * k \in 1..l BY <1>1, <1>2
  <2>2. p + 2 * k - 1 = p + (2 * k - 1) OBVIOUS
  <2> QED BY <1>1, <2>1, <2>2
<1>3. ASSUME NEW q \in Nat, q + 2 * n <= p, NEW k \in 1..n
      PROVE  u[q + 2 * k - 1] = s[q + 2 * k - 1] /\ u[q + 2 * k] = s[q + 2 * k]
  <2>1. q + 2 * k - 1 \in 1..p /\ q + 2 * k \in 1..p BY <1>3
  <2> QED BY <1>1, <2>1
<1> QED BY <1>2, <1>3 DEF LoadsAfter, FetchesAfter, u, l

LEMMA One == \A v \in Nat : <<Command(v)>> \in Seq(Acc) /\ Len(<<Command(v)>>) = 1
  BY DEF Acc, Command

LEMMA AddressLayout ==
  ASSUME NEW column \in Nat, NEW row \in Row
  PROVE  LET s == write_address(column, row)
         IN  /\ s \in Seq(Acc) /\ Len(s) = 12
             /\ s[1] = Command(13) /\ s[12] = Command(13)
             /\ LoadsAfter(s, 1, 5, AddressBytes(column, row[1], row[2], row[3]), 19)
<1> DEFINE a == AddressBytes(column, row[1], row[2], row[3])
           l == Load(a, 19)
           r == <<Command(13)>>
           s == r \o l
           u == s \o r
<1>1. a \in Seq(Nat) /\ Len(a) = 5 BY AddressParts
<1> HIDE DEF a
<1>2. l \in Seq(Acc) /\ Len(l) = 10 /\ LoadsAfter(l, 0, 5, a, 19)
  <2>1. 19 # 12 /\ 19 \in Nat OBVIOUS
  <2>2. l \in Seq(Acc) /\ Len(l) = 2 * Len(a) /\ LoadsAfter(l, 0, Len(a), a, 19)
    BY <1>1, <2>1, LoadPlaces, Zenon
  <2> HIDE DEF l
  <2> QED BY <1>1, <2>2
<1>3. r \in Seq(Acc) /\ Len(r) = 1 /\ r[1] = Command(13) BY One
<1> HIDE DEF l, r
<1>4. s \in Seq(Acc) /\ Len(s) = 11 /\ s[1] = Command(13)
  <2>1. s \in Seq(Acc) /\ Len(s) = Len(r) + Len(l) /\ \A i \in 1..Len(r) : s[i] = r[i]
    BY <1>2, <1>3, Joins, Zenon
  <2> QED BY <1>2, <1>3, <2>1
<1>5. LoadsAfter(s, 1, 5, a, 19)
  <2>1. 1 \in Nat /\ 5 \in Nat /\ 2 * 5 <= Len(l) BY <1>2
  <2> QED BY <1>2, <1>3, <2>1, JoinPlaces, Zenon
<1> HIDE DEF s
<1>6. u \in Seq(Acc) /\ Len(u) = 12 /\ u[1] = s[1] /\ u[11 + 1] = r[1]
  <2>1. /\ u \in Seq(Acc) /\ Len(u) = Len(s) + Len(r) /\ \A i \in 1..Len(s) : u[i] = s[i]
        /\ \A j \in 1..Len(r) : u[Len(s) + j] = r[j]
    BY <1>3, <1>4, Joins, Zenon
  <2> HIDE DEF u
  <2> QED BY <1>3, <1>4, <2>1
<1>7. LoadsAfter(u, 1, 5, a, 19)
  <2>1. 1 \in Nat /\ 5 \in Nat /\ 11 \in Nat /\ 1 + 2 * 5 <= 11 OBVIOUS
  <2> QED BY <1>3, <1>4, <1>5, <2>1, JoinPlaces, Zenon
<1>8. write_address(column, row) = u BY DEF write_address, reset_index, u, s, r, l, a
<1> HIDE DEF u
<1> QED BY <1>3, <1>4, <1>6, <1>7, <1>8 DEF a

LEMMA Pieces ==
  /\ \A c : /\ select_chip(c) \in Seq(Acc) /\ Len(select_chip(c)) = 1
            /\ select_chip(c)[1] = Command(IF c = 1 THEN 9 ELSE 24)
  /\ reset_index \in Seq(Acc) /\ Len(reset_index) = 1 /\ reset_index[1] = Command(13)
  /\ disable_all_chips \in Seq(Acc) /\ Len(disable_all_chips) = 1
  /\ disable_all_chips[1] = Command(10)
  /\ \A v \in Nat : /\ <<Command(v)>> \in Seq(Acc) /\ Len(<<Command(v)>>) = 1
                    /\ <<Command(v)>>[1] = Command(v)
  /\ \A v \in Nat : /\ <<Command(v), Delay>> \in Seq(Acc) /\ Len(<<Command(v), Delay>>) = 2
                    /\ <<Command(v), Delay>>[1] = Command(v) /\ <<Command(v), Delay>>[2] = Delay
  /\ <<Command(7), Command(11)>> \in Seq(Acc) /\ Len(<<Command(7), Command(11)>>) = 2
  /\ <<Command(7), Command(11)>>[1] = Command(7) /\ <<Command(7), Command(11)>>[2] = Command(11)
<1>1. \A v \in Nat : Command(v) \in Acc BY DEF Acc, Command
<1>2. Delay \in Acc BY DEF Acc, Delay
<1>3. \A c : (IF c = 1 THEN 9 ELSE 24) \in Nat OBVIOUS
<1>4. \A c : /\ select_chip(c) \in Seq(Acc) /\ Len(select_chip(c)) = 1
             /\ select_chip(c)[1] = Command(IF c = 1 THEN 9 ELSE 24)
  BY <1>1, <1>3 DEF select_chip
<1> QED BY <1>1, <1>2, <1>4 DEF reset_index, disable_all_chips

LEMMA InitPlaces == InitLayout(init)
<1> DEFINE a == select_chip(1)
           b == <<Command(1)>>
           c == select_chip(2)
           s2 == a \o b
           s3 == s2 \o c
           s4 == s3 \o b
<1>1. a \in Seq(Acc) /\ Len(a) = 1 /\ a[1] = Command(9) BY Pieces
<1>2. b \in Seq(Acc) /\ Len(b) = 1 /\ b[1] = Command(1) BY Pieces
<1>3. c \in Seq(Acc) /\ Len(c) = 1 /\ c[1] = Command(24) BY Pieces
<1> HIDE DEF a, b, c
<1>4. s2 \in Seq(Acc) /\ Len(s2) = 2 /\ s2[1] = a[1] /\ s2[2] = b[1]
  <2>1. /\ s2 \in Seq(Acc) /\ Len(s2) = Len(a) + Len(b)
        /\ \A i \in 1..Len(a) : s2[i] = a[i]
        /\ \A j \in 1..Len(b) : s2[Len(a) + j] = b[j]
    BY <1>1, <1>2, Joins, Zenon
  <2> HIDE DEF s2
  <2> QED BY <1>1, <1>2, <2>1
<1> HIDE DEF s2
<1>5. s3 \in Seq(Acc) /\ Len(s3) = 3 /\ s3[1] = s2[1] /\ s3[2] = s2[2] /\ s3[3] = c[1]
  <2>1. /\ s3 \in Seq(Acc) /\ Len(s3) = Len(s2) + Len(c)
        /\ \A i \in 1..Len(s2) : s3[i] = s2[i]
        /\ \A j \in 1..Len(c) : s3[Len(s2) + j] = c[j]
    BY <1>3, <1>4, Joins, Zenon
  <2> HIDE DEF s3
  <2> QED BY <1>3, <1>4, <2>1
<1> HIDE DEF s3
<1>6. /\ s4 \in Seq(Acc) /\ Len(s4) = 4
      /\ s4[1] = s3[1] /\ s4[2] = s3[2] /\ s4[3] = s3[3] /\ s4[4] = b[1]
  <2>1. /\ s4 \in Seq(Acc) /\ Len(s4) = Len(s3) + Len(b)
        /\ \A i \in 1..Len(s3) : s4[i] = s3[i]
        /\ \A j \in 1..Len(b) : s4[Len(s3) + j] = b[j]
    BY <1>2, <1>5, Joins, Zenon
  <2> HIDE DEF s4
  <2> QED BY <1>2, <1>5, <2>1
<1>7. init = s4 BY DEF init, s4, s3, s2, a, b, c
<1> HIDE DEF s4
<1> QED BY <1>1, <1>2, <1>3, <1>4, <1>5, <1>6, <1>7 DEF InitLayout

LEMMA WritePlaces ==
  ASSUME NEW c, c.row \in Row, c.column \in Nat, c.data \in Seq(Nat), NEW m \in Nat, Len(c.data) = m
  PROVE  WriteLayout(c, write_page(c), m)
<1> DEFINE a == select_chip(c.chip)
           r == reset_index
           o == <<Command(12)>>
           l == Load(c.data, 17)
           w == write_address(c.column, c.row)
           z == <<Command(7), Command(11)>>
           d == disable_all_chips
           s2 == a \o r
           s3 == s2 \o o
           s4 == s3 \o l
           s5 == s4 \o w
           s6 == s5 \o z
           s7 == s6 \o d
<1>0. m \in Nat OBVIOUS
<1>1. a \in Seq(Acc) /\ Len(a) = 1 /\ a[1] = ChipCommand(c)
  BY Pieces DEF ChipCommand
<1>2. r \in Seq(Acc) /\ Len(r) = 1 /\ r[1] = Command(13)
  BY Pieces
<1>3. o \in Seq(Acc) /\ Len(o) = 1 /\ o[1] = Command(12)
  BY Pieces
<1>4. l \in Seq(Acc) /\ Len(l) = 2 * m /\ LoadsAfter(l, 0, m, c.data, 17)
  <2>1. 17 \in Nat /\ 17 # 12 OBVIOUS
  <2>2. l \in Seq(Acc) /\ Len(l) = 2 * Len(c.data) /\ LoadsAfter(l, 0, Len(c.data), c.data, 17)
    BY <2>1, LoadPlaces, Zenon
  <2> QED BY <2>2, Zenon
<1>5. /\ w \in Seq(Acc) /\ Len(w) = 12
      /\ w[1] = Command(13)
      /\ w[12] = Command(13)
      /\ LoadsAfter(w, 1, 5, Address(c), 19)
  BY AddressLayout DEF Address
<1>6. /\ z \in Seq(Acc) /\ Len(z) = 2
      /\ z[1] = Command(7)
      /\ z[2] = Command(11)
  BY Pieces
<1>7. d \in Seq(Acc) /\ Len(d) = 1 /\ d[1] = Command(10)
  BY Pieces
<1> HIDE DEF a, r, o, l, w, z, d
<1>8. /\ s2 \in Seq(Acc) /\ Len(s2) = 2
      /\ s2[1] = ChipCommand(c) /\ s2[2] = Command(13)
  <2>1. /\ s2 \in Seq(Acc) /\ Len(s2) = Len(a) + Len(r)
        /\ \A i \in 1..Len(a) : s2[i] = a[i]
        /\ \A j \in 1..Len(r) : s2[Len(a) + j] = r[j]
    BY <1>1, <1>2, Joins, Zenon
  <2> HIDE DEF s2
  <2> QED BY <1>0, <1>1, <1>2, <2>1
<1> HIDE DEF s2
<1>9. /\ s3 \in Seq(Acc) /\ Len(s3) = 3
      /\ s3[1] = ChipCommand(c) /\ s3[2] = Command(13) /\ s3[3] = Command(12)
  <2>1. /\ s3 \in Seq(Acc) /\ Len(s3) = Len(s2) + Len(o)
        /\ \A i \in 1..Len(s2) : s3[i] = s2[i]
        /\ \A j \in 1..Len(o) : s3[Len(s2) + j] = o[j]
    BY <1>8, <1>3, Joins, Zenon
  <2> HIDE DEF s3
  <2> QED BY <1>0, <1>8, <1>3, <2>1
<1> HIDE DEF s3
<1>10. /\ s4 \in Seq(Acc) /\ Len(s4) = 2 * m + 3
      /\ s4[1] = ChipCommand(c) /\ s4[2] = Command(13) /\ s4[3] = Command(12)
      /\ LoadsAfter(s4, 3, m, c.data, 17)
  <2>1. /\ s4 \in Seq(Acc) /\ Len(s4) = Len(s3) + Len(l)
        /\ \A i \in 1..Len(s3) : s4[i] = s3[i]
        /\ \A j \in 1..Len(l) : s4[Len(s3) + j] = l[j]
    BY <1>9, <1>4, Joins, Zenon
  <2>2. Len(s3) \in Nat /\ m \in Nat /\ 2 * m <= Len(l) /\ Len(s3) = 3
    BY <1>0, <1>9, <1>4
  <2>3. LoadsAfter(s4, Len(s3), m, c.data, 17)
    BY <1>9, <1>4, <2>2, JoinPlaces, Zenon
  <2>4. LoadsAfter(s4, 3, m, c.data, 17) BY <2>2, <2>3, Zenon
  <2> HIDE DEF s4
  <2> QED BY <1>0, <1>9, <1>4, <2>1, <2>4
<1> HIDE DEF s4
<1>11. /\ s5 \in Seq(Acc) /\ Len(s5) = 2 * m + 15
      /\ s5[1] = ChipCommand(c) /\ s5[2] = Command(13) /\ s5[3] = Command(12)
      /\ s5[2 * m + 4] = Command(13) /\ s5[2 * m + 15] = Command(13)
      /\ LoadsAfter(s5, 3, m, c.data, 17)
      /\ LoadsAfter(s5, 2 * m + 4, 5, Address(c), 19)
  <2>1. /\ s5 \in Seq(Acc) /\ Len(s5) = Len(s4) + Len(w)
        /\ \A i \in 1..Len(s4) : s5[i] = s4[i]
        /\ \A j \in 1..Len(w) : s5[Len(s4) + j] = w[j]
    BY <1>10, <1>5, Joins, Zenon
  <2>2. 3 \in Nat /\ m \in Nat /\ Len(s4) \in Nat /\ 3 + 2 * m <= Len(s4)
    BY <1>0, <1>10, <1>5
  <2>3. LoadsAfter(s5, 3, m, c.data, 17) BY <1>10, <1>5, <2>2, JoinPlaces, Zenon
  <2> HIDE DEF s5
  <2>4. \A k \in 1..5 : /\ s5[2 * m + 4 + 2 * k - 1] = w[1 + 2 * k - 1]
                       /\ s5[2 * m + 4 + 2 * k] = w[1 + 2 * k]
    <3> TAKE k \in 1..5
    <3>1. /\ 1 + 2 * k - 1 \in 1..Len(w) /\ 1 + 2 * k \in 1..Len(w)
          /\ 2 * m + 4 + 2 * k - 1 = Len(s4) + (1 + 2 * k - 1)
          /\ 2 * m + 4 + 2 * k = Len(s4) + (1 + 2 * k)
      BY <1>0, <1>10, <1>5
    <3> QED BY <2>1, <3>1
  <2>5. LoadsAfter(s5, 2 * m + 4, 5, Address(c), 19) BY <1>5, <2>4 DEF LoadsAfter
  <2> HIDE DEF s5
  <2> QED BY <1>0, <1>10, <1>5, <2>1, <2>3, <2>5
<1> HIDE DEF s5
<1>12. /\ s6 \in Seq(Acc) /\ Len(s6) = 2 * m + 17
      /\ s6[1] = ChipCommand(c) /\ s6[2] = Command(13) /\ s6[3] = Command(12)
      /\ s6[2 * m + 4] = Command(13) /\ s6[2 * m + 15] = Command(13) /\ s6[2 * m + 16] = Command(7)
      /\ s6[2 * m + 17] = Command(11)
      /\ LoadsAfter(s6, 3, m, c.data, 17)
      /\ LoadsAfter(s6, 2 * m + 4, 5, Address(c), 19)
  <2>1. /\ s6 \in Seq(Acc) /\ Len(s6) = Len(s5) + Len(z)
        /\ \A i \in 1..Len(s5) : s6[i] = s5[i]
        /\ \A j \in 1..Len(z) : s6[Len(s5) + j] = z[j]
    BY <1>11, <1>6, Joins, Zenon
  <2>2. 3 \in Nat /\ m \in Nat /\ Len(s5) \in Nat /\ 3 + 2 * m <= Len(s5)
    BY <1>0, <1>11, <1>6
  <2>3. LoadsAfter(s6, 3, m, c.data, 17) BY <1>11, <1>6, <2>2, JoinPlaces, Zenon
  <2>4. 2 * m + 4 \in Nat /\ 5 \in Nat /\ Len(s5) \in Nat /\ 2 * m + 4 + 2 * 5 <= Len(s5)
    BY <1>0, <1>11, <1>6
  <2>5. LoadsAfter(s6, 2 * m + 4, 5, Address(c), 19) BY <1>11, <1>6, <2>4, JoinPlaces, Zenon
  <2> HIDE DEF s6
  <2> QED BY <1>0, <1>11, <1>6, <2>1, <2>3, <2>5
<1> HIDE DEF s6
<1>13. /\ s7 \in Seq(Acc) /\ Len(s7) = 2 * m + 18
      /\ s7[1] = ChipCommand(c) /\ s7[2] = Command(13) /\ s7[3] = Command(12)
      /\ s7[2 * m + 4] = Command(13) /\ s7[2 * m + 15] = Command(13) /\ s7[2 * m + 16] = Command(7)
      /\ s7[2 * m + 17] = Command(11) /\ s7[2 * m + 18] = Command(10)
      /\ LoadsAfter(s7, 3, m, c.data, 17)
      /\ LoadsAfter(s7, 2 * m + 4, 5, Address(c), 19)
  <2>1. /\ s7 \in Seq(Acc) /\ Len(s7) = Len(s6) + Len(d)
        /\ \A i \in 1..Len(s6) : s7[i] = s6[i]
        /\ \A j \in 1..Len(d) : s7[Len(s6) + j] = d[j]
    BY <1>12, <1>7, Joins, Zenon
  <2>2. 3 \in Nat /\ m \in Nat /\ Len(s6) \in Nat /\ 3 + 2 * m <= Len(s6)
    BY <1>0, <1>12, <1>7
  <2>3. LoadsAfter(s7, 3, m, c.data, 17) BY <1>12, <1>7, <2>2, JoinPlaces, Zenon
  <2>4. 2 * m + 4 \in Nat /\ 5 \in Nat /\ Len(s6) \in Nat /\ 2 * m + 4 + 2 * 5 <= Len(s6)
    BY <1>0, <1>12, <1>7
  <2>5. LoadsAfter(s7, 2 * m + 4, 5, Address(c), 19) BY <1>12, <1>7, <2>4, JoinPlaces, Zenon
  <2> HIDE DEF s7
  <2> QED BY <1>0, <1>12, <1>7, <2>1, <2>3, <2>5, SMTT(20)
<1> HIDE DEF s7
<1>14. write_page(c) = s7
  BY DEF write_page, s7, s6, s5, s4, s3, s2, a, r, o, l, w, z, d
<1> QED BY <1>0, <1>13, <1>14 DEF WriteLayout

LEMMA ReadPlaces ==
  ASSUME NEW c, c.row \in Row, c.column \in Nat, NEW m \in Nat, c.size = m
  PROVE  ReadLayout(c, read_page(c), m)
<1> DEFINE a == select_chip(c.chip)
           w == write_address(c.column, c.row)
           z == <<Command(6), Delay>>
           r == reset_index
           f == Fetch(m, 16)
           d == disable_all_chips
           s2 == a \o w
           s3 == s2 \o z
           s4 == s3 \o r
           s5 == s4 \o f
           s6 == s5 \o d
<1>0. m \in Nat OBVIOUS
<1>1. a \in Seq(Acc) /\ Len(a) = 1 /\ a[1] = ChipCommand(c)
  BY Pieces DEF ChipCommand
<1>2. /\ w \in Seq(Acc) /\ Len(w) = 12
      /\ w[1] = Command(13)
      /\ w[12] = Command(13)
      /\ LoadsAfter(w, 1, 5, Address(c), 19)
  BY AddressLayout DEF Address
<1>3. /\ z \in Seq(Acc) /\ Len(z) = 2
      /\ z[1] = Command(6)
      /\ z[2] = Delay
  BY Pieces
<1>4. r \in Seq(Acc) /\ Len(r) = 1 /\ r[1] = Command(13)
  BY Pieces
<1>5. f \in Seq(Acc) /\ Len(f) = 2 * m /\ FetchesAfter(f, 0, m, 16)
  <2>1. 16 \in Nat /\ 16 # 12 /\ m \in Nat OBVIOUS
  <2>2. f \in Seq(Acc) /\ Len(f) = 2 * m /\ FetchesAfter(f, 0, m, 16)
    BY <2>1, FetchPlaces, Zenon
  <2> HIDE DEF f
  <2> QED BY <2>2
<1>6. d \in Seq(Acc) /\ Len(d) = 1 /\ d[1] = Command(10)
  BY Pieces
<1> HIDE DEF a, w, z, r, f, d
<1>7. /\ s2 \in Seq(Acc) /\ Len(s2) = 13
      /\ s2[1] = ChipCommand(c) /\ s2[2] = Command(13) /\ s2[13] = Command(13)
      /\ LoadsAfter(s2, 2, 5, Address(c), 19)
  <2>1. /\ s2 \in Seq(Acc) /\ Len(s2) = Len(a) + Len(w)
        /\ \A i \in 1..Len(a) : s2[i] = a[i]
        /\ \A j \in 1..Len(w) : s2[Len(a) + j] = w[j]
    BY <1>1, <1>2, Joins, Zenon
  <2> HIDE DEF s2
  <2>2. \A k \in 1..5 : /\ s2[2 + 2 * k - 1] = w[1 + 2 * k - 1]
                       /\ s2[2 + 2 * k] = w[1 + 2 * k]
    <3> TAKE k \in 1..5
    <3>1. /\ 1 + 2 * k - 1 \in 1..Len(w) /\ 1 + 2 * k \in 1..Len(w)
          /\ 2 + 2 * k - 1 = Len(a) + (1 + 2 * k - 1)
          /\ 2 + 2 * k = Len(a) + (1 + 2 * k)
      BY <1>0, <1>1, <1>2
    <3> QED BY <2>1, <3>1
  <2>3. LoadsAfter(s2, 2, 5, Address(c), 19) BY <1>2, <2>2 DEF LoadsAfter
  <2> HIDE DEF s2
  <2> QED BY <1>0, <1>1, <1>2, <2>1, <2>3
<1> HIDE DEF s2
<1>8. /\ s3 \in Seq(Acc) /\ Len(s3) = 15
      /\ s3[1] = ChipCommand(c) /\ s3[2] = Command(13) /\ s3[13] = Command(13)
      /\ s3[14] = Command(6) /\ s3[15] = Delay
      /\ LoadsAfter(s3, 2, 5, Address(c), 19)
  <2>1. /\ s3 \in Seq(Acc) /\ Len(s3) = Len(s2) + Len(z)
        /\ \A i \in 1..Len(s2) : s3[i] = s2[i]
        /\ \A j \in 1..Len(z) : s3[Len(s2) + j] = z[j]
    BY <1>7, <1>3, Joins, Zenon
  <2>2. 2 \in Nat /\ 5 \in Nat /\ Len(s2) \in Nat /\ 2 + 2 * 5 <= Len(s2)
    BY <1>0, <1>7, <1>3
  <2>3. LoadsAfter(s3, 2, 5, Address(c), 19) BY <1>7, <1>3, <2>2, JoinPlaces, Zenon
  <2> HIDE DEF s3
  <2> QED BY <1>0, <1>7, <1>3, <2>1, <2>3
<1> HIDE DEF s3
<1>9. /\ s4 \in Seq(Acc) /\ Len(s4) = 16
      /\ s4[1] = ChipCommand(c) /\ s4[2] = Command(13) /\ s4[13] = Command(13)
      /\ s4[14] = Command(6) /\ s4[15] = Delay /\ s4[16] = Command(13)
      /\ LoadsAfter(s4, 2, 5, Address(c), 19)
  <2>1. /\ s4 \in Seq(Acc) /\ Len(s4) = Len(s3) + Len(r)
        /\ \A i \in 1..Len(s3) : s4[i] = s3[i]
        /\ \A j \in 1..Len(r) : s4[Len(s3) + j] = r[j]
    BY <1>8, <1>4, Joins, Zenon
  <2>2. 2 \in Nat /\ 5 \in Nat /\ Len(s3) \in Nat /\ 2 + 2 * 5 <= Len(s3)
    BY <1>0, <1>8, <1>4
  <2>3. LoadsAfter(s4, 2, 5, Address(c), 19) BY <1>8, <1>4, <2>2, JoinPlaces, Zenon
  <2> HIDE DEF s4
  <2> QED BY <1>0, <1>8, <1>4, <2>1, <2>3
<1> HIDE DEF s4
<1>10. /\ s5 \in Seq(Acc) /\ Len(s5) = 2 * m + 16
      /\ s5[1] = ChipCommand(c) /\ s5[2] = Command(13) /\ s5[13] = Command(13)
      /\ s5[14] = Command(6) /\ s5[15] = Delay /\ s5[16] = Command(13)
      /\ LoadsAfter(s5, 2, 5, Address(c), 19)
      /\ FetchesAfter(s5, 16, m, 16)
  <2>1. /\ s5 \in Seq(Acc) /\ Len(s5) = Len(s4) + Len(f)
        /\ \A i \in 1..Len(s4) : s5[i] = s4[i]
        /\ \A j \in 1..Len(f) : s5[Len(s4) + j] = f[j]
    BY <1>9, <1>5, Joins, Zenon
  <2>2. 2 \in Nat /\ 5 \in Nat /\ Len(s4) \in Nat /\ 2 + 2 * 5 <= Len(s4)
    BY <1>0, <1>9, <1>5
  <2>3. LoadsAfter(s5, 2, 5, Address(c), 19) BY <1>9, <1>5, <2>2, JoinPlaces, Zenon
  <2>4. Len(s4) \in Nat /\ m \in Nat /\ 2 * m <= Len(f) /\ Len(s4) = 16
    BY <1>0, <1>9, <1>5
  <2>5. FetchesAfter(s5, Len(s4), m, 16)
    BY <1>9, <1>5, <2>4, JoinPlaces, Zenon
  <2>6. FetchesAfter(s5, 16, m, 16) BY <2>4, <2>5, Zenon
  <2> HIDE DEF s5
  <2> QED BY <1>0, <1>9, <1>5, <2>1, <2>3, <2>6
<1> HIDE DEF s5
<1>11. /\ s6 \in Seq(Acc) /\ Len(s6) = 2 * m + 17
      /\ s6[1] = ChipCommand(c) /\ s6[2] = Command(13) /\ s6[13] = Command(13)
      /\ s6[14] = Command(6) /\ s6[15] = Delay /\ s6[16] = Command(13)
      /\ s6[2 * m + 17] = Command(10)
      /\ LoadsAfter(s6, 2, 5, Address(c), 19)
      /\ FetchesAfter(s6, 16, m, 16)
  <2>1. /\ s6 \in Seq(Acc) /\ Len(s6) = Len(s5) + Len(d)
        /\ \A i \in 1..Len(s5) : s6[i] = s5[i]
        /\ \A j \in 1..Len(d) : s6[Len(s5) + j] = d[j]
    BY <1>10, <1>6, Joins, Zenon
  <2>2. 2 \in Nat /\ 5 \in Nat /\ Len(s5) \in Nat /\ 2 + 2 * 5 <= Len(s5)
    BY <1>0, <1>10, <1>6
  <2>3. LoadsAfter(s6, 2, 5, Address(c), 19) BY <1>10, <1>6, <2>2, JoinPlaces, Zenon
  <2>4. 16 \in Nat /\ m \in Nat /\ Len(s5) \in Nat /\ 16 + 2 * m <= Len(s5)
    BY <1>0, <1>10, <1>6
  <2>5. FetchesAfter(s6, 16, m, 16) BY <1>10, <1>6, <2>4, JoinPlaces, Zenon
  <2> HIDE DEF s6
  <2> QED BY <1>0, <1>10, <1>6, <2>1, <2>3, <2>5
<1> HIDE DEF s6
<1>12. read_page(c) = s6
  BY DEF read_page, s6, s5, s4, s3, s2, a, w, z, r, f, d
<1> QED BY <1>0, <1>11, <1>12 DEF ReadLayout

LEMMA JedecPlaces ==
  ASSUME NEW c
  PROVE  JedecLayout(c, read_jedec_id(c.chip))
<1> DEFINE a == select_chip(c.chip)
           r == reset_index
           o == <<Command(3)>>
           q == reset_index
           f == Fetch(5, 14)
           d == disable_all_chips
           s2 == a \o r
           s3 == s2 \o o
           s4 == s3 \o q
           s5 == s4 \o f
           s6 == s5 \o d
<1>1. a \in Seq(Acc) /\ Len(a) = 1 /\ a[1] = ChipCommand(c)
  BY Pieces DEF ChipCommand
<1>2. r \in Seq(Acc) /\ Len(r) = 1 /\ r[1] = Command(13)
  BY Pieces
<1>3. o \in Seq(Acc) /\ Len(o) = 1 /\ o[1] = Command(3)
  BY Pieces
<1>4. q \in Seq(Acc) /\ Len(q) = 1 /\ q[1] = Command(13)
  BY Pieces
<1>5. f \in Seq(Acc) /\ Len(f) = 10 /\ FetchesAfter(f, 0, 5, 14)
  <2>1. 14 \in Nat /\ 14 # 12 /\ 5 \in Nat OBVIOUS
  <2>2. f \in Seq(Acc) /\ Len(f) = 2 * 5 /\ FetchesAfter(f, 0, 5, 14)
    BY <2>1, FetchPlaces, Zenon
  <2> HIDE DEF f
  <2> QED BY <2>2
<1>6. d \in Seq(Acc) /\ Len(d) = 1 /\ d[1] = Command(10)
  BY Pieces
<1> HIDE DEF a, r, o, q, f, d
<1>7. /\ s2 \in Seq(Acc) /\ Len(s2) = 2
      /\ s2[1] = ChipCommand(c) /\ s2[2] = Command(13)
  <2>1. /\ s2 \in Seq(Acc) /\ Len(s2) = Len(a) + Len(r)
        /\ \A i \in 1..Len(a) : s2[i] = a[i]
        /\ \A j \in 1..Len(r) : s2[Len(a) + j] = r[j]
    BY <1>1, <1>2, Joins, Zenon
  <2> HIDE DEF s2
  <2> QED BY <1>1, <1>2, <2>1
<1> HIDE DEF s2
<1>8. /\ s3 \in Seq(Acc) /\ Len(s3) = 3
      /\ s3[1] = ChipCommand(c) /\ s3[2] = Command(13) /\ s3[3] = Command(3)
  <2>1. /\ s3 \in Seq(Acc) /\ Len(s3) = Len(s2) + Len(o)
        /\ \A i \in 1..Len(s2) : s3[i] = s2[i]
        /\ \A j \in 1..Len(o) : s3[Len(s2) + j] = o[j]
    BY <1>7, <1>3, Joins, Zenon
  <2> HIDE DEF s3
  <2> QED BY <1>7, <1>3, <2>1
<1> HIDE DEF s3
<1>9. /\ s4 \in Seq(Acc) /\ Len(s4) = 4
      /\ s4[1] = ChipCommand(c) /\ s4[2] = Command(13) /\ s4[3] = Command(3)
      /\ s4[4] = Command(13)
  <2>1. /\ s4 \in Seq(Acc) /\ Len(s4) = Len(s3) + Len(q)
        /\ \A i \in 1..Len(s3) : s4[i] = s3[i]
        /\ \A j \in 1..Len(q) : s4[Len(s3) + j] = q[j]
    BY <1>8, <1>4, Joins, Zenon
  <2> HIDE DEF s4
  <2> QED BY <1>8, <1>4, <2>1
<1> HIDE DEF s4
<1>10. /\ s5 \in Seq(Acc) /\ Len(s5) = 14
      /\ s5[1] = ChipCommand(c) /\ s5[2] = Command(13) /\ s5[3] = Command(3)
      /\ s5[4] = Command(13)
      /\ FetchesAfter(s5, 4, 5, 14)
  <2>1. /\ s5 \in Seq(Acc) /\ Len(s5) = Len(s4) + Len(f)
        /\ \A i \in 1..Len(s4) : s5[i] = s4[i]
        /\ \A j \in 1..Len(f) : s5[Len(s4) + j] = f[j]
    BY <1>9, <1>5, Joins, Zenon
  <2>2. Len(s4) \in Nat /\ 5 \in Nat /\ 2 * 5 <= Len(f) /\ Len(s4) = 4
    BY <1>9, <1>5
  <2>3. FetchesAfter(s5, Len(s4), 5, 14)
    BY <1>9, <1>5, <2>2, JoinPlaces, Zenon
  <2>4. FetchesAfter(s5, 4, 5, 14) BY <2>2, <2>3, Zenon
  <2> HIDE DEF s5
  <2> QED BY <1>9, <1>5, <2>1, <2>4
<1> HIDE DEF s5
<1>11. /\ s6 \in Seq(Acc) /\ Len(s6) = 15
      /\ s6[1] = ChipCommand(c) /\ s6[2] = Command(13) /\ s6[3] = Command(3)
      /\ s6[4] = Command(13) /\ s6[15] = Command(10)
      /\ FetchesAfter(s6, 4, 5, 14)
  <2>1. /\ s6 \in Seq(Acc) /\ Len(s6) = Len(s5) + Len(d)
        /\ \A i \in 1..Len(s5) : s6[i] = s5[i]
        /\ \A j \in 1..Len(d) : s6[Len(s5) + j] = d[j]
    BY <1>10, <1>6, Joins, Zenon
  <2>2. 4 \in Nat /\ 5 \in Nat /\ Len(s5) \in Nat /\ 4 + 2 * 5 <= Len(s5)
    BY <1>10, <1>6
  <2>3. FetchesAfter(s6, 4, 5, 14) BY <1>10, <1>6, <2>2, JoinPlaces, Zenon
  <2> HIDE DEF s6
  <2> QED BY <1>10, <1>6, <2>1, <2>3
<1> HIDE DEF s6
<1>12. read_jedec_id(c.chip) = s6
  BY DEF read_jedec_id, s6, s5, s4, s3, s2, a, r, o, q, f, d
<1> QED BY <1>11, <1>12 DEF JedecLayout

LEMMA ParamPlaces ==
  ASSUME NEW c
  PROVE  ParamLayout(c, read_param_page(c.chip))
<1> DEFINE a == select_chip(c.chip)
           r == reset_index
           z == <<Command(2), Delay>>
           q == reset_index
           f == Fetch(ParamBytes, 15)
           d == disable_all_chips
           s2 == a \o r
           s3 == s2 \o z
           s4 == s3 \o q
           s5 == s4 \o f
           s6 == s5 \o d
<1>0. ParamBytes \in Nat BY DriverAssumption
<1>1. a \in Seq(Acc) /\ Len(a) = 1 /\ a[1] = ChipCommand(c)
  BY Pieces DEF ChipCommand
<1>2. r \in Seq(Acc) /\ Len(r) = 1 /\ r[1] = Command(13)
  BY Pieces
<1>3. /\ z \in Seq(Acc) /\ Len(z) = 2
      /\ z[1] = Command(2)
      /\ z[2] = Delay
  BY Pieces
<1>4. q \in Seq(Acc) /\ Len(q) = 1 /\ q[1] = Command(13)
  BY Pieces
<1>5. f \in Seq(Acc) /\ Len(f) = 2 * ParamBytes /\ FetchesAfter(f, 0, ParamBytes, 15)
  <2>1. 15 \in Nat /\ 15 # 12 /\ ParamBytes \in Nat BY <1>0
  <2>2. f \in Seq(Acc) /\ Len(f) = 2 * ParamBytes /\ FetchesAfter(f, 0, ParamBytes, 15)
    BY <2>1, FetchPlaces, Zenon
  <2> HIDE DEF f
  <2> QED BY <2>2
<1>6. d \in Seq(Acc) /\ Len(d) = 1 /\ d[1] = Command(10)
  BY Pieces
<1> HIDE DEF a, r, z, q, f, d
<1>7. /\ s2 \in Seq(Acc) /\ Len(s2) = 2
      /\ s2[1] = ChipCommand(c) /\ s2[2] = Command(13)
  <2>1. /\ s2 \in Seq(Acc) /\ Len(s2) = Len(a) + Len(r)
        /\ \A i \in 1..Len(a) : s2[i] = a[i]
        /\ \A j \in 1..Len(r) : s2[Len(a) + j] = r[j]
    BY <1>1, <1>2, Joins, Zenon
  <2> HIDE DEF s2
  <2> QED BY <1>0, <1>1, <1>2, <2>1
<1> HIDE DEF s2
<1>8. /\ s3 \in Seq(Acc) /\ Len(s3) = 4
      /\ s3[1] = ChipCommand(c) /\ s3[2] = Command(13) /\ s3[3] = Command(2)
      /\ s3[4] = Delay
  <2>1. /\ s3 \in Seq(Acc) /\ Len(s3) = Len(s2) + Len(z)
        /\ \A i \in 1..Len(s2) : s3[i] = s2[i]
        /\ \A j \in 1..Len(z) : s3[Len(s2) + j] = z[j]
    BY <1>7, <1>3, Joins, Zenon
  <2> HIDE DEF s3
  <2> QED BY <1>0, <1>7, <1>3, <2>1
<1> HIDE DEF s3
<1>9. /\ s4 \in Seq(Acc) /\ Len(s4) = 5
      /\ s4[1] = ChipCommand(c) /\ s4[2] = Command(13) /\ s4[3] = Command(2)
      /\ s4[4] = Delay /\ s4[5] = Command(13)
  <2>1. /\ s4 \in Seq(Acc) /\ Len(s4) = Len(s3) + Len(q)
        /\ \A i \in 1..Len(s3) : s4[i] = s3[i]
        /\ \A j \in 1..Len(q) : s4[Len(s3) + j] = q[j]
    BY <1>8, <1>4, Joins, Zenon
  <2> HIDE DEF s4
  <2> QED BY <1>0, <1>8, <1>4, <2>1
<1> HIDE DEF s4
<1>10. /\ s5 \in Seq(Acc) /\ Len(s5) = 2 * ParamBytes + 5
      /\ s5[1] = ChipCommand(c) /\ s5[2] = Command(13) /\ s5[3] = Command(2)
      /\ s5[4] = Delay /\ s5[5] = Command(13)
      /\ FetchesAfter(s5, 5, ParamBytes, 15)
  <2>1. /\ s5 \in Seq(Acc) /\ Len(s5) = Len(s4) + Len(f)
        /\ \A i \in 1..Len(s4) : s5[i] = s4[i]
        /\ \A j \in 1..Len(f) : s5[Len(s4) + j] = f[j]
    BY <1>9, <1>5, Joins, Zenon
  <2>2. Len(s4) \in Nat /\ ParamBytes \in Nat /\ 2 * ParamBytes <= Len(f) /\ Len(s4) = 5
    BY <1>0, <1>9, <1>5
  <2>3. FetchesAfter(s5, Len(s4), ParamBytes, 15)
    BY <1>9, <1>5, <2>2, JoinPlaces, Zenon
  <2>4. FetchesAfter(s5, 5, ParamBytes, 15) BY <2>2, <2>3, Zenon
  <2> HIDE DEF s5
  <2> QED BY <1>0, <1>9, <1>5, <2>1, <2>4
<1> HIDE DEF s5
<1>11. /\ s6 \in Seq(Acc) /\ Len(s6) = 2 * ParamBytes + 6
      /\ s6[1] = ChipCommand(c) /\ s6[2] = Command(13) /\ s6[3] = Command(2)
      /\ s6[4] = Delay /\ s6[5] = Command(13) /\ s6[2 * ParamBytes + 6] = Command(10)
      /\ FetchesAfter(s6, 5, ParamBytes, 15)
  <2>1. /\ s6 \in Seq(Acc) /\ Len(s6) = Len(s5) + Len(d)
        /\ \A i \in 1..Len(s5) : s6[i] = s5[i]
        /\ \A j \in 1..Len(d) : s6[Len(s5) + j] = d[j]
    BY <1>10, <1>6, Joins, Zenon
  <2>2. 5 \in Nat /\ ParamBytes \in Nat /\ Len(s5) \in Nat /\ 5 + 2 * ParamBytes <= Len(s5)
    BY <1>0, <1>10, <1>6
  <2>3. FetchesAfter(s6, 5, ParamBytes, 15) BY <1>10, <1>6, <2>2, JoinPlaces, Zenon
  <2> HIDE DEF s6
  <2> QED BY <1>0, <1>10, <1>6, <2>1, <2>3
<1> HIDE DEF s6
<1>12. read_param_page(c.chip) = s6
  BY DEF read_param_page, s6, s5, s4, s3, s2, a, r, z, q, f, d
<1> QED BY <1>0, <1>11, <1>12 DEF ParamLayout

LEMMA CallLayout ==
  ASSUME NEW n \in 1..MaxCalls, NEW c \in Call(n)
  PROVE  /\ Script(c) \in Seq(Acc)
         /\ c.op = "write" => WriteLayout(c, Script(c), c.size)
         /\ c.op = "read" => ReadLayout(c, Script(c), c.size)
         /\ c.op = "jedec" => JedecLayout(c, Script(c))
         /\ c.op = "param" => ParamLayout(c, Script(c))
         /\ c.op = "init" => InitLayout(Script(c))
<1>1. Script(c) \in Seq(Acc) BY ScriptBalanced
<1>2. ASSUME c.op = "write" PROVE WriteLayout(c, Script(c), c.size)
  <2>1. /\ c.row \in Row /\ c.column \in Nat /\ c.size \in Nat
        /\ c.data \in Seq(Nat) /\ Len(c.data) = c.size
    BY <1>2, CallParts
  <2>2. WriteLayout(c, write_page(c), c.size) BY <2>1, WritePlaces, Zenon
  <2>3. Script(c) = write_page(c) BY <1>2 DEF Script
  <2> QED BY <2>2, <2>3
<1>3. ASSUME c.op = "read" PROVE ReadLayout(c, Script(c), c.size)
  <2>1. c.row \in Row /\ c.column \in Nat /\ c.size \in Nat BY <1>3, CallParts
  <2>2. ReadLayout(c, read_page(c), c.size) BY <2>1, ReadPlaces, Zenon
  <2>3. Script(c) = read_page(c) BY <1>3 DEF Script
  <2> QED BY <2>2, <2>3
<1>4. ASSUME c.op = "jedec" PROVE JedecLayout(c, Script(c))
  <2>1. Script(c) = read_jedec_id(c.chip) BY <1>4 DEF Script
  <2> QED BY <2>1, JedecPlaces
<1>5. ASSUME c.op = "param" PROVE ParamLayout(c, Script(c))
  <2>1. Script(c) = read_param_page(c.chip) BY <1>5 DEF Script
  <2> QED BY <2>1, ParamPlaces
<1>6. ASSUME c.op = "init" PROVE InitLayout(Script(c))
  <2>1. Script(c) = init BY <1>6 DEF Script
  <2> QED BY <2>1, InitPlaces
<1> QED BY <1>1, <1>2, <1>3, <1>4, <1>5, <1>6

\* n pairs of accesses after place p: a place among them is the first or the second of a pair.
LEMMA PairPlaces ==
  ASSUME NEW p \in Nat, NEW n \in Nat, NEW i \in p + 1..p + 2 * n
  PROVE  \E k \in 1..n : i = p + 2 * k - 1 \/ i = p + 2 * k
<1> DEFINE k == (i - p + 1) \div 2
<1>1. k \in 1..n /\ (i - p + 1 = 2 * k \/ i - p + 1 = 2 * k + 1) OBVIOUS
<1> HIDE DEF k
<1> QED BY <1>1

-----------------------------------------------------------------------------
(* The accesses that take effect *)


\* What a command of the controller does.
CommandEffect(v) ==
  /\ UNCHANGED <<buffer, data_in>>
  /\ selected' = IF v = 9 THEN 1 ELSE IF v = 24 THEN 2 ELSE IF v = 10 THEN 0 ELSE selected
  /\ nwp' = IF v = 11 THEN 0 ELSE IF v = 12 THEN 1 ELSE nwp
  /\ v \in {2, 3, 7, 13} => page_idx' = 0
  /\ v \in {1, 9, 10, 11, 12, 24} => page_idx' = page_idx
  /\ v = 14 => data_out' = At(chip_id, 5) /\ Advance(5)
  /\ v = 15 => data_out' = At(page_param, ParamBytes) /\ Advance(ParamBytes)
  /\ v = 16 => data_out' = At(page_data, PageBytes) /\ Advance(PageBytes)
  /\ v \notin {14, 15, 16} => data_out' = data_out
  /\ v = 17 => page_data' = Put(page_data, PageBytes) /\ Advance(PageBytes)
  /\ v = 6 => /\ page_idx' = PageBytes
              /\ page_data' = [i \in 1..PageBytes |->
                   IF selected # 0 /\ AddressRow(current_address) \in Row
                        /\ AddressColumn(current_address) + i <= PageBytes
                     THEN store[selected][AddressRow(current_address)][AddressColumn(current_address) + i]
                     ELSE X]
  /\ v \notin {6, 17} => page_data' = page_data
  /\ v = 19 => current_address' = Put(current_address, 5) /\ Advance(5)
  /\ v # 19 => current_address' = current_address
  /\ v = 3 => chip_id' = Sent(Id, 5)
  /\ v # 3 => chip_id' = chip_id
  /\ v = 2 => page_param' = Sent(ParamPage, ParamBytes)
  /\ v # 2 => page_param' = page_param
  /\ v = 7 => /\ pending' = FALSE
              /\ store' = IF selected # 0 /\ nwp = 1 /\ AddressRow(current_address) \in Row
                   THEN [store EXCEPT ![selected][AddressRow(current_address)] =
                           PageProgrammed(@, AddressColumn(current_address))] ELSE store
  /\ v # 7 => store' = store /\ pending' = pending

memories == <<page_idx, page_data, chip_id, page_param, current_address, selected, nwp, store, pending>>

\* What access a does.
Effect(a) ==
  /\ a.do = "command" => CommandEffect(a.value)
  /\ a.do = "data" => data_in' = a.value /\ UNCHANGED <<buffer, data_out, memories>>
  /\ a.do = "take" => buffer' = Append(buffer, data_out) /\ UNCHANGED <<data_in, data_out, memories>>
  /\ a.do = "delay" => UNCHANGED <<buffer, data_in, data_out, memories>>

LEMMA CoreEffect ==
  ASSUME Core
  PROVE  /\ core \in {1, 2, 3, 6, 7, 9, 10, 11, 12, 13, 14, 15, 16, 17, 19, 24}
         /\ core' = Idle /\ UNCHANGED <<firmware, resets>>
         /\ CommandEffect(core)
<1>1. CASE SelectChip BY <1>1 DEF SelectChip, Done, CommandEffect, firmware, buffers, pins
<1>2. CASE SetProtection BY <1>2 DEF SetProtection, Done, CommandEffect, firmware, buffers, pins
<1>3. CASE ResetIndex BY <1>3 DEF ResetIndex, Done, CommandEffect, firmware, buffers, pins
<1>4. CASE GetByte BY <1>4 DEF GetByte, Done, CommandEffect, firmware, buffers, pins
<1>5. CASE SetByte BY <1>5 DEF SetByte, Done, CommandEffect, firmware, buffers, pins
<1>6. CASE NandReset BY <1>6 DEF NandReset, Done, CommandEffect, firmware, buffers, pins
<1>7. CASE ReadId BY <1>7 DEF ReadId, Done, CommandEffect, firmware, buffers, pins
<1>8. CASE ReadParamPage BY <1>8 DEF ReadParamPage, Done, CommandEffect, firmware, buffers, pins
<1>9. CASE ReadPage BY <1>9 DEF ReadPage, Done, CommandEffect, firmware, buffers, pins
<1>10. CASE PageProgram BY <1>10 DEF PageProgram, Done, CommandEffect, firmware, buffers, pins
<1> QED BY <1>1, <1>2, <1>3, <1>4, <1>5, <1>6, <1>7, <1>8, <1>9, <1>10 DEF Core

\* The accesses of a layout, place by place.
LEMMA WriteCases ==
  ASSUME NEW m \in Nat, NEW i \in 1..2 * m + 18
  PROVE  \/ i \in 1..3
         \/ \E k \in 1..m : i = 3 + 2 * k - 1 \/ i = 3 + 2 * k
         \/ i = 2 * m + 4
         \/ \E k \in 1..5 : i = 2 * m + 4 + 2 * k - 1 \/ i = 2 * m + 4 + 2 * k
         \/ i \in 2 * m + 15..2 * m + 18
<1>1. CASE i \in 3 + 1..3 + 2 * m BY <1>1, PairPlaces
<1>2. CASE i \in 2 * m + 4 + 1..2 * m + 4 + 2 * 5
  <2>1. 2 * m + 4 \in Nat OBVIOUS
  <2> DEFINE p == 2 * m + 4
  <2> HIDE DEF p
  <2>2. p \in Nat /\ 5 \in Nat /\ i \in p + 1..p + 2 * 5 BY <1>2, <2>1 DEF p
  <2>3. \E k \in 1..5 : i = p + 2 * k - 1 \/ i = p + 2 * k BY <2>2, PairPlaces, Zenon
  <2> QED BY <2>3 DEF p
<1>3. i \in 1..3 \/ i \in 3 + 1..3 + 2 * m \/ i = 2 * m + 4
      \/ i \in 2 * m + 4 + 1..2 * m + 4 + 2 * 5 \/ i \in 2 * m + 15..2 * m + 18
  OBVIOUS
<1> QED BY <1>1, <1>2, <1>3

LEMMA ReadCases ==
  ASSUME NEW m \in Nat, NEW i \in 1..2 * m + 17
  PROVE  \/ i \in {1, 2, 13, 14, 15, 16, 2 * m + 17}
         \/ \E k \in 1..5 : i = 2 + 2 * k - 1 \/ i = 2 + 2 * k
         \/ \E k \in 1..m : i = 16 + 2 * k - 1 \/ i = 16 + 2 * k
<1>1. CASE i \in 2 + 1..2 + 2 * 5 BY <1>1, PairPlaces
<1>2. CASE i \in 16 + 1..16 + 2 * m BY <1>2, PairPlaces
<1>3. i \in {1, 2, 13, 14, 15, 16, 2 * m + 17} \/ i \in 2 + 1..2 + 2 * 5 \/ i \in 16 + 1..16 + 2 * m
  OBVIOUS
<1> QED BY <1>1, <1>2, <1>3

LEMMA JedecCases ==
  ASSUME NEW i \in 1..15
  PROVE  i \in {1, 2, 3, 4, 15} \/ \E k \in 1..5 : i = 4 + 2 * k - 1 \/ i = 4 + 2 * k
<1>1. CASE i \in 4 + 1..4 + 2 * 5 BY <1>1, PairPlaces
<1> QED BY <1>1

LEMMA ParamCases ==
  ASSUME NEW m \in Nat, NEW i \in 1..2 * m + 6
  PROVE  \/ i \in {1, 2, 3, 4, 5, 2 * m + 6}
         \/ \E k \in 1..m : i = 5 + 2 * k - 1 \/ i = 5 + 2 * k
<1>1. CASE i \in 5 + 1..5 + 2 * m BY <1>1, PairPlaces
<1>2. i \in {1, 2, 3, 4, 5, 2 * m + 6} \/ i \in 5 + 1..5 + 2 * m OBVIOUS
<1> QED BY <1>1, <1>2

\* The commands that a script uses.
ScriptCommands == {1, 2, 3, 6, 7, 9, 10, 11, 12, 13, 14, 15, 16, 17, 19, 24}

Understood(a) ==
  /\ a.do = "command" => a.value \in ScriptCommands
  /\ a.do = "data" => a.value \in 0..255

\* An access that is understood and does not program.
Plain(a) == a # Command(Idle) /\ Understood(a) /\ a # Command(7)

LEMMA PlainAccesses ==
  /\ \A v \in ScriptCommands \ {7} : Plain(Command(v))
  /\ \A b \in 0..255 : Plain(SendByte(b))
  /\ Plain(Take) /\ Plain(Delay)
<1>1. ASSUME NEW v \in ScriptCommands, v # 7 PROVE Plain(Command(v))
  BY <1>1 DEF Plain, Understood, ScriptCommands, Idle, Command
<1>2. ASSUME NEW b \in 0..255 PROVE Plain(SendByte(b))
  <2>1. SendByte(b).do = "data" /\ SendByte(b).value \in 0..255 BY DEF SendByte
  <2>2. SendByte(b) # Command(Idle) /\ SendByte(b) # Command(7) BY DEF SendByte, Command
  <2> QED BY <2>1, <2>2 DEF Plain, Understood
<1>3. ASSUME NEW a \in {Take, Delay} PROVE Plain(a)
  <2>1. a.do # "data" /\ a.do # "command" BY DEF Take, Delay
  <2>2. a # Command(Idle) /\ a # Command(7) BY DEF Take, Delay, Command
  <2> QED BY <2>1, <2>2 DEF Plain, Understood
<1> QED BY <1>1, <1>2, <1>3

LEMMA PlainCommands ==
  /\ Plain(Command(1)) /\ Plain(Command(2)) /\ Plain(Command(3)) /\ Plain(Command(6))
  /\ Plain(Command(9)) /\ Plain(Command(10)) /\ Plain(Command(11)) /\ Plain(Command(12))
  /\ Plain(Command(13)) /\ Plain(Command(14)) /\ Plain(Command(15)) /\ Plain(Command(16))
  /\ Plain(Command(17)) /\ Plain(Command(19)) /\ Plain(Command(24))
  BY PlainAccesses DEF ScriptCommands

\* Every command is one of the controller, every byte is a byte, no access is the command number
\* that stands for an idle controller, and only a write programs a page.
LEMMA ScriptAccesses ==
  ASSUME NEW n \in 1..MaxCalls, NEW c \in Call(n), NEW i \in 1..Len(Script(c))
  PROVE  /\ Script(c)[i] # Command(Idle) /\ Understood(Script(c)[i])
         /\ Script(c)[i] = Command(7) => c.op = "write" /\ i = 2 * c.size + 16
<1> DEFINE s == Script(c)
           m == c.size
           Goal == \/ Plain(s[i])
                   \/ c.op = "write" /\ s[i] = Command(7) /\ i = 2 * m + 16
<1>0. SUFFICES Goal
  <2>1. Command(7) # Command(Idle) /\ Understood(Command(7))
    BY DEF Command, Idle, Understood, ScriptCommands
  <2> QED BY <2>1 DEF Plain
<1>1. /\ c.op \in {"init", "jedec", "param", "write", "read"} /\ i \in 1..Len(s)
      /\ c.op \in {"write", "read"} => m \in Nat
      /\ c.op = "write" => WriteLayout(c, s, m)
      /\ c.op = "read" => ReadLayout(c, s, m)
      /\ c.op = "jedec" => JedecLayout(c, s)
      /\ c.op = "param" => ParamLayout(c, s)
      /\ c.op = "init" => InitLayout(s)
  BY CallParts, CallLayout
<1>7. c.op = "write" => \A k \in 1..m : c.data[k] \in 0..255 BY CallParts, ZenonT(20)
<1> HIDE DEF s, m, Goal
<1>2. CASE c.op = "write"
  <2>1. m \in Nat BY <1>1, <1>2
  <2>2. WriteLayout(c, s, m) BY <1>1, <1>2
  <2>3. i \in 1..2 * m + 18 BY <1>1, <2>2 DEF WriteLayout
  <2>4. CASE i \in 1..3
    <3>1. s[i] = Command(9) \/ s[i] = Command(24) \/ s[i] = Command(13) \/ s[i] = Command(12)
      BY <2>2, <2>4, SMTT(30) DEF WriteLayout, ChipCommand
    <3> QED BY <3>1, PlainCommands DEF Goal
  <2>5. CASE \E k \in 1..m : i = 3 + 2 * k - 1 \/ i = 3 + 2 * k
    <3>1. PICK k \in 1..m : i = 3 + 2 * k - 1 \/ i = 3 + 2 * k BY <2>5
    <3>2. s[3 + 2 * k - 1] = SendByte(c.data[k]) /\ s[3 + 2 * k] = Command(17)
      BY <2>2 DEF WriteLayout, LoadsAfter
    <3>3. c.data[k] \in 0..255 BY <1>2, <1>7
    <3> QED BY <3>1, <3>2, <3>3, PlainAccesses, PlainCommands DEF Goal
  <2>6. CASE i = 2 * m + 4
    BY <2>2, <2>6, PlainCommands DEF WriteLayout, Goal
  <2>7. CASE \E k \in 1..5 : i = 2 * m + 4 + 2 * k - 1 \/ i = 2 * m + 4 + 2 * k
    <3>1. PICK k \in 1..5 : i = 2 * m + 4 + 2 * k - 1 \/ i = 2 * m + 4 + 2 * k BY <2>7
    <3>2. s[2 * m + 4 + 2 * k - 1] = SendByte(Address(c)[k]) /\ s[2 * m + 4 + 2 * k] = Command(19)
      BY <2>2 DEF WriteLayout, LoadsAfter
    <3>3. Address(c)[k] \in 0..255 BY <1>2, CallParts, AddressParts, ZenonT(20) DEF Address
    <3> QED BY <3>1, <3>2, <3>3, PlainAccesses, PlainCommands DEF Goal
  <2>8. CASE i \in 2 * m + 15..2 * m + 18
    <3>1. i = 2 * m + 15 \/ i = 2 * m + 16 \/ i = 2 * m + 17 \/ i = 2 * m + 18 BY <2>1, <2>8
    <3>2. \/ s[i] = Command(13) \/ s[i] = Command(11) \/ s[i] = Command(10)
          \/ s[i] = Command(7) /\ i = 2 * m + 16
      BY <2>2, <3>1 DEF WriteLayout
    <3> QED BY <1>2, <3>2, PlainCommands DEF Goal
  <2> QED BY <2>1, <2>3, <2>4, <2>5, <2>6, <2>7, <2>8, WriteCases
<1>3. CASE c.op = "read"
  <2>1. m \in Nat BY <1>1, <1>3
  <2>2. ReadLayout(c, s, m) BY <1>1, <1>3
  <2>3. i \in 1..2 * m + 17 BY <1>1, <2>2 DEF ReadLayout
  <2>4. CASE i \in {1, 2, 13, 14, 15, 16, 2 * m + 17}
    BY <2>1, <2>2, <2>4, PlainAccesses, PlainCommands DEF ReadLayout, ChipCommand, Goal
  <2>5. CASE \E k \in 1..5 : i = 2 + 2 * k - 1 \/ i = 2 + 2 * k
    <3>1. PICK k \in 1..5 : i = 2 + 2 * k - 1 \/ i = 2 + 2 * k BY <2>5
    <3>2. s[2 + 2 * k - 1] = SendByte(Address(c)[k]) /\ s[2 + 2 * k] = Command(19)
      BY <2>2 DEF ReadLayout, LoadsAfter
    <3>3. Address(c)[k] \in 0..255 BY <1>3, CallParts, AddressParts DEF Address
    <3> QED BY <3>1, <3>2, <3>3, PlainAccesses, PlainCommands DEF Goal
  <2>6. CASE \E k \in 1..m : i = 16 + 2 * k - 1 \/ i = 16 + 2 * k
    <3>1. PICK k \in 1..m : i = 16 + 2 * k - 1 \/ i = 16 + 2 * k BY <2>6
    <3>2. s[16 + 2 * k - 1] = Command(16) /\ s[16 + 2 * k] = Take
      BY <2>2 DEF ReadLayout, FetchesAfter
    <3> QED BY <3>1, <3>2, PlainAccesses, PlainCommands DEF Goal
  <2> QED BY <2>1, <2>3, <2>4, <2>5, <2>6, ReadCases
<1>4. CASE c.op = "jedec"
  <2>2. JedecLayout(c, s) BY <1>1, <1>4
  <2>3. i \in 1..15 BY <1>1, <2>2 DEF JedecLayout
  <2>4. CASE i \in {1, 2, 3, 4, 15}
    BY <2>2, <2>4, PlainAccesses, PlainCommands DEF JedecLayout, ChipCommand, Goal
  <2>5. CASE \E k \in 1..5 : i = 4 + 2 * k - 1 \/ i = 4 + 2 * k
    <3>1. PICK k \in 1..5 : i = 4 + 2 * k - 1 \/ i = 4 + 2 * k BY <2>5
    <3>2. s[4 + 2 * k - 1] = Command(14) /\ s[4 + 2 * k] = Take
      BY <2>2 DEF JedecLayout, FetchesAfter
    <3> QED BY <3>1, <3>2, PlainAccesses, PlainCommands DEF Goal
  <2> QED BY <2>3, <2>4, <2>5, JedecCases
<1>5. CASE c.op = "param"
  <2>1. ParamBytes \in Nat BY DriverAssumption
  <2>2. ParamLayout(c, s) BY <1>1, <1>5
  <2>3. i \in 1..2 * ParamBytes + 6 BY <1>1, <2>2 DEF ParamLayout
  <2>4. CASE i \in {1, 2, 3, 4, 5, 2 * ParamBytes + 6}
    BY <2>1, <2>2, <2>4, PlainAccesses, PlainCommands DEF ParamLayout, ChipCommand, Goal
  <2>5. CASE \E k \in 1..ParamBytes : i = 5 + 2 * k - 1 \/ i = 5 + 2 * k
    <3>1. PICK k \in 1..ParamBytes : i = 5 + 2 * k - 1 \/ i = 5 + 2 * k BY <2>5
    <3>2. s[5 + 2 * k - 1] = Command(15) /\ s[5 + 2 * k] = Take
      BY <2>2 DEF ParamLayout, FetchesAfter
    <3> QED BY <3>1, <3>2, PlainAccesses, PlainCommands DEF Goal
  <2> QED BY <2>1, <2>3, <2>4, <2>5, ParamCases
<1>6. CASE c.op = "init"
  <2>1. InitLayout(s) BY <1>1, <1>6
  <2>2. i \in 1..4 BY <1>1, <2>1 DEF InitLayout
  <2> QED BY <2>1, <2>2, PlainCommands DEF InitLayout, Goal
<1> QED BY <1>1, <1>2, <1>3, <1>4, <1>5, <1>6

\* One access: the firmware hands a command over, or an access takes effect.
LEMMA Advances ==
  ASSUME NEW n \in 1..MaxCalls, NEW c \in Call(n), NEW e \in Nat, Stands(Script(c), e),
         script \in Seq(Acc), Busy_bit = 1,
         send_command \/ send_data_byte \/ get_data_byte \/ Sleep \/ Core
  PROVE  /\ UNCHANGED <<call, answer, booted, calls, resets>>
         /\ \/ Stands(Script(c), e)' /\ UNCHANGED <<buffer, data_in, data_out, memories>>
            \/ e + 1 <= Len(Script(c)) /\ Stands(Script(c), e + 1)' /\ Effect(Script(c)[e + 1])
<1> DEFINE s == Script(c)
<1>1. s \in Seq(Acc) /\ Len(s) \in Nat BY CallLayout, LenProperties
<1>2. ASSUME NEW i \in 1..Len(s) PROVE s[i] # Command(Idle) /\ s[i] \in Acc BY <1>1, ScriptAccesses
<1>3. ASSUME NEW do, Access(do)
      PROVE  /\ core = Idle /\ e + 1 \in 1..Len(s) /\ Head(script) = s[e + 1] /\ s[e + 1].do = do
             /\ Len(script') = Len(s) - (e + 1)
             /\ \A j \in 1..Len(script') : script'[j] = s[e + 1 + j]
  <2>1. script # <<>> /\ core = Idle /\ script' = Tail(script) /\ Head(script).do = do
    BY <1>3 DEF Access, wait_busy
  <2>2. Left(s, e) BY <2>1 DEF Stands
  <2>3. /\ Len(script) \in Nat \ {0} /\ Head(script) = script[1]
        /\ Len(script') = Len(script) - 1
        /\ \A j \in 1..Len(script') : script'[j] = script[j + 1]
    BY <2>1
  <2> HIDE DEF s
  <2>4. e + 1 \in 1..Len(s) BY <1>1, <2>2, <2>3 DEF Left
  <2>5. script[1] = s[e + 1] BY <2>2, <2>3 DEF Left
  <2>6. ASSUME NEW j \in 1..Len(script') PROVE script'[j] = s[e + 1 + j]
    <3>1. j + 1 \in 1..Len(script) /\ e + (j + 1) = e + 1 + j BY <2>3
    <3> QED BY <2>2, <2>3, <3>1 DEF Left
  <2> QED BY <1>1, <2>1, <2>2, <2>3, <2>4, <2>5, <2>6 DEF Left
<1> HIDE DEF s
<1>4. CASE send_command
  <2>1. /\ Access("command") /\ core = Idle /\ core' = Head(script).value
        /\ UNCHANGED <<call, answer, booted, calls, resets>>
        /\ UNCHANGED <<buffer, data_in, data_out, memories>>
    BY <1>3, <1>4 DEF send_command, memories, buffers, pins
  <2>2. s[e + 1] = Command(core') BY <1>2, <1>3, <2>1 DEF Acc, Command
  <2>3. core' # Idle BY <1>2, <1>3, <2>1, <2>2
  <2>4. Stands(s, e)' BY <1>1, <1>3, <2>1, <2>2, <2>3 DEF Stands, Left
  <2> QED BY <2>1, <2>4 DEF s
<1>5. CASE send_data_byte \/ get_data_byte \/ Sleep
  <2>1. /\ Access("data") \/ Access("take") \/ Access("delay")
        /\ UNCHANGED <<call, answer, booted, calls, resets, core>>
    BY <1>5 DEF send_data_byte, get_data_byte, Sleep
  <2>2. Effect(s[e + 1])
    <3>1. CASE send_data_byte
      BY <1>3, <3>1 DEF send_data_byte, Effect, memories, buffers, pins
    <3>2. CASE get_data_byte
      BY <1>3, <3>2 DEF get_data_byte, Effect, memories, buffers, pins
    <3>3. CASE Sleep
      BY <1>3, <3>3 DEF Sleep, Effect, memories, buffers, pins
    <3> QED BY <1>5, <3>1, <3>2, <3>3
  <2>3. Stands(s, e + 1)' /\ e + 1 <= Len(s) BY <1>1, <1>3, <2>1, SMTT(30) DEF Stands, Left
  <2> QED BY <2>1, <2>2, <2>3 DEF s
<1>6. CASE Core
  <2>1. /\ core # Idle /\ core' = Idle /\ UNCHANGED <<firmware, resets>> /\ CommandEffect(core)
    BY <1>6, CoreEffect DEF Idle
  <2>2. e + 1 <= Len(s) /\ s[e + 1] = Command(core) /\ Left(s, e + 1) BY <2>1 DEF Stands, s
  <2>3. Effect(s[e + 1]) BY <2>1, <2>2 DEF Effect, Command
  <2>4. Stands(s, e + 1)' BY <1>1, <2>1, <2>2 DEF Stands, Left, firmware
  <2> QED BY <2>1, <2>2, <2>3, <2>4 DEF s, firmware
<1> QED BY <1>4, <1>5, <1>6

-----------------------------------------------------------------------------
(* Types *)

LEMMA ColumnType ==
  ASSUME DriverType PROVE AddressColumn(current_address) \in Nat
<1>1. current_address[1] \in 0..255 /\ current_address[2] \in 0..255 BY DEF DriverType
<1>2. \A x, y \in 0..255 : x + 256 * (y % 64) \in Nat OBVIOUS
<1> QED BY <1>1, <1>2, ZenonT(20) DEF AddressColumn

\* A page that takes bytes is a page.
LEMMA ProgrammedType ==
  ASSUME DriverType, NEW page \in [1..PageBytes -> Byte], NEW column \in Nat
  PROVE  PageProgrammed(page, column) \in [1..PageBytes -> Byte]
<1>1. ASSUME NEW old \in Byte, NEW byte \in Byte PROVE Programmed(old, byte) \in Byte
  BY DEF Programmed, Byte
<1>2. PageBytes \in Nat BY DriverAssumption
<1>3. ASSUME NEW i \in 1..PageBytes, i > column
      PROVE  Programmed(page[i], page_data[i - column]) \in Byte
  <2>1. i - column \in 1..PageBytes BY <1>2, <1>3
  <2>2. page_data[i - column] \in Byte BY <2>1 DEF DriverType
  <2> QED BY <1>1, <2>2
<1> QED BY <1>3 DEF PageProgrammed

LEMMA TypeEffect ==
  ASSUME DriverType, NEW a \in Acc, Effect(a), a.do = "data" => a.value \in 0..255,
         a.do = "command" =>
           a.value \in {1, 2, 3, 6, 7, 9, 10, 11, 12, 13, 14, 15, 16, 17, 19, 24}
  PROVE  /\ buffer' \in Seq(Byte) /\ data_in' \in 0..255 /\ data_out' \in Byte
         /\ page_idx' \in 0..PageBytes \union 0..ParamBytes \union 0..5
         /\ page_data' \in [1..PageBytes -> Byte] /\ page_param' \in [1..ParamBytes -> Byte]
         /\ chip_id' \in [1..5 -> Byte] /\ current_address' \in [1..5 -> 0..255]
         /\ selected' \in {0} \union Chip /\ nwp' \in {0, 1}
         /\ store' \in [Chip -> [Row -> [1..PageBytes -> Byte]]] /\ pending' \in BOOLEAN
<1>0. PageBytes \in Nat /\ ParamBytes \in Nat /\ page_idx \in Nat BY DriverAssumption DEF DriverType
<1>1. CASE a.do = "data"
  <2>1. data_in' = a.value /\ UNCHANGED <<buffer, data_out, memories>> BY <1>1 DEF Effect
  <2> QED BY <1>1, <2>1 DEF DriverType, memories
<1>2. CASE a.do = "take"
  <2>1. buffer' = Append(buffer, data_out) /\ UNCHANGED <<data_in, data_out, memories>>
    BY <1>2 DEF Effect
  <2>2. buffer' \in Seq(Byte) BY <2>1 DEF DriverType
  <2> QED BY <2>1, <2>2 DEF DriverType, memories
<1>3. CASE a.do = "delay"
  <2>1. UNCHANGED <<buffer, data_in, data_out, memories>> BY <1>3 DEF Effect
  <2> QED BY <2>1 DEF DriverType, memories
<1>4. CASE a.do = "command"
  <2> DEFINE v == a.value
  <2>0. CommandEffect(v) /\ v \in {1, 2, 3, 6, 7, 9, 10, 11, 12, 13, 14, 15, 16, 17, 19, 24}
    BY <1>4 DEF Effect
  <2> HIDE DEF v
  <2>1. /\ buffer' = buffer /\ data_in' = data_in
        /\ selected' \in {0} \union Chip /\ nwp' \in {0, 1}
    BY <2>0 DEF CommandEffect, DriverType, Chip
  <2>2. ASSUME NEW limit \in Nat, NEW memory \in [1..limit -> Byte]
        PROVE  At(memory, limit) \in Byte /\ Put(memory, limit) \in [1..limit -> Byte]
    <3>1. page_idx < limit => page_idx + 1 \in 1..limit BY <1>0
    <3>2. 0 \in Byte /\ data_in \in Byte BY DEF Byte, DriverType
    <3> QED BY <3>1, <3>2 DEF At, Put
  <2>3. data_out' \in Byte
    <3>1. /\ At(chip_id, 5) \in Byte /\ At(page_param, ParamBytes) \in Byte
          /\ At(page_data, PageBytes) \in Byte
      BY <1>0, <2>2 DEF DriverType
    <3> QED BY <2>0, <3>1 DEF CommandEffect, DriverType
  <2>4. page_idx' \in 0..PageBytes \union 0..ParamBytes \union 0..5
    BY <1>0, <2>0 DEF CommandEffect, DriverType, Advance
  <2>5. page_data' \in [1..PageBytes -> Byte]
    <3>1. Put(page_data, PageBytes) \in [1..PageBytes -> Byte] BY <1>0, <2>2 DEF DriverType
    <3>2. CASE v = 6
      <4>1. ASSUME NEW i \in 1..PageBytes, selected # 0, AddressRow(current_address) \in Row,
                   AddressColumn(current_address) + i <= PageBytes
            PROVE  store[selected][AddressRow(current_address)][AddressColumn(current_address) + i]
                     \in Byte
        <5>1. AddressColumn(current_address) + i \in 1..PageBytes BY <1>0, <4>1, ColumnType
        <5>2. selected \in Chip BY <4>1 DEF DriverType
        <5>3. store[selected][AddressRow(current_address)] \in [1..PageBytes -> Byte]
          BY <4>1, <5>2 DEF DriverType
        <5> QED BY <5>1, <5>3
      <4>2. page_data' = [i \in 1..PageBytes |->
                IF selected # 0 /\ AddressRow(current_address) \in Row
                     /\ AddressColumn(current_address) + i <= PageBytes
                  THEN store[selected][AddressRow(current_address)][AddressColumn(current_address) + i]
                  ELSE X]
        BY <2>0, <3>2 DEF CommandEffect
      <4>3. X \in Byte BY DEF Byte
      <4> QED BY <4>1, <4>2, <4>3, Zenon
    <3>3. CASE v = 17 BY <2>0, <3>1, <3>3 DEF CommandEffect
    <3>4. CASE v \notin {6, 17} BY <2>0, <3>4 DEF CommandEffect, DriverType
    <3> QED BY <3>2, <3>3, <3>4
  <2>6. current_address' \in [1..5 -> 0..255]
    <3>1. page_idx < 5 => page_idx + 1 \in 1..5 BY <1>0
    <3>2. Put(current_address, 5) \in [1..5 -> 0..255] BY <3>1 DEF Put, DriverType
    <3> QED BY <2>0, <3>2, ZenonT(20) DEF CommandEffect, DriverType
  <2>7. chip_id' \in [1..5 -> Byte] /\ page_param' \in [1..ParamBytes -> Byte]
    <3>1. Sent(Id, 5) \in [1..5 -> Byte]
      BY SentWords, ChipAssumption, DriverAssumption, Zenon DEF DriverType
    <3>2. Sent(ParamPage, ParamBytes) \in [1..ParamBytes -> Byte]
      BY SentWords, ChipAssumption, DriverAssumption, Zenon DEF DriverType
    <3> QED BY <2>0, <3>1, <3>2 DEF CommandEffect, DriverType
  <2>8. store' \in [Chip -> [Row -> [1..PageBytes -> Byte]]] /\ pending' \in BOOLEAN
    <3>1. CASE v = 7
      <4> DEFINE row == AddressRow(current_address)
                 column == AddressColumn(current_address)
      <4>1. column \in Nat BY ColumnType
      <4>2. pending' = FALSE
            /\ store' = IF selected # 0 /\ nwp = 1 /\ row \in Row
                         THEN [store EXCEPT ![selected][row] = PageProgrammed(@, column)] ELSE store
        BY <2>0, <3>1 DEF CommandEffect
      <4> HIDE DEF row, column
      <4>3. ASSUME selected # 0, row \in Row
            PROVE  PageProgrammed(store[selected][row], column) \in [1..PageBytes -> Byte]
        <5>1. selected \in Chip BY <4>3 DEF DriverType
        <5>2. store[selected][row] \in [1..PageBytes -> Byte] BY <4>3, <5>1 DEF DriverType
        <5> QED BY <4>1, <5>2, ProgrammedType
      <4> QED BY <4>2, <4>3 DEF DriverType
    <3>2. CASE v # 7 BY <2>0, <3>2 DEF CommandEffect, DriverType
    <3> QED BY <3>1, <3>2
  <2> QED BY <2>1, <2>3, <2>4, <2>5, <2>6, <2>7, <2>8, Zenon DEF DriverType
<1> QED BY <1>1, <1>2, <1>3, <1>4 DEF Acc

-----------------------------------------------------------------------------
(* A call, one access at a time *)

\* The bytes of the address are loaded in the window of ten accesses after place p.
LEMMA AddressKept ==
  ASSUME NEW a, NEW p \in Nat, NEW e \in Nat, current_address' = current_address,
         Loading(p, 5, a, e, page_idx, data_in, current_address), e + 1 < p \/ e >= p + 10
  PROVE  Loading(p, 5, a, e + 1, page_idx, data_in, current_address)'
<1>1. 5 \in Nat /\ (e + 1 < p \/ e >= p + 2 * 5) OBVIOUS
<1> QED BY <1>1, LoadKeep, Zenon

LEMMA AddressByte ==
  ASSUME NEW a, NEW p \in Nat, NEW k \in 1..5, data_in' = a[k], UNCHANGED memories,
         Loading(p, 5, a, p + 2 * k - 2, page_idx, data_in, current_address)
  PROVE  Loading(p, 5, a, p + 2 * k - 1, page_idx, data_in, current_address)'
<1>1. 5 \in Nat OBVIOUS
<1>2. page_idx' = page_idx /\ current_address' = current_address BY DEF memories
<1>3. Loading(p, 5, a, p + 2 * k - 1, page_idx, a[k], current_address) BY <1>1, LoadByte, Zenon
<1> QED BY <1>2, <1>3, Zenon

LEMMA AddressCommand ==
  ASSUME DriverType, NEW a, NEW p \in Nat, NEW k \in 1..5, CommandEffect(19),
         Loading(p, 5, a, p + 2 * k - 1, page_idx, data_in, current_address)
  PROVE  Loading(p, 5, a, p + 2 * k, page_idx, data_in, current_address)'
<1> DEFINE n == 5
           V == 0..255
<1>1. n \in Nat /\ n <= n /\ k \in 1..n OBVIOUS
<1>2. current_address \in [1..n -> V] BY DEF DriverType
<1>3. Loading(p, n, a, p + 2 * k - 1, page_idx, data_in, current_address) OBVIOUS
<1> HIDE DEF n, V
<1>4. /\ page_idx < n
      /\ Loading(p, n, a, p + 2 * k, page_idx + 1, data_in,
                 [current_address EXCEPT ![page_idx + 1] = data_in])
  BY <1>1, <1>2, <1>3, LoadCommand, Zenon
<1>5. /\ current_address' = [current_address EXCEPT ![page_idx + 1] = data_in]
      /\ page_idx' = page_idx + 1 /\ data_in' = data_in
  BY <1>4 DEF CommandEffect, Advance, Put, n
<1> QED BY <1>4, <1>5, Zenon DEF n

\* So are the bytes of the page.
LEMMA PageKept ==
  ASSUME NEW bytes, NEW p \in Nat, NEW m \in Nat, NEW e \in Nat, page_data' = page_data,
         Loading(p, m, bytes, e, page_idx, data_in, page_data), e + 1 < p \/ e >= p + 2 * m
  PROVE  Loading(p, m, bytes, e + 1, page_idx, data_in, page_data)'
  BY LoadKeep, Zenon

LEMMA PageByte ==
  ASSUME NEW bytes, NEW p \in Nat, NEW m \in Nat, NEW k \in 1..m, data_in' = bytes[k],
         UNCHANGED memories,
         Loading(p, m, bytes, p + 2 * k - 2, page_idx, data_in, page_data)
  PROVE  Loading(p, m, bytes, p + 2 * k - 1, page_idx, data_in, page_data)'
<1>1. page_idx' = page_idx /\ page_data' = page_data BY DEF memories
<1>2. Loading(p, m, bytes, p + 2 * k - 1, page_idx, bytes[k], page_data) BY LoadByte, Zenon
<1> QED BY <1>1, <1>2, Zenon

LEMMA PageCommand ==
  ASSUME DriverType, NEW bytes, NEW p \in Nat, NEW m \in Nat, m <= PageBytes, NEW k \in 1..m,
         CommandEffect(17), Loading(p, m, bytes, p + 2 * k - 1, page_idx, data_in, page_data)
  PROVE  Loading(p, m, bytes, p + 2 * k, page_idx, data_in, page_data)'
<1>1. PageBytes \in Nat /\ page_data \in [1..PageBytes -> Byte] BY DriverAssumption DEF DriverType
<1>2. /\ page_idx < PageBytes
      /\ Loading(p, m, bytes, p + 2 * k, page_idx + 1, data_in,
                 [page_data EXCEPT ![page_idx + 1] = data_in])
  BY <1>1, LoadCommand, Zenon
<1>3. /\ page_data' = [page_data EXCEPT ![page_idx + 1] = data_in]
      /\ page_idx' = page_idx + 1 /\ data_in' = data_in
  BY <1>2 DEF CommandEffect, Advance, Put
<1> QED BY <1>2, <1>3, Zenon

\* What the plain commands leave alone.
LEMMA PlainCommand ==
  ASSUME NEW v \in {1, 9, 10, 11, 12, 24}, CommandEffect(v)
  PROVE  UNCHANGED <<buffer, data_in, data_out, page_idx, page_data, chip_id, page_param,
                     current_address, store, pending>>
  BY SMTT(30) DEF CommandEffect

LEMMA ResetIndexCommand ==
  ASSUME CommandEffect(13)
  PROVE  /\ page_idx' = 0
         /\ UNCHANGED <<buffer, data_in, data_out, page_data, chip_id, page_param,
                        current_address, selected, nwp, store, pending>>
  BY DEF CommandEffect

LEMMA WriteStep ==
  ASSUME NEW n \in 1..MaxCalls, NEW c \in Call(n), c.op = "write", DriverType, NEW e \in Nat,
         e + 1 <= Len(Script(c)), SettledWrite(c, c.size, e), Effect(Script(c)[e + 1])
  PROVE  SettledWrite(c, c.size, e + 1)'
<1> DEFINE s == Script(c)
           m == c.size
           i == e + 1
           p == 2 * m + 4
           Selection == 1 <= i /\ i < 2 * m + 18 => selected' = c.chip
           Protection == 3 <= i /\ i <= 2 * m + 16 => nwp' = 1
           Pending == pending' <=> i < 2 * m + 16
           Addressed == Loading(p, 5, Address(c), i, page_idx, data_in, current_address)'
           Filled == CallsFit => /\ i = 2 => page_idx' = 0
                                 /\ Loading(3, m, c.data, i, page_idx, data_in, page_data)'
           Goal == buffer' = <<>> /\ Selection /\ Protection /\ Pending /\ Addressed /\ Filled
<1>1. /\ m \in Nat /\ c.chip \in Chip /\ WriteLayout(c, s, m)
      /\ CallsFit => m <= PageBytes
  <2>1. <<c.column, c.size>> \in {<<w[1], w[2]>> : w \in Writes} BY CallParts
  <2>2. CallsFit => c.size <= PageBytes BY <2>1 DEF CallsFit
  <2> QED BY <2>2, CallParts, CallLayout
<1>2. i <= Len(s) OBVIOUS
<1>3. SettledWrite(c, m, e) /\ Effect(s[i]) OBVIOUS
<1> HIDE DEF s, m
<1>0. i \in 1..2 * m + 18 /\ p \in Nat BY <1>1, <1>2 DEF WriteLayout
<1>4. SUFFICES Goal BY DEF SettledWrite, m
<1>5. /\ buffer = <<>>
      /\ 1 <= e /\ e < 2 * m + 18 => selected = c.chip
      /\ 3 <= e /\ e <= 2 * m + 16 => nwp = 1
      /\ pending <=> e < 2 * m + 16
      /\ Loading(p, 5, Address(c), e, page_idx, data_in, current_address)
      /\ CallsFit => /\ e = 2 => page_idx = 0
                     /\ Loading(3, m, c.data, e, page_idx, data_in, page_data)
  BY <1>3 DEF SettledWrite
<1>6. PageBytes \in Nat /\ 3 \in Nat /\ 5 \in Nat BY DriverAssumption
<1> HIDE DEF p
<1>7. ASSUME NEW v \in Nat, s[i] = Command(v) PROVE CommandEffect(v)
  BY <1>3, <1>7 DEF Effect, Command
<1>8. ASSUME NEW b, s[i] = SendByte(b)
      PROVE  data_in' = b /\ UNCHANGED <<buffer, data_out, memories>>
  BY <1>3, <1>8 DEF Effect, SendByte
<1>9. ASSUME current_address' = current_address, i < p \/ e >= p + 10 PROVE Addressed
  BY <1>0, <1>5, <1>9, AddressKept
<1>10. ASSUME page_data' = page_data, i = 2 => page_idx' = 0, i < 3 \/ e >= 3 + 2 * m PROVE Filled
  BY <1>1, <1>5, <1>6, <1>10, PageKept
<1>11. CASE i = 1
  <2>1. PICK v \in {9, 24} : s[i] = Command(v) /\ v = IF c.chip = 1 THEN 9 ELSE 24
    BY <1>1, <1>11 DEF WriteLayout, ChipCommand
  <2>2. CommandEffect(v) BY <1>7, <2>1
  <2>3. selected' = c.chip BY <1>1, <2>1, <2>2 DEF CommandEffect, Chip
  <2>4. UNCHANGED <<buffer, page_data, current_address, pending>> BY <2>2, PlainCommand
  <2>5. i < p BY <1>1, <1>11 DEF p
  <2> QED BY <1>1, <1>5, <1>9, <1>10, <1>11, <2>3, <2>4, <2>5
<1>12. CASE i = 2
  <2>1. CommandEffect(13) BY <1>1, <1>7, <1>12 DEF WriteLayout
  <2>2. i < p BY <1>1, <1>12 DEF p
  <2> QED BY <1>1, <1>5, <1>9, <1>10, <1>12, <2>1, <2>2, ResetIndexCommand
<1>13. CASE i = 3
  <2>1. CommandEffect(12) BY <1>1, <1>7, <1>13 DEF WriteLayout
  <2>2. /\ UNCHANGED <<buffer, page_idx, page_data, current_address, pending>>
        /\ selected' = selected /\ nwp' = 1
    BY <2>1, PlainCommand DEF CommandEffect
  <2>3. i < p BY <1>1, <1>13 DEF p
  <2>4. Filled
    <3>1. CallsFit => page_idx' = 0 BY <1>5, <1>13, <2>2
    <3>2. Loading(3, m, c.data, 3, 0, data_in', page_data') BY <1>1, <1>6, LoadEnter, Zenon
    <3> QED BY <1>13, <3>1, <3>2
  <2> QED BY <1>1, <1>5, <1>9, <1>13, <2>2, <2>3, <2>4
<1>14. CASE \E k \in 1..m : i = 3 + 2 * k - 1 \/ i = 3 + 2 * k
  <2>1. PICK k \in 1..m : i = 3 + 2 * k - 1 \/ i = 3 + 2 * k BY <1>14
  <2>2. s[3 + 2 * k - 1] = SendByte(c.data[k]) /\ s[3 + 2 * k] = Command(17)
    BY <1>1 DEF WriteLayout, LoadsAfter
  <2>3. k \in Nat /\ i < p /\ 3 < i /\ i < 2 * m + 4 BY <1>1, <2>1 DEF p
  <2>4. CASE i = 3 + 2 * k - 1
    <3>1. data_in' = c.data[k] /\ UNCHANGED <<buffer, data_out, memories>> BY <1>8, <2>2, <2>4
    <3>2. e = 3 + 2 * k - 2 BY <2>3, <2>4
    <3>3. Filled
      <4>1. CallsFit => Loading(3, m, c.data, 3 + 2 * k - 2, page_idx, data_in, page_data)
        BY <1>5, <3>2
      <4>2. CallsFit => Loading(3, m, c.data, 3 + 2 * k - 1, page_idx, data_in, page_data)'
        BY <1>1, <1>6, <3>1, <4>1, PageByte, Zenon
      <4> QED BY <2>3, <2>4, <4>2
    <3>4. Addressed BY <1>9, <2>3, <3>1 DEF memories
    <3> QED BY <1>1, <1>5, <2>3, <3>1, <3>3, <3>4 DEF memories
  <2>5. CASE i = 3 + 2 * k
    <3>1. CommandEffect(17) BY <1>7, <2>2, <2>5
    <3>2. e = 3 + 2 * k - 1 BY <2>3, <2>5
    <3>3. UNCHANGED <<buffer, current_address, selected, nwp, pending>> BY <3>1 DEF CommandEffect
    <3>4. Filled
      <4>1. CallsFit => Loading(3, m, c.data, 3 + 2 * k - 1, page_idx, data_in, page_data)
        BY <1>5, <3>2
      <4>2. CallsFit => Loading(3, m, c.data, 3 + 2 * k, page_idx, data_in, page_data)'
        BY <1>1, <1>6, <3>1, <4>1, PageCommand, Zenon
      <4> QED BY <2>3, <2>5, <4>2
    <3>5. Addressed BY <1>9, <2>3, <3>3
    <3> QED BY <1>1, <1>5, <2>3, <3>3, <3>4, <3>5
  <2> QED BY <2>1, <2>4, <2>5
<1>15. CASE i = 2 * m + 4
  <2>1. CommandEffect(13) BY <1>1, <1>7, <1>15 DEF WriteLayout
  <2>2. page_idx' = 0 /\ UNCHANGED <<buffer, page_data, selected, nwp, pending>>
    BY <2>1, ResetIndexCommand
  <2>3. Addressed
    <3>1. Loading(p, 5, Address(c), p, 0, data_in', current_address') BY <1>0, <1>6, LoadEnter, Zenon
    <3> QED BY <1>15, <2>2, <3>1 DEF p
  <2>4. e >= 3 + 2 * m /\ i # 2 BY <1>1, <1>15
  <2> QED BY <1>1, <1>5, <1>10, <1>15, <2>2, <2>3, <2>4
<1>16. CASE \E k \in 1..5 : i = p + 2 * k - 1 \/ i = p + 2 * k
  <2>1. PICK k \in 1..5 : i = p + 2 * k - 1 \/ i = p + 2 * k BY <1>16
  <2>2. s[p + 2 * k - 1] = SendByte(Address(c)[k]) /\ s[p + 2 * k] = Command(19)
    BY <1>1 DEF WriteLayout, LoadsAfter, p
  <2>3. k \in Nat /\ 2 * m + 4 < i /\ i < 2 * m + 15 /\ e >= 3 + 2 * m /\ i # 2
    BY <1>1, <2>1 DEF p
  <2>4. CASE i = p + 2 * k - 1
    <3>1. data_in' = Address(c)[k] /\ UNCHANGED <<buffer, data_out, memories>> BY <1>8, <2>2, <2>4
    <3>2. e = p + 2 * k - 2 BY <1>0, <2>3, <2>4
    <3>3. Addressed BY <1>0, <1>5, <2>4, <3>1, <3>2, AddressByte, Zenon
    <3>4. Filled BY <1>10, <2>3, <3>1 DEF memories
    <3> QED BY <1>1, <1>5, <2>3, <3>1, <3>3, <3>4 DEF memories
  <2>5. CASE i = p + 2 * k
    <3>1. CommandEffect(19) BY <1>7, <2>2, <2>5
    <3>2. e = p + 2 * k - 1 BY <1>0, <2>3, <2>5
    <3>3. UNCHANGED <<buffer, page_data, selected, nwp, pending>> BY <3>1 DEF CommandEffect
    <3>4. Addressed BY <1>0, <1>5, <2>5, <3>1, <3>2, AddressCommand, Zenon
    <3>5. Filled BY <1>10, <2>3, <3>3
    <3> QED BY <1>1, <1>5, <2>3, <3>3, <3>4, <3>5
  <2> QED BY <2>1, <2>4, <2>5
<1>17. CASE i \in 2 * m + 15..2 * m + 18
  <2>1. e >= p + 10 /\ e >= 3 + 2 * m /\ i # 2 BY <1>1, <1>17 DEF p
  <2>2. CASE i = 2 * m + 15
    <3>1. CommandEffect(13) BY <1>1, <1>7, <2>2 DEF WriteLayout
    <3> QED BY <1>1, <1>5, <1>9, <1>10, <2>1, <2>2, <3>1, ResetIndexCommand
  <2>3. CASE i = 2 * m + 16
    <3>1. CommandEffect(7) BY <1>1, <1>7, <2>3 DEF WriteLayout
    <3>2. UNCHANGED <<buffer, page_data, current_address, selected, nwp>> /\ pending' = FALSE
      BY <3>1 DEF CommandEffect
    <3> QED BY <1>1, <1>5, <1>9, <1>10, <2>1, <2>3, <3>2
  <2>4. CASE i = 2 * m + 17
    <3>1. CommandEffect(11) BY <1>1, <1>7, <2>4 DEF WriteLayout
    <3>2. UNCHANGED <<buffer, page_data, current_address, selected, pending>>
      BY <3>1, PlainCommand DEF CommandEffect
    <3> QED BY <1>1, <1>5, <1>9, <1>10, <2>1, <2>4, <3>2
  <2>5. CASE i = 2 * m + 18
    <3>1. CommandEffect(10) BY <1>1, <1>7, <2>5 DEF WriteLayout
    <3>2. UNCHANGED <<buffer, page_data, current_address, pending>> BY <3>1, PlainCommand
    <3> QED BY <1>1, <1>5, <1>9, <1>10, <2>1, <2>5, <3>2
  <2> QED BY <1>1, <1>17, <2>2, <2>3, <2>4, <2>5
<1> QED
  <2>1. i = 1 \/ i = 2 \/ i = 3 \/ i \notin 1..3 OBVIOUS
  <2> QED BY <1>0, <1>1, <1>11, <1>12, <1>13, <1>14, <1>15, <1>16, <1>17, <2>1, WriteCases DEF p

\* The bytes are fetched in the window of 2 * m accesses after place p.
LEMMA FetchKept ==
  ASSUME NEW mem, NEW p \in Nat, NEW m \in Nat, NEW e \in Nat, buffer' = buffer,
         Fetching(p, m, mem, e, page_idx, data_out, buffer),
         (e + 1 <= p /\ (e + 1 = p => page_idx' = 0)) \/ e >= p + 2 * m
  PROVE  Fetching(p, m, mem, e + 1, page_idx', data_out', buffer')
<1>1. CASE e + 1 <= p /\ (e + 1 = p => page_idx' = 0) BY <1>1, FetchBefore, Zenon
<1>2. CASE e >= p + 2 * m BY <1>2, FetchAfter, Zenon
<1> QED BY <1>1, <1>2

LEMMA FetchedByte ==
  ASSUME NEW limit \in Nat, NEW V, NEW mem \in [1..limit -> V], NEW p \in Nat, NEW m \in Nat,
         m <= limit, NEW k \in 1..m, buffer' = buffer,
         data_out' = At(mem, limit), Advance(limit),
         Fetching(p, m, mem, p + 2 * k - 2, page_idx, data_out, buffer)
  PROVE  Fetching(p, m, mem, p + 2 * k - 1, page_idx', data_out', buffer')
<1>1. page_idx = k - 1 /\ Fetching(p, m, mem, p + 2 * k - 1, k, mem[k], buffer)
  BY FetchCommand, Zenon
<1>2. page_idx < limit /\ page_idx + 1 = k BY <1>1
<1>3. data_out' = mem[k] /\ page_idx' = k BY <1>2 DEF At, Advance
<1> QED BY <1>1, <1>3, Zenon

LEMMA FetchedTake ==
  ASSUME DriverType, NEW mem, NEW p \in Nat, NEW m \in Nat, NEW k \in 1..m,
         buffer' = Append(buffer, data_out), UNCHANGED <<data_in, data_out, memories>>,
         Fetching(p, m, mem, p + 2 * k - 1, page_idx, data_out, buffer)
  PROVE  Fetching(p, m, mem, p + 2 * k, page_idx', data_out', buffer')
<1>1. buffer \in Seq(Byte) /\ data_out \in Byte BY DEF DriverType
<1>2. Fetching(p, m, mem, p + 2 * k, page_idx, data_out, Append(buffer, data_out))
  BY <1>1, FetchTake, Zenon
<1>3. page_idx' = page_idx /\ data_out' = data_out BY DEF memories
<1> QED BY <1>2, <1>3, Zenon

LEMMA JedecStep ==
  ASSUME NEW n \in 1..MaxCalls, NEW c \in Call(n), c.op = "jedec", DriverType, NEW e \in Nat,
         e + 1 <= Len(Script(c)), SettledJedec(c, e), Effect(Script(c)[e + 1])
  PROVE  SettledJedec(c, e + 1)'
<1> DEFINE s == Script(c)
           i == e + 1
           mem == Id[c.chip]
           m == 5
           Selection == 1 <= i /\ i < 15 => selected' = c.chip
           Filled == i >= 3 => chip_id' = mem
           Fetched == Fetching(4, m, mem, i, page_idx', data_out', buffer')
           Goal == ~pending' /\ Selection /\ Filled /\ Fetched
<1>1. c.chip \in Chip /\ JedecLayout(c, s) BY CallParts, CallLayout
<1>2. i <= Len(s) OBVIOUS
<1>3. SettledJedec(c, e) /\ Effect(s[i]) OBVIOUS
<1> HIDE DEF s
<1>4. i \in 1..15 BY <1>1, <1>2 DEF JedecLayout
<1>5. SUFFICES Goal BY DEF SettledJedec
<1>6. /\ ~pending
      /\ 1 <= e /\ e < 15 => selected = c.chip
      /\ e >= 3 => chip_id = mem
      /\ Fetching(4, m, mem, e, page_idx, data_out, buffer)
  BY <1>3 DEF SettledJedec
<1>7. /\ 4 \in Nat /\ m \in Nat /\ m <= m /\ mem \in [1..m -> 0..255]
  <2>1. Id[c.chip] \in [1..5 -> 0..255] BY <1>1, IdWords, Zenon
  <2>2. m \in Nat BY SMT
  <2>3. m <= m BY <2>2
  <2> QED BY <2>1, <2>2, <2>3
<1> HIDE DEF m, mem
<1>8. ASSUME NEW v \in Nat, s[i] = Command(v) PROVE CommandEffect(v)
  BY <1>3, <1>8 DEF Effect, Command
<1>9. ASSUME buffer' = buffer, (i <= 4 /\ (i = 4 => page_idx' = 0)) \/ e >= 14 PROVE Fetched
  <2>1. (i <= 4 /\ (i = 4 => page_idx' = 0)) \/ e >= 4 + 2 * m BY <1>9 DEF m
  <2> QED BY <1>6, <1>7, <1>9, <2>1, FetchKept, Zenon
<1>10. CASE i = 1
  <2>1. PICK v \in {9, 24} : s[i] = Command(v) /\ v = IF c.chip = 1 THEN 9 ELSE 24
    BY <1>1, <1>10 DEF JedecLayout, ChipCommand
  <2>2. CommandEffect(v) BY <1>8, <2>1
  <2>3. selected' = c.chip BY <1>1, <2>1, <2>2 DEF CommandEffect, Chip
  <2>4. UNCHANGED <<buffer, pending>> BY <2>2, PlainCommand
  <2> QED BY <1>6, <1>9, <1>10, <2>3, <2>4
<1>11. CASE i = 2
  <2>1. CommandEffect(13) BY <1>1, <1>8, <1>11 DEF JedecLayout
  <2> QED BY <1>6, <1>9, <1>11, <2>1, ResetIndexCommand
<1>12. CASE i = 3
  <2>1. CommandEffect(3) BY <1>1, <1>8, <1>12 DEF JedecLayout
  <2>2. UNCHANGED <<buffer, selected, pending>> /\ chip_id' = Sent(Id, 5) BY <2>1 DEF CommandEffect
  <2>3. selected = c.chip BY <1>6, <1>12
  <2>4. chip_id' = mem BY <1>1, <2>2, <2>3 DEF Sent, mem, Chip
  <2> QED BY <1>6, <1>9, <1>12, <2>2, <2>3, <2>4
<1>13. CASE i = 4
  <2>1. CommandEffect(13) BY <1>1, <1>8, <1>13 DEF JedecLayout
  <2> QED BY <1>6, <1>9, <1>13, <2>1, ResetIndexCommand
<1>14. CASE \E k \in 1..5 : i = 4 + 2 * k - 1 \/ i = 4 + 2 * k
  <2>1. PICK k \in 1..5 : i = 4 + 2 * k - 1 \/ i = 4 + 2 * k BY <1>14
  <2>2. s[4 + 2 * k - 1] = Command(14) /\ s[4 + 2 * k] = Take
    BY <1>1 DEF JedecLayout, FetchesAfter
  <2>3. 4 < i /\ i < 15 /\ k \in 1..m BY <2>1 DEF m
  <2>4. CASE i = 4 + 2 * k - 1
    <3>1. CommandEffect(14) BY <1>8, <2>2, <2>4
    <3>2. /\ UNCHANGED <<buffer, selected, pending, chip_id>>
          /\ data_out' = At(chip_id, m) /\ Advance(m)
      BY <3>1 DEF CommandEffect, m
    <3>3. e = 4 + 2 * k - 2 /\ chip_id = mem BY <1>6, <2>3, <2>4
    <3>4. Fetched
      <4> DEFINE V == 0..255
      <4>1. mem \in [1..m -> V] BY <1>7
      <4>2. /\ Fetching(4, m, mem, 4 + 2 * k - 2, page_idx, data_out, buffer)
            /\ data_out' = At(mem, m) /\ buffer' = buffer
        BY <1>6, <3>2, <3>3
      <4> HIDE DEF V
      <4>3. Fetching(4, m, mem, 4 + 2 * k - 1, page_idx', data_out', buffer')
        BY <1>7, <2>3, <3>2, <4>1, <4>2, FetchedByte, Zenon
      <4> QED BY <2>4, <4>3
    <3> QED BY <1>6, <2>3, <3>2, <3>3, <3>4
  <2>5. CASE i = 4 + 2 * k
    <3>1. /\ buffer' = Append(buffer, data_out) /\ UNCHANGED <<data_in, data_out, memories>>
      BY <1>3, <2>2, <2>5 DEF Effect, Take
    <3>2. e = 4 + 2 * k - 1 BY <2>3, <2>5
    <3>3. Fetched BY <1>6, <1>7, <2>3, <2>5, <3>1, <3>2, FetchedTake, Zenon
    <3> QED BY <1>6, <2>3, <3>1, <3>3 DEF memories
  <2> QED BY <2>1, <2>4, <2>5
<1>15. CASE i = 15
  <2>1. CommandEffect(10) BY <1>1, <1>8, <1>15 DEF JedecLayout
  <2>2. UNCHANGED <<buffer, chip_id, pending>> BY <2>1, PlainCommand
  <2> QED BY <1>6, <1>9, <1>15, <2>2
<1> QED BY <1>4, <1>10, <1>11, <1>12, <1>13, <1>14, <1>15, JedecCases

LEMMA ParamStep ==
  ASSUME NEW n \in 1..MaxCalls, NEW c \in Call(n), c.op = "param", DriverType, NEW e \in Nat,
         e + 1 <= Len(Script(c)), SettledParam(c, e), Effect(Script(c)[e + 1])
  PROVE  SettledParam(c, e + 1)'
<1> DEFINE s == Script(c)
           i == e + 1
           mem == ParamPage[c.chip]
           m == ParamBytes
           Selection == 1 <= i /\ i < 2 * m + 6 => selected' = c.chip
           Filled == i >= 3 => page_param' = mem
           Fetched == Fetching(5, m, mem, i, page_idx', data_out', buffer')
           Goal == ~pending' /\ Selection /\ Filled /\ Fetched
<1>1. c.chip \in Chip /\ ParamLayout(c, s) BY CallParts, CallLayout
<1>2. i <= Len(s) OBVIOUS
<1>3. SettledParam(c, e) /\ Effect(s[i]) OBVIOUS
<1>0. m \in Nat BY DriverAssumption
<1> HIDE DEF s
<1>4. i \in 1..2 * m + 6 BY <1>0, <1>1, <1>2 DEF ParamLayout
<1>5. SUFFICES Goal BY DEF SettledParam
<1>6. /\ ~pending
      /\ 1 <= e /\ e < 2 * m + 6 => selected = c.chip
      /\ e >= 3 => page_param = mem
      /\ Fetching(5, m, mem, e, page_idx, data_out, buffer)
  BY <1>3 DEF SettledParam
<1>7. /\ 5 \in Nat /\ m \in Nat /\ m <= m /\ mem \in [1..m -> 0..255]
  <2>1. ParamPage[c.chip] \in [1..ParamBytes -> 0..255] BY <1>1, ParamWords, Zenon
  <2>2. m \in Nat BY <1>0
  <2>3. m <= m BY <2>2
  <2> QED BY <2>1, <2>2, <2>3
<1> HIDE DEF m, mem
<1>8. ASSUME NEW v \in Nat, s[i] = Command(v) PROVE CommandEffect(v)
  BY <1>3, <1>8 DEF Effect, Command
<1>9. ASSUME buffer' = buffer, (i <= 5 /\ (i = 5 => page_idx' = 0)) \/ e >= 5 + 2 * m PROVE Fetched
  BY <1>6, <1>7, <1>9, FetchKept, Zenon
<1>10. CASE i = 1
  <2>1. PICK v \in {9, 24} : s[i] = Command(v) /\ v = IF c.chip = 1 THEN 9 ELSE 24
    BY <1>1, <1>10 DEF ParamLayout, ChipCommand
  <2>2. CommandEffect(v) BY <1>8, <2>1
  <2>3. selected' = c.chip BY <1>1, <2>1, <2>2 DEF CommandEffect, Chip
  <2>4. UNCHANGED <<buffer, pending>> BY <2>2, PlainCommand
  <2> QED BY <1>6, <1>7, <1>9, <1>10, <2>3, <2>4
<1>11. CASE i = 2
  <2>1. CommandEffect(13) BY <1>1, <1>8, <1>11 DEF ParamLayout
  <2> QED BY <1>6, <1>7, <1>9, <1>11, <2>1, ResetIndexCommand
<1>12. CASE i = 3
  <2>1. CommandEffect(2) BY <1>1, <1>8, <1>12 DEF ParamLayout
  <2>2. UNCHANGED <<buffer, selected, pending>> /\ page_param' = Sent(ParamPage, ParamBytes)
    BY <2>1 DEF CommandEffect
  <2>3. selected = c.chip BY <1>6, <1>7, <1>12
  <2>4. page_param' = mem BY <1>1, <2>2, <2>3 DEF Sent, mem, Chip
  <2> QED BY <1>6, <1>7, <1>9, <1>12, <2>2, <2>3, <2>4
<1>13. CASE i = 4
  <2>1. UNCHANGED <<buffer, data_in, data_out, memories>>
    BY <1>1, <1>3, <1>13 DEF ParamLayout, Effect, Delay
  <2> QED BY <1>6, <1>7, <1>9, <1>13, <2>1 DEF memories
<1>14. CASE i = 5
  <2>1. CommandEffect(13) BY <1>1, <1>8, <1>14 DEF ParamLayout
  <2> QED BY <1>6, <1>7, <1>9, <1>14, <2>1, ResetIndexCommand
<1>15. CASE \E k \in 1..m : i = 5 + 2 * k - 1 \/ i = 5 + 2 * k
  <2>1. PICK k \in 1..m : i = 5 + 2 * k - 1 \/ i = 5 + 2 * k BY <1>15
  <2>2. s[5 + 2 * k - 1] = Command(15) /\ s[5 + 2 * k] = Take
    BY <1>1 DEF ParamLayout, FetchesAfter, m
  <2>3. 5 < i /\ i < 2 * m + 6 /\ k \in Nat BY <1>7, <2>1
  <2>4. CASE i = 5 + 2 * k - 1
    <3>1. CommandEffect(15) BY <1>8, <2>2, <2>4
    <3>2. /\ UNCHANGED <<buffer, selected, pending, page_param>>
          /\ data_out' = At(page_param, m) /\ Advance(m)
      BY <3>1 DEF CommandEffect, m
    <3>3. e = 5 + 2 * k - 2 /\ page_param = mem BY <1>6, <1>7, <2>3, <2>4
    <3>4. Fetched
      <4> DEFINE V == 0..255
      <4>1. mem \in [1..m -> V] BY <1>7
      <4>2. /\ Fetching(5, m, mem, 5 + 2 * k - 2, page_idx, data_out, buffer)
            /\ data_out' = At(mem, m) /\ buffer' = buffer
        BY <1>6, <3>2, <3>3
      <4> HIDE DEF V
      <4>3. Fetching(5, m, mem, 5 + 2 * k - 1, page_idx', data_out', buffer')
        BY <1>7, <3>2, <4>1, <4>2, FetchedByte, Zenon
      <4> QED BY <2>4, <4>3
    <3> QED BY <1>6, <1>7, <2>3, <3>2, <3>3, <3>4
  <2>5. CASE i = 5 + 2 * k
    <3>1. /\ buffer' = Append(buffer, data_out) /\ UNCHANGED <<data_in, data_out, memories>>
      BY <1>3, <2>2, <2>5 DEF Effect, Take
    <3>2. e = 5 + 2 * k - 1 BY <1>7, <2>3, <2>5
    <3>3. Fetched BY <1>6, <1>7, <2>5, <3>1, <3>2, FetchedTake, Zenon
    <3> QED BY <1>6, <1>7, <2>3, <3>1, <3>3 DEF memories
  <2> QED BY <2>1, <2>4, <2>5
<1>16. CASE i = 2 * m + 6
  <2>1. CommandEffect(10) BY <1>1, <1>8, <1>16 DEF ParamLayout, m
  <2>2. UNCHANGED <<buffer, page_param, pending>> BY <2>1, PlainCommand
  <2> QED BY <1>6, <1>7, <1>9, <1>16, <2>2
<1> QED
  BY <1>4, <1>7, <1>10, <1>11, <1>12, <1>13, <1>14, <1>15, <1>16, ParamCases

\* A chip reads the row and the column of a call out of its five bytes.
LEMMA Decoded ==
  ASSUME NEW c, c.row \in Row, c.column \in Nat,
         \A k \in 1..5 : current_address[k] = Address(c)[k]
  PROVE  /\ AddressRow(current_address) = c.row
         /\ c.column <= 16383 => AddressColumn(current_address) = c.column
<1> DEFINE a == Address(c)
<1>1. AddressRow(a) = c.row BY AddressParts DEF Address
<1>2. c.column <= 16383 => AddressColumn(a) = c.column BY RowDecoded DEF Address
<1> HIDE DEF a
<1>3. /\ current_address[1] = a[1] /\ current_address[2] = a[2] /\ current_address[3] = a[3]
      /\ current_address[4] = a[4] /\ current_address[5] = a[5]
  BY DEF a
<1> QED BY <1>1, <1>2, <1>3 DEF AddressRow, AddressColumn

LEMMA ReadStep ==
  ASSUME NEW n \in 1..MaxCalls, NEW c \in Call(n), c.op = "read", DriverType, NEW e \in Nat,
         e + 1 <= Len(Script(c)), SettledRead(c, c.size, e), Effect(Script(c)[e + 1])
  PROVE  SettledRead(c, c.size, e + 1)'
<1> PICK mem : mem = Asked(c) OBVIOUS
<1> DEFINE s == Script(c)
           m == c.size
           i == e + 1
           p == 16
           q == 2
           Selection == 1 <= i /\ i < 2 * m + 17 => selected' = c.chip
           Addressed == Loading(q, 5, Address(c), i, page_idx, data_in, current_address)'
           Filled == CallsFit /\ i >= 14 => page_data' = mem
           Fetched == CallsFit => Fetching(p, m, mem, i, page_idx', data_out', buffer')
           Goal == ~pending' /\ store' = store /\ Selection /\ Addressed /\ Filled /\ Fetched
<1>0. ReadLayout(c, s, m) BY CallLayout
<1>1. /\ m \in Nat /\ c.chip \in Chip /\ c.row \in Row /\ c.column \in Nat
      /\ CallsFit => c.column <= 16383 /\ c.column + m <= PageBytes
  <2>1. <<c.column, c.size>> \in {<<w[1], w[2]>> : w \in Reads} BY CallParts
  <2>2. CallsFit => c.column <= 16383 /\ c.column + c.size <= PageBytes BY <2>1 DEF CallsFit
  <2> QED BY <2>2, CallParts
<1>2. i <= Len(s) OBVIOUS
<1>3. SettledRead(c, m, e) /\ Effect(s[i]) OBVIOUS
<1> HIDE DEF s, m
<1>4. i \in 1..2 * m + 17 BY <1>0, <1>1, <1>2 DEF ReadLayout
<1>5. SUFFICES Goal BY DEF SettledRead, m, Asked
<1>6. /\ ~pending
      /\ 1 <= e /\ e < 2 * m + 17 => selected = c.chip
      /\ Loading(q, 5, Address(c), e, page_idx, data_in, current_address)
      /\ CallsFit /\ e >= 14 => page_data = mem
      /\ CallsFit => Fetching(p, m, mem, e, page_idx, data_out, buffer)
  BY <1>3 DEF SettledRead
<1>7. /\ p \in Nat /\ q \in Nat /\ 5 \in Nat /\ PageBytes \in Nat
      /\ CallsFit => m <= PageBytes
  BY <1>1, DriverAssumption
<1> HIDE DEF p, q
<1>8. ASSUME NEW v \in Nat, s[i] = Command(v) PROVE CommandEffect(v)
  BY <1>3, <1>8 DEF Effect, Command
<1>9. ASSUME buffer' = buffer, (i <= p /\ (i = p => page_idx' = 0)) \/ e >= p + 2 * m PROVE Fetched
  <2>1. m \in Nat /\ p \in Nat BY <1>1, <1>7
  <2>2. SUFFICES ASSUME CallsFit PROVE Fetching(p, m, mem, e + 1, page_idx', data_out', buffer')
    OBVIOUS
  <2>3. Fetching(p, m, mem, e, page_idx, data_out, buffer) BY <1>6, <2>2
  <2>4. (e + 1 <= p /\ (e + 1 = p => page_idx' = 0)) \/ e >= p + 2 * m BY <1>9
  <2> QED BY <1>9, <2>1, <2>3, <2>4, FetchKept, Zenon
<1>10. ASSUME current_address' = current_address, i < q \/ e >= 12 PROVE Addressed
  <2>1. e + 1 < q \/ e >= q + 10 BY <1>10 DEF q
  <2> QED BY <1>6, <1>7, <1>10, <2>1, AddressKept DEF p, q
<1>11. CASE i = 1
  <2>1. PICK v \in {9, 24} : s[i] = Command(v) /\ v = IF c.chip = 1 THEN 9 ELSE 24
    BY <1>0, <1>11 DEF ReadLayout, ChipCommand
  <2>2. CommandEffect(v) BY <1>8, <2>1
  <2>3. selected' = c.chip BY <1>1, <2>1, <2>2 DEF CommandEffect, Chip
  <2>4. UNCHANGED <<buffer, current_address, store, pending>> BY <2>2, PlainCommand
  <2> QED BY <1>1, <1>6, <1>9, <1>10, <1>11, <2>3, <2>4 DEF p, q
<1>12. CASE i = 2
  <2>1. CommandEffect(13) BY <1>0, <1>8, <1>12 DEF ReadLayout
  <2>2. /\ page_idx' = 0
        /\ UNCHANGED <<buffer, data_out, page_data, current_address, selected, store, pending>>
    BY <2>1, ResetIndexCommand
  <2>3. Loading(q, 5, Address(c), q, 0, data_in', current_address') BY <1>7, LoadEnter, Zenon
  <2> QED BY <1>1, <1>6, <1>9, <1>12, <2>2, <2>3 DEF p, q
<1>13. CASE \E k \in 1..5 : i = q + 2 * k - 1 \/ i = q + 2 * k
  <2>1. PICK k \in 1..5 : i = q + 2 * k - 1 \/ i = q + 2 * k BY <1>13
  <2>2. s[q + 2 * k - 1] = SendByte(Address(c)[k]) /\ s[q + 2 * k] = Command(19)
    BY <1>0 DEF ReadLayout, LoadsAfter, q
  <2>3. k \in Nat /\ 2 < i /\ i < 13 BY <2>1 DEF q
  <2>4. CASE i = q + 2 * k - 1
    <3>1. data_in' = Address(c)[k] /\ UNCHANGED <<buffer, data_out, memories>>
      BY <1>3, <2>2, <2>4 DEF Effect, SendByte
    <3>2. e = q + 2 * k - 2 BY <2>3, <2>4 DEF q
    <3>3. Addressed BY <1>6, <1>7, <2>4, <3>1, <3>2, AddressByte, Zenon
    <3> QED BY <1>1, <1>6, <1>9, <2>3, <3>1, <3>3 DEF memories, p, q
  <2>5. CASE i = q + 2 * k
    <3>1. CommandEffect(19) BY <1>8, <2>2, <2>5
    <3>2. e = q + 2 * k - 1 BY <2>3, <2>5 DEF q
    <3>3. UNCHANGED <<buffer, page_data, selected, store, pending>> BY <3>1 DEF CommandEffect
    <3>4. Addressed BY <1>6, <1>7, <2>5, <3>1, <3>2, AddressCommand, Zenon
    <3> QED BY <1>1, <1>6, <1>9, <2>3, <3>3, <3>4 DEF p, q
  <2> QED BY <2>1, <2>4, <2>5
<1>14. CASE i = 13
  <2>1. CommandEffect(13) BY <1>0, <1>8, <1>14 DEF ReadLayout
  <2> QED BY <1>1, <1>6, <1>9, <1>10, <1>14, <2>1, ResetIndexCommand DEF p, q
<1>15. CASE i = 14
  <2>1. CommandEffect(6) BY <1>0, <1>8, <1>15 DEF ReadLayout
  <2>2. UNCHANGED <<buffer, current_address, selected, store, pending>> BY <2>1 DEF CommandEffect
  <2>3. selected = c.chip /\ selected # 0 BY <1>1, <1>6, <1>15 DEF Chip
  <2>4. \A k \in 1..5 : current_address[k] = Address(c)[k]
    <3>1. e >= 12 BY <1>15
    <3> QED BY <1>6, <3>1, SMTT(30) DEF Loading, q
  <2>5. Filled
    <3>1. SUFFICES ASSUME CallsFit PROVE page_data' = mem OBVIOUS
    <3>2. AddressRow(current_address) = c.row /\ AddressColumn(current_address) = c.column
      BY <1>1, <2>4, <3>1, Decoded
    <3> QED BY <1>1, <2>1, <2>3, <3>2 DEF CommandEffect, Asked
  <2> QED BY <1>1, <1>6, <1>9, <1>10, <1>15, <2>2, <2>3, <2>5 DEF p, q
<1>16. CASE i = 15
  <2>1. UNCHANGED <<buffer, data_in, data_out, memories>>
    BY <1>0, <1>3, <1>16 DEF ReadLayout, Effect, Delay
  <2> QED BY <1>1, <1>6, <1>9, <1>10, <1>16, <2>1 DEF memories, p, q
<1>17. CASE i = 16
  <2>1. CommandEffect(13) BY <1>0, <1>8, <1>17 DEF ReadLayout
  <2> QED BY <1>1, <1>6, <1>9, <1>10, <1>17, <2>1, ResetIndexCommand DEF p, q
<1>18. CASE \E k \in 1..m : i = p + 2 * k - 1 \/ i = p + 2 * k
  <2>1. PICK k \in 1..m : i = p + 2 * k - 1 \/ i = p + 2 * k BY <1>18
  <2>2. s[p + 2 * k - 1] = Command(16) /\ s[p + 2 * k] = Take
    BY <1>0 DEF ReadLayout, FetchesAfter, p
  <2>3. k \in Nat /\ 16 < i /\ i < 2 * m + 17 BY <1>1, <2>1 DEF p
  <2>4. CASE i = p + 2 * k - 1
    <3>1. CommandEffect(16) BY <1>8, <2>2, <2>4
    <3>2. /\ UNCHANGED <<buffer, selected, current_address, store, pending, page_data>>
          /\ data_out' = At(page_data, PageBytes) /\ Advance(PageBytes)
      BY <3>1 DEF CommandEffect
    <3>3. e = p + 2 * k - 2 /\ e >= 14 BY <1>1, <2>3, <2>4 DEF p
    <3>4. Fetched
      <4>1. SUFFICES ASSUME CallsFit
                     PROVE  Fetching(p, m, mem, p + 2 * k - 1, page_idx', data_out', buffer')
        BY <2>4
      <4>2. page_data = mem /\ page_data \in [1..PageBytes -> Byte] /\ m <= PageBytes
        BY <1>6, <1>7, <3>3, <4>1 DEF DriverType
      <4>3. /\ Fetching(p, m, mem, p + 2 * k - 2, page_idx, data_out, buffer)
            /\ mem \in [1..PageBytes -> Byte]
            /\ data_out' = At(mem, PageBytes) /\ buffer' = buffer
        BY <1>6, <3>2, <3>3, <4>1, <4>2
      <4>4. m \in Nat /\ p \in Nat /\ PageBytes \in Nat BY <1>1, <1>7
      <4> QED BY <3>2, <4>2, <4>3, <4>4, FetchedByte, Zenon
    <3> QED BY <1>1, <1>6, <1>10, <2>3, <3>2, <3>3, <3>4 DEF p, q
  <2>5. CASE i = p + 2 * k
    <3>1. /\ buffer' = Append(buffer, data_out) /\ UNCHANGED <<data_in, data_out, memories>>
      BY <1>3, <2>2, <2>5 DEF Effect, Take
    <3>2. e = p + 2 * k - 1 BY <1>1, <2>3, <2>5 DEF p
    <3>3. Fetched
      <4>1. SUFFICES ASSUME CallsFit
                     PROVE  Fetching(p, m, mem, p + 2 * k, page_idx', data_out', buffer')
        BY <2>5
      <4>2. Fetching(p, m, mem, p + 2 * k - 1, page_idx, data_out, buffer) BY <1>6, <3>2, <4>1
      <4>3. m \in Nat /\ p \in Nat BY <1>1, <1>7
      <4> QED BY <3>1, <4>2, <4>3, FetchedTake, Zenon
    <3> QED BY <1>1, <1>6, <1>10, <2>3, <3>1, <3>2, <3>3 DEF memories, p, q
  <2> QED BY <2>1, <2>4, <2>5
<1>19. CASE i = 2 * m + 17
  <2>1. CommandEffect(10) BY <1>0, <1>8, <1>19 DEF ReadLayout
  <2>2. UNCHANGED <<buffer, page_data, current_address, store, pending>> BY <2>1, PlainCommand
  <2> QED BY <1>1, <1>6, <1>9, <1>10, <1>19, <2>2 DEF p, q
<1> QED
  <2>1. \/ i \in {1, 2, 13, 14, 15, 16, 2 * m + 17}
        \/ \E k \in 1..5 : i = q + 2 * k - 1 \/ i = q + 2 * k
        \/ \E k \in 1..m : i = p + 2 * k - 1 \/ i = p + 2 * k
    <3>1. m \in Nat BY <1>1
    <3>2. \/ i \in {1, 2, 13, 14, 15, 16, 2 * m + 17}
          \/ \E k \in 1..5 : i = 2 + 2 * k - 1 \/ i = 2 + 2 * k
          \/ \E k \in 1..m : i = 16 + 2 * k - 1 \/ i = 16 + 2 * k
      BY <1>4, <3>1, ReadCases, Zenon
    <3> QED BY <3>2 DEF p, q
  <2>2. CASE i \in {1, 2, 13, 14, 15, 16, 2 * m + 17}
    BY <2>2, <1>11, <1>12, <1>14, <1>15, <1>16, <1>17, <1>19
  <2> QED BY <2>1, <2>2, <1>13, <1>18

\* nand_init selects the chips and resets them.
LEMMA InitStep ==
  ASSUME NEW n \in 1..MaxCalls, NEW c \in Call(n), c.op = "init", NEW e \in Nat,
         e + 1 <= Len(Script(c)), ~pending, buffer = <<>>, Effect(Script(c)[e + 1])
  PROVE  ~pending' /\ buffer' = <<>>
<1> DEFINE s == Script(c)
           i == e + 1
<1>1. InitLayout(s) BY CallLayout
<1>2. i <= Len(s) /\ Effect(s[i]) OBVIOUS
<1> HIDE DEF s
<1>3. i \in 1..4 BY <1>1, <1>2 DEF InitLayout
<1>4. PICK v \in {1, 9, 24} : s[i] = Command(v) BY <1>1, <1>3 DEF InitLayout
<1>5. CommandEffect(v) BY <1>2, <1>4 DEF Effect, Command
<1> QED BY <1>5, PlainCommand

-----------------------------------------------------------------------------
(* The invariant is inductive *)

LEMMA InitStands == ASSUME Init PROVE DriverInv
<1>1. /\ 0 \in 0..255 /\ X \in Byte /\ 0 \in 0..5 /\ Erased \in Byte BY DEF Byte, Erased
<1>2. /\ page_data \in [1..PageBytes -> Byte] /\ page_param \in [1..ParamBytes -> Byte]
      /\ chip_id \in [1..5 -> Byte] /\ current_address \in [1..5 -> 0..255]
      /\ store \in [Chip -> [Row -> [1..PageBytes -> Byte]]]
  BY <1>1 DEF Init
<1>3. script \in Seq(Acc) /\ buffer \in Seq(Byte)
  <2>1. <<>> \in Seq(Acc) /\ <<>> \in Seq(Byte) OBVIOUS
  <2> QED BY <2>1 DEF Init
<1>7. page_idx \in 0..PageBytes \union 0..ParamBytes \union 0..5 BY <1>1 DEF Init
<1>4. /\ selected \in {0} \union Chip /\ nwp \in {0, 1} /\ pending \in BOOLEAN
      /\ calls \in Nat /\ resets \in Nat
  BY DEF Init
<1>5. data_in \in 0..255 /\ data_out \in Byte BY <1>1 DEF Init
<1>6. DriverType BY <1>2, <1>3, <1>4, <1>5, <1>7, Zenon DEF DriverType
<1> QED BY <1>6 DEF Init, DriverInv

LEMMA BeginsCall ==
  ASSUME DriverInv, Begin, Busy_bit = 1
  PROVE  DriverInv'
<1>1. /\ call = NoCall /\ core = Idle /\ core' = core /\ calls < MaxCalls /\ calls' = calls + 1
      /\ call' \in Call(calls + 1) /\ script' = Script(call') /\ buffer' = <<>>
      /\ pending' = (call'.op = "write")
      /\ UNCHANGED <<data_in, data_out, page_idx, page_data, chip_id, page_param, current_address,
                     selected, nwp, store, resets>>
  BY DEF Begin, wait_busy, buffers, pins
<1>2. DriverType BY DEF DriverInv
<1> DEFINE n == calls + 1
<1>3. n \in 1..MaxCalls BY <1>1, <1>2, DriverAssumption DEF DriverType
<1> HIDE DEF n
<1>4. PICK c \in Call(n) : c = call' BY <1>1 DEF n
<1>5. /\ c.op \in {"init", "jedec", "param", "write", "read"}
      /\ c.op \in {"write", "read"} => c.size \in Nat
  BY <1>3, CallParts
<1>6. Script(c) \in Seq(Acc) BY <1>3, CallLayout
<1>7. DriverType' BY <1>1, <1>2, <1>4, <1>6 DEF DriverType
<1>8. call' # NoCall BY <1>4, <1>5 DEF NoCall
<1>9. Stands(Script(c), 0)'
  <2> DEFINE s == Script(c)
  <2>1. script' = s /\ s \in Seq(Acc) /\ core' = Idle BY <1>1, <1>4, <1>6
  <2> HIDE DEF s
  <2>2. Len(s) \in Nat /\ \A j \in 1..Len(s) : s[j] = s[0 + j] BY <2>1
  <2>3. Stands(s, 0)' BY <2>1, <2>2 DEF Stands, Left
  <2> QED BY <2>3 DEF s
<1>10. ASSUME NEW p \in Nat, NEW m \in Nat, p > 0, NEW bytes, NEW i, NEW b, NEW mem
       PROVE  Loading(p, m, bytes, 0, i, b, mem)
  BY <1>10 DEF Loading
<1>11. ASSUME NEW p \in Nat, NEW m \in Nat, p > 0, NEW mem, NEW i, NEW x
       PROVE  Fetching(p, m, mem, 0, i, x, <<>>)
  BY <1>11 DEF Fetching
<1>12. Settled(c, 0)'
  <2>1. ASSUME c.op = "write" PROVE SettledWrite(c, c.size, 0)'
    <3> DEFINE m == c.size
               p == 2 * m + 4
    <3>1. m \in Nat /\ p \in Nat /\ p > 0 /\ 0 < 2 * m + 16 BY <1>5, <2>1
    <3> HIDE DEF p
    <3>2. Loading(p, 5, Address(c), 0, page_idx', data_in', current_address')
      BY <1>10, <3>1
    <3>3. Loading(3, m, c.data, 0, page_idx', data_in', page_data') BY <1>10, <3>1
    <3>4. pending' = TRUE /\ buffer' = <<>> BY <1>1, <1>4, <2>1
    <3> QED BY <3>1, <3>2, <3>3, <3>4 DEF SettledWrite, p
  <2>2. ASSUME c.op = "read" PROVE SettledRead(c, c.size, 0)'
    <3> DEFINE m == c.size
    <3>1. m \in Nat BY <1>5, <2>2
    <3> HIDE DEF m
    <3>2. Loading(2, 5, Address(c), 0, page_idx', data_in', current_address') BY <1>10
    <3>3. Fetching(16, m, Asked(c)', 0, page_idx', data_out', buffer') BY <1>1, <1>11, <3>1
    <3>4. pending' = FALSE BY <1>1, <1>4, <2>2
    <3> QED BY <3>2, <3>3, <3>4 DEF SettledRead, m
  <2>3. ASSUME c.op = "jedec" PROVE SettledJedec(c, 0)'
    <3>1. Fetching(4, 5, Id[c.chip], 0, page_idx', data_out', buffer') BY <1>1, <1>11
    <3>2. pending' = FALSE BY <1>1, <1>4, <2>3
    <3> QED BY <3>1, <3>2 DEF SettledJedec
  <2>4. ASSUME c.op = "param" PROVE SettledParam(c, 0)'
    <3>1. Fetching(5, ParamBytes, ParamPage[c.chip], 0, page_idx', data_out', buffer')
      BY <1>1, <1>11, DriverAssumption
    <3>2. pending' = FALSE BY <1>1, <1>4, <2>4
    <3> QED BY <3>1, <3>2 DEF SettledParam
  <2>5. c.op = "init" => pending' = FALSE /\ buffer' = <<>> BY <1>1, <1>4
  <2> QED BY <2>1, <2>2, <2>3, <2>4, <2>5 DEF Settled
<1> QED BY <1>3, <1>4, <1>7, <1>8, <1>9, <1>12 DEF DriverInv

LEMMA ReturnsCall ==
  ASSUME DriverInv, Return, Busy_bit = 1
  PROVE  DriverInv'
<1>1. /\ call # NoCall /\ script = <<>> /\ core = Idle /\ call' = NoCall
      /\ UNCHANGED <<script, buffer, calls, core, data_in, data_out, page_idx, page_data, chip_id,
                     page_param, current_address, selected, nwp, store, pending, resets>>
  BY DEF Return, wait_busy, buffers, pins
<1> PICK n \in 1..MaxCalls : \E c \in Call(n) : \E e \in Nat :
      call = c /\ Stands(Script(c), e) /\ Settled(c, e)
  BY <1>1 DEF DriverInv
<1>2. PICK c \in Call(n), e \in Nat : call = c /\ Stands(Script(c), e) /\ Settled(c, e)
  OBVIOUS
<1>3. e = Len(Script(c)) BY <1>1, <1>2, CallLayout, LenProperties DEF Stands, Left
<1>4. ~pending
  <2>1. CASE c.op = "write"
    <3>1. e = 2 * c.size + 18 /\ c.size \in Nat BY <1>3, <2>1, CallLayout, CallParts DEF WriteLayout
    <3>2. pending <=> e < 2 * c.size + 16 BY <1>2, <2>1 DEF Settled, SettledWrite
    <3> QED BY <3>1, <3>2
  <2>2. CASE c.op # "write"
    BY <1>2, <2>2, CallParts DEF Settled, SettledRead, SettledJedec, SettledParam
  <2> QED BY <2>1, <2>2
<1>5. DriverType' BY <1>1 DEF DriverInv, DriverType
<1> QED BY <1>1, <1>4, <1>5 DEF DriverInv

LEMMA ResetsCall ==
  ASSUME DriverInv, Reset
  PROVE  DriverInv'
<1>0. DriverType BY DEF DriverInv
<1>1. /\ call' = NoCall /\ script' = <<>> /\ buffer' = <<>> /\ core' = Idle /\ pending' = FALSE
      /\ page_idx' = 0 /\ current_address' = [i \in 1..5 |-> 0] /\ selected' = 0 /\ nwp' = 0
      /\ resets' = resets + 1
      /\ UNCHANGED <<calls, data_in, data_out, page_data, chip_id, page_param>>
  BY DEF Reset
<1>2. store' \in [Chip -> [Row -> [1..PageBytes -> Byte]]]
  <2> DEFINE row == AddressRow(current_address)
             column == AddressColumn(current_address)
             Torn(page) == [i \in 1..PageBytes |->
                              IF PageProgrammed(page, column)[i] = page[i] THEN page[i] ELSE X]
  <2>1. \/ store' = store
        \/ /\ selected # 0 /\ row \in Row
           /\ store' = [store EXCEPT ![selected][row] = Torn(store[selected][row])]
    BY DEF Reset
  <2>2. ASSUME NEW page \in [1..PageBytes -> Byte] PROVE Torn(page) \in [1..PageBytes -> Byte]
    BY DEF Byte
  <2> HIDE DEF Torn, row, column
  <2>3. ASSUME selected # 0, row \in Row
        PROVE  [store EXCEPT ![selected][row] = Torn(store[selected][row])]
                 \in [Chip -> [Row -> [1..PageBytes -> Byte]]]
    <3>1. selected \in Chip /\ store[selected][row] \in [1..PageBytes -> Byte]
      BY <1>0, <2>3 DEF DriverType
    <3>2. Torn(store[selected][row]) \in [1..PageBytes -> Byte] BY <2>2, <3>1
    <3> QED BY <1>0, <2>3, <3>1, <3>2 DEF DriverType
  <2> QED BY <1>0, <2>1, <2>3, ZenonT(30) DEF DriverType
<1>3. DriverType'
  <2>1. current_address' \in [1..5 -> 0..255] BY <1>1
  <2>2. <<>> \in Seq(Acc) /\ <<>> \in Seq(Byte) OBVIOUS
  <2>6. page_idx' \in 0..PageBytes \union 0..ParamBytes \union 0..5
    <3>1. 0 \in 0..5 OBVIOUS
    <3> QED BY <1>1, <3>1
  <2>3. /\ selected' \in {0} \union Chip /\ nwp' \in {0, 1} /\ pending' \in BOOLEAN
    BY <1>1
  <2>4. /\ data_in \in 0..255 /\ data_out \in Byte
        /\ page_data \in [1..PageBytes -> Byte] /\ page_param \in [1..ParamBytes -> Byte]
        /\ chip_id \in [1..5 -> Byte] /\ calls \in Nat /\ resets \in Nat
    BY <1>0, Zenon DEF DriverType
  <2>5. calls' \in Nat /\ resets' \in Nat BY <1>1, <2>4
  <2> QED BY <1>1, <1>2, <2>1, <2>2, <2>3, <2>4, <2>5, <2>6, Zenon DEF DriverType
<1> QED BY <1>1, <1>3 DEF DriverInv

LEMMA CallStep ==
  ASSUME NEW n \in 1..MaxCalls, NEW c \in Call(n), NEW e \in Nat, DriverType, Settled(c, e),
         e + 1 <= Len(Script(c)), Effect(Script(c)[e + 1])
  PROVE  Settled(c, e + 1)'
<1>1. CASE c.op = "write" BY <1>1, WriteStep DEF Settled
<1>2. CASE c.op = "read" BY <1>2, ReadStep DEF Settled
<1>3. CASE c.op = "jedec" BY <1>3, JedecStep DEF Settled
<1>4. CASE c.op = "param" BY <1>4, ParamStep DEF Settled
<1>5. CASE c.op = "init"
  <2>1. ~pending /\ buffer = <<>> BY <1>5 DEF Settled
  <2>2. ~pending' /\ buffer' = <<>> BY <1>5, <2>1, InitStep
  <2> QED BY <1>5, <2>2 DEF Settled
<1> QED BY <1>1, <1>2, <1>3, <1>4, <1>5, CallParts

\* A call in progress, and where it is.
LEMMA InCall ==
  ASSUME DriverInv, call # NoCall \/ core # Idle \/ script # <<>> \/ pending
  PROVE  call # NoCall /\ \E n \in 1..MaxCalls : \E c \in Call(n) : \E e \in Nat :
                            call = c /\ Stands(Script(c), e) /\ Settled(c, e)
  BY DEF DriverInv

LEMMA AccessesCall ==
  ASSUME DriverInv, Busy_bit = 1,
         send_command \/ send_data_byte \/ get_data_byte \/ Sleep \/ Core
  PROVE  DriverInv'
<1>1. DriverType BY DEF DriverInv
<1>2. call # NoCall
  <2>1. ASSUME NEW do, Access(do) PROVE script # <<>> BY <2>1 DEF Access
  <2>2. CASE Core BY <2>2, InCall, CoreEffect DEF Idle
  <2>3. CASE send_command \/ send_data_byte \/ get_data_byte \/ Sleep
    BY <2>1, <2>3, InCall DEF send_command, send_data_byte, get_data_byte, Sleep
  <2> QED BY <2>2, <2>3
<1> PICK n \in 1..MaxCalls : \E c \in Call(n) : \E e \in Nat :
      call = c /\ Stands(Script(c), e) /\ Settled(c, e)
  BY <1>2, InCall
<1>3. PICK c \in Call(n), e \in Nat : call = c /\ Stands(Script(c), e) /\ Settled(c, e)
  OBVIOUS
<1>4. script \in Seq(Acc) BY <1>1 DEF DriverType
<1>5. script' \in Seq(Acc)
  <2>1. CASE Core BY <1>4, <2>1, CoreEffect DEF firmware
  <2>2. ASSUME NEW do, Access(do) PROVE script' \in Seq(Acc)
    BY <1>4, <2>2 DEF Access
  <2> QED BY <2>1, <2>2 DEF send_command, send_data_byte, get_data_byte, Sleep
<1>6. /\ UNCHANGED <<call, answer, booted, calls, resets>>
      /\ \/ Stands(Script(c), e)' /\ UNCHANGED <<buffer, data_in, data_out, memories>>
         \/ e + 1 <= Len(Script(c)) /\ Stands(Script(c), e + 1)' /\ Effect(Script(c)[e + 1])
  BY <1>3, <1>4, Advances
<1>7. CASE Stands(Script(c), e)' /\ UNCHANGED <<buffer, data_in, data_out, memories>>
  <2>1. UNCHANGED <<buffer, data_in, data_out, page_idx, page_data, chip_id, page_param,
                    current_address, selected, nwp, store, pending>>
    BY <1>7 DEF memories
  <2>2. DriverType' BY <1>1, <1>5, <1>6, <2>1 DEF DriverType
  <2>3. Settled(c, e)'
    BY <1>3, <2>1 DEF Settled, SettledWrite, SettledRead, SettledJedec, SettledParam, Asked
  <2> QED BY <1>2, <1>3, <1>6, <1>7, <2>2, <2>3 DEF DriverInv
<1>8. CASE e + 1 <= Len(Script(c)) /\ Stands(Script(c), e + 1)' /\ Effect(Script(c)[e + 1])
  <2>1. Settled(c, e + 1)' BY <1>1, <1>3, <1>8, CallStep
  <2>2. DriverType'
    <3> DEFINE a == Script(c)[e + 1]
    <3>1. Script(c) \in Seq(Acc) BY CallLayout
    <3>2. e + 1 \in 1..Len(Script(c)) BY <1>8
    <3>3. a \in Acc BY <3>1, <3>2
    <3>4. Understood(a) BY <3>2, ScriptAccesses
    <3>5. Effect(a) BY <1>8
    <3> HIDE DEF a
    <3>6. a.do = "data" => a.value \in 0..255 BY <3>4 DEF Understood
    <3>7. a.do = "command" =>
            a.value \in {1, 2, 3, 6, 7, 9, 10, 11, 12, 13, 14, 15, 16, 17, 19, 24}
      BY <3>4 DEF Understood, ScriptCommands
    <3>8. /\ buffer' \in Seq(Byte) /\ data_in' \in 0..255 /\ data_out' \in Byte
          /\ page_idx' \in 0..PageBytes \union 0..ParamBytes \union 0..5
          /\ page_data' \in [1..PageBytes -> Byte] /\ page_param' \in [1..ParamBytes -> Byte]
          /\ chip_id' \in [1..5 -> Byte] /\ current_address' \in [1..5 -> 0..255]
          /\ selected' \in {0} \union Chip /\ nwp' \in {0, 1}
          /\ store' \in [Chip -> [Row -> [1..PageBytes -> Byte]]] /\ pending' \in BOOLEAN
      BY <1>1, <3>3, <3>5, <3>6, <3>7, TypeEffect
    <3> QED BY <1>1, <1>5, <1>6, <3>8 DEF DriverType
  <2>3. call' = c /\ call' # NoCall /\ e + 1 \in Nat BY <1>2, <1>3, <1>6
  <2> QED BY <1>8, <2>1, <2>2, <2>3 DEF DriverInv
<1> QED BY <1>6, <1>7, <1>8

LEMMA DriverInductive ==
  ASSUME DriverInv, [Next]_vars, Busy_bit = 1
  PROVE  DriverInv'
<1>1. CASE Begin BY <1>1, BeginsCall
<1>2. CASE send_command \/ send_data_byte \/ get_data_byte \/ Sleep \/ Core BY <1>2, AccessesCall
<1>3. CASE Return BY <1>3, ReturnsCall
<1>4. CASE Reset BY <1>4, ResetsCall
<1>5. CASE UNCHANGED vars
  <2>1. UNCHANGED <<call, script, buffer, core, data_in, data_out, page_idx, page_data, chip_id,
                    page_param, current_address, selected, nwp, store, pending, calls, resets>>
    BY <1>5 DEF vars, firmware, buffers, pins
  <2>2. DriverType' BY <2>1 DEF DriverInv, DriverType
  <2>3. CASE call = NoCall BY <2>1, <2>2, <2>3 DEF DriverInv
  <2>4. CASE call # NoCall
    <3> PICK n \in 1..MaxCalls : \E c \in Call(n) : \E e \in Nat :
          call = c /\ Stands(Script(c), e) /\ Settled(c, e)
      BY <2>4, InCall
    <3>1. PICK c \in Call(n), e \in Nat : call = c /\ Stands(Script(c), e) /\ Settled(c, e)
      OBVIOUS
    <3>2. Stands(Script(c), e)' BY <2>1, <3>1 DEF Stands, Left
    <3>3. Settled(c, e)'
      BY <2>1, <3>1 DEF Settled, SettledWrite, SettledRead, SettledJedec, SettledParam, Asked
    <3> QED BY <2>1, <2>2, <2>4, <3>1, <3>2, <3>3 DEF DriverInv
  <2> QED BY <2>3, <2>4
<1> QED BY <1>1, <1>2, <1>3, <1>4, <1>5 DEF Next, Firmware

-----------------------------------------------------------------------------
(* The theorems *)

\* While the controller programs, the chip, the page and the bytes are those of the call.
LEMMA Programs ==
  ASSUME DriverInv, core = 7
  PROVE  /\ call # NoCall /\ call.op = "write" /\ pending
         /\ call.chip \in Chip /\ call.row \in Row
         /\ selected = call.chip /\ nwp = 1 /\ AddressRow(current_address) = call.row
         /\ CallsFit =>
              \A page : PageProgrammed(page, AddressColumn(current_address)) = Store!Written(page, call)
<1>1. core # Idle /\ call # NoCall BY InCall DEF Idle
<1> PICK n \in 1..MaxCalls : \E c \in Call(n) : \E e \in Nat :
      call = c /\ Stands(Script(c), e) /\ Settled(c, e)
  BY <1>1, InCall
<1>2. PICK c \in Call(n), e \in Nat : call = c /\ Stands(Script(c), e) /\ Settled(c, e)
  OBVIOUS
<1> DEFINE m == c.size
<1>3. c.op = "write" /\ e = 2 * m + 15
  <2>1. e + 1 <= Len(Script(c)) /\ Script(c)[e + 1] = Command(7) BY <1>1, <1>2 DEF Stands
  <2>2. Len(Script(c)) \in Nat BY CallLayout, LenProperties
  <2>3. e + 1 \in 1..Len(Script(c)) BY <2>1, <2>2
  <2>4. c.op = "write" /\ e + 1 = 2 * m + 16 BY <2>1, <2>3, ScriptAccesses
  <2>5. m \in Nat BY <2>4, CallParts
  <2> HIDE DEF m
  <2> QED BY <2>4, <2>5
<1>4. /\ c.chip \in Chip /\ c.row \in Row /\ c.column \in Nat /\ m \in Nat
      /\ <<c.column, m>> \in {<<w[1], w[2]>> : w \in Writes}
  BY <1>3, CallParts
<1> HIDE DEF m
<1>5. SettledWrite(c, m, e) BY <1>2, <1>3 DEF Settled, m
<1>6. selected = c.chip /\ nwp = 1 /\ pending BY <1>3, <1>4, <1>5 DEF SettledWrite
<1>7. \A k \in 1..5 : current_address[k] = Address(c)[k]
  <2> TAKE k \in 1..5
  <2>1. e >= 2 * m + 4 + 2 * k BY <1>3, <1>4
  <2> QED BY <1>5, <2>1 DEF SettledWrite, Loading
<1>8. /\ AddressRow(current_address) = c.row
      /\ c.column <= 16383 => AddressColumn(current_address) = c.column
  BY <1>4, <1>7, Decoded
<1>9. ASSUME CallsFit, NEW page
      PROVE  PageProgrammed(page, AddressColumn(current_address)) = Store!Written(page, c)
  <2>1. c.column <= 16383 /\ m <= PageBytes /\ PageBytes <= c.column + m
    BY <1>4, <1>9 DEF CallsFit
  <2>2. AddressColumn(current_address) = c.column BY <1>8, <2>1
  <2>3. \A k \in 1..m : page_data[k] = c.data[k]
    <3> TAKE k \in 1..m
    <3>1. e >= 3 + 2 * k BY <1>3, <1>4
    <3> QED BY <1>5, <1>9, <3>1 DEF SettledWrite, Loading
  <2>4. PageBytes \in Nat BY DriverAssumption
  <2>5. \A i \in 1..PageBytes : i > c.column <=> i - c.column \in 1..m BY <1>4, <2>1, <2>4
  <2>6. \A old, byte : Programmed(old, byte) = Store!Programmed(old, byte)
    BY DEF Programmed, Store!Programmed
  <2>7. ASSUME NEW i \in 1..PageBytes
        PROVE  (IF i > c.column THEN Programmed(page[i], page_data[i - c.column]) ELSE page[i])
                 = IF i - c.column \in 1..m
                     THEN Store!Programmed(page[i], c.data[i - c.column]) ELSE page[i]
    BY <2>3, <2>5, <2>6
  <2> QED BY <2>2, <2>7 DEF PageProgrammed, Store!Written, m
<1> QED BY <1>1, <1>2, <1>3, <1>4, <1>6, <1>8, <1>9

\* What a call has stored when it has made its last access.
LEMMA Stored ==
  ASSUME DriverInv, call # NoCall, script = <<>>, core = Idle
  PROVE  ~pending /\ (CallsFit => buffer = Store!Answer(call))
<1> PICK n \in 1..MaxCalls : \E c \in Call(n) : \E e \in Nat :
      call = c /\ Stands(Script(c), e) /\ Settled(c, e)
  BY InCall
<1>1. PICK c \in Call(n), e \in Nat : call = c /\ Stands(Script(c), e) /\ Settled(c, e)
  OBVIOUS
<1>2. e = Len(Script(c)) BY <1>1, CallLayout, LenProperties DEF Stands, Left
<1>3. ASSUME NEW p \in Nat, NEW m \in Nat, NEW mem, e >= p + 2 * m,
             Fetching(p, m, mem, e, page_idx, data_out, buffer)
      PROVE  buffer = [i \in 1..m |-> mem[i]]
  <2>1. Len(buffer) = m BY <1>3 DEF Fetching
  <2>2. \A k \in 1..m : buffer[k] = mem[k]
    <3> TAKE k \in 1..m
    <3>1. e >= p + 2 * k BY <1>3
    <3> QED BY <1>3, <3>1 DEF Fetching
  <2>3. buffer \in Seq(Byte) BY DEF DriverInv, DriverType
  <2>4. buffer = [i \in 1..m |-> buffer[i]] BY <2>1, <2>3
  <2> QED BY <2>2, <2>4
<1>4. CASE c.op = "write"
  <2>1. e = 2 * c.size + 18 /\ c.size \in Nat BY <1>2, <1>4, CallLayout, CallParts DEF WriteLayout
  <2>2. buffer = <<>> /\ (pending <=> e < 2 * c.size + 16) BY <1>1, <1>4 DEF Settled, SettledWrite
  <2> QED BY <1>1, <1>4, <2>1, <2>2 DEF Store!Answer
<1>5. CASE c.op = "read"
  <2> DEFINE m == c.size
  <2>1. /\ e = 2 * m + 17 /\ m \in Nat /\ c.column \in Nat
        /\ <<c.column, m>> \in {<<r[1], r[2]>> : r \in Reads}
    BY <1>2, <1>5, CallLayout, CallParts DEF ReadLayout
  <2>2. ~pending /\ (CallsFit => Fetching(16, m, Asked(c), e, page_idx, data_out, buffer))
    BY <1>1, <1>5 DEF Settled, SettledRead
  <2>3. ASSUME CallsFit PROVE buffer = [i \in 1..m |-> store[c.chip][c.row][c.column + i]]
    <3> HIDE DEF m
    <3>1. c.column + m <= PageBytes BY <2>1, <2>3 DEF CallsFit
    <3>2. e >= 16 + 2 * m BY <2>1
    <3>3. PICK mem : mem = Asked(c) OBVIOUS
    <3>4. Fetching(16, m, mem, e, page_idx, data_out, buffer) BY <2>2, <2>3, <3>3
    <3>5. buffer = [i \in 1..m |-> mem[i]] BY <1>3, <2>1, <3>2, <3>4
    <3>6. \A i \in 1..m : mem[i] = store[c.chip][c.row][c.column + i]
      <4> TAKE i \in 1..m
      <4>1. i \in 1..PageBytes /\ c.column + i <= PageBytes BY <2>1, <3>1, DriverAssumption
      <4> QED BY <3>3, <4>1 DEF Asked
    <3> QED BY <3>5, <3>6
  <2> QED BY <1>1, <1>5, <2>2, <2>3 DEF Store!Answer
<1>6. CASE c.op = "jedec"
  <2>1. e >= 4 + 2 * 5 /\ c.chip \in Chip BY <1>2, <1>6, CallLayout, CallParts DEF JedecLayout
  <2>2. ~pending /\ Fetching(4, 5, Id[c.chip], e, page_idx, data_out, buffer)
    BY <1>1, <1>6 DEF Settled, SettledJedec
  <2>3. buffer = [i \in 1..5 |-> Id[c.chip][i]]
    <3>1. PICK mem : mem = Id[c.chip] OBVIOUS
    <3>2. Fetching(4, 5, mem, e, page_idx, data_out, buffer) BY <2>2, <3>1
    <3>3. PICK p, m \in Nat : p = 4 /\ m = 5 OBVIOUS
    <3>4. e >= p + 2 * m /\ Fetching(p, m, mem, e, page_idx, data_out, buffer)
      BY <2>1, <3>2, <3>3
    <3>5. buffer = [i \in 1..m |-> mem[i]] BY <1>3, <3>4
    <3> QED BY <3>1, <3>3, <3>5, Zenon
  <2>4. Id[c.chip] \in [1..5 -> 0..255] BY <2>1, IdWords
  <2>5. buffer = Id[c.chip] BY <2>3, <2>4
  <2> QED BY <1>1, <1>6, <2>2, <2>5 DEF Store!Answer
<1>7. CASE c.op = "param"
  <2>0. ParamBytes \in Nat BY DriverAssumption
  <2>1. e >= 5 + 2 * ParamBytes /\ c.chip \in Chip
    BY <1>2, <1>7, <2>0, CallLayout, CallParts DEF ParamLayout
  <2>2. ~pending /\ Fetching(5, ParamBytes, ParamPage[c.chip], e, page_idx, data_out, buffer)
    BY <1>1, <1>7 DEF Settled, SettledParam
  <2>3. buffer = [i \in 1..ParamBytes |-> ParamPage[c.chip][i]] BY <1>3, <2>0, <2>1, <2>2
  <2>4. ParamPage[c.chip] \in [1..ParamBytes -> 0..255] BY <2>1, ParamWords
  <2>5. buffer = ParamPage[c.chip] BY <2>3, <2>4
  <2> QED BY <1>1, <1>7, <2>2, <2>5 DEF Store!Answer
<1>8. CASE c.op = "init"
  BY <1>1, <1>8 DEF Settled, Store!Answer
<1> QED BY <1>4, <1>5, <1>6, <1>7, <1>8, CallParts

\* A call stores no more bytes than it fetches.
LEMMA FetchLength ==
  ASSUME NEW p \in Nat, NEW m \in Nat, NEW e \in Nat, NEW mem, NEW i, NEW x, NEW b,
         Fetching(p, m, mem, e, i, x, b)
  PROVE  Len(b) <= m
<1>1. CASE e <= p BY <1>1 DEF Fetching
<1>2. CASE e >= p + 2 * m BY <1>2 DEF Fetching
<1>3. CASE e \in p + 1..p + 2 * m
  <2>1. PICK k \in 1..m : e = p + 2 * k - 1 \/ e = p + 2 * k BY <1>3, PairPlaces, Zenon
  <2>2. Len(b) = k - 1 \/ Len(b) = k BY <2>1 DEF Fetching
  <2> QED BY <2>2
<1> QED BY <1>1, <1>2, <1>3

LEMMA BufferLength ==
  ASSUME DriverInv, call # NoCall, CallsFit
  PROVE  Len(buffer) <= PageBytes + ParamBytes + 5
<1> PICK n \in 1..MaxCalls : \E c \in Call(n) : \E e \in Nat :
      call = c /\ Stands(Script(c), e) /\ Settled(c, e)
  BY InCall
<1>1. PICK c \in Call(n), e \in Nat : Settled(c, e) OBVIOUS
<1>2. PageBytes \in Nat /\ ParamBytes \in Nat BY DriverAssumption
<1>3. CASE c.op = "read"
  <2> DEFINE m == c.size
  <2>1. m \in Nat /\ c.column \in Nat /\ <<c.column, m>> \in {<<r[1], r[2]>> : r \in Reads}
    BY <1>3, CallParts
  <2>2. Fetching(16, m, Asked(c), e, page_idx, data_out, buffer)
    BY <1>1, <1>3 DEF Settled, SettledRead
  <2> HIDE DEF m
  <2>3. PICK mem : mem = Asked(c) OBVIOUS
  <2>4. Len(buffer) <= m BY <2>1, <2>2, <2>3, FetchLength
  <2>5. c.column + m <= PageBytes BY <2>1 DEF CallsFit
  <2> QED BY <1>2, <2>1, <2>4, <2>5, LenProperties DEF DriverInv, DriverType
<1>4. CASE c.op = "jedec"
  <2>1. Fetching(4, 5, Id[c.chip], e, page_idx, data_out, buffer)
    BY <1>1, <1>4 DEF Settled, SettledJedec
  <2>2. Len(buffer) <= 5 BY <2>1, FetchLength
  <2> QED BY <1>2, <2>2, LenProperties DEF DriverInv, DriverType
<1>5. CASE c.op = "param"
  <2>1. Fetching(5, ParamBytes, ParamPage[c.chip], e, page_idx, data_out, buffer)
    BY <1>1, <1>5 DEF Settled, SettledParam
  <2>2. Len(buffer) <= ParamBytes BY <1>2, <2>1, FetchLength
  <2> QED BY <1>2, <2>2, LenProperties DEF DriverInv, DriverType
<1>6. CASE c.op \in {"write", "init"}
  <2>1. buffer = <<>> BY <1>1, <1>6 DEF Settled, SettledWrite
  <2> QED BY <1>2, <2>1
<1> QED BY <1>3, <1>4, <1>5, <1>6, CallParts

LEMMA TypesHold ==
  ASSUME DriverInv, Len(buffer) <= PageBytes + ParamBytes + 5
  PROVE  TypeInvariant
<1>1. DriverType BY DEF DriverInv
<1>2. core \in 0..24 \union {Idle}
  <2>1. CASE core # Idle
    <3> PICK n \in 1..MaxCalls : \E c \in Call(n) : \E e \in Nat :
          call = c /\ Stands(Script(c), e) /\ Settled(c, e)
      BY <2>1, InCall
    <3>1. PICK c \in Call(n), e \in Nat : Stands(Script(c), e) OBVIOUS
    <3>2. e + 1 <= Len(Script(c)) /\ Script(c)[e + 1] = Command(core) BY <2>1, <3>1 DEF Stands
    <3>3. e + 1 \in 1..Len(Script(c)) BY <3>2, CallLayout, LenProperties
    <3>4. Understood(Command(core)) BY <3>2, <3>3, ScriptAccesses
    <3> QED BY <3>4 DEF Understood, Command, ScriptCommands
  <2> QED BY <2>1
<1>3. \A b \in {page_data, chip_id, page_param, current_address} :
        \A i \in DOMAIN b : b[i] \in 0..255 \union {X}
  <2>1. \A i \in DOMAIN page_data : page_data[i] \in Byte
    <3>1. page_data \in [1..PageBytes -> Byte] BY <1>1 DEF DriverType
    <3> QED BY <3>1, Zenon
  <2>2. \A i \in DOMAIN chip_id : chip_id[i] \in Byte
    <3>1. chip_id \in [1..5 -> Byte] BY <1>1 DEF DriverType
    <3> QED BY <3>1, Zenon
  <2>3. \A i \in DOMAIN page_param : page_param[i] \in Byte
    <3>1. page_param \in [1..ParamBytes -> Byte] BY <1>1 DEF DriverType
    <3> QED BY <3>1, Zenon
  <2>4. \A i \in DOMAIN current_address : current_address[i] \in Byte
    <3>1. current_address \in [1..5 -> 0..255] BY <1>1 DEF DriverType
    <3>2. 0..255 \subseteq Byte BY DEF Byte
    <3> QED BY <3>1, <3>2, Zenon
  <2> QED BY <2>1, <2>2, <2>3, <2>4, ZenonT(30) DEF Byte
<1>4. Len(buffer) <= 2 * (PageBytes + ParamBytes + 5)
  BY <1>1, DriverAssumption, LenProperties DEF DriverType
<1> QED BY <1>1, <1>2, <1>3, <1>4 DEF DriverType, TypeInvariant

\* With a poll that waits and calls that stay inside a page, every cell of the controller's
\* buffers holds a byte, its index stays in the longest buffer, and no call of nand.c stores more
\* bytes than it fetches (nand.c:85-131).
THEOREM TypeCorrect ==
  ASSUME Busy_bit = 1, CallsFit PROVE Spec => []TypeInvariant
<1> DEFINE Short == Len(buffer) <= PageBytes + ParamBytes + 5
           Free == call = NoCall
<1>1. Init => DriverInv /\ Short
  <2>1. Init => Short BY DriverAssumption DEF Init
  <2> QED BY <2>1, InitStands
<1>2. DriverInv /\ [Next]_vars => DriverInv' BY DriverInductive
<1>3. DriverInv /\ ~Free => Short BY BufferLength
<1>4. ASSUME DriverInv, Short, [Next]_vars, Free' PROVE Short'
  <2>1. CASE Reset \/ Begin
    <3>1. buffer' = <<>> BY <2>1 DEF Reset, Begin
    <3> QED BY <3>1, DriverAssumption
  <2>2. CASE Core \/ Return \/ UNCHANGED vars
    <3>1. buffer' = buffer BY <2>2, CoreEffect DEF Return, vars, firmware
    <3> QED BY <1>4, <3>1
  <2>3. CASE send_command \/ send_data_byte \/ get_data_byte \/ Sleep
    <3>1. call' = call /\ script # <<>>
      BY <2>3 DEF send_command, send_data_byte, get_data_byte, Sleep, Access
    <3> QED BY <1>4, <3>1, InCall
  <2> QED BY <1>4, <2>1, <2>2, <2>3 DEF Next, Firmware
<1>5. DriverInv /\ Short => TypeInvariant BY TypesHold
<1> HIDE DEF Short, Free
<1> QED BY <1>1, <1>2, <1>3, <1>4, <1>5, PTL DEF Spec

\* The pages of the chips change in two steps only.
LEMMA StoreStep ==
  ASSUME DriverInv, [Next]_vars, Busy_bit = 1, store' # store
  PROVE  /\ core = 7 /\ call.op = "write" /\ call.chip \in Chip /\ call.row \in Row
         /\ \E page : store' = [store EXCEPT ![call.chip][call.row] = page]
<1>1. CASE Core
  <2>1. CommandEffect(core) BY <1>1, CoreEffect
  <2>2. core = 7 BY <2>1 DEF CommandEffect
  <2>3. /\ call.op = "write" /\ call.chip \in Chip /\ call.row \in Row
        /\ selected = call.chip /\ AddressRow(current_address) = call.row
    BY <2>2, Programs
  <2>4. store' = [store EXCEPT ![selected][AddressRow(current_address)] =
                    PageProgrammed(store[selected][AddressRow(current_address)],
                                   AddressColumn(current_address))]
    BY <2>1, <2>2 DEF CommandEffect
  <2> QED BY <2>2, <2>3, <2>4
<1>2. CASE Reset
  <2>1. core = 7 BY <1>2 DEF Reset
  <2>2. /\ call.op = "write" /\ call.chip \in Chip /\ call.row \in Row
        /\ selected = call.chip /\ AddressRow(current_address) = call.row
    BY <2>1, Programs
  <2>3. \E page : store' = [store EXCEPT ![selected][AddressRow(current_address)] = page]
    BY <1>2 DEF Reset
  <2> QED BY <2>1, <2>2, <2>3
<1>3. CASE Firmware \/ UNCHANGED vars
  BY <1>3 DEF Firmware, Begin, send_command, send_data_byte, get_data_byte, Sleep, Return, vars
<1> QED BY <1>1, <1>2, <1>3 DEF Next

\* With a poll that waits, a page changes only under the nand_write_page (nand.c:133) that names
\* its chip and its row, whatever columns and sizes the calls have, and whatever earlier calls and
\* resets have left in the index, the address bytes, the buffer and on the pins.
THEOREM AskedPageChanges ==
  ASSUME Busy_bit = 1 PROVE Spec => OnlyAskedPageChanges
<1> DEFINE Asks == \A c \in Chip, r \in Row : store'[c][r] # store[c][r] =>
                     call.op = "write" /\ call.chip = c /\ call.row = r
<1>1. Init => DriverInv BY InitStands
<1>2. DriverInv /\ [Next]_vars => DriverInv' BY DriverInductive
<1>3. ASSUME DriverInv, [Next]_vars PROVE Asks
  <2> SUFFICES ASSUME NEW c \in Chip, NEW r \in Row, store'[c][r] # store[c][r]
               PROVE  call.op = "write" /\ call.chip = c /\ call.row = r
    OBVIOUS
  <2>1. /\ call.op = "write" /\ call.chip \in Chip /\ call.row \in Row
        /\ \E page : store' = [store EXCEPT ![call.chip][call.row] = page]
    BY <1>3, StoreStep
  <2>2. store \in [Chip -> [Row -> [1..PageBytes -> Byte]]] BY <1>3 DEF DriverInv, DriverType
  <2> QED BY <2>1, <2>2
<1>4. Spec => [][Asks]_vars
  <2>1. DriverInv /\ [Next]_vars => [Asks]_vars BY <1>3
  <2> QED BY <1>1, <1>2, <2>1, PTL DEF Spec
<1> QED BY <1>4 DEF OnlyAskedPageChanges

LEMMA StoreInit == ASSUME Init PROVE Store!Init
  BY DEF Init, Store!Init

\* Every step of the driver is a step of the page store, or none.
LEMMA StoreNext ==
  ASSUME DriverInv, [Next]_vars, Busy_bit = 1, CallsFit
  PROVE  [Store!Next]_<<store, call, pending, answer>>
<1>1. CASE Begin
  <2>1. /\ call = NoCall /\ calls < MaxCalls /\ call' \in Call(calls + 1)
        /\ pending' = (call'.op = "write") /\ UNCHANGED <<store, answer>>
    BY <1>1 DEF Begin
  <2>2. calls + 1 \in 1..MaxCalls BY <2>1, DriverAssumption DEF DriverInv, DriverType
  <2>3. call' \in UNION {Call(n) : n \in 1..MaxCalls} BY <2>1, <2>2
  <2>4. Store!Begin BY <2>1, <2>3 DEF Store!Begin
  <2> QED BY <2>4 DEF Store!Next
<1>2. CASE send_command \/ send_data_byte \/ get_data_byte \/ Sleep
  BY <1>2 DEF send_command, send_data_byte, get_data_byte, Sleep
<1>3. CASE Return
  <2>1. /\ call # NoCall /\ script = <<>> /\ core = Idle
        /\ answer' = buffer /\ call' = NoCall /\ UNCHANGED <<store, pending>>
    BY <1>3 DEF Return, wait_busy
  <2>2. ~pending /\ buffer = Store!Answer(call) BY <2>1, Stored
  <2>3. Store!Return BY <2>1, <2>2 DEF Store!Return
  <2> QED BY <2>3 DEF Store!Next
<1>4. CASE Core
  <2>1. UNCHANGED <<call, answer>> /\ CommandEffect(core) BY <1>4, CoreEffect DEF firmware
  <2>2. CASE core = 7
    <3> DEFINE column == AddressColumn(current_address)
    <3>1. /\ call.op = "write" /\ pending /\ call.chip \in Chip /\ call.row \in Row
          /\ selected = call.chip /\ nwp = 1 /\ AddressRow(current_address) = call.row
          /\ \A page : PageProgrammed(page, column) = Store!Written(page, call)
      BY <2>2, Programs
    <3>2. pending' = FALSE BY <2>1, <2>2 DEF CommandEffect
    <3>3. store' = [store EXCEPT ![selected][AddressRow(current_address)] =
                      PageProgrammed(store[selected][AddressRow(current_address)], column)]
      <4>1. selected # 0 /\ AddressRow(current_address) \in Row BY <3>1 DEF Chip
      <4> QED BY <2>1, <2>2, <3>1, <4>1 DEF CommandEffect
    <3> HIDE DEF column
    <3>4. store' = [store EXCEPT ![call.chip][call.row] =
                      Store!Written(store[call.chip][call.row], call)]
      BY <3>1, <3>3
    <3>5. Store!Write BY <2>1, <3>1, <3>2, <3>4 DEF Store!Write
    <3> QED BY <3>5 DEF Store!Next
  <2>3. CASE core # 7
    <3>1. UNCHANGED <<store, pending>> BY <2>1, <2>3 DEF CommandEffect
    <3> QED BY <2>1, <3>1
  <2> QED BY <2>2, <2>3
<1>5. CASE Reset
  <2>1. call' = NoCall /\ pending' = FALSE /\ answer' = <<>> BY <1>5 DEF Reset
  <2>2. CASE store' = store BY <2>1, <2>2 DEF Store!Crash, Store!Next
  <2>3. CASE store' # store
    <3> DEFINE column == AddressColumn(current_address)
               Torn(page) == [i \in 1..PageBytes |->
                                IF PageProgrammed(page, column)[i] = page[i] THEN page[i] ELSE X]
    <3>1. /\ core = 7
          /\ store' = [store EXCEPT ![selected][AddressRow(current_address)] =
                         Torn(store[selected][AddressRow(current_address)])]
      BY <1>5, <2>3 DEF Reset
    <3>2. /\ pending /\ selected = call.chip /\ AddressRow(current_address) = call.row
          /\ \A page : PageProgrammed(page, column) = Store!Written(page, call)
      BY <3>1, Programs
    <3>3. Torn(store[call.chip][call.row]) =
            [i \in 1..PageBytes |->
               IF Store!Written(store[call.chip][call.row], call)[i] = store[call.chip][call.row][i]
                 THEN store[call.chip][call.row][i] ELSE X]
      BY <3>2
    <3> HIDE DEF Torn
    <3>4. store' = [store EXCEPT ![call.chip][call.row] = Torn(store[call.chip][call.row])]
      BY <3>1, <3>2
    <3>5. Store!Crash BY <2>1, <3>2, <3>3, <3>4 DEF Store!Crash
    <3> QED BY <3>5 DEF Store!Next
  <2> QED BY <2>2, <2>3
<1>6. CASE UNCHANGED vars BY <1>6 DEF vars, firmware
<1> QED BY <1>1, <1>2, <1>3, <1>4, <1>5, <1>6 DEF Next, Firmware

\* With a poll that waits and calls that stay inside a page, the calls of nand.c implement the
\* page store of nand.h: a write changes the bytes asked for and no other, a read and an
\* identification return what the chip they name holds, and a reset tears at most the page being
\* written, whatever the calls, the pages and the resets before.
THEOREM StoresAsked ==
  ASSUME Busy_bit = 1, CallsFit PROVE Spec => StoresPages
<1>1. Init => DriverInv /\ Store!Init BY InitStands, StoreInit
<1>2. DriverInv /\ [Next]_vars => DriverInv' BY DriverInductive
<1>3. DriverInv /\ [Next]_vars => [Store!Next]_<<store, call, pending, answer>> BY StoreNext
<1> QED BY <1>1, <1>2, <1>3, PTL DEF Spec, StoresPages, Store!Spec
==============================================================================
