---------------------------- MODULE QspiDriverProofs ----------------------------
(***************************************************************************)
(* The driver of the QSPI flash, for chips of any size, any number of calls *)
(* and of resets that come in the middle of them: the chip takes every      *)
(* command, and with the chip the driver implements FlashStore.             *)
(***************************************************************************)
EXTENDS QspiDriver, SequenceTheorems, WellFoundedInduction, TLAPS

-----------------------------------------------------------------------------
(* What is on the wire *)

Cmds == Commands \cup {"ready?", "rest", "spi", "memory", "started?", "erased?"}

Orders == [cmd : Cmds, page : Nat, val : Values \cup {"erased"}]
Wires  == Seq(Orders)

\* The command at a place of a list, "end" behind its last one.
At(w, i) == IF i \in DOMAIN w THEN w[i].cmd ELSE "end"

\* What may follow a command in a call.
Follow(what, c) ==
  CASE c = "WriteEnable"                       -> IF what = "erase" THEN EraseCommands
                                                  ELSE {"QuadPageProgram"}
    [] c \in EraseCommands                     -> {"started?"}
    [] c = "QuadPageProgram"                   -> {"ready?"}
    [] c = "started?"                          -> {"erased?"}
    [] c = "erased?"                           -> {"memory"}
    [] c = "spi"                               -> {"WriteEnable"}
    [] c = "EnableReset"                       -> {"Reset"}
    [] c = "Reset"                             -> {"rest"}
    [] c = "rest"                              -> {"ReadId"}
    [] c = "ReadId"                            -> {"WriteStatus2"}
    [] c = "ready?"                            -> IF what = "init" THEN {"EnableReset"}
                                                  ELSE {"WriteEnable", "end"}
    [] c = "WriteStatus2"                      -> {"WriteEnable", "end"}
    [] c \in {"memory", "QuadRead"}            -> {"end"}
    [] OTHER                                   -> {}

\* The commands of a call.
Used(what) ==
  CASE what = "init"  -> {"ready?", "EnableReset", "Reset", "rest", "ReadId", "WriteStatus2"}
    [] what = "erase" -> EraseCommands \cup {"spi", "WriteEnable", "started?", "erased?", "memory"}
    [] what = "write" -> {"WriteStatus2", "WriteEnable", "QuadPageProgram", "ready?"}
    [] what = "read"  -> {"QuadRead"}
    [] OTHER          -> {}

\* A command that changes or reads pages is for pages of the chip.
Placed(c) == Changing(c) \/ c.cmd = "QuadRead" => c.page \in Pages

\* Every command of the list belongs to the call and is followed as the call has it.
Ordered(what, w) ==
  \A i \in DOMAIN w : w[i].cmd \in Used(what) /\ At(w, i + 1) \in Follow(what, w[i].cmd)

-----------------------------------------------------------------------------
(* The inductive invariant *)

Idle == work = NoWork /\ ~wel

\* What the chip is at when the driver comes to a command.
Ready(c) ==
  CASE c \in EraseCommands \cup {"QuadPageProgram"} -> work = NoWork /\ wel
    [] c = "EnableReset"                      -> work = NoWork
    [] c = "Reset"                            -> work = NoWork /\ armed
    [] c = "started?"                         -> work # NoWork
    [] c \in {"erased?", "rest"}              -> work = NoWork => ~wel
    [] c = "ready?"                           -> call = "init" \/ (work = NoWork => ~wel)
    [] OTHER                                  -> Idle

BusRight(c) ==
  IF call = "erase" /\ c # "end"
  THEN c # "spi" => bus = "spi"
  ELSE bus = "memory"

QspiInv ==
  /\ wire \in Wires /\ wel \in BOOLEAN /\ ~ignored
  /\ call \in {"none", "init", "erase", "write", "read"}
  /\ call = "none" => wire = <<>> /\ (up => Idle)
  /\ Ordered(call, wire)
  /\ call # "none" => Ready(At(wire, 1))
  /\ BusRight(At(wire, 1))

-----------------------------------------------------------------------------
(* Lists of commands *)

LEMMA TailOrdered ==
  ASSUME NEW what, NEW w \in Wires, w # <<>>, Ordered(what, w)
  PROVE  /\ Tail(w) \in Wires /\ Ordered(what, Tail(w))
         /\ Head(w).cmd = At(w, 1) /\ At(Tail(w), 1) \in Follow(what, At(w, 1))
         /\ At(w, 1) \in Used(what) /\ Head(w) \in Orders
  <1>1. Len(w) \in Nat /\ Len(w) >= 1 /\ 1 \in DOMAIN w /\ DOMAIN w = 1 .. Len(w)
    BY DEF Wires
  <1>2. Tail(w) \in Wires /\ Len(Tail(w)) = Len(w) - 1 /\ DOMAIN Tail(w) = 1 .. Len(w) - 1
        /\ \A i \in 1 .. Len(w) - 1 : Tail(w)[i] = w[i + 1]
    BY <1>1 DEF Wires
  <1>3. Head(w) = w[1] /\ At(w, 1) = w[1].cmd
    BY <1>1 DEF At
  <1>4. \A i \in 1 .. Len(w) : At(Tail(w), i) = At(w, i + 1)
    BY <1>1, <1>2 DEF At
  <1>5. Ordered(what, Tail(w))
    <2> SUFFICES ASSUME NEW i \in DOMAIN Tail(w)
                 PROVE  /\ Tail(w)[i].cmd \in Used(what)
                        /\ At(Tail(w), i + 1) \in Follow(what, Tail(w)[i].cmd)
      BY DEF Ordered
    <2>1. i \in 1 .. Len(w) - 1 /\ i + 1 \in DOMAIN w /\ i + 1 \in 1 .. Len(w)
      BY <1>1, <1>2
    <2> QED
      BY <1>2, <1>4, <2>1 DEF Ordered
  <1>6. At(Tail(w), 1) \in Follow(what, At(w, 1)) /\ At(w, 1) \in Used(what)
    BY <1>1, <1>3, <1>4 DEF Ordered
  <1>7. Head(w) \in Orders
    BY HeadTailProperties DEF Wires
  <1> QED
    BY <1>2, <1>3, <1>5, <1>6, <1>7

LEMMA OnType ==
  /\ \A c \in Cmds : Plain(c) \in Orders /\ Plain(c).cmd = c
  /\ \A c \in Cmds, p \in Nat, v \in Values \cup {"erased"} :
       On(c, p, v) \in Orders /\ On(c, p, v).cmd = c
  BY DEF On, Plain, Orders

\* Six commands in a row.
LEMMA SixOrders ==
  ASSUME NEW w, NEW c1 \in Orders, NEW c2 \in Orders, NEW c3 \in Orders, NEW c4 \in Orders,
         NEW c5 \in Orders, NEW c6 \in Orders, w = <<c1, c2, c3, c4, c5, c6>>
  PROVE  /\ w \in Wires /\ DOMAIN w = 1 .. 6
         /\ At(w, 1) = c1.cmd /\ At(w, 2) = c2.cmd /\ At(w, 3) = c3.cmd
         /\ At(w, 4) = c4.cmd /\ At(w, 5) = c5.cmd /\ At(w, 6) = c6.cmd /\ At(w, 7) = "end"
         /\ \A what : (\A i \in 1 .. 6 : At(w, i) \in Used(what) /\ At(w, i + 1) \in Follow(what, At(w, i)))
                       => Ordered(what, w)
  <1>1. w \in Wires /\ DOMAIN w = 1 .. 6
    BY DEF Wires
  <1>2. \A i \in 1 .. 6 : At(w, i) = w[i].cmd
    BY <1>1 DEF At
  <1>3. At(w, 7) = "end"
    BY <1>1 DEF At
  <1>4. w[1] = c1 /\ w[2] = c2 /\ w[3] = c3 /\ w[4] = c4 /\ w[5] = c5 /\ w[6] = c6
    OBVIOUS
  <1> QED
    BY <1>1, <1>2, <1>3, <1>4 DEF Ordered

LEMMA InitOrdered ==
  InitPlan \in Wires /\ Ordered("init", InitPlan) /\ At(InitPlan, 1) = "ready?"
  <1> DEFINE w == InitPlan
  <1>1. {"ready?", "EnableReset", "Reset", "rest", "ReadId", "WriteStatus2"} \subseteq Cmds
    BY DEF Cmds, Commands, RunCommands, ReadCommands, WriteCommands, EraseCommands
  <1>2. \A c \in {"ready?", "EnableReset", "Reset", "rest", "ReadId", "WriteStatus2"} :
          Plain(c) \in Orders /\ Plain(c).cmd = c
    BY <1>1, OnType
  <1>3. w = <<Plain("ready?"), Plain("EnableReset"), Plain("Reset"), Plain("rest"),
              Plain("ReadId"), Plain("WriteStatus2")>>
    BY DEF InitPlan
  <1> HIDE DEF w
  <1>4. /\ w \in Wires /\ At(w, 1) = "ready?" /\ At(w, 2) = "EnableReset"
        /\ At(w, 3) = "Reset" /\ At(w, 4) = "rest" /\ At(w, 5) = "ReadId"
        /\ At(w, 6) = "WriteStatus2" /\ At(w, 7) = "end"
    BY <1>2, <1>3, SixOrders
  <1>5. ASSUME NEW i \in 1 .. 6
        PROVE  At(w, i) \in Used("init") /\ At(w, i + 1) \in Follow("init", At(w, i))
    BY <1>4 DEF Used, Follow, EraseCommands
  <1>6. Ordered("init", w)
    BY <1>2, <1>3, <1>5, SixOrders
  <1> QED
    BY <1>4, <1>6 DEF w

LEMMA EraseOrdered ==
  ASSUME NEW cmd \in EraseCommands, NEW p \in Pages
  PROVE  /\ ErasePlan(cmd, p) \in Wires /\ Ordered("erase", ErasePlan(cmd, p))
         /\ At(ErasePlan(cmd, p), 1) = "spi"
         /\ \A i \in DOMAIN ErasePlan(cmd, p) : Placed(ErasePlan(cmd, p)[i])
  <1> DEFINE w  == ErasePlan(cmd, p)
             w1 == <<Plain("spi")>>
             w2 == StartErase(cmd, p)
             w3 == <<Plain("started?"), Plain("erased?"), Plain("memory")>>
  <1>1. {"spi", "WriteEnable", cmd, "started?", "erased?", "memory"} \subseteq Cmds /\ p \in Nat
    BY QspiAssumption
    DEF Cmds, Commands, RunCommands, ReadCommands, WriteCommands, EraseCommands, Pages
  <1>2. /\ \A c \in {"spi", "WriteEnable", "started?", "erased?", "memory"} :
             Plain(c) \in Orders /\ Plain(c).cmd = c
        /\ On(cmd, p, "erased") \in Orders /\ On(cmd, p, "erased").cmd = cmd
    BY <1>1, OnType
  <1>3. w = <<Plain("spi"), Plain("WriteEnable"), On(cmd, p, "erased"), Plain("started?"),
              Plain("erased?"), Plain("memory")>>
    <2>1. w1 \in Wires /\ Len(w1) = 1 /\ w1[1] = Plain("spi")
      BY <1>2 DEF Wires
    <2>2. w2 \in Wires /\ Len(w2) = 2 /\ w2[1] = Plain("WriteEnable") /\ w2[2] = On(cmd, p, "erased")
      BY <1>2 DEF StartErase, Wires
    <2>3. w3 \in Wires /\ Len(w3) = 3 /\ w3[1] = Plain("started?") /\ w3[2] = Plain("erased?")
          /\ w3[3] = Plain("memory")
      BY <1>2 DEF Wires
    <2>4. w = (w1 \o w2) \o w3
      BY DEF ErasePlan
    <2> HIDE DEF w, w1, w2, w3
    <2>5. w1 \o w2 \in Wires /\ Len(w1 \o w2) = 3 /\ (w1 \o w2)[1] = Plain("spi")
          /\ (w1 \o w2)[2] = Plain("WriteEnable") /\ (w1 \o w2)[3] = On(cmd, p, "erased")
      BY <2>1, <2>2, ConcatProperties DEF Wires
    <2>6. w \in Wires /\ Len(w) = 6 /\ w[1] = Plain("spi") /\ w[2] = Plain("WriteEnable")
          /\ w[3] = On(cmd, p, "erased") /\ w[4] = Plain("started?") /\ w[5] = Plain("erased?")
          /\ w[6] = Plain("memory")
      <3>1. w \in Wires /\ Len(w) = 6 /\ \A i \in 1 .. 6 :
              w[i] = IF i <= 3 THEN (w1 \o w2)[i] ELSE w3[i - 3]
        <4> DEFINE u == w1 \o w2
        <4>1. u \in Seq(Orders) /\ Len(u) = 3 /\ w3 \in Seq(Orders) /\ Len(w3) = 3 /\ w = u \o w3
          BY <2>3, <2>4, <2>5 DEF Wires
        <4> HIDE DEF u
        <4>2. w \in Seq(Orders) /\ Len(w) = 6 /\ \A i \in 1 .. 6 : w[i] = IF i <= 3 THEN u[i] ELSE w3[i - 3]
          <5>1. /\ u \o w3 \in Seq(Orders) /\ Len(u \o w3) = Len(u) + Len(w3)
                /\ \A i \in 1 .. Len(u) + Len(w3) :
                     (u \o w3)[i] = IF i <= Len(u) THEN u[i] ELSE w3[i - Len(u)]
            BY <4>1, ConcatProperties
          <5> QED
            BY <4>1, <5>1
        <4> QED
          BY <4>2 DEF u, Wires
      <3> QED
        BY <2>3, <2>5, <3>1
    <2> QED
      BY <2>6 DEF Wires
  <1> HIDE DEF w
  <1>4. /\ w \in Wires /\ At(w, 1) = "spi" /\ At(w, 2) = "WriteEnable" /\ At(w, 3) = cmd
        /\ At(w, 4) = "started?" /\ At(w, 5) = "erased?" /\ At(w, 6) = "memory"
        /\ At(w, 7) = "end"
    BY <1>2, <1>3, SixOrders
  <1>5. ASSUME NEW i \in 1 .. 6
        PROVE  At(w, i) \in Used("erase") /\ At(w, i + 1) \in Follow("erase", At(w, i))
    BY <1>4 DEF Used, Follow, EraseCommands
  <1>6. Ordered("erase", w)
    BY <1>2, <1>3, <1>5, SixOrders
  <1>7. \A i \in DOMAIN w : Placed(w[i])
    <2>1. /\ \A c \in {"spi", "WriteEnable", "started?", "erased?", "memory"} : Placed(Plain(c))
          /\ Placed(On(cmd, p, "erased"))
      BY DEF Placed, Plain, On, Changing, EraseCommands
    <2>2. DOMAIN w = 1 .. 6 /\ \A i \in 1 .. 6 : w[i] \in
            {Plain("spi"), Plain("WriteEnable"), On(cmd, p, "erased"), Plain("started?"),
             Plain("erased?"), Plain("memory")}
      BY <1>3
    <2> QED
      BY <2>1, <2>2
  <1> QED
    BY <1>4, <1>6, <1>7 DEF w

LEMMA ReadOrdered ==
  ASSUME NEW p \in Pages
  PROVE  /\ ReadPlan(p) \in Wires /\ Ordered("read", ReadPlan(p))
         /\ At(ReadPlan(p), 1) = "QuadRead"
         /\ \A i \in DOMAIN ReadPlan(p) : Placed(ReadPlan(p)[i])
  <1>1. "QuadRead" \in Cmds /\ p \in Nat
    BY QspiAssumption DEF Cmds, Commands, ReadCommands, Pages
  <1>2. ReadPlan(p) \in Wires /\ Len(ReadPlan(p)) = 1 /\ ReadPlan(p)[1].cmd = "QuadRead"
    BY <1>1, OnType DEF ReadPlan, Wires
  <1>3. At(ReadPlan(p), 1) = "QuadRead" /\ At(ReadPlan(p), 2) = "end"
    BY <1>2 DEF At, Wires
  <1>4. \A i \in DOMAIN ReadPlan(p) : Placed(ReadPlan(p)[i])
    BY DEF ReadPlan, On, Placed
  <1> QED
    BY <1>2, <1>3, <1>4 DEF Ordered, Wires, Used, Follow, EraseCommands

LEMMA OneMore ==
  ASSUME NEW s \in Seq(Orders), Len(s) = 2, NEW e \in Orders
  PROVE  Append(s, e)[1] = s[1] /\ Append(s, e)[2] = s[2] /\ Append(s, e)[3] = e
  <1>1. /\ \A i \in 1 .. Len(s) : Append(s, e)[i] = s[i]
        /\ Append(s, e)[Len(s) + 1] = e
    BY AppendProperties
  <1> QED
    BY <1>1

\* The chunks of a write after its first command.
LEMMA WriteOrdered ==
  ASSUME NEW p \in Pages, NEW n \in 1 .. Size, NEW v \in Values, p + n <= Size
  PROVE  /\ WritePlan(p, n, v) \in Wires /\ Ordered("write", WritePlan(p, n, v))
         /\ At(WritePlan(p, n, v), 1) = "WriteStatus2"
         /\ \A i \in DOMAIN WritePlan(p, n, v) : Placed(WritePlan(p, n, v)[i])
  <1> DEFINE rest == [i \in 1 .. 3 * n |-> Chunk(p + (i - 1) \div 3, v)[((i - 1) % 3) + 1]]
             w    == WritePlan(p, n, v)
  <1>1. {"WriteStatus2", "WriteEnable", "QuadPageProgram", "ready?"} \subseteq Cmds
        /\ p \in Nat /\ n \in Nat /\ n >= 1 /\ v \in Values \cup {"erased"}
    BY QspiAssumption
    DEF Cmds, Commands, RunCommands, ReadCommands, WriteCommands, Pages
  <1>2. ASSUME NEW q \in Nat
        PROVE  /\ Chunk(q, v)[1] = Plain("WriteEnable") /\ Chunk(q, v)[2] = On("QuadPageProgram", q, v)
               /\ Chunk(q, v)[3] = Plain("ready?")
    <2>1. Program(q, v) \in Wires /\ Len(Program(q, v)) = 2 /\ Plain("ready?") \in Orders
          /\ Program(q, v)[1] = Plain("WriteEnable") /\ Program(q, v)[2] = On("QuadPageProgram", q, v)
      BY <1>1, <1>2, OnType DEF Program, Wires
    <2> DEFINE s == Program(q, v)
               e == Plain("ready?")
    <2>2. s \in Seq(Orders) /\ Len(s) = 2 /\ e \in Orders /\ Chunk(q, v) = Append(s, e)
      BY <2>1 DEF Chunk, Wires
    <2> HIDE DEF s, e
    <2>3. Append(s, e)[1] = s[1] /\ Append(s, e)[2] = s[2] /\ Append(s, e)[3] = e
      BY <2>2, OneMore
    <2> QED
      BY <2>1, <2>2, <2>3 DEF s, e
  <1>3. ASSUME NEW i \in 1 .. 3 * n
        PROVE  /\ rest[i] \in Orders
               /\ i % 3 = 1 => rest[i].cmd = "WriteEnable"
               /\ i % 3 = 2 => rest[i].cmd = "QuadPageProgram"
               /\ i % 3 = 0 => rest[i].cmd = "ready?"
               /\ i % 3 \in {0, 1, 2} /\ Placed(rest[i])
    <2>1. i \in Nat /\ (i - 1) \div 3 \in Nat /\ p + (i - 1) \div 3 \in Nat
      BY <1>1
    <2>2. \/ i % 3 = 1 /\ (i - 1) % 3 = 0
          \/ i % 3 = 2 /\ (i - 1) % 3 = 1
          \/ i % 3 = 0 /\ (i - 1) % 3 = 2
      BY <1>1
    <2> DEFINE q == p + (i - 1) \div 3
    <2>3. rest[i] = Chunk(q, v)[((i - 1) % 3) + 1] /\ q \in Nat
      BY <2>1
    <2>5. q \in Pages
      <3>1. Size \in Nat /\ (i - 1) \div 3 < n
        BY <1>1, QspiAssumption
      <3> QED
        BY <1>1, <2>1, <3>1 DEF Pages
    <2> HIDE DEF q, rest
    <2>4. /\ i % 3 = 1 => rest[i] = Plain("WriteEnable")
          /\ i % 3 = 2 => rest[i] = On("QuadPageProgram", q, v)
          /\ i % 3 = 0 => rest[i] = Plain("ready?")
      BY <1>2, <2>2, <2>3
    <2>6. Placed(Plain("WriteEnable")) /\ Placed(On("QuadPageProgram", q, v)) /\ Placed(Plain("ready?"))
      BY <2>5 DEF Placed, Plain, On, Changing, EraseCommands
    <2> QED
      BY <1>1, <2>2, <2>3, <2>4, <2>6, OnType
  <1>4. rest \in Wires /\ Len(rest) = 3 * n
    <2>1. 3 * n \in Nat
      BY <1>1
    <2>2. rest = [i \in 1 .. 3 * n |-> rest[i]]
      OBVIOUS
    <2> HIDE DEF rest
    <2>3. rest \in [1 .. 3 * n -> Orders]
      BY <1>3, <2>2
    <2>4. rest \in Seq(Orders)
      BY <2>1, <2>3, SeqDef
    <2> QED
      BY <2>1, <2>3, <2>4, LenProperties DEF Wires
  <1>5. w = <<Plain("WriteStatus2")>> \o rest
    BY DEF WritePlan
  <1> HIDE DEF w, rest
  <1>6. <<Plain("WriteStatus2")>> \in Wires /\ Len(<<Plain("WriteStatus2")>>) = 1
        /\ Plain("WriteStatus2").cmd = "WriteStatus2"
    BY <1>1, OnType DEF Wires
  <1>7. w \in Wires /\ Len(w) = 1 + 3 * n /\ w[1] = Plain("WriteStatus2")
        /\ \A i \in 1 .. 3 * n : w[i + 1] = rest[i]
    <2>1. w \in Wires /\ Len(w) = 1 + 3 * n /\ \A i \in 1 .. 1 + 3 * n :
            w[i] = IF i <= 1 THEN <<Plain("WriteStatus2")>>[i] ELSE rest[i - 1]
      <3> DEFINE one == <<Plain("WriteStatus2")>>
      <3>1. one \in Seq(Orders) /\ Len(one) = 1 /\ rest \in Seq(Orders) /\ w = one \o rest
        BY <1>4, <1>5, <1>6 DEF Wires
      <3> HIDE DEF one
      <3>2. w \in Seq(Orders) /\ Len(w) = 1 + Len(rest) /\ \A i \in 1 .. 1 + Len(rest) :
              w[i] = IF i <= 1 THEN one[i] ELSE rest[i - 1]
        <4>1. /\ one \o rest \in Seq(Orders) /\ Len(one \o rest) = Len(one) + Len(rest)
              /\ \A i \in 1 .. Len(one) + Len(rest) :
                   (one \o rest)[i] = IF i <= Len(one) THEN one[i] ELSE rest[i - Len(one)]
          BY <3>1, ConcatProperties
        <4> QED
          BY <3>1, <4>1
      <3> QED
        BY <1>4, <3>2 DEF one, Wires
    <2>2. \A i \in 1 .. 3 * n : i + 1 \in 1 .. 1 + 3 * n /\ ~(i + 1 <= 1) /\ (i + 1) - 1 = i
      BY <1>1
    <2>3. 1 \in 1 .. 1 + 3 * n
      BY <1>1
    <2> QED
      BY <2>1, <2>2, <2>3
  <1>8. w \in Wires /\ DOMAIN w = 1 .. 1 + 3 * n
    BY <1>7 DEF Wires
  <1>9. At(w, 1) = "WriteStatus2" /\ At(w, 3 * n + 2) = "end" /\ (3 * n) % 3 = 0
        /\ \A i \in 1 .. 3 * n : At(w, i + 1) = rest[i].cmd
    BY <1>1, <1>6, <1>7, <1>8 DEF At
  <1>10. ASSUME NEW i \in DOMAIN w
         PROVE  /\ w[i].cmd \in Used("write") /\ At(w, i + 1) \in Follow("write", w[i].cmd)
    <2>1. CASE i = 1
      <3>1. At(w, 2) = "WriteEnable" /\ w[1].cmd = "WriteStatus2"
        <4>1. 1 \in 1 .. 3 * n /\ 1 % 3 = 1 /\ 1 + 1 = 2
          BY <1>1
        <4>2. At(w, 1 + 1) = rest[1].cmd
          BY <1>9, <4>1
        <4>3. rest[1].cmd = "WriteEnable"
          BY <1>3, <4>1
        <4> QED
          BY <1>6, <1>7, <4>1, <4>2, <4>3
      <3> QED
        BY <2>1, <3>1 DEF Used, Follow, EraseCommands
    <2>2. CASE i # 1
      <3> DEFINE j == i - 1
      <3>1. j \in 1 .. 3 * n /\ i = j + 1 /\ i \in Nat /\ w[i] = rest[j]
        <4>1. i \in 1 .. 1 + 3 * n
          BY <1>8
        <4>2. j \in 1 .. 3 * n /\ i = j + 1 /\ i \in Nat
          BY <1>1, <2>2, <4>1
        <4>3. \A k \in 1 .. 3 * n : w[k + 1] = rest[k]
          BY <1>7
        <4> HIDE DEF j
        <4> QED
          BY <4>2, <4>3
      <3>2. j = 3 * n => At(w, i + 1) = "end" /\ j % 3 = 0
        BY <1>1, <1>9, <3>1
      <3>3. j # 3 * n => j + 1 \in 1 .. 3 * n /\ At(w, i + 1) = rest[j + 1].cmd
        BY <1>1, <1>9, <3>1
      <3>4. \/ j % 3 = 1 /\ (j + 1) % 3 = 2
            \/ j % 3 = 2 /\ (j + 1) % 3 = 0
            \/ j % 3 = 0 /\ (j + 1) % 3 = 1
        <4>1. j \in Nat
          BY <1>1, <3>1
        <4> HIDE DEF j
        <4> QED
          BY <4>1
      <3> HIDE DEF j
      <3> QED
        BY <1>3, <3>1, <3>2, <3>3, <3>4 DEF Used, Follow, EraseCommands
    <2> QED
      BY <2>1, <2>2
  <1>11. Ordered("write", w)
    BY <1>10 DEF Ordered
  <1>12. ASSUME NEW i \in DOMAIN w  PROVE Placed(w[i])
    <2>1. CASE i = 1
      BY <1>7, <2>1 DEF Placed, Plain, On, Changing, EraseCommands
    <2>2. CASE i # 1
      <3> DEFINE j == i - 1
      <3>1. j \in 1 .. 3 * n /\ i = j + 1
        BY <1>1, <1>8, <2>2
      <3> HIDE DEF j
      <3> QED
        BY <1>3, <1>7, <3>1
    <2> QED
      BY <2>1, <2>2
  <1> QED
    BY <1>8, <1>9, <1>11, <1>12 DEF w

-----------------------------------------------------------------------------
(* The invariant holds initially, and every step keeps it *)

LEMMA QspiInvInit == Init => QspiInv
  <1> SUFFICES ASSUME Init PROVE QspiInv
    OBVIOUS
  <1>1. wire \in Wires /\ DOMAIN wire = {} /\ At(wire, 1) = "end"
    BY DEF Init, Wires, At
  <1> QED
    BY <1>1 DEF Init, QspiInv, Ordered, BusRight, Idle

\* The driver goes on to the next command of its list.
LEMMA GoesOn ==
  ASSUME QspiInv, wire # <<>>, wire' = Tail(wire), call' = call, up' = up,
         At(wire', 1) \in Follow(call, At(wire, 1)) =>
           ~ignored' /\ wel' \in BOOLEAN /\ Ready(At(wire, 1))' /\ BusRight(At(wire, 1))'
  PROVE  QspiInv'
  <1>1. wire \in Wires /\ Ordered(call, wire) /\ call # "none"
    BY DEF QspiInv
  <1>2. wire' \in Wires /\ Ordered(call', wire') /\ At(wire', 1) \in Follow(call, At(wire, 1))
    BY <1>1, TailOrdered
  <1> QED
    BY <1>1, <1>2 DEF QspiInv

\* Where the driver is at.
LEMMA AtHead ==
  ASSUME QspiInv, wire # <<>>
  PROVE  /\ Head(wire).cmd = At(wire, 1) /\ At(wire, 1) \in Used(call) /\ call # "none"
         /\ Ready(At(wire, 1)) /\ BusRight(At(wire, 1)) /\ Head(wire) \in Orders
         /\ At(wire, 1) # "end"
  <1>1. wire \in Wires /\ Ordered(call, wire) /\ call # "none"
        /\ Ready(At(wire, 1)) /\ BusRight(At(wire, 1))
    BY DEF QspiInv
  <1>2. Head(wire).cmd = At(wire, 1) /\ At(wire, 1) \in Used(call) /\ Head(wire) \in Orders
    BY <1>1, TailOrdered
  <1>3. At(wire, 1) # "end"
    BY <1>2 DEF Used, EraseCommands
  <1> QED
    BY <1>1, <1>2, <1>3

\* A command that the chip takes.
LEMMA SendTaken ==
  ASSUME QspiInv, Send
  PROVE  /\ work = NoWork /\ bus = RightBus /\ Obey(Head(wire))
         /\ At(wire, 1) \in EraseCommands \cup {"WriteEnable", "QuadPageProgram", "WriteStatus2",
                                               "EnableReset", "Reset", "ReadId", "QuadRead"}
  <1> DEFINE c == At(wire, 1)
  <1>1. /\ c \in Commands /\ Head(wire).cmd = c /\ c \in Used(call) /\ Ready(c) /\ BusRight(c)
        /\ call # "none" /\ c # "end"
    BY AtHead DEF Send
  <1>2. c \in EraseCommands \cup {"WriteEnable", "QuadPageProgram", "WriteStatus2", "EnableReset",
                               "Reset", "ReadId", "QuadRead"}
    BY <1>1 DEF Used, Commands, RunCommands, ReadCommands, WriteCommands, EraseCommands
  <1>3. bus = RightBus /\ work = NoWork
    BY <1>1, <1>2 DEF BusRight, RightBus, Ready, Idle, EraseCommands
  <1> QED
    BY <1>2, <1>3 DEF Send

LEMMA SendStep ==
  ASSUME QspiInv, Send
  PROVE  QspiInv'
  <1> DEFINE c == At(wire, 1)
  <1>1. /\ wire # <<>> /\ wire' = Tail(wire) /\ c \in Commands /\ UNCHANGED <<up, call, bus>>
        /\ Head(wire).cmd = c /\ c \in Used(call) /\ Ready(c) /\ BusRight(c) /\ call # "none"
        /\ armed' = (c = "EnableReset") /\ wel \in BOOLEAN /\ ~ignored /\ c # "end"
    BY AtHead DEF Send, QspiInv
  <1>2. c \in EraseCommands \cup {"WriteEnable", "QuadPageProgram", "WriteStatus2", "EnableReset",
                               "Reset", "ReadId", "QuadRead"}
    BY SendTaken
  <1>3. bus = RightBus /\ work = NoWork
    BY SendTaken
  <1>4. Obey(Head(wire))
    BY SendTaken
  <1>5. SUFFICES ASSUME At(wire', 1) \in Follow(call, c)
                 PROVE  ~ignored' /\ wel' \in BOOLEAN /\ Ready(At(wire, 1))' /\ BusRight(At(wire, 1))'
    BY <1>1, GoesOn
  <1>6. c \in {"EnableReset", "Reset", "ReadId"} => call = "init"
    BY <1>1 DEF Used, EraseCommands
  <1>7. c \in EraseCommands => call = "erase"
    BY <1>1 DEF Used, EraseCommands
  <1>8. c \in {"WriteStatus2", "QuadPageProgram", "QuadRead"} => call # "erase"
    BY <1>1 DEF Used, EraseCommands
  <1>9. c = "WriteEnable" => call \in {"erase", "write"}
    BY <1>1 DEF Used, EraseCommands
  <1> HIDE DEF c
  <1>10. CASE c = "WriteEnable"
    <2>1. wel' = TRUE /\ UNCHANGED <<work, ignored>>
      BY <1>1, <1>4, <1>10 DEF Obey, Changing, EraseCommands
    <2>2. At(wire', 1) \in IF call = "erase" THEN EraseCommands ELSE {"QuadPageProgram"}
      BY <1>5, <1>10 DEF Follow, EraseCommands
    <2> QED
      BY <1>1, <1>3, <1>9, <1>10, <2>1, <2>2 DEF Ready, BusRight, RightBus, EraseCommands
  <1>11. CASE c \in EraseCommands \cup {"QuadPageProgram"}
    <2>1. wel /\ Changing(Head(wire))
      BY <1>1, <1>11 DEF Ready, Changing, EraseCommands
    <2>2. wel' = wel /\ ignored' = ignored /\ work' # NoWork
      <3>1. c \notin {"WriteEnable", "Reset", "WriteStatus2", "EnableReset", "ReadId", "QuadRead"}
        BY <1>11 DEF EraseCommands
      <3>2. /\ work' = [what |-> "change", pages |-> Target(Head(wire)), val |-> Head(wire).val]
            /\ UNCHANGED <<wel, ignored>>
        BY <1>1, <1>4, <2>1, <3>1 DEF Obey
      <3> QED
        BY <3>2 DEF NoWork
    <2>3. c \in EraseCommands => At(wire', 1) = "started?"
      BY <1>5 DEF Follow, EraseCommands
    <2>4. c = "QuadPageProgram" => At(wire', 1) = "ready?"
      BY <1>5 DEF Follow, EraseCommands
    <2> QED
      BY <1>1, <1>3, <1>7, <1>8, <1>11, <2>2, <2>3, <2>4 DEF Ready, BusRight, RightBus, EraseCommands
  <1>12. CASE c \in {"WriteStatus2", "QuadRead", "ReadId", "EnableReset"}
    <2>1. c # "EnableReset" => ~wel
      BY <1>1, <1>12 DEF Ready, Idle, EraseCommands
    <2>2. UNCHANGED <<work, wel, ignored>>
      BY <1>1, <1>4, <1>12, <2>1 DEF Obey, Changing, EraseCommands
    <2>3. /\ c = "WriteStatus2" => At(wire', 1) \in {"WriteEnable", "end"}
          /\ c = "QuadRead" => At(wire', 1) = "end"
          /\ c = "ReadId" => At(wire', 1) = "WriteStatus2"
          /\ c = "EnableReset" => At(wire', 1) = "Reset"
      BY <1>5 DEF Follow, EraseCommands
    <2>4. Ready(At(wire, 1))'
      BY <1>1, <1>3, <1>12, <2>1, <2>2, <2>3 DEF Ready, Idle, EraseCommands
    <2> QED
      BY <1>1, <1>3, <1>6, <1>8, <1>12, <2>2, <2>4 DEF BusRight, RightBus
  <1>13. CASE c = "Reset"
    <2>1. wel' = FALSE /\ ignored' = ignored /\ At(wire', 1) = "rest"
      BY <1>1, <1>4, <1>5, <1>13 DEF Obey, Ready, Follow, Changing, EraseCommands
    <2> QED
      BY <1>1, <1>3, <1>6, <1>13, <2>1 DEF Ready, BusRight, RightBus, EraseCommands
  <1> QED
    BY <1>2, <1>10, <1>11, <1>12, <1>13

LEMMA QspiInvNext == QspiInv /\ [Next]_qspiVars => QspiInv'
  <1> SUFFICES ASSUME QspiInv, [Next]_qspiVars PROVE QspiInv'
    OBVIOUS
  <1>1. CASE UNCHANGED qspiVars
    BY <1>1 DEF qspiVars, driver, chip, QspiInv, Ready, Idle, BusRight
  <1>2. ASSUME call = "none", NEW what \in {"init", "erase", "write", "read"}, NEW plan \in Wires,
               Ordered(what, plan), Call(what, plan), what = "init" \/ up,
               At(plan, 1) = CASE what = "init" -> "ready?" [] what = "erase" -> "spi"
                               [] what = "write" -> "WriteStatus2" [] what = "read" -> "QuadRead"
        PROVE  QspiInv'
    <2>1. wire' = plan /\ call' = what /\ UNCHANGED <<up, bus, work, wel, armed, ignored>>
      BY <1>2 DEF Call, chip
    <2>2. wire = <<>> /\ (up => Idle) /\ bus = "memory" /\ ~ignored /\ wel \in BOOLEAN
      BY <1>2 DEF QspiInv, BusRight
    <2>3. Ready(At(wire, 1))'
      BY <1>2, <2>1, <2>2 DEF Ready, Idle, EraseCommands
    <2>4. BusRight(At(wire, 1))'
      BY <1>2, <2>1, <2>2 DEF BusRight
    <2> QED
      BY <1>2, <2>1, <2>2, <2>3, <2>4 DEF QspiInv
  <1>3. CASE CallInit
    BY <1>2, <1>3, InitOrdered DEF CallInit, Call
  <1>4. CASE CallErase
    BY <1>2, <1>4, EraseOrdered DEF CallErase, Call
  <1>5. CASE CallWrite
    BY <1>2, <1>5, WriteOrdered DEF CallWrite, Call
  <1>6. CASE CallRead
    BY <1>2, <1>6, ReadOrdered DEF CallRead, Call
  <1>7. CASE Send
    BY <1>7, SendStep
  <1>8. CASE SwitchBus
    <2>1. wire # <<>> /\ wire' = Tail(wire) /\ UNCHANGED <<up, call, work, wel, armed, ignored>>
          /\ bus' = Head(wire).cmd /\ Head(wire).cmd \in {"spi", "memory"}
      BY <1>8 DEF SwitchBus, Now, chip
    <2>2. call = "erase" /\ Head(wire).cmd = At(wire, 1) /\ Idle /\ wel \in BOOLEAN /\ ~ignored
      BY <2>1, AtHead DEF Ready, Used, EraseCommands, QspiInv
    <2>3. /\ At(wire, 1) = "spi" => Follow(call, At(wire, 1)) = {"WriteEnable"}
          /\ At(wire, 1) = "memory" => Follow(call, At(wire, 1)) = {"end"}
      BY DEF Follow, EraseCommands
    <2>4. At(wire', 1) \in Follow(call, At(wire, 1)) => Ready(At(wire, 1))' /\ BusRight(At(wire, 1))'
      BY <2>1, <2>2, <2>3 DEF Ready, Idle, BusRight, EraseCommands
    <2> QED
      BY <2>1, <2>2, <2>4, GoesOn
  <1>9. CASE LookStarted
    <2>1. wire # <<>> /\ Head(wire).cmd = "started?" /\ UNCHANGED <<up, call, bus, work, wel, armed, ignored>>
      BY <1>9 DEF LookStarted, Now, chip
    <2>2. At(wire, 1) = "started?" /\ call = "erase" /\ bus = "spi" /\ work # NoWork
          /\ wel \in BOOLEAN /\ ~ignored
      BY <2>1, AtHead DEF Ready, BusRight, Used, EraseCommands, QspiInv
    <2>3. wire' = Tail(wire) /\ Follow(call, At(wire, 1)) = {"erased?"}
      BY <1>9, <2>2 DEF LookStarted, Follow, EraseCommands
    <2>4. At(wire', 1) \in Follow(call, At(wire, 1)) => Ready(At(wire, 1))' /\ BusRight(At(wire, 1))'
      BY <2>1, <2>2, <2>3 DEF Ready, BusRight, EraseCommands
    <2> QED
      BY <2>1, <2>2, <2>3, <2>4, GoesOn
  <1>10. CASE LookErased \/ LookReady
    <2>1. wire # <<>> /\ wire' = Tail(wire) /\ UNCHANGED <<up, call, bus, work, wel, armed, ignored>>
          /\ Head(wire).cmd \in {"erased?", "ready?", "rest"} /\ work = NoWork
      BY <1>10 DEF LookErased, LookReady, Now, chip
    <2>2. /\ Head(wire).cmd = At(wire, 1) /\ wel \in BOOLEAN /\ ~ignored
          /\ At(wire, 1) = "ready?" => call = "init" \/ ~wel
          /\ At(wire, 1) \in {"erased?", "rest"} => ~wel
          /\ At(wire, 1) = "erased?" => call = "erase"
          /\ At(wire, 1) \in {"ready?", "rest"} => call # "erase"
          /\ bus = IF call = "erase" THEN "spi" ELSE "memory"
      BY <2>1, AtHead DEF Ready, BusRight, Used, EraseCommands, QspiInv
    <2>3. /\ At(wire, 1) = "ready?" => Follow(call, At(wire, 1)) =
                IF call = "init" THEN {"EnableReset"} ELSE {"WriteEnable", "end"}
          /\ At(wire, 1) = "rest" => Follow(call, At(wire, 1)) = {"ReadId"}
          /\ At(wire, 1) = "erased?" => Follow(call, At(wire, 1)) = {"memory"}
      BY DEF Follow, EraseCommands
    <2>4. At(wire', 1) \in Follow(call, At(wire, 1)) => Ready(At(wire, 1))' /\ BusRight(At(wire, 1))'
      BY <2>1, <2>2, <2>3 DEF Ready, Idle, BusRight, EraseCommands
    <2> QED
      BY <2>1, <2>2, <2>4, GoesOn
  <1>11. CASE Return
    <2>1. call # "none" /\ wire = <<>> /\ wire' = <<>> /\ call' = "none"
          /\ UNCHANGED <<bus, work, wel, armed, ignored>>
      BY <1>11 DEF Return, chip
    <2>2. At(wire, 1) = "end" /\ wire \in Wires
      BY <2>1 DEF At, QspiInv
    <2>3. Idle /\ bus = "memory" /\ wel \in BOOLEAN /\ ~ignored
      BY <2>1, <2>2 DEF QspiInv, Ready, BusRight, EraseCommands
    <2> QED
      BY <2>1, <2>2, <2>3 DEF QspiInv, Ordered, BusRight, Idle, At
  <1>12. CASE ChipFinishes
    <2>1. work # NoWork /\ work' = NoWork /\ wel' = FALSE
          /\ UNCHANGED <<up, call, wire, bus, armed, ignored>> /\ ~Now("started?")
      BY <1>12 DEF ChipFinishes, driver
    <2>2. call # "none" => At(wire, 1) # "started?"
      <3>1. CASE wire = <<>>
        BY <3>1 DEF At
      <3>2. CASE wire # <<>>
        BY <2>1, <3>2, AtHead DEF Now
      <3> QED
        BY <3>1, <3>2
    <2>3. call # "none" => Ready(At(wire, 1))'
      BY <2>1, <2>2 DEF QspiInv, Ready, Idle, EraseCommands
    <2> QED
      BY <2>1, <2>3 DEF QspiInv, BusRight, Idle
  <1>13. CASE McuReset \/ PowerLoss
    <2>1. up' = FALSE /\ call' = "none" /\ wire' = <<>> /\ bus' = "memory" /\ ignored' = ignored
          /\ wel' \in BOOLEAN
      BY <1>13 DEF McuReset, PowerLoss, ProgramStops, QspiInv
    <2>2. wire' \in Wires /\ DOMAIN wire' = {}
      BY <2>1 DEF Wires
    <2> QED
      BY <2>1, <2>2 DEF QspiInv, Ordered, BusRight
  <1> QED
    BY <1>1, <1>3, <1>4, <1>5, <1>6, <1>7, <1>8, <1>9, <1>10, <1>11, <1>12, <1>13
    DEF Next, Calls, Drive

\* The chip takes every command.
THEOREM NothingLost == Spec => []NothingIgnored
  <1>1. QspiInv => NothingIgnored
    BY DEF QspiInv, NothingIgnored
  <1> QED
    BY <1>1, QspiInvInit, QspiInvNext, PTL DEF Spec

-----------------------------------------------------------------------------
(* The steps that a list of commands comes to *)

StoreSteps == [pages : SUBSET Pages, val : Contents \cup {"read"}]
StepLists  == Seq(StoreSteps)

LEMMA StepTyped ==
  ASSUME NEW c \in Orders, Placed(c)
  PROVE  StepOf(c) \in StepLists
  <1>1. c.val \in Contents
    BY DEF Orders, Contents
  <1>2. Changing(c) => Target(c) \subseteq Pages
    BY DEF Changing, Placed, Target, EraseCommands, Around
  <1>3. CASE Changing(c)
    BY <1>1, <1>2, <1>3 DEF StepOf, StepLists, StoreSteps
  <1>4. CASE ~Changing(c) /\ c.cmd = "QuadRead"
    BY <1>4 DEF StepOf, StepLists, StoreSteps, Placed
  <1>5. CASE ~Changing(c) /\ c.cmd # "QuadRead"
    BY <1>5 DEF StepOf, StepLists
  <1> QED
    BY <1>3, <1>4, <1>5

\* Induction over a set of numbers, for want of induction over a predicate.
LEMMA NatInSet ==
  ASSUME NEW S, 0 \in S, \A n \in Nat : n \in S => n + 1 \in S
  PROVE  Nat \subseteq S
  <1> DEFINE T == Nat \ S
             R == OpToRel(<, Nat)
  <1> SUFFICES ASSUME T # {}  PROVE FALSE
    OBVIOUS
  <1>1. IsWellFoundedOn(R, Nat)
    BY NatLessThanWellFounded
  <1>2. \A x, y \in Nat : y < x => <<y, x>> \in R
    BY DEF OpToRel
  <1> HIDE DEF R
  <1>3. PICK x \in T : \A y \in T : ~(<<y, x>> \in R)
    BY <1>1, WFMin
  <1>4. x \in Nat /\ x # 0 /\ x - 1 \in Nat /\ x - 1 < x
    OBVIOUS
  <1>5. x - 1 \in S
    BY <1>2, <1>3, <1>4
  <1> QED
    BY <1>4, <1>5

\* f collects the steps of w from its last command on: so does StepsOfLast(w), if
\* any function does.
Collects(f, w) ==
  f = [n \in 0 .. Len(w) |-> IF n = 0 THEN <<>> ELSE StepOf(w[Len(w) + 1 - n]) \o f[n - 1]]

LEMMA Collected ==
  ASSUME NEW w, \E f : Collects(f, w)
  PROVE  Collects(StepsOfLast(w), w)
  BY Zenon DEF StepsOfLast, Collects

LEMMA CollectsEach ==
  ASSUME NEW f, NEW w \in Wires, Collects(f, w)
  PROVE  /\ DOMAIN f = 0 .. Len(w) /\ f[0] = <<>>
         /\ \A n \in 1 .. Len(w) : f[n] = StepOf(w[Len(w) + 1 - n]) \o f[n - 1]
  <1>1. Len(w) \in Nat
    BY DEF Wires
  <1>2. DOMAIN f = 0 .. Len(w)
    BY Zenon DEF Collects
  <1>3. \A n \in 0 .. Len(w) : f[n] = IF n = 0 THEN <<>> ELSE StepOf(w[Len(w) + 1 - n]) \o f[n - 1]
    BY Zenon DEF Collects
  <1>4. 0 \in 0 .. Len(w) /\ \A n \in 1 .. Len(w) : n \in 0 .. Len(w) /\ n # 0
    BY <1>1
  <1> QED
    BY <1>2, <1>3, <1>4, Zenon

\* There is one such function.
LEMMA CollectsOne ==
  ASSUME NEW f, NEW g, NEW w \in Wires, Collects(f, w), Collects(g, w)
  PROVE  f = g
  <1> DEFINE S == {n \in Nat : n <= Len(w) => f[n] = g[n]}
  <1>1. Len(w) \in Nat
    BY DEF Wires
  <1>2. 0 \in S
    BY CollectsEach
  <1>3. ASSUME NEW n \in Nat, n \in S  PROVE n + 1 \in S
    <2> SUFFICES ASSUME n + 1 <= Len(w)  PROVE f[n + 1] = g[n + 1]
      OBVIOUS
    <2>1. n + 1 \in 1 .. Len(w) /\ (n + 1) - 1 = n /\ f[n] = g[n]
      BY <1>1, <1>3
    <2> QED
      BY <2>1, CollectsEach
  <1> HIDE DEF S
  <1>4. Nat \subseteq S
    BY <1>2, <1>3, NatInSet
  <1>5. \A n \in 0 .. Len(w) : f[n] = g[n]
    BY <1>1, <1>4 DEF S
  <1>6. /\ DOMAIN f = 0 .. Len(w) /\ DOMAIN g = 0 .. Len(w)
        /\ f = [n \in DOMAIN f |-> f[n]] /\ g = [n \in DOMAIN g |-> g[n]]
    <2>1. DOMAIN f = 0 .. Len(w) /\ DOMAIN g = 0 .. Len(w)
      BY CollectsEach
    <2>2. f = [n \in 0 .. Len(w) |-> f[n]] /\ g = [n \in 0 .. Len(w) |-> g[n]]
      BY Zenon DEF Collects
    <2> QED
      BY <2>1, <2>2
  <1> QED
    BY <1>5, <1>6

\* What is collected from a list without its first command.
LEMMA CollectsTail ==
  ASSUME NEW f, NEW w \in Wires, w # <<>>, Collects(f, w)
  PROVE  Collects([n \in 0 .. Len(w) - 1 |-> f[n]], Tail(w))
  <1> DEFINE g == [n \in 0 .. Len(w) - 1 |-> f[n]]
             u == Tail(w)
  <1>1. /\ Len(w) \in Nat \ {0} /\ Len(u) = Len(w) - 1
        /\ \A i \in 1 .. Len(w) - 1 : u[i] = w[i + 1]
    BY DEF Wires
  <1>2. ASSUME NEW n \in 0 .. Len(u)
        PROVE  g[n] = IF n = 0 THEN <<>> ELSE StepOf(u[Len(u) + 1 - n]) \o g[n - 1]
    <2>1. CASE n = 0
      BY <1>1, <2>1, CollectsEach
    <2>2. CASE n # 0
      <3>1. /\ n \in 1 .. Len(w) /\ n \in 0 .. Len(w) - 1 /\ n - 1 \in 0 .. Len(w) - 1
            /\ Len(u) + 1 - n \in 1 .. Len(w) - 1 /\ (Len(u) + 1 - n) + 1 = Len(w) + 1 - n
        BY <1>1, <2>2
      <3>2. u[Len(u) + 1 - n] = w[Len(w) + 1 - n]
        BY <1>1, <3>1
      <3>3. f[n] = StepOf(w[Len(w) + 1 - n]) \o f[n - 1]
        BY <3>1, CollectsEach
      <3> QED
        BY <2>2, <3>1, <3>2, <3>3
    <2> QED
      BY <2>1, <2>2
  <1>3. g = [n \in 0 .. Len(u) |-> g[n]]
    BY <1>1
  <1> HIDE DEF g, u
  <1>4. Collects(g, u)
    BY <1>2, <1>3 DEF Collects
  <1> QED
    BY <1>4 DEF g, u

\* A list of one more command.
LEMMA CollectsMore ==
  ASSUME NEW g, NEW w \in Wires, w # <<>>, Collects(g, Tail(w))
  PROVE  \E f : Collects(f, w)
  <1> DEFINE k == Len(w)
             u == Tail(w)
             f == [n \in 0 .. k |-> IF n = k THEN StepOf(w[1]) \o g[k - 1] ELSE g[n]]
  <1>1. /\ k \in Nat \ {0} /\ u \in Wires /\ Len(u) = k - 1
        /\ \A i \in 1 .. k - 1 : u[i] = w[i + 1]
    BY DEF Wires
  <1>2. /\ g[0] = <<>>
        /\ \A n \in 1 .. k - 1 : g[n] = StepOf(u[Len(u) + 1 - n]) \o g[n - 1]
    BY <1>1, CollectsEach
  <1> HIDE DEF u
  <1>3. ASSUME NEW n \in 0 .. k
        PROVE  f[n] = IF n = 0 THEN <<>> ELSE StepOf(w[k + 1 - n]) \o f[n - 1]
    <2>1. CASE n = 0
      <3>1. f[0] = g[0]
        BY <1>1
      <3> QED
        BY <1>2, <2>1, <3>1
    <2>2. CASE n = k
      <3>1. n # 0 /\ k + 1 - n = 1 /\ n - 1 \in 0 .. k /\ n - 1 # k
        BY <1>1, <2>2
      <3>2. f[n - 1] = g[k - 1] /\ f[n] = StepOf(w[1]) \o g[k - 1]
        BY <2>2, <3>1
      <3> HIDE DEF f
      <3> QED
        BY <3>1, <3>2
    <2>3. CASE n # 0 /\ n # k
      <3>1. /\ n \in 1 .. k - 1 /\ n - 1 \in 0 .. k /\ n - 1 # k
            /\ Len(u) + 1 - n \in 1 .. k - 1 /\ (Len(u) + 1 - n) + 1 = k + 1 - n
        BY <1>1, <2>3
      <3>2. u[Len(u) + 1 - n] = w[k + 1 - n]
        BY <1>1, <3>1
      <3>3. g[n] = StepOf(w[k + 1 - n]) \o g[n - 1]
        BY <1>2, <3>1, <3>2
      <3>4. f[n] = g[n] /\ f[n - 1] = g[n - 1]
        BY <2>3, <3>1
      <3> HIDE DEF f
      <3> QED
        BY <2>3, <3>3, <3>4
    <2> QED
      BY <2>1, <2>2, <2>3
  <1>4. f = [n \in 0 .. k |-> f[n]]
    OBVIOUS
  <1> HIDE DEF f
  <1>5. Collects(f, w)
    BY <1>3, <1>4 DEF Collects
  <1> QED
    BY <1>5

LEMMA CollectsExists ==
  ASSUME NEW w \in Wires
  PROVE  Collects(StepsOfLast(w), w)
  <1> DEFINE S == {n \in Nat : \A u \in Wires : Len(u) = n => \E f : Collects(f, u)}
  <1>1. 0 \in S
    <2> SUFFICES ASSUME NEW u \in Wires, Len(u) = 0  PROVE \E f : Collects(f, u)
      OBVIOUS
    <2> DEFINE f == [n \in 0 .. 0 |-> <<>>]
    <2>1. ASSUME NEW n \in 0 .. 0
          PROVE  f[n] = IF n = 0 THEN <<>> ELSE StepOf(u[0 + 1 - n]) \o f[n - 1]
      OBVIOUS
    <2>2. f = [n \in 0 .. 0 |-> f[n]]
      OBVIOUS
    <2> HIDE DEF f
    <2>3. f = [n \in 0 .. 0 |-> IF n = 0 THEN <<>> ELSE StepOf(u[0 + 1 - n]) \o f[n - 1]]
      BY <2>1, <2>2
    <2>4. Collects(f, u)
      BY <2>3 DEF Collects
    <2> QED
      BY <2>4
  <1>2. ASSUME NEW n \in Nat, n \in S  PROVE n + 1 \in S
    <2> SUFFICES ASSUME NEW u \in Wires, Len(u) = n + 1  PROVE \E f : Collects(f, u)
      OBVIOUS
    <2>1. u # <<>> /\ Tail(u) \in Wires /\ Len(Tail(u)) = n
      BY DEF Wires
    <2>2. PICK g : Collects(g, Tail(u))
      BY <1>2, <2>1
    <2> QED
      BY <2>1, <2>2, CollectsMore
  <1> HIDE DEF S
  <1>3. Nat \subseteq S
    BY <1>1, <1>2, NatInSet
  <1>4. Len(w) \in Nat
    BY DEF Wires
  <1> QED
    BY <1>3, <1>4, Collected DEF S

\* The steps of a list are those of its first command and of the rest.
LEMMA StepsMore ==
  ASSUME NEW w \in Wires
  PROVE  /\ w = <<>> => StepsOf(w) = <<>>
         /\ w # <<>> => StepsOf(w) = StepOf(Head(w)) \o StepsOf(Tail(w))
  <1> DEFINE k == Len(w)
             f == StepsOfLast(w)
  <1>1. Collects(f, w) /\ k \in Nat
    BY CollectsExists DEF Wires
  <1>2. f[0] = <<>> /\ \A n \in 1 .. k : f[n] = StepOf(w[k + 1 - n]) \o f[n - 1]
    BY <1>1, CollectsEach
  <1>3. CASE w = <<>>
    BY <1>2, <1>3 DEF StepsOf
  <1>4. CASE w # <<>>
    <2>1. Tail(w) \in Wires /\ Len(Tail(w)) = k - 1 /\ Head(w) = w[1] /\ k \in 1 .. k
          /\ k + 1 - k = 1 /\ k - 1 \in 0 .. k - 1
      BY <1>1, <1>4 DEF Wires
    <2>2. StepsOfLast(Tail(w)) = [n \in 0 .. k - 1 |-> f[n]]
      <3> DEFINE g == StepsOfLast(Tail(w))
                 h == [n \in 0 .. Len(w) - 1 |-> f[n]]
      <3>1. Collects(g, Tail(w))
        BY <2>1, CollectsExists
      <3> HIDE DEF f, g
      <3>2. Collects(h, Tail(w))
        BY <1>1, <1>4, CollectsTail
      <3> HIDE DEF h
      <3>3. g = h
        BY <2>1, <3>1, <3>2, CollectsOne
      <3> QED
        BY <3>3 DEF g, h
    <2>3. StepsOf(Tail(w)) = f[k - 1]
      BY <2>1, <2>2 DEF StepsOf
    <2>4. f[k] = StepOf(Head(w)) \o f[k - 1]
      BY <1>2, <2>1
    <2> QED
      BY <1>4, <2>3, <2>4 DEF StepsOf
  <1> QED
    BY <1>3, <1>4

LEMMA StepsTyped ==
  ASSUME NEW w \in Wires, \A i \in DOMAIN w : Placed(w[i])
  PROVE  StepsOf(w) \in StepLists
  <1> DEFINE f == StepsOfLast(w)
             S == {n \in Nat : n <= Len(w) => f[n] \in StepLists}
  <1>1. /\ Len(w) \in Nat /\ f[0] = <<>>
        /\ \A n \in 1 .. Len(w) : f[n] = StepOf(w[Len(w) + 1 - n]) \o f[n - 1]
    <2>1. Collects(f, w)
      BY CollectsExists
    <2> HIDE DEF f
    <2>2. Len(w) \in Nat
      BY DEF Wires
    <2> QED
      BY <2>1, <2>2, CollectsEach
  <1> HIDE DEF f
  <1>2. 0 \in S
    <2>1. f[0] \in StepLists
      BY <1>1, EmptySeq DEF StepLists
    <2> QED
      BY <2>1
  <1>3. ASSUME NEW n \in Nat, n \in S  PROVE n + 1 \in S
    <2> SUFFICES ASSUME n + 1 <= Len(w)  PROVE f[n + 1] \in StepLists
      OBVIOUS
    <2> DEFINE i == Len(w) + 1 - (n + 1)
    <2>1. n + 1 \in 1 .. Len(w) /\ (n + 1) - 1 = n /\ f[n] \in StepLists /\ i \in 1 .. Len(w)
      BY <1>1, <1>3
    <2>2. w[i] \in Orders /\ Placed(w[i])
      BY <2>1 DEF Wires
    <2>3. f[n + 1] = StepOf(w[i]) \o f[n]
      BY <1>1, <2>1
    <2> HIDE DEF i
    <2>4. StepOf(w[i]) \in StepLists
      BY <2>2, StepTyped
    <2> QED
      BY <2>1, <2>3, <2>4, ConcatProperties DEF StepLists
  <1> HIDE DEF S
  <1>4. Nat \subseteq S
    BY <1>2, <1>3, NatInSet
  <1> QED
    BY <1>1, <1>4 DEF S, f, StepsOf

-----------------------------------------------------------------------------
(* The state of the store *)

Works == [what : {"nothing", "reset", "status", "change"}, pages : SUBSET Pages, val : Contents]

StoreInv ==
  /\ mem \in [Pages -> Contents] /\ result \in Contents /\ up \in BOOLEAN
  /\ work \in Works /\ (work.what # "change" => work.pages = {})
  /\ \A i \in DOMAIN wire : Placed(wire[i])
  /\ call = "init" => ~up
  /\ Busy => up

LEMMA NothingTyped == NoWork \in Works /\ NoWork.what = "nothing" /\ NoWork.pages = {}
  BY DEF NoWork, Works, Contents

LEMMA StoreInvInit == Init => StoreInv
  <1> SUFFICES ASSUME Init  PROVE StoreInv
    OBVIOUS
  <1>1. wire = <<>> /\ DOMAIN wire = {}
    BY DEF Init
  <1> QED
    BY <1>1, NothingTyped DEF Init, StoreInv, Contents, Busy

LEMMA PlacedTail ==
  ASSUME NEW w \in Wires, w # <<>>, \A i \in DOMAIN w : Placed(w[i])
  PROVE  Placed(Head(w)) /\ \A i \in DOMAIN Tail(w) : Placed(Tail(w)[i])
  <1>1. /\ Len(w) \in Nat \ {0} /\ Tail(w) \in Wires /\ DOMAIN w = 1 .. Len(w) /\ Head(w) = w[1]
        /\ DOMAIN Tail(w) = 1 .. Len(w) - 1 /\ \A i \in 1 .. Len(w) - 1 : Tail(w)[i] = w[i + 1]
    BY DEF Wires
  <1>2. 1 \in 1 .. Len(w) /\ \A i \in 1 .. Len(w) - 1 : i + 1 \in 1 .. Len(w)
    BY <1>1
  <1> QED
    BY <1>1, <1>2

\* What a command that the chip takes does to its work.
LEMMA SendWork ==
  ASSUME QspiInv, StoreInv, Send
  PROVE  LET c == Head(wire) IN
         /\ work = NoWork /\ c \in Orders /\ Placed(c) /\ wire # <<>> /\ wire' = Tail(wire)
         /\ call # "none" /\ UNCHANGED <<up, call, mem>>
         /\ \/ /\ Changing(c) /\ c.cmd # "QuadRead" /\ Busy /\ result' = result
               /\ work' = [what |-> "change", pages |-> Target(c), val |-> c.val]
            \/ /\ ~Changing(c) /\ c.cmd = "QuadRead" /\ Busy /\ result' = mem[c.page] /\ work' = work
            \/ /\ ~Changing(c) /\ c.cmd # "QuadRead" /\ result' = result
               /\ work' = work \/ work' = [NoWork EXCEPT !.what = "reset"]
  <1> DEFINE c == Head(wire)
  <1>1. /\ work = NoWork /\ Obey(c) /\ c.cmd = At(wire, 1) /\ c \in Orders /\ call # "none"
        /\ c.cmd \in Used(call) /\ Ready(c.cmd) /\ wire # <<>> /\ wire' = Tail(wire)
        /\ UNCHANGED <<up, call, mem>>
        /\ result' = IF c.cmd = "QuadRead" THEN ReadBack(c.page) ELSE result
        /\ c.cmd \in EraseCommands \cup {"WriteEnable", "QuadPageProgram", "WriteStatus2",
                                        "EnableReset", "Reset", "ReadId", "QuadRead"}
    BY SendTaken, AtHead DEF Send
  <1>2. wire \in Wires /\ Placed(c)
    BY <1>1, PlacedTail DEF QspiInv, StoreInv
  <1>3. Changing(c) \/ c.cmd = "QuadRead" => Busy
    BY <1>1 DEF Changing, Used, Busy, EraseCommands
  <1> HIDE DEF c
  <1>4. CASE Changing(c)
    <2>1. wel /\ c.cmd \in EraseCommands \cup {"QuadPageProgram"}
      BY <1>1, <1>4 DEF Ready, Changing, EraseCommands
    <2>2. work' = [what |-> "change", pages |-> Target(c), val |-> c.val] /\ c.cmd # "QuadRead"
      BY <1>1, <1>4, <2>1 DEF Obey, EraseCommands
    <2> QED
      BY <1>1, <1>2, <1>3, <1>4, <2>2 DEF c
  <1>5. CASE c.cmd = "QuadRead"
    <2>1. ~Changing(c) /\ result' = mem[c.page] /\ work' = work
      BY <1>1, <1>5 DEF Changing, EraseCommands, ReadBack, Obey
    <2> QED
      BY <1>1, <1>2, <1>3, <1>5, <2>1 DEF c
  <1>6. CASE ~Changing(c) /\ c.cmd # "QuadRead"
    <2>1. c.cmd \in {"WriteEnable", "WriteStatus2", "EnableReset", "Reset", "ReadId"}
      BY <1>1, <1>6 DEF Changing
    <2>2. c.cmd = "WriteStatus2" => ~wel
      BY <1>1 DEF Ready, Idle, EraseCommands
    <2>3. work' = work \/ work' = [NoWork EXCEPT !.what = "reset"]
      BY <1>1, <1>6, <2>1, <2>2 DEF Obey, Ignored
    <2> QED
      BY <1>1, <1>2, <1>6, <2>3 DEF c
  <1> QED
    BY <1>4, <1>5, <1>6

LEMMA StoreInvNext == QspiInv /\ StoreInv /\ [Next]_qspiVars => StoreInv'
  <1> SUFFICES ASSUME QspiInv, StoreInv, [Next]_qspiVars  PROVE StoreInv'
    OBVIOUS
  <1>1. CASE UNCHANGED qspiVars
    BY <1>1 DEF qspiVars, driver, chip, StoreInv, Busy
  <1>2. CASE CallInit
    <2>1. \A i \in DOMAIN InitPlan : Placed(InitPlan[i])
      <3>1. \A c \in {"ready?", "EnableReset", "Reset", "rest", "ReadId", "WriteStatus2"} : Placed(Plain(c))
        BY DEF Placed, Plain, On, Changing, EraseCommands
      <3>2. DOMAIN InitPlan = 1 .. 6 /\ \A i \in 1 .. 6 : InitPlan[i] \in
              {Plain("ready?"), Plain("EnableReset"), Plain("Reset"), Plain("rest"),
               Plain("ReadId"), Plain("WriteStatus2")}
        BY DEF InitPlan
      <3> QED
        BY <3>1, <3>2
    <2>2. ~up /\ wire' = InitPlan /\ call' = "init" /\ UNCHANGED <<up, mem, work, result>>
      BY <1>2 DEF CallInit, Call, chip
    <2> QED
      BY <2>1, <2>2 DEF StoreInv, Busy
  <1>3. CASE Calls
    <2>1. /\ up /\ UNCHANGED <<up, mem, work, result>> /\ call' # "init"
          /\ \A i \in DOMAIN wire' : Placed(wire'[i])
      <3>1. CASE CallErase
        BY <3>1, EraseOrdered DEF CallErase, Call, chip
      <3>2. CASE CallWrite
        BY <3>2, WriteOrdered DEF CallWrite, Call, chip
      <3>3. CASE CallRead
        BY <3>3, ReadOrdered DEF CallRead, Call, chip
      <3> QED
        BY <1>3, <3>1, <3>2, <3>3 DEF Calls
    <2> QED
      BY <2>1 DEF StoreInv
  <1>4. CASE Send
    <2> DEFINE c == Head(wire)
    <2>1. /\ work = NoWork /\ c \in Orders /\ Placed(c) /\ wire # <<>> /\ wire' = Tail(wire)
          /\ UNCHANGED <<up, call, mem>>
          /\ \/ /\ Changing(c) /\ result' = result
                /\ work' = [what |-> "change", pages |-> Target(c), val |-> c.val]
             \/ /\ c.cmd = "QuadRead" /\ result' = mem[c.page] /\ work' = work
             \/ /\ result' = result
                /\ work' = work \/ work' = [NoWork EXCEPT !.what = "reset"]
      BY <1>4, SendWork
    <2>2. \A i \in DOMAIN wire' : Placed(wire'[i])
      BY <2>1, PlacedTail DEF QspiInv, StoreInv
    <2>3. result' \in Contents
      BY <2>1 DEF StoreInv, Placed
    <2>4. Changing(c) => Target(c) \subseteq Pages /\ c.val \in Contents
      BY <2>1 DEF Orders, Contents, Changing, Placed, Target, EraseCommands, Around
    <2> HIDE DEF c
    <2>5. work' \in Works /\ (work'.what # "change" => work'.pages = {})
      BY <2>1, <2>4 DEF StoreInv, Works, NoWork, Contents
    <2> QED
      BY <2>1, <2>2, <2>3, <2>5 DEF StoreInv, Busy
  <1>5. CASE SwitchBus \/ LookErased \/ LookReady
    <2>1. wire # <<>> /\ wire' = Tail(wire) /\ UNCHANGED <<up, call, mem, work, result>>
      BY <1>5 DEF SwitchBus, LookErased, LookReady, Now, chip
    <2> QED
      BY <2>1, PlacedTail DEF QspiInv, StoreInv, Busy
  <1>6. CASE LookStarted
    <2>1. wire # <<>> /\ Head(wire).cmd = "started?" /\ UNCHANGED <<up, call, mem, work, result>>
      BY <1>6 DEF LookStarted, Now, chip
    <2>2. work # NoWork
      BY <2>1, AtHead DEF Ready, EraseCommands
    <2>3. wire' = Tail(wire)
      BY <1>6, <2>2 DEF LookStarted
    <2> QED
      BY <2>1, <2>3, PlacedTail DEF QspiInv, StoreInv, Busy
  <1>7. CASE Return
    BY <1>7 DEF Return, chip, StoreInv, Busy
  <1>8. CASE ChipFinishes
    <2>1. \A p \in Pages : Write(mem[p], work.val) \in Contents /\ mem[p] \in Contents
      BY DEF StoreInv, Works, Write, Contents
    <2>2. mem' \in [Pages -> Contents]
      BY <1>8, <2>1 DEF ChipFinishes
    <2>3. work' = NoWork /\ UNCHANGED <<up, call, wire, result>>
      BY <1>8 DEF ChipFinishes, driver
    <2> QED
      BY <2>2, <2>3 DEF StoreInv, Works, NoWork, Contents, Busy
  <1>9. CASE McuReset \/ PowerLoss
    <2>1. up' = FALSE /\ call' = "none" /\ wire' = <<>> /\ result' = result
      BY <1>9 DEF McuReset, PowerLoss, ProgramStops
    <2>2. mem' \in [Pages -> Contents]
      BY <1>9 DEF McuReset, PowerLoss, StoreInv, Contents
    <2>3. work' = work \/ work' = NoWork
      BY <1>9 DEF McuReset, PowerLoss
    <2>4. DOMAIN wire' = {}
      BY <2>1
    <2> QED
      BY <2>1, <2>2, <2>3, <2>4, NothingTyped DEF StoreInv, Busy
  <1> QED
    BY <1>1, <1>2, <1>3, <1>4, <1>5, <1>6, <1>7, <1>8, <1>9 DEF Next, Drive

-----------------------------------------------------------------------------
(* Every step is one of the store *)

\* A first step, done.
LEMMA OneFirst ==
  ASSUME NEW x \in StoreSteps, NEW t \in StepLists
  PROVE  /\ <<x>> \o t # <<>> /\ <<x>> \o t \in StepLists
         /\ Head(<<x>> \o t) = x /\ Tail(<<x>> \o t) = t
  <1> DEFINE one == <<x>>
             s   == one \o t
  <1>1. one \in Seq(StoreSteps) /\ Len(one) = 1 /\ one[1] = x
    OBVIOUS
  <1> HIDE DEF one
  <1>2. /\ s \in Seq(StoreSteps) /\ Len(s) = Len(one) + Len(t)
        /\ \A i \in 1 .. Len(one) + Len(t) : s[i] = IF i <= Len(one) THEN one[i] ELSE t[i - Len(one)]
    BY <1>1, ConcatProperties DEF StepLists
  <1> HIDE DEF s
  <1>3. Len(t) \in Nat /\ t \in Seq(StoreSteps)
    BY DEF StepLists
  <1>4. s # <<>> /\ Head(s) = x
    BY <1>1, <1>2, <1>3
  <1>5. /\ Tail(s) \in Seq(StoreSteps) /\ Len(Tail(s)) = Len(t)
        /\ \A i \in 1 .. Len(t) : Tail(s)[i] = t[i]
    <2>1. /\ Tail(s) \in Seq(StoreSteps) /\ Len(Tail(s)) = Len(s) - 1
          /\ \A i \in 1 .. Len(Tail(s)) : Tail(s)[i] = s[i + 1]
      BY <1>2, <1>4, HeadTailProperties
    <2>2. Len(Tail(s)) = Len(t)
      BY <1>1, <1>2, <1>3, <2>1
    <2>3. ASSUME NEW i \in 1 .. Len(t)  PROVE s[i + 1] = t[i]
      <3>1. i + 1 \in 1 .. Len(one) + Len(t) /\ ~(i + 1 <= Len(one)) /\ (i + 1) - Len(one) = i
        BY <1>1, <1>3
      <3> QED
        BY <1>2, <3>1
    <2> QED
      BY <2>1, <2>2, <2>3
  <1>6. Tail(s) = t
    BY <1>3, <1>5, SeqEqual
  <1> QED
    BY <1>2, <1>4, <1>6 DEF one, s, StepLists

\* Before the commands that the driver still sends, the chip is at what it was told.
LEMMA AtWorkTyped ==
  ASSUME StoreInv
  PROVE  /\ work.what # "change" => AtWork = <<>>
         /\ work.what = "change" => /\ AtWork = <<[pages |-> work.pages, val |-> work.val]>>
                                    /\ [pages |-> work.pages, val |-> work.val] \in StoreSteps
                                    /\ work.val # "read"
         /\ AtWork \in StepLists
  <1>1. work.what = "change" => [pages |-> work.pages, val |-> work.val] \in StoreSteps
    BY DEF StoreInv, Works, StoreSteps
  <1>2. work.val # "read"
    BY QspiAssumption DEF StoreInv, Works, Contents
  <1>3. CASE work.what = "change"
    BY <1>1, <1>2, <1>3 DEF AtWork, StepLists
  <1>4. CASE work.what # "change"
    BY <1>4 DEF AtWork, StepLists
  <1> QED
    BY <1>3, <1>4

LEMMA TodoTyped ==
  ASSUME QspiInv, StoreInv
  PROVE  /\ Todo \in StepLists /\ StepsOf(wire) \in StepLists
         /\ Busy => Todo = AtWork \o StepsOf(wire)
         /\ ~Busy => Todo = <<>>
         /\ AtWork = <<>> /\ Busy => Todo = StepsOf(wire)
  <1>1. StepsOf(wire) \in StepLists /\ AtWork \in StepLists
    BY StepsTyped, AtWorkTyped DEF QspiInv, StoreInv
  <1>2. AtWork \o StepsOf(wire) \in StepLists
    BY <1>1, ConcatProperties DEF StepLists
  <1>3. <<>> \o StepsOf(wire) = StepsOf(wire)
    BY <1>1, ConcatEmptySeq DEF StepLists
  <1>4. <<>> \in StepLists
    BY DEF StepLists
  <1> QED
    BY <1>1, <1>2, <1>3, <1>4 DEF Todo

\* The driver goes on and the chip is at nothing else: nothing happens in the store.
LEMMA NothingNew ==
  ASSUME QspiInv, StoreInv, wire # <<>>, wire' = Tail(wire), StepOf(Head(wire)) = <<>>,
         UNCHANGED <<up, call, mem, result>>, AtWork' = AtWork
  PROVE  UNCHANGED Store!storeVars
  <1>1. StepsOf(wire) = <<>> \o StepsOf(wire')
    BY StepsMore DEF QspiInv
  <1>2. StepsOf(wire') \in StepLists
    <2>1. wire' \in Wires /\ \A i \in DOMAIN wire' : Placed(wire'[i])
      BY PlacedTail, TailOrdered DEF QspiInv, StoreInv
    <2> QED
      BY <2>1, StepsTyped
  <1>3. StepsOf(wire) = StepsOf(wire')
    BY <1>1, <1>2, ConcatEmptySeq DEF StepLists
  <1> QED
    BY <1>3 DEF Store!storeVars, Todo, Orphan, Busy

LEMMA SetOfSteps ==
  /\ ToSet(<<>>) = {}
  /\ \A s : ToSet(<<s>>) = {s}
  BY DEF ToSet

\* The change that the chip is at comes first in a call.
LEMMA FirstAtWork ==
  ASSUME QspiInv, StoreInv, Busy, work.what = "change",
         NEW s, s = [pages |-> work.pages, val |-> work.val]
  PROVE  /\ Todo # <<>> /\ Head(Todo) = s /\ Tail(Todo) = StepsOf(wire)
         /\ s.val # "read" /\ Store!FirstChange(Todo) = {s}
  <1>1. AtWork = <<s>> /\ s \in StoreSteps /\ s.val # "read"
    BY AtWorkTyped
  <1>2. Todo = <<s>> \o StepsOf(wire) /\ StepsOf(wire) \in StepLists
    BY <1>1, TodoTyped
  <1>3. Todo # <<>> /\ Head(Todo) = s /\ Tail(Todo) = StepsOf(wire)
    BY <1>1, <1>2, OneFirst
  <1>4. Store!Changes(<<s>>) = {s}
    <2>1. {<<s>>[i] : i \in DOMAIN <<s>>} = {s}
      BY SetOfSteps DEF ToSet
    <2> QED
      BY <1>1, <2>1 DEF Store!Changes
  <1>5. Store!FirstChange(Todo) = {s}
    BY <1>3, <1>4 DEF Store!FirstChange
  <1> QED
    BY <1>1, <1>3, <1>5

LEMMA SendStores ==
  ASSUME QspiInv, StoreInv, Send
  PROVE  Store!Perform \/ UNCHANGED Store!storeVars
  <1> DEFINE c == Head(wire)
  <1>1. /\ work = NoWork /\ c \in Orders /\ Placed(c) /\ wire # <<>> /\ wire' = Tail(wire)
        /\ call # "none" /\ UNCHANGED <<up, call, mem>>
        /\ \/ /\ Changing(c) /\ c.cmd # "QuadRead" /\ Busy /\ result' = result
              /\ work' = [what |-> "change", pages |-> Target(c), val |-> c.val]
           \/ /\ ~Changing(c) /\ c.cmd = "QuadRead" /\ Busy /\ result' = mem[c.page] /\ work' = work
           \/ /\ ~Changing(c) /\ c.cmd # "QuadRead" /\ result' = result
              /\ work' = work \/ work' = [NoWork EXCEPT !.what = "reset"]
    BY SendWork
  <1>2. wire \in Wires /\ StepsOf(wire) = StepOf(c) \o StepsOf(wire')
    BY <1>1, StepsMore DEF QspiInv
  <1>3. StepsOf(wire') \in StepLists
    <2>1. wire' \in Wires /\ \A i \in DOMAIN wire' : Placed(wire'[i])
      BY <1>1, PlacedTail, TailOrdered DEF QspiInv, StoreInv
    <2> QED
      BY <2>1, StepsTyped
  <1>4. AtWork = <<>> /\ (Busy => Todo = StepsOf(wire)) /\ (~Busy => Todo = <<>>)
    BY <1>1, AtWorkTyped, NothingTyped, TodoTyped
  <1>5. <<>> \o StepsOf(wire') = StepsOf(wire')
    BY <1>3, ConcatEmptySeq DEF StepLists
  <1>6. Busy' = Busy
    BY <1>1 DEF Busy
  <1>7. CASE Changing(c)
    <2>1. StepOf(c) = <<[pages |-> Target(c), val |-> c.val]>>
      BY <1>7 DEF StepOf
    <2>2. /\ Busy /\ UNCHANGED <<up, call, mem, result>>
          /\ work' = [what |-> "change", pages |-> Target(c), val |-> c.val]
      BY <1>1, <1>7
    <2> HIDE DEF c
    <2>3. AtWork' = StepOf(c)
      BY <2>1, <2>2 DEF AtWork
    <2>4. Todo' = Todo
      BY <1>2, <1>4, <1>6, <2>2, <2>3 DEF Todo
    <2> QED
      BY <1>6, <2>2, <2>4 DEF Store!storeVars, Orphan
  <1>8. CASE c.cmd = "QuadRead"
    <2> DEFINE x == [pages |-> {c.page}, val |-> "read"]
    <2>1. ~Changing(c) /\ Busy /\ result' = mem[c.page] /\ UNCHANGED <<up, call, mem, work>>
      BY <1>1, <1>8
    <2>2. StepOf(c) = <<x>> /\ x \in StoreSteps
      BY <1>1, <1>8, <2>1 DEF StepOf, StoreSteps, Placed
    <2>3. x.val = "read" /\ c.page \in x.pages
      OBVIOUS
    <2> HIDE DEF c, x
    <2>4. Todo = <<x>> \o StepsOf(wire')
      BY <1>2, <1>4, <2>1, <2>2
    <2>5. Todo # <<>> /\ Head(Todo) = x /\ Tail(Todo) = StepsOf(wire')
      BY <1>3, <2>2, <2>4, OneFirst
    <2>6. AtWork' = <<>>
      BY <1>4, <2>1 DEF AtWork
    <2>7. Todo' = StepsOf(wire')
      BY <1>5, <1>6, <2>1, <2>6 DEF Todo
    <2> QED
      BY <1>6, <2>1, <2>3, <2>5, <2>7 DEF Store!Perform, Orphan
  <1>9. CASE ~Changing(c) /\ c.cmd # "QuadRead"
    <2>1. StepOf(c) = <<>> /\ work'.what # "change" /\ result' = result
      BY <1>1, <1>9, NothingTyped DEF StepOf, NoWork
    <2>2. AtWork' = AtWork
      BY <1>4, <2>1 DEF AtWork
    <2> QED
      BY <1>1, <2>1, <2>2, NothingNew
  <1> QED
    BY <1>7, <1>8, <1>9

LEMMA FinishStores ==
  ASSUME QspiInv, StoreInv, ChipFinishes
  PROVE  Store!Perform \/ Store!Late \/ UNCHANGED Store!storeVars
  <1> DEFINE s == [pages |-> work.pages, val |-> work.val]
  <1>1. /\ work' = NoWork /\ UNCHANGED <<up, call, wire, result>>
        /\ mem' = [p \in Pages |-> IF p \in work.pages THEN Write(mem[p], work.val) ELSE mem[p]]
    BY DEF ChipFinishes, driver
  <1>2. AtWork' = <<>> /\ Busy' = Busy
    BY <1>1, NothingTyped DEF AtWork, Busy
  <1>3. StepsOf(wire) \in StepLists /\ <<>> \o StepsOf(wire) = StepsOf(wire)
    BY TodoTyped, ConcatEmptySeq DEF StepLists
  <1>4. Busy => Todo' = StepsOf(wire)
    BY <1>1, <1>2, <1>3 DEF Todo
  <1>5. ~Busy => Todo = <<>> /\ Todo' = <<>> /\ Orphan' = {}
    BY <1>2, SetOfSteps DEF Todo, Orphan
  <1>6. mem' = Store!Applied(mem, s)
    BY <1>1 DEF Store!Applied
  <1>7. CASE work.what = "change" /\ Busy
    <2>1. Todo # <<>> /\ Head(Todo) = s /\ Tail(Todo) = StepsOf(wire) /\ s.val # "read"
      BY <1>7, FirstAtWork
    <2> HIDE DEF s
    <2>2. Store!Perform
      BY <1>1, <1>2, <1>4, <1>6, <1>7, <2>1 DEF Store!Perform, Orphan
    <2> QED
      BY <2>2
  <1>8. CASE work.what = "change" /\ ~Busy
    <2>1. Orphan = {s}
      BY <1>8, AtWorkTyped, SetOfSteps DEF Orphan
    <2> HIDE DEF s
    <2>2. Store!Late
      BY <1>1, <1>2, <1>5, <1>6, <1>8, <2>1 DEF Store!Late
    <2> QED
      BY <2>2
  <1>9. CASE work.what # "change"
    <2>1. AtWork = <<>> /\ work.pages = {} /\ mem = [p \in Pages |-> mem[p]]
      BY <1>9, AtWorkTyped DEF StoreInv
    <2>2. mem' = mem
      BY <1>1, <2>1
    <2>3. Todo' = Todo /\ Orphan' = Orphan
      BY <1>1, <1>2, <2>1 DEF Todo, Orphan
    <2> QED
      BY <1>1, <1>2, <2>2, <2>3 DEF Store!storeVars
  <1> QED
    BY <1>7, <1>8, <1>9

\* A call is begun when the chip is at nothing.
LEMMA CallStores ==
  ASSUME QspiInv, StoreInv, Calls
  PROVE  Store!Begin
  <1>1. ASSUME NEW what \in {"erase", "write", "read"}, NEW plan \in Wires, up, Call(what, plan),
               \A i \in DOMAIN plan : Placed(plan[i])
        PROVE  Store!Begin
    <2>1. /\ call = "none" /\ call' = what /\ wire' = plan
          /\ UNCHANGED <<up, mem, work, result>>
      BY <1>1 DEF Call, chip
    <2>2. work = NoWork
      BY <1>1, <2>1 DEF QspiInv, Idle
    <2>3. AtWork = <<>> /\ AtWork' = <<>>
      BY <2>1, <2>2, NothingTyped DEF AtWork
    <2>4. StepsOf(plan) \in StepLists /\ <<>> \o StepsOf(plan) = StepsOf(plan)
      BY <1>1, StepsTyped, ConcatEmptySeq DEF StepLists
    <2>5. ~Busy /\ Busy'
      BY <1>1, <2>1 DEF Busy
    <2>6. Todo' = StepsOf(plan)
      BY <2>1, <2>3, <2>4, <2>5 DEF Todo
    <2>7. Orphan' = {}
      BY <2>5 DEF Orphan
    <2> QED
      BY <1>1, <2>1, <2>4, <2>5, <2>6, <2>7 DEF Store!Begin, Store!Steps, StepLists, StoreSteps
  <1>2. CASE CallErase
    BY <1>1, <1>2, EraseOrdered DEF CallErase
  <1>3. CASE CallWrite
    BY <1>1, <1>3, WriteOrdered DEF CallWrite
  <1>4. CASE CallRead
    BY <1>1, <1>4, ReadOrdered DEF CallRead
  <1> QED
    BY <1>2, <1>3, <1>4 DEF Calls

LEMMA ReturnStores ==
  ASSUME QspiInv, StoreInv, Return
  PROVE  Store!GetReady \/ Store!Return
  <1>1. /\ call # "none" /\ wire = <<>> /\ call' = "none" /\ up' = (up \/ call = "init")
        /\ UNCHANGED <<wire, mem, work, result>>
    BY DEF Return, chip
  <1>2. ~Busy' /\ AtWork' = AtWork /\ Todo' = <<>> /\ Orphan' = ToSet(AtWork)
    BY <1>1 DEF Busy, AtWork, Todo, Orphan
  <1>3. At(wire, 1) = "end" /\ wire \in Wires
    BY <1>1 DEF At, QspiInv
  <1>4. work = NoWork
    BY <1>1, <1>3 DEF QspiInv, Ready, Idle, EraseCommands
  <1>5. AtWork = <<>> /\ Orphan' = {} /\ Orphan = {}
    BY <1>2, <1>4, NothingTyped, SetOfSteps DEF AtWork, Orphan
  <1>6. CASE call = "init"
    <2>1. ~up /\ up' = TRUE /\ ~Busy /\ Todo = <<>>
      BY <1>1, <1>6 DEF StoreInv, Busy, Todo
    <2>2. Busy' = Busy /\ Todo' = Todo /\ Orphan' = Orphan
      BY <1>1, <1>2, <1>5, <1>6, <2>1 DEF Busy
    <2> QED
      BY <1>1, <2>1, <2>2 DEF Store!GetReady
  <1>7. CASE call # "init"
    <2>1. Busy /\ up' = up
      BY <1>1, <1>7 DEF StoreInv, Busy
    <2>2. Todo = <<>>
      <3>1. Todo = StepsOf(wire) /\ StepsOf(wire) = <<>>
        BY <1>1, <1>3, <1>5, <2>1, TodoTyped, StepsMore
      <3> QED
        BY <3>1
    <2> QED
      BY <1>1, <1>2, <1>5, <2>1, <2>2 DEF Store!Return
  <1> QED
    BY <1>6, <1>7

\* What a reset or a loss of power leaves of a call.
LEMMA StopStores ==
  ASSUME QspiInv, StoreInv, McuReset \/ PowerLoss
  PROVE  Store!Stop \/ Store!LosePower
  <1> DEFINE s == [pages |-> work.pages, val |-> work.val]
  <1>1. up' = FALSE /\ call' = "none" /\ result' = result
    BY DEF McuReset, PowerLoss, ProgramStops
  <1>2. ~Busy' /\ Todo' = <<>> /\ Orphan' = ToSet(AtWork')
    BY <1>1 DEF Busy, Todo, Orphan
  <1>3. /\ work.what = "change" => AtWork = <<s>>
        /\ work.what # "change" => AtWork = <<>>
    BY AtWorkTyped
  <1>4. Busy /\ work.what = "change" => Store!FirstChange(Todo) = {s}
    BY FirstAtWork
  <1>5. CASE McuReset
    <2>1. mem' = mem /\ work' = IF work.what = "reset" THEN NoWork ELSE work
      BY <1>5 DEF McuReset
    <2>2. work.what # "change" => Orphan' = {}
      BY <1>2, <2>1, NothingTyped, SetOfSteps DEF AtWork
    <2>3. work.what = "change" => Orphan' = {s}
      BY <1>2, <1>3, <2>1, SetOfSteps DEF AtWork
    <2>4. ~Busy /\ work.what = "change" => Orphan = {s}
      BY <1>3, SetOfSteps DEF Orphan
    <2> HIDE DEF s
    <2>5. Orphan' \in {{}, Orphan, Store!FirstChange(Todo)}
      BY <1>4, <2>2, <2>3, <2>4
    <2> QED
      BY <1>1, <1>2, <2>1, <2>5 DEF Store!Stop
  <1>6. CASE PowerLoss
    <2>1. /\ mem' = [p \in Pages |-> IF p \in work.pages THEN "torn" ELSE mem[p]]
          /\ work' = NoWork
      BY <1>6 DEF PowerLoss
    <2>2. Orphan' = {}
      BY <1>2, <2>1, NothingTyped, SetOfSteps DEF AtWork
    <2>3. CASE work.what = "change"
      <3>1. mem' = Store!TornBy(mem, s)
        BY <2>1 DEF Store!TornBy
      <3>2. s \in Orphan \cup Store!FirstChange(Todo)
        BY <1>3, <1>4, <2>3, SetOfSteps DEF Orphan
      <3> HIDE DEF s
      <3> QED
        BY <1>1, <1>2, <2>2, <3>1, <3>2 DEF Store!LosePower
    <2>4. CASE work.what # "change"
      <3>1. mem' = mem
        BY <2>1, <2>4 DEF StoreInv
      <3> QED
        BY <1>1, <1>2, <2>2, <3>1 DEF Store!LosePower
    <2> QED
      BY <2>3, <2>4
  <1> QED
    BY <1>5, <1>6

LEMMA StoreStep ==
  ASSUME QspiInv, StoreInv, [Next]_qspiVars
  PROVE  [Store!Next]_(Store!storeVars)
  <1>1. CASE UNCHANGED qspiVars
    BY <1>1 DEF qspiVars, driver, chip, Store!storeVars, Todo, Orphan, Busy, AtWork
  <1>2. CASE CallInit
    <2>1. call = "none" /\ call' = "init" /\ UNCHANGED <<up, mem, work, result>>
      BY <1>2 DEF CallInit, Call, chip
    <2> QED
      BY <2>1 DEF Store!storeVars, Todo, Orphan, Busy, AtWork
  <1>3. CASE Calls
    BY <1>3, CallStores DEF Store!Next
  <1>4. CASE Send
    BY <1>4, SendStores DEF Store!Next
  <1>5. CASE SwitchBus \/ LookErased \/ LookReady
    <2>1. /\ wire # <<>> /\ wire' = Tail(wire) /\ UNCHANGED <<up, call, mem, work, result>>
          /\ Head(wire).cmd \in {"spi", "memory", "erased?", "ready?", "rest"}
      BY <1>5 DEF SwitchBus, LookErased, LookReady, Now, chip
    <2>2. StepOf(Head(wire)) = <<>> /\ AtWork' = AtWork
      BY <2>1 DEF StepOf, Changing, EraseCommands, AtWork
    <2> QED
      BY <2>1, <2>2, NothingNew
  <1>6. CASE LookStarted
    <2>1. wire # <<>> /\ Head(wire).cmd = "started?" /\ UNCHANGED <<up, call, mem, work, result>>
      BY <1>6 DEF LookStarted, Now, chip
    <2>2. work # NoWork
      BY <2>1, AtHead DEF Ready, EraseCommands
    <2>3. wire' = Tail(wire)
      BY <1>6, <2>2 DEF LookStarted
    <2>4. StepOf(Head(wire)) = <<>> /\ AtWork' = AtWork
      BY <2>1 DEF StepOf, Changing, EraseCommands, AtWork
    <2> QED
      BY <2>1, <2>3, <2>4, NothingNew
  <1>7. CASE Return
    BY <1>7, ReturnStores DEF Store!Next
  <1>8. CASE ChipFinishes
    BY <1>8, FinishStores DEF Store!Next
  <1>9. CASE McuReset \/ PowerLoss
    BY <1>9, StopStores DEF Store!Next
  <1> QED
    BY <1>1, <1>2, <1>3, <1>4, <1>5, <1>6, <1>7, <1>8, <1>9 DEF Next, Drive

LEMMA StoreStart == Init => Store!Init
  <1> SUFFICES ASSUME Init  PROVE Store!Init
    OBVIOUS
  <1>1. ~Busy /\ Todo = <<>> /\ AtWork = <<>>
    BY NothingTyped DEF Init, Busy, Todo, AtWork
  <1>2. Orphan = {}
    BY <1>1, SetOfSteps DEF Orphan
  <1> QED
    BY <1>1, <1>2, StoreInvInit DEF Init, Store!Init, StoreInv

\* The driver and the chip implement the abstract store: for every call, of any
\* length, at any place, and whatever resets come in the middle, the flash changes
\* as the call says, in that order, and in no other way.
THEOREM StoreImplemented == Spec => StoresAsAsked
  <1>1. Init => QspiInv /\ StoreInv
    BY QspiInvInit, StoreInvInit
  <1>2. QspiInv /\ StoreInv /\ [Next]_qspiVars => (QspiInv /\ StoreInv)'
    BY QspiInvNext, StoreInvNext
  <1>3. QspiInv /\ StoreInv /\ [Next]_qspiVars => [Store!Next]_(Store!storeVars)
    BY StoreStep
  <1> QED
    BY <1>1, <1>2, <1>3, StoreStart, PTL DEF Spec, StoresAsAsked, Store!Safety
=============================================================================
