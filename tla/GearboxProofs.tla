------------------------------ MODULE GearboxProofs ------------------------------
(***************************************************************************)
(* The safety properties of the gearbox task for every calibration, every   *)
(* content of the database, channels of any size and any number of faults.  *)
(* Each has its own inductive invariant, with one step of the proof for the *)
(* actions that can disturb it and one for all that cannot.                 *)
(*                                                                          *)
(* The first two parts are about the modules it extends: calibrations come  *)
(* in the order in which they are asked for, each with what the database    *)
(* holds; maps stay between their values, and filters between the old and   *)
(* the new one.  A later part is about Tle8242: what the recursively        *)
(* defined PlanUpTo and After come to, by induction over their arguments.   *)
(***************************************************************************)
EXTENDS Gearbox, SequenceTheorems, WellFoundedInduction, TLAPS

-----------------------------------------------------------------------------
(* The storage of calibrations (CalStorage) *)

Values  == {"valid", "invalid", "default"}
Answers == [cal : Cals, val : Values]

\* k calibrations have been received; the next are in the responses, one is with the
\* commander if it is busy, and the others are requests.
Busy(comm) == IF comm.at \in {"read", "send"} THEN 1 ELSE 0

Ordered(k, sent, requests, comm, responses, received) ==
  /\ \A i \in 1 .. 4 : received[CalOrder[i]] # Unset <=> i <= k
  /\ \A j \in 1 .. Len(responses) : responses[j].cal = CalOrder[k + j]
  /\ Busy(comm) = 1 => comm.cal = CalOrder[k + Len(responses) + 1]
  /\ \A j \in 1 .. Len(requests) : requests[j] = CalOrder[k + Len(responses) + Busy(comm) + j]
  /\ k + Len(responses) + Busy(comm) + Len(requests) = sent
  /\ comm.at = "mount" => k = 0 /\ Len(responses) = 0

CalTypes ==
  /\ db \in [Cals -> Contents] /\ calState \in 0 .. 4
  /\ cmds \in Seq(Cals) /\ resps \in Seq(Answers) /\ cals \in [Cals -> Values \cup {Unset}]
  /\ commander.at \in {"mount", "receive", "read", "send"} /\ commander.cal \in Cals

\* Everything on its way, and everything that has come, is what the database holds.
AsStored ==
  /\ \A c \in Cals : cals[c] # Unset => cals[c] = GetKey(c)
  /\ \A j \in 1 .. Len(resps) : resps[j].val = GetKey(resps[j].cal)
  /\ commander.at = "send" => commander.val = GetKey(commander.cal)

InOrder == \E k \in 0 .. 4 : Ordered(k, calState, cmds, commander, resps, cals)

CalInv == CalTypes /\ AsStored /\ InOrder

-----------------------------------------------------------------------------

LEMMA OrderIsOne ==
  /\ \A i \in 1 .. 4 : CalOrder[i] \in Cals
  /\ \A i, j \in 1 .. 4 : CalOrder[i] = CalOrder[j] => i = j
  /\ \A c \in Cals : \E i \in 1 .. 4 : c = CalOrder[i]
  <1>1. \A i, j \in 1 .. 4 : CalOrder[i] = CalOrder[j] => i = j
    BY DEF CalOrder
  <1> QED
    BY <1>1 DEF Cals

LEMMA KeyValues ==
  ASSUME CalTypes, NEW c \in Cals
  PROVE  GetKey(c) \in Values /\ GetKey(c) # Unset
  BY DEF CalTypes, GetKey, Values, Contents, Unset

LEMMA CalInvInit == CalInit /\ db \in [Cals -> Contents] => CalInv
  <1> SUFFICES ASSUME CalInit, db \in [Cals -> Contents] PROVE CalInv
    OBVIOUS
  <1>1. "mech" \in Cals
    BY DEF Cals, CalOrder
  <1>2. CalTypes
    BY <1>1 DEF CalTypes, CalInit, At
  <1>3. AsStored
    BY DEF AsStored, CalInit, At
  <1>4. Ordered(0, calState, cmds, commander, resps, cals)
    BY OrderIsOne DEF Ordered, CalInit, At, Busy
  <1> QED
    BY <1>2, <1>3, <1>4 DEF CalInv, InOrder

-----------------------------------------------------------------------------
(* The commander *)

LEMMA MountKeeps == CalInv /\ Mount => CalInv'
  <1> SUFFICES ASSUME CalInv, Mount PROVE CalInv'
    OBVIOUS
  <1>1. "mech" \in Cals
    BY DEF Cals, CalOrder
  <1>2. /\ commander.at = "mount" /\ commander'.at = "receive" /\ commander'.cal = "mech"
        /\ UNCHANGED <<db, calState, cmds, resps, cals>>
    BY DEF Mount, At
  <1>3. CalTypes'
    BY <1>1, <1>2 DEF CalInv, CalTypes
  <1>4. AsStored'
    BY <1>2 DEF CalInv, AsStored, GetKey
  <1>5. PICK k \in 0 .. 4 : Ordered(k, calState, cmds, commander, resps, cals)
    BY DEF CalInv, InOrder
  <1>6. Ordered(k, calState, cmds, commander, resps, cals)'
    BY <1>2, <1>5 DEF Ordered, Busy
  <1> QED
    BY <1>3, <1>4, <1>6 DEF CalInv, InOrder

LEMMA ReceiveKeeps == CalInv /\ ReceiveCmd => CalInv'
  <1> SUFFICES ASSUME CalInv, ReceiveCmd PROVE CalInv'
    OBVIOUS
  <1>1. /\ commander.at = "receive" /\ cmds # <<>> /\ cmds' = Tail(cmds)
        /\ commander'.at = "read" /\ commander'.cal = Head(cmds)
        /\ UNCHANGED <<db, calState, resps, cals>>
    BY DEF ReceiveCmd, At
  <1>2. cmds \in Seq(Cals) /\ resps \in Seq(Answers)
    BY DEF CalInv, CalTypes
  <1>3. /\ Head(cmds) \in Cals /\ cmds' \in Seq(Cals) /\ Len(cmds') = Len(cmds) - 1
        /\ \A j \in 1 .. Len(cmds') : cmds'[j] = cmds[j + 1]
    BY <1>1, <1>2, HeadTailProperties
  <1>4. Head(cmds) = cmds[1] /\ Len(cmds) \in Nat \ {0} /\ Len(resps) \in Nat
    BY <1>1, <1>2, EmptySeq, LenProperties
  <1>5. CalTypes'
    BY <1>1, <1>3 DEF CalInv, CalTypes
  <1>6. AsStored'
    BY <1>1 DEF CalInv, AsStored, GetKey
  <1>7. PICK k \in 0 .. 4 : Ordered(k, calState, cmds, commander, resps, cals)
    BY DEF CalInv, InOrder
  <1>8. Ordered(k, calState, cmds, commander, resps, cals)'
    <2>1. Busy(commander) = 0 /\ Busy(commander') = 1
      BY <1>1 DEF Busy
    <2>2. /\ \A j \in 1 .. Len(cmds) : cmds[j] = CalOrder[k + Len(resps) + j]
          /\ k + Len(resps) + Len(cmds) = calState
      BY <1>4, <1>7, <2>1 DEF Ordered
    <2>3. commander'.cal = CalOrder[k + Len(resps) + 1]
      BY <1>1, <1>4, <2>2
    <2>4. \A j \in 1 .. Len(cmds') : cmds'[j] = CalOrder[k + Len(resps) + 1 + j]
      <3> SUFFICES ASSUME NEW j \in 1 .. Len(cmds')
                   PROVE  cmds'[j] = CalOrder[k + Len(resps) + 1 + j]
        OBVIOUS
      <3>1. j + 1 \in 1 .. Len(cmds) /\ cmds'[j] = cmds[j + 1]
        BY <1>3, <1>4
      <3>2. cmds[j + 1] = CalOrder[k + Len(resps) + (j + 1)]
        BY <2>2, <3>1
      <3>3. k + Len(resps) + (j + 1) = k + Len(resps) + 1 + j
        BY <1>4, <3>1
      <3> QED
        BY <3>1, <3>2, <3>3
    <2>5. k + Len(resps) + 1 + Len(cmds') = calState
      BY <1>3, <1>4, <2>2
    <2> QED
      BY <1>1, <1>7, <2>1, <2>3, <2>4, <2>5 DEF Ordered
  <1> QED
    BY <1>5, <1>6, <1>8 DEF CalInv, InOrder

LEMMA ReadKeeps == CalInv /\ ReadKey => CalInv'
  <1> SUFFICES ASSUME CalInv, ReadKey PROVE CalInv'
    OBVIOUS
  <1>1. /\ commander.at = "read" /\ commander'.at = "send" /\ commander'.cal = commander.cal
        /\ commander'.val = GetKey(commander.cal)
        /\ UNCHANGED <<db, calState, cmds, resps, cals>>
    BY DEF ReadKey, At
  <1>2. CalTypes' /\ AsStored'
    BY <1>1 DEF CalInv, CalTypes, AsStored, GetKey
  <1>3. InOrder'
    BY <1>1 DEF CalInv, InOrder, Ordered, Busy
  <1> QED
    BY <1>2, <1>3 DEF CalInv

LEMMA SendKeeps == CalInv /\ SendResp => CalInv'
  <1> SUFFICES ASSUME CalInv, SendResp PROVE CalInv'
    OBVIOUS
  <1> DEFINE a == [cal |-> commander.cal, val |-> commander.val]
  <1>1. /\ commander.at = "send" /\ commander'.at = "receive" /\ commander'.cal = "mech"
        /\ resps' = Append(resps, a)
        /\ UNCHANGED <<db, calState, cmds, cals>>
    BY DEF SendResp, At
  <1>2. /\ commander.cal \in Cals /\ commander.val = GetKey(commander.cal)
        /\ resps \in Seq(Answers) /\ cmds \in Seq(Cals)
    BY <1>1 DEF CalInv, CalTypes, AsStored
  <1>3. /\ a \in Answers /\ a.cal = commander.cal /\ a.val = GetKey(commander.cal)
    BY <1>2, KeyValues DEF CalInv, Answers
  <1> HIDE DEF a
  <1>4. /\ resps' \in Seq(Answers) /\ Len(resps') = Len(resps) + 1
        /\ \A j \in 1 .. Len(resps) : resps'[j] = resps[j]
        /\ resps'[Len(resps) + 1] = a /\ Len(resps) \in Nat /\ Len(cmds) \in Nat
    BY <1>1, <1>2, <1>3, AppendProperties, LenProperties
  <1>5. "mech" \in Cals
    BY DEF Cals, CalOrder
  <1>6. CalTypes'
    BY <1>1, <1>4, <1>5 DEF CalInv, CalTypes
  <1>7. AsStored'
    <2>1. \A j \in 1 .. Len(resps') : resps'[j].val = GetKey(resps'[j].cal)
      <3> SUFFICES ASSUME NEW j \in 1 .. Len(resps')
                   PROVE  resps'[j].val = GetKey(resps'[j].cal)
        OBVIOUS
      <3>1. CASE j \in 1 .. Len(resps)
        BY <1>4, <3>1 DEF CalInv, AsStored
      <3>2. CASE j = Len(resps) + 1
        BY <1>3, <1>4, <3>2
      <3> QED
        BY <1>4, <3>1, <3>2
    <2> QED
      BY <1>1, <2>1 DEF CalInv, AsStored, GetKey
  <1>8. PICK k \in 0 .. 4 : Ordered(k, calState, cmds, commander, resps, cals)
    BY DEF CalInv, InOrder
  <1>9. Ordered(k, calState, cmds, commander, resps, cals)'
    <2>1. Busy(commander) = 1 /\ Busy(commander') = 0
      BY <1>1 DEF Busy
    <2>2. \A j \in 1 .. Len(resps') : resps'[j].cal = CalOrder[k + j]
      <3> SUFFICES ASSUME NEW j \in 1 .. Len(resps') PROVE resps'[j].cal = CalOrder[k + j]
        OBVIOUS
      <3>1. CASE j \in 1 .. Len(resps)
        BY <1>4, <1>8, <3>1 DEF Ordered
      <3>2. CASE j = Len(resps) + 1
        <4>1. resps'[j].cal = CalOrder[k + Len(resps) + 1]
          BY <1>3, <1>4, <1>8, <2>1, <3>2 DEF Ordered
        <4>2. k + Len(resps) + 1 = k + j
          BY <1>4, <3>2
        <4> QED
          BY <4>1, <4>2
      <3> QED
        BY <1>4, <3>1, <3>2
    <2>3. \A j \in 1 .. Len(cmds') : cmds'[j] = CalOrder[k + Len(resps') + 0 + j]
      <3> SUFFICES ASSUME NEW j \in 1 .. Len(cmds)
                   PROVE  cmds[j] = CalOrder[k + Len(resps') + 0 + j]
        BY <1>1
      <3>1. cmds[j] = CalOrder[k + Len(resps) + 1 + j]
        BY <1>8, <2>1 DEF Ordered
      <3>2. k + Len(resps) + 1 + j = k + Len(resps') + 0 + j
        BY <1>4
      <3> QED
        BY <3>1, <3>2
    <2>4. k + Len(resps') + 0 + Len(cmds') = calState
      BY <1>1, <1>4, <1>8, <2>1 DEF Ordered
    <2> QED
      BY <1>1, <1>8, <2>1, <2>2, <2>3, <2>4 DEF Ordered
  <1> QED
    BY <1>6, <1>7, <1>9 DEF CalInv, InOrder

LEMMA CommanderKeeps == CalInv /\ Commander => CalInv' /\ UNCHANGED <<db, cals>>
  <1>1. Commander => UNCHANGED <<db, cals>>
    BY DEF Commander, Mount, ReceiveCmd, ReadKey, SendResp
  <1> QED
    BY <1>1, MountKeeps, ReceiveKeeps, ReadKeeps, SendKeeps DEF Commander

-----------------------------------------------------------------------------
(* The polls of the gearbox task *)

\* A request that is sent is the next in order.
LEMMA RequestKeepsOrder ==
  ASSUME NEW k \in 0 .. 4, CalTypes, Ordered(k, calState, cmds, commander, resps, cals),
         PollSends
  PROVE  /\ calState' \in 0 .. 4 /\ cmds' \in Seq(Cals)
         /\ Ordered(k, calState', cmds', commander, resps, cals)
  <1>1. CASE ~CanSend
    BY <1>1 DEF PollSends, CalTypes
  <1>2. CASE CanSend
    <2> DEFINE b == Busy(commander)
    <2>1. /\ calState' = calState + 1 /\ calState \in 0 .. 3
          /\ cmds' = Append(cmds, CalOrder[calState + 1])
          /\ cmds \in Seq(Cals) /\ CalOrder[calState + 1] \in Cals
      BY <1>2, OrderIsOne DEF PollSends, CanSend, CalTypes
    <2>2. /\ cmds' \in Seq(Cals) /\ Len(cmds') = Len(cmds) + 1
          /\ \A j \in 1 .. Len(cmds) : cmds'[j] = cmds[j]
          /\ cmds'[Len(cmds) + 1] = CalOrder[calState + 1]
      BY <2>1, AppendProperties
    <2>3. Len(cmds) \in Nat /\ Len(resps) \in Nat /\ b \in {0, 1}
      BY LenProperties DEF CalTypes, Busy
    <2> HIDE DEF b
    <2>4. k + Len(resps) + b + Len(cmds) = calState
      BY DEF Ordered, b
    <2>5. \A j \in 1 .. Len(cmds') : cmds'[j] = CalOrder[k + Len(resps) + b + j]
      <3> SUFFICES ASSUME NEW j \in 1 .. Len(cmds')
                   PROVE  cmds'[j] = CalOrder[k + Len(resps) + b + j]
        OBVIOUS
      <3>1. CASE j \in 1 .. Len(cmds)
        BY <2>2, <3>1 DEF Ordered, b
      <3>2. CASE j = Len(cmds) + 1
        <4>1. k + Len(resps) + b + j = calState + 1
          BY <2>3, <2>4, <3>2, <2>1
        <4> QED
          BY <2>2, <3>2, <4>1
      <3> QED
        BY <2>2, <2>3, <3>1, <3>2
    <2>6. k + Len(resps) + b + Len(cmds') = calState'
      BY <2>1, <2>2, <2>3, <2>4
    <2> QED
      BY <2>1, <2>2, <2>5, <2>6 DEF Ordered, b
  <1> QED
    BY <1>1, <1>2

\* An answer that is received is the next in order.
LEMMA AnswerKeepsOrder ==
  ASSUME NEW k \in 0 .. 4, NEW sent \in 0 .. 4, NEW requests \in Seq(Cals), CalTypes,
         Ordered(k, sent, requests, commander, resps, cals), resps # <<>>, PollReceives
  PROVE  /\ k + 1 \in 0 .. 4 /\ resps' \in Seq(Answers)
         /\ cals' \in [Cals -> Values \cup {Unset}]
         /\ cals'[Head(resps).cal] = Head(resps).val
         /\ \A c \in Cals \ {Head(resps).cal} : cals'[c] = cals[c]
         /\ Head(resps) = resps[1] /\ Head(resps).cal \in Cals
         /\ \A j \in 1 .. Len(resps') : j + 1 \in 1 .. Len(resps) /\ resps'[j] = resps[j + 1]
         /\ Ordered(k + 1, sent, requests, commander, resps', cals')
  <1> DEFINE a == Head(resps)
             b == Busy(commander)
  <1>1. /\ resps' = Tail(resps) /\ cals' = [cals EXCEPT ![a.cal] = a.val]
        /\ resps \in Seq(Answers) /\ cals \in [Cals -> Values \cup {Unset}]
    BY DEF PollReceives, CalTypes
  <1>2. /\ a \in Answers /\ resps' \in Seq(Answers) /\ Len(resps') = Len(resps) - 1
        /\ \A j \in 1 .. Len(resps') : resps'[j] = resps[j + 1]
    BY <1>1, HeadTailProperties
  <1>3. /\ a = resps[1] /\ Len(resps) \in Nat \ {0} /\ Len(requests) \in Nat /\ b \in {0, 1}
    BY <1>1, EmptySeq, LenProperties DEF Busy
  <1>4. a.cal \in Cals /\ a.val \in Values /\ a.val # Unset
    BY <1>2 DEF Answers, Values, Unset
  <1> HIDE DEF a, b
  <1>5. k + Len(resps) + b + Len(requests) = sent
    BY DEF Ordered, b
  <1>6. k + 1 \in 1 .. 4 /\ a.cal = CalOrder[k + 1]
    BY <1>3, <1>5 DEF Ordered
  <1>7. /\ cals' \in [Cals -> Values \cup {Unset}] /\ cals'[a.cal] = a.val
        /\ \A c \in Cals \ {a.cal} : cals'[c] = cals[c]
    BY <1>1, <1>4
  <1>8. \A j \in 1 .. Len(resps') : j + 1 \in 1 .. Len(resps) /\ resps'[j] = resps[j + 1]
    BY <1>2, <1>3
  <1>9. \A i \in 1 .. 4 : cals'[CalOrder[i]] # Unset <=> i <= k + 1
    <2> SUFFICES ASSUME NEW i \in 1 .. 4 PROVE cals'[CalOrder[i]] # Unset <=> i <= k + 1
      OBVIOUS
    <2>1. CASE i = k + 1
      BY <1>4, <1>6, <1>7, <2>1
    <2>2. CASE i # k + 1
      <3>1. CalOrder[i] \in Cals \ {a.cal}
        BY <1>6, <2>2, OrderIsOne
      <3>2. cals[CalOrder[i]] # Unset <=> i <= k
        BY DEF Ordered
      <3> QED
        BY <1>7, <2>2, <3>1, <3>2
    <2> QED
      BY <2>1, <2>2
  <1>10. \A j \in 1 .. Len(resps') : resps'[j].cal = CalOrder[k + 1 + j]
    <2> SUFFICES ASSUME NEW j \in 1 .. Len(resps') PROVE resps'[j].cal = CalOrder[k + 1 + j]
      OBVIOUS
    <2>1. resps[j + 1].cal = CalOrder[k + (j + 1)]
      BY <1>8 DEF Ordered
    <2>2. k + (j + 1) = k + 1 + j
      BY <1>2, <1>3
    <2> QED
      BY <1>8, <2>1, <2>2
  <1>11. k + 1 + Len(resps') = k + Len(resps)
    BY <1>2, <1>3
  <1>12. commander.at # "mount"
    BY <1>3 DEF Ordered
  <1>13. Ordered(k + 1, sent, requests, commander, resps', cals')
    BY <1>9, <1>10, <1>11, <1>12 DEF Ordered
  <1> QED
    BY <1>2, <1>3, <1>4, <1>6, <1>7, <1>8, <1>13 DEF a

\* A poll keeps the order, and forgets nothing that has come.
LEMMA PollKeeps ==
  ASSUME CalInv, InitPoll
  PROVE  CalInv' /\ db' = db
  <1>1. PICK k \in 0 .. 4 : Ordered(k, calState, cmds, commander, resps, cals)
    BY DEF CalInv, InOrder
  <1>2. PollSends /\ PollReceives /\ UNCHANGED <<db, commander>> /\ CalTypes /\ AsStored
    BY DEF InitPoll, CalInv
  <1>3. /\ calState' \in 0 .. 4 /\ cmds' \in Seq(Cals)
        /\ Ordered(k, calState', cmds', commander, resps, cals)
    BY <1>1, <1>2, RequestKeepsOrder
  <1>4. CASE resps = <<>>
    <2>1. UNCHANGED <<resps, cals>>
      BY <1>2, <1>4 DEF PollReceives
    <2>2. CalTypes' /\ AsStored'
      BY <1>2, <1>3, <2>1 DEF CalTypes, AsStored, GetKey
    <2>3. Ordered(k, calState, cmds, commander, resps, cals)'
      BY <1>2, <1>3, <2>1
    <2> QED
      BY <1>2, <2>2, <2>3 DEF CalInv, InOrder
  <1>5. CASE resps # <<>>
    <2> DEFINE a == Head(resps)
    <2>1. /\ k + 1 \in 0 .. 4 /\ resps' \in Seq(Answers)
          /\ cals' \in [Cals -> Values \cup {Unset}]
          /\ cals'[a.cal] = a.val /\ \A c \in Cals \ {a.cal} : cals'[c] = cals[c]
          /\ a = resps[1] /\ a.cal \in Cals
          /\ \A j \in 1 .. Len(resps') : j + 1 \in 1 .. Len(resps) /\ resps'[j] = resps[j + 1]
          /\ Ordered(k + 1, calState', cmds', commander, resps', cals')
      BY <1>2, <1>3, <1>5, AnswerKeepsOrder
    <2>2. a.val = GetKey(a.cal)
      <3>1. Len(resps) \in Nat \ {0}
        BY <1>2, <1>5, EmptySeq DEF CalTypes
      <3> QED
        BY <1>2, <2>1, <3>1 DEF AsStored
    <2> HIDE DEF a
    <2>3. CalTypes'
      BY <1>2, <1>3, <2>1 DEF CalTypes
    <2>4. \A c \in Cals : cals'[c] # Unset => cals'[c] = GetKey(c)
      BY <1>2, <2>1, <2>2 DEF AsStored
    <2>5. \A j \in 1 .. Len(resps') : resps'[j].val = GetKey(resps'[j].cal)
      BY <1>2, <2>1 DEF AsStored
    <2>6. AsStored'
      BY <1>2, <2>4, <2>5 DEF AsStored, GetKey
    <2>7. Ordered(k + 1, calState, cmds, commander, resps, cals)'
      BY <1>2, <2>1
    <2> QED
      BY <1>2, <2>1, <2>3, <2>6, <2>7 DEF CalInv, InOrder
  <1> QED
    BY <1>4, <1>5

\* Once everything has come nothing is on its way.
LEMMA LoadedIsDrained ==
  ASSUME CalInv, Loaded(cals)
  PROVE  cmds = <<>> /\ resps = <<>> /\ commander.at = "receive"
  <1>1. PICK k \in 0 .. 4 : Ordered(k, calState, cmds, commander, resps, cals)
    BY DEF CalInv, InOrder
  <1>2. k = 4
    <2>1. CalOrder[4] \in Cals
      BY OrderIsOne
    <2>2. cals[CalOrder[4]] # Unset
      BY <2>1 DEF Loaded
    <2> QED
      BY <1>1, <2>2 DEF Ordered
  <1>3. Len(resps) \in Nat /\ Len(cmds) \in Nat /\ Busy(commander) \in {0, 1} /\ calState \in 0 .. 4
    BY LenProperties DEF CalInv, CalTypes, Busy
  <1>4. Len(resps) = 0 /\ Len(cmds) = 0 /\ Busy(commander) = 0 /\ commander.at # "mount"
    BY <1>1, <1>2, <1>3 DEF Ordered
  <1>5. cmds = <<>> /\ resps = <<>>
    BY <1>4, EmptySeq DEF CalInv, CalTypes
  <1>6. commander.at = "receive"
    BY <1>4 DEF CalInv, CalTypes, Busy
  <1> QED
    BY <1>5, <1>6

\* Valid calibrations are valid in the database: no default is taken for one.
LEMMA ValidIsStored ==
  ASSUME CalInv, Loaded(cals), ValidCals(cals)
  PROVE  db["mech"] = "valid" /\ db["hydr"] = "valid"
  <1>1. "mech" \in Cals /\ "hydr" \in Cals
    BY DEF Cals, CalOrder
  <1>2. GetKey("mech") = "valid" /\ GetKey("hydr") = "valid"
    BY <1>1 DEF CalInv, AsStored, Loaded, ValidCals
  <1> QED
    BY <1>2 DEF GetKey

-----------------------------------------------------------------------------
(* Pressures and currents (Hydraulics) *)

\* A fraction that is well formed, and one between two integers.
Fraction(q) == q[1] \in Int /\ q[2] \in Int /\ q[2] > 0
Between(q, lo, hi) == Fraction(q) /\ lo * q[2] <= q[1] /\ q[1] <= hi * q[2]

\* The weighted mean of two values between bounds is between them.
LEMMA Mean ==
  ASSUME NEW a \in Nat, NEW b \in Nat, NEW lo \in Int, NEW hi \in Int,
         NEW y1 \in lo .. hi, NEW y2 \in lo .. hi
  PROVE  /\ y1 * (a + b) + (y2 - y1) * a = y1 * b + y2 * a
         /\ lo * (a + b) <= y1 * b + y2 * a /\ y1 * b + y2 * a <= hi * (a + b)
  <1>1. /\ lo * b <= y1 * b /\ y1 * b <= hi * b
        /\ lo * a <= y2 * a /\ y2 * a <= hi * a
    OBVIOUS
  <1>2. /\ lo * (a + b) = lo * a + lo * b
        /\ hi * (a + b) = hi * a + hi * b
        /\ y1 * (a + b) = y1 * a + y1 * b
        /\ (y2 - y1) * a = y2 * a - y1 * a
    OBVIOUS
  <1>3. /\ lo * a \in Int /\ lo * b \in Int /\ hi * a \in Int /\ hi * b \in Int
        /\ y1 * a \in Int /\ y1 * b \in Int /\ y2 * a \in Int
    OBVIOUS
  <1> QED
    BY <1>1, <1>2, <1>3

LEMMA LineBetween ==
  ASSUME NEW v \in Int, NEW x1 \in Int, NEW x2 \in Int, x1 < x2, NEW lo \in Int, NEW hi \in Int,
         NEW y1 \in lo .. hi, NEW y2 \in lo .. hi
  PROVE  Between(Line(v, x1, x2, y1, y2), lo, hi)
  <1>1. CASE v < x1 \/ v > x2
    BY <1>1 DEF Line, Whole, Between, Fraction
  <1>2. CASE x1 <= v /\ v <= x2
    <2> DEFINE a == v - x1
               b == x2 - v
    <2>1. a \in Nat /\ b \in Nat /\ a + b = x2 - x1
      BY <1>2
    <2>2. Line(v, x1, x2, y1, y2) = <<y1 * (a + b) + (y2 - y1) * a, a + b>>
      BY <1>2, <2>1 DEF Line
    <2> HIDE DEF a, b
    <2>3. a + b > 0
      BY <2>1
    <2>4. y1 * b + y2 * a \in Int
      BY <2>1
    <2> QED
      BY <2>1, <2>2, <2>3, <2>4, Mean DEF Between, Fraction
  <1> QED
    BY <1>1, <1>2

\* Interpolation never leaves the values it lies between, however the axis runs.
LEMMA InterpBetween ==
  ASSUME NEW v \in Int, NEW x1 \in Int, NEW x2 \in Int, NEW lo \in Int, NEW hi \in Int,
         NEW y1 \in lo .. hi, NEW y2 \in lo .. hi
  PROVE  Between(InterpLinear(v, x1, x2, y1, y2), lo, hi)
  <1>1. CASE x1 = x2
    BY <1>1 DEF InterpLinear, Whole, Between, Fraction
  <1>2. CASE x1 < x2
    BY <1>2, LineBetween DEF InterpLinear
  <1>3. CASE x2 < x1
    BY <1>3, LineBetween DEF InterpLinear
  <1> QED
    BY <1>1, <1>2, <1>3

\* The denominator is that of the place on the axis.
LEMMA SameDenominator ==
  ASSUME NEW v \in Int, NEW x1 \in Int, NEW x2 \in Int,
         NEW y1 \in Int, NEW y2 \in Int, NEW z1 \in Int, NEW z2 \in Int
  PROVE  InterpLinear(v, x1, x2, y1, y2)[2] = InterpLinear(v, x1, x2, z1, z2)[2]
  BY DEF InterpLinear, Line, Whole

LEMMA DivMod ==
  ASSUME NEW a \in Int, NEW d \in Int, d > 0
  PROVE  /\ a \div d \in Int /\ a % d \in Int /\ a = d * (a \div d) + (a % d)
         /\ 0 <= a % d /\ a % d < d
  <1>1. a \div d \in Int
    OBVIOUS
  <1>2. a % d \in 0 .. d - 1
    OBVIOUS
  <1>3. a = d * (a \div d) + (a % d)
    OBVIOUS
  <1> QED
    BY <1>1, <1>2, <1>3

LEMMA CutBetween ==
  ASSUME NEW q, NEW lo \in Int, NEW hi \in Int, Between(q, lo, hi)
  PROVE  Cut(q) \in lo .. hi
  <1>1. /\ q[1] \in Int /\ q[2] \in Int /\ q[2] > 0
        /\ lo * q[2] <= q[1] /\ q[1] <= hi * q[2]
    BY DEF Between, Fraction
  <1> DEFINE c == q[1] \div q[2]
             r == q[1] % q[2]
  <1>2. c \in Int /\ r \in Int /\ q[1] = q[2] * c + r /\ 0 <= r /\ r < q[2]
    <2> HIDE DEF Between
    <2> QED
      BY <1>1, DivMod
  <1> HIDE DEF c, r
  <1>3. lo <= c
    <2> SUFFICES ASSUME c + 1 <= lo PROVE FALSE
      BY <1>2
    <2>1. q[2] * (c + 1) <= q[2] * lo
      BY <1>1, <1>2
    <2> QED
      BY <1>1, <1>2, <2>1
  <1>4. c <= hi
    <2> SUFFICES ASSUME hi + 1 <= c PROVE FALSE
      BY <1>2
    <2>1. q[2] * (hi + 1) <= q[2] * c
      BY <1>1, <1>2
    <2> QED
      BY <1>1, <1>2, <2>1
  <1> QED
    BY <1>2, <1>3, <1>4 DEF Cut, c

-----------------------------------------------------------------------------

\* A search names places of the axis, whatever the axis is like.
LEMMA SearchPlaces ==
  ASSUME NEW n \in Nat \ {0}, NEW xs, \A k \in 1 .. n : xs[k] \in Int, NEW v \in Int
  PROVE  SearchValue(v, xs, n)[1] \in 1 .. n /\ SearchValue(v, xs, n)[2] \in 1 .. n
  <1> DEFINE ascending == xs[1] < xs[n]
             Follows(a, b) == IF ascending THEN a <= b ELSE b <= a
             Holds(k) == Follows(xs[k], v) /\ Follows(v, xs[k + 1])
             first == {k \in 1 .. n - 1 : Holds(k) /\ \A j \in 1 .. k - 1 : ~Holds(j)}
             i == CHOOSE k \in first : TRUE
  <1>1. first # {} => i \in 1 .. n - 1
    <2>1. first # {} => i \in first
      <3> HIDE DEF first
      <3> QED
        OBVIOUS
    <2> HIDE DEF i
    <2> QED
      BY <2>1
  <1>2. SearchValue(v, xs, n) \in
          {<<1, 1>>, <<n, n>>} \cup
          {IF first = {} THEN <<1, n>>
           ELSE <<IF v = xs[i + 1] THEN i + 1 ELSE i, IF v = xs[i] THEN i ELSE i + 1>>}
    BY DEF SearchValue
  <1> HIDE DEF first, i
  <1>3. CASE first = {}
    BY <1>2, <1>3
  <1>4. CASE first # {}
    BY <1>1, <1>2, <1>4
  <1> QED
    BY <1>3, <1>4

LEMMA BetweenLinesBetween ==
  ASSUME NEW v \in Int, NEW y1 \in Int, NEW y2 \in Int, NEW lo \in Int, NEW hi \in Int,
         NEW q1, NEW q2, Between(q1, lo, hi), Between(q2, lo, hi), q1[2] = q2[2]
  PROVE  Between(BetweenLines(v, y1, y2, q1, q2), lo, hi)
  <1> DEFINE d == q1[2]
             c == InterpLinear(v, y1, y2, q1[1], q2[1])
  <1>1. d \in Int /\ d > 0 /\ q1[1] \in lo * d .. hi * d /\ q2[1] \in lo * d .. hi * d
    BY DEF Between, Fraction
  <1>2. lo * d \in Int /\ hi * d \in Int
    BY <1>1
  <1> HIDE DEF d
  <1>3. Between(c, lo * d, hi * d)
    BY <1>1, <1>2, InterpBetween
  <1> HIDE DEF c
  <1>4. /\ c[1] \in Int /\ c[2] \in Int /\ c[2] > 0
        /\ (lo * d) * c[2] <= c[1] /\ c[1] <= (hi * d) * c[2]
    BY <1>3 DEF Between, Fraction
  <1>5. /\ c[2] * d \in Int /\ c[2] * d > 0
        /\ lo * (c[2] * d) = (lo * d) * c[2] /\ hi * (c[2] * d) = (hi * d) * c[2]
    BY <1>1, <1>4
  <1>6. Between(<<c[1], c[2] * d>>, lo, hi)
    BY <1>4, <1>5 DEF Between, Fraction
  <1>7. BetweenLines(v, y1, y2, q1, q2) \in {q1, <<c[1], c[2] * d>>}
    BY DEF BetweenLines, c, d
  <1> QED
    BY <1>6, <1>7

\* A map over two axes never leaves its values, whatever the axes are like.
LEMMA Interp2dBetween ==
  ASSUME NEW vx \in Int, NEW vy \in Int, NEW lo \in Int, NEW hi \in Int,
         NEW nx \in Nat \ {0}, NEW xs, \A k \in 1 .. nx : xs[k] \in Int,
         NEW ny \in Nat \ {0}, NEW ys, \A k \in 1 .. ny : ys[k] \in Int,
         NEW z, \A k \in 1 .. ny : \A l \in 1 .. nx : z[k][l] \in lo .. hi
  PROVE  Between(Interp2d(vx, vy, xs, nx, ys, ny, z), lo, hi)
  <1> DEFINE i == SearchValue(vx, xs, nx)
             j == SearchValue(vy, ys, ny)
             Row(k) == InterpLinear(vx, xs[i[1]], xs[i[2]], z[k][i[1]], z[k][i[2]])
  <1>1. i[1] \in 1 .. nx /\ i[2] \in 1 .. nx /\ j[1] \in 1 .. ny /\ j[2] \in 1 .. ny
    BY SearchPlaces
  <1>2. Interp2d(vx, vy, xs, nx, ys, ny, z)
          = BetweenLines(vy, ys[j[1]], ys[j[2]], Row(j[1]), Row(j[2]))
    BY DEF Interp2d
  <1> HIDE DEF i, j
  <1>3. \A k \in 1 .. ny : Between(Row(k), lo, hi)
    BY <1>1, InterpBetween
  <1>4. Row(j[1])[2] = Row(j[2])[2]
    BY <1>1, SameDenominator
  <1>5. ys[j[1]] \in Int /\ ys[j[2]] \in Int
    BY <1>1
  <1> HIDE DEF Row
  <1> QED
    BY <1>1, <1>2, <1>3, <1>4, <1>5, BetweenLinesBetween

-----------------------------------------------------------------------------

LEMMA MaxCurrentNat == MaxCurrent \in Nat
  BY DEF MaxCurrent

LEMMA CalibrationTypes ==
  ASSUME NEW h \in HydrCals
  PROVE  /\ h.nx \in Nat \ {0} /\ h.ny \in Nat \ {0}
         /\ \A k \in 1 .. h.nx : h.x[k] \in Nat
         /\ \A k \in 1 .. h.ny : h.y[k] \in Nat
         /\ \A k \in 1 .. h.ny : \A l \in 1 .. h.nx : h.z[k][l] \in Nat
         /\ h.multi \in Nat /\ h.spring \in Nat /\ h.minMpc \in Nat /\ h.filter \in Nat
         /\ h.inMin \in Nat /\ h.inMax \in Nat /\ h.outMin \in Nat /\ h.outMax \in Nat
         /\ h.offset \in Nat /\ MaxPcsPressure(h) \in Nat
  <1>1. /\ h.nx \in Nat \ {0} /\ h.ny \in Nat \ {0}
        /\ h.x \in Seq(U16) /\ h.y \in Seq(U16) /\ h.z \in Seq(Seq(U16))
        /\ Len(h.x) = h.nx /\ Len(h.y) = h.ny /\ Len(h.z) = h.ny
        /\ \A j \in 1 .. h.ny : Len(h.z[j]) = h.nx
    BY DEF HydrCals
  <1>2. /\ h.multi \in U16 /\ h.spring \in U16 /\ h.minMpc \in U16 /\ h.filter \in U8
        /\ h.inMin \in U16 /\ h.inMax \in U16 /\ h.outMin \in U16 /\ h.outMax \in U16
        /\ h.offset \in U16
    BY DEF HydrCals
  <1>3. (\A n \in U16 : n \in Nat) /\ (\A n \in U8 : n \in Nat)
    BY DEF U16, U8
  <1>4. \A s \in Seq(U16) : \A k \in 1 .. Len(s) : s[k] \in Nat
    <2> SUFFICES ASSUME NEW s \in Seq(U16), NEW k \in 1 .. Len(s) PROVE s[k] \in Nat
      OBVIOUS
    <2>1. s[k] \in U16
      BY ElementOfSeq
    <2> QED
      BY <1>3, <2>1
  <1>5. \A k \in 1 .. h.ny : h.z[k] \in Seq(U16) /\ Len(h.z[k]) = h.nx
    BY <1>1
  <1>6. \A k \in 1 .. h.nx : h.x[k] \in Nat
    BY <1>1, <1>4
  <1>7. \A k \in 1 .. h.ny : h.y[k] \in Nat
    BY <1>1, <1>4
  <1>8. \A k \in 1 .. h.ny : \A l \in 1 .. h.nx : h.z[k][l] \in Nat
    <2> SUFFICES ASSUME NEW k \in 1 .. h.ny, NEW l \in 1 .. h.nx
                 PROVE  h.z[k][l] \in Nat
      OBVIOUS
    <2> DEFINE row == h.z[k]
    <2>1. row \in Seq(U16) /\ Len(row) = h.nx
      BY <1>5
    <2> HIDE DEF row
    <2>2. row[l] \in Nat
      BY <1>4, <2>1
    <2> QED
      BY <2>2 DEF row
  <1>9. MaxPcsPressure(h) \in Nat
    BY <1>1, <1>6 DEF MaxPcsPressure
  <1>10. /\ h.multi \in Nat /\ h.spring \in Nat /\ h.minMpc \in Nat /\ h.filter \in Nat
         /\ h.inMin \in Nat /\ h.inMax \in Nat /\ h.outMin \in Nat /\ h.outMax \in Nat
         /\ h.offset \in Nat
    BY <1>2, <1>3
  <1> QED
    BY <1>1, <1>6, <1>7, <1>8, <1>9, <1>10, Zenon

LEMMA OutputPressureType ==
  ASSUME NEW h \in HydrCals, HydrValid(h), NEW mpc \in Nat, NEW target \in Nat
  PROVE  OutputPressure(h, InletPressure(h, mpc), target) \in Int
  <1> DEFINE inlet == InletPressure(h, mpc)
             working == (((h.spring + mpc) * 1000) \div h.multi) % 2^16
  <1>1. working \in Int
    <2>0. h.multi \in Nat /\ h.multi # 0 /\ h.spring \in Nat
      BY CalibrationTypes, Zenon DEF HydrValid
    <2>1. h.multi \in Nat /\ h.multi > 0 /\ h.spring \in Nat
      BY <2>0
    <2> DEFINE p == (h.spring + mpc) * 1000
    <2>2. p \in Nat
      BY <2>1
    <2> HIDE DEF p
    <2>3. p \div h.multi \in Int
      BY <2>1, <2>2
    <2>4. 2^16 = 65536
      OBVIOUS
    <2>5. working = (p \div h.multi) % 65536
      BY <2>4 DEF p
    <2> QED
      BY <2>3, <2>5
  <1>2. inlet \in Int
    <2>1. h.inMin \in Nat /\ h.inMax \in Nat /\ h.outMin \in Nat /\ h.outMax \in Nat
      BY CalibrationTypes, Zenon
    <2>2. inlet = Cut(InterpLinear(working, h.inMin, h.inMax, h.outMin, h.outMax))
      BY DEF InletPressure
    <2> DEFINE x1 == h.inMin
               x2 == h.inMax
               y1 == h.outMin
               y2 == h.outMax
               lo == 0
               hi == y1 + y2
    <2>3. /\ x1 \in Int /\ x2 \in Int /\ lo \in Int /\ hi \in Int
          /\ y1 \in lo .. hi /\ y2 \in lo .. hi
      BY <2>1
    <2>4. inlet = Cut(InterpLinear(working, x1, x2, y1, y2))
      BY <2>2
    <2> HIDE DEF working, inlet, x1, x2, y1, y2, lo, hi
    <2>5. Between(InterpLinear(working, x1, x2, y1, y2), lo, hi)
      BY <1>1, <2>3, InterpBetween
    <2>6. Cut(InterpLinear(working, x1, x2, y1, y2)) \in lo .. hi
      BY <2>3, <2>5, CutBetween
    <2> QED
      BY <2>3, <2>4, <2>6
  <1> HIDE DEF inlet
  <1>3. h.offset \in Nat /\ h.outMax \in Nat /\ MaxPcsPressure(h) \in Nat
    BY CalibrationTypes, Zenon
  <1>4. Compensated(h, inlet, target) \in Int
    <2> DEFINE rest    == h.offset + h.outMax - inlet
               wrapped == IF rest < 0 THEN rest + 2^32 ELSE rest
               p       == wrapped * (target + h.offset)
               sum     == target + InletAdder(h, inlet, target)
    <2>1. 2^16 = 65536 /\ 2^32 = 4294967296
      OBVIOUS
    <2>2. rest \in Int
      BY <1>2, <1>3
    <2> HIDE DEF rest
    <2>3. wrapped \in Int
      BY <2>1, <2>2
    <2> HIDE DEF wrapped
    <2>4. p \in Int
      BY <1>3, <2>3
    <2>5. InletAdder(h, inlet, target) = Smaller(p \div 1000000, 65535)
      BY DEF InletAdder, p, wrapped, rest
    <2> HIDE DEF p
    <2>6. p \div 1000000 \in Int
      BY <2>4
    <2>7. sum \in Int
      BY <2>5, <2>6 DEF Smaller
    <2>8. Compensated(h, inlet, target) = Smaller(sum % 65536, MaxPcsPressure(h))
      BY <2>1 DEF Compensated
    <2> HIDE DEF sum
    <2>9. sum % 65536 \in Int
      BY <2>7
    <2> QED
      BY <1>3, <2>8, <2>9 DEF Smaller
  <1> QED
    BY <1>3, <1>4 DEF OutputPressure, inlet

\* What fits eleven bits.
Setpoints == 0 .. 2047

\* A current is never more than the largest that a valid map may hold, whatever the
\* pressures and the temperature, so its setpoint fits eleven bits: the conversion
\* in set_mpc_current cannot panic.
THEOREM CurrentBound ==
  ASSUME NEW h \in HydrCals, HydrValid(h), NEW mpc \in Nat, NEW target \in Nat,
         NEW tft \in Int
  PROVE  /\ SolenoidCurrent(h, mpc, target, tft) \in 0 .. MaxCurrent
         /\ Setpoint(SolenoidCurrent(h, mpc, target, tft)) \in Setpoints
  <1> DEFINE ma == SolenoidCurrent(h, mpc, target, tft)
             v == OutputPressure(h, InletPressure(h, mpc), target)
  <1>1. v \in Int
    BY OutputPressureType
  <1>2. ma = Cut(Interp2d(v, tft + 50, h.x, h.nx, h.y, h.ny, h.z))
    BY DEF SolenoidCurrent
  <1>3. /\ h.nx \in Nat \ {0} /\ h.ny \in Nat \ {0}
        /\ \A k \in 1 .. h.nx : h.x[k] \in Nat
        /\ \A k \in 1 .. h.ny : h.y[k] \in Nat
    BY CalibrationTypes, Zenon
  <1>4. \A k \in 1 .. h.ny : \A l \in 1 .. h.nx : h.z[k][l] \in 0 .. MaxCurrent
    <2>1. \A k \in 1 .. h.ny : \A l \in 1 .. h.nx : h.z[k][l] \in Nat
      BY CalibrationTypes, Zenon
    <2> QED
      BY <2>1, MaxCurrentNat DEF HydrValid
  <1> HIDE DEF v, ma
  <1>5. Between(Interp2d(v, tft + 50, h.x, h.nx, h.y, h.ny, h.z), 0, MaxCurrent)
    <2> DEFINE nx == h.nx
               xs == h.x
               ny == h.ny
               ys == h.y
               z  == h.z
               vy == tft + 50
               lo == 0
    <2>1. /\ nx \in Nat \ {0} /\ ny \in Nat \ {0} /\ vy \in Int /\ lo \in Int
          /\ \A k \in 1 .. nx : xs[k] \in Nat
          /\ \A k \in 1 .. ny : ys[k] \in Nat
          /\ \A k \in 1 .. ny : \A l \in 1 .. nx : z[k][l] \in lo .. MaxCurrent
      BY <1>3, <1>4
    <2> HIDE DEF nx, xs, ny, ys, z, vy, lo
    <2>2. (\A k \in 1 .. nx : xs[k] \in Int) /\ (\A k \in 1 .. ny : ys[k] \in Int)
      BY <2>1
    <2>3. MaxCurrent \in Int
      BY MaxCurrentNat
    <2>4. Between(Interp2d(v, vy, xs, nx, ys, ny, z), lo, MaxCurrent)
      BY <1>1, <2>1, <2>2, <2>3, Interp2dBetween
    <2> QED
      BY <2>4 DEF nx, xs, ny, ys, z, vy, lo
  <1>6. ma \in 0 .. MaxCurrent
    BY <1>2, <1>5, MaxCurrentNat, CutBetween
  <1>7. Setpoint(ma) \in Setpoints
    BY <1>6 DEF Setpoint, MaxCurrent, Setpoints
  <1> QED
    BY <1>6, <1>7 DEF ma

\* The pressure in gear lies between the wanted one and the earlier one, and is
\* never below the least working pressure.
THEOREM PressureBound ==
  ASSUME NEW h \in HydrCals, NEW needed \in Nat, NEW prev \in Nat
  PROVE  MpcInGear(h, needed, prev) \in Nat /\ MpcInGear(h, needed, prev) >= h.minMpc
  <1> DEFINE w == Larger(needed, h.minMpc)
  <1>1. w \in Nat /\ w >= h.minMpc /\ h.minMpc \in Nat /\ h.filter \in Nat
    <2>1. h.minMpc \in Nat /\ h.filter \in Nat
      BY CalibrationTypes, Zenon
    <2> QED
      BY <2>1 DEF Larger
  <1>2. MpcInGear(h, needed, prev) = IF w < prev THEN Cut(<<w + h.filter * prev, h.filter + 1>>) ELSE w
    BY DEF MpcInGear, FilterWhenDropping, FirstOrderFilter
  <1> HIDE DEF w
  <1>3. CASE ~(w < prev)
    BY <1>1, <1>2, <1>3
  <1>4. CASE w < prev
    <2> DEFINE q == <<w + h.filter * prev, h.filter + 1>>
    <2>1. h.filter * w <= h.filter * prev /\ h.filter * w \in Nat /\ h.filter * prev \in Nat
      BY <1>1, <1>4
    <2>2. /\ w * (h.filter + 1) = w + h.filter * w
          /\ prev * (h.filter + 1) = prev + h.filter * prev
      BY <1>1
    <2>3. Between(q, w, prev)
      BY <1>1, <1>4, <2>1, <2>2 DEF Between, Fraction
    <2> HIDE DEF q
    <2>4. Cut(q) \in w .. prev
      BY <1>1, <2>3, CutBetween
    <2> QED
      BY <1>1, <1>2, <1>4, <2>4 DEF q
  <1> QED
    BY <1>3, <1>4

-----------------------------------------------------------------------------
(* The gearbox task (Gearbox) *)

LEMMA Errors ==
  ASSUME NEW m
  PROVE  /\ HasError(m \cup {"HARDWARE_ERR"})
         /\ HasError((m \ {"INIT"}) \cup {"TEMP_EMERGENCY"})
         /\ HasError(m \ {"INIT"}) <=> HasError(m)
  BY DEF HasError

\* Polling goes on, or ends with success or in an emergency.
LEMMA Polled ==
  ASSUME NEW c
  PROVE  \/ ~Loaded(c) /\ AfterPoll(PollResult(c)) = mode
         \/ /\ Loaded(c) /\ ValidCals(c)
            /\ AfterPoll(PollResult(c)) = mode \ {"INIT"}
         \/ /\ Loaded(c)
            /\ AfterPoll(PollResult(c)) = (mode \ {"INIT"}) \cup {"TEMP_EMERGENCY"}
  BY DEF AfterPoll, PollResult

-----------------------------------------------------------------------------
(* No power in an error *)

\* While the gearbox initialises nothing has power once outputs are written, and
\* what an update decided holds until it is written.
PowerInv ==
  /\ pc = "init" => ~cycled
  /\ "INIT" \in mode => ~outputs.pwr /\ (cycled => ~power)
  /\ pc \in {"can", "power"} /\ HasError(mode) => ~outputs.pwr
  /\ cycled /\ HasError(mode) => ~power

powerVars == <<pc, mode, outputs, power, cycled>>

LEMMA PowerInvInit == Init => PowerInv
  BY DEF Init, PowerInv, HasError, Off, SolenoidsInit

LEMMA PowerFrame == PowerInv /\ UNCHANGED powerVars => PowerInv'
  BY DEF PowerInv, powerVars, HasError

LEMMA PowerInvNext == PowerInv /\ [Next]_gearboxVars => PowerInv'
  <1> SUFFICES ASSUME PowerInv, [Next]_gearboxVars PROVE PowerInv'
    OBVIOUS
  <1>1. CASE GearboxInit
    BY <1>1, Errors DEF PowerInv, GearboxInit, SolInit
  <1>2. CASE Update /\ UpdateInit
    <2>1. mode' = AfterPoll(PollResult(cals')) /\ "INIT" \in mode
      BY <1>2 DEF UpdateInit
    <2>2. pc' = "can" /\ UNCHANGED <<outputs, power, cycled>>
      BY <1>2 DEF Update, UpdateInit, solVars
    <2>3. ~outputs.pwr /\ (cycled => ~power)
      BY <2>1 DEF PowerInv
    <2> QED
      BY <2>2, <2>3 DEF PowerInv
  <1>3. CASE Update /\ UpdateRegular
    <2>1. pc' = "can" /\ UNCHANGED <<mode, power, cycled>> /\ "INIT" \notin mode
      BY <1>3 DEF Update, UpdateRegular, solVars
    <2>2. HasError(mode) => ~outputs'.pwr
      BY <1>3 DEF UpdateRegular, Outputs, Off
    <2> QED
      BY <2>1, <2>2 DEF PowerInv, HasError
  <1>4. CASE WriteCan
    BY <1>4 DEF PowerInv, WriteCan, solVars, HasError
  <1>5. CASE WritePower
    BY <1>5 DEF PowerInv, WritePower, HighSidePower, unchangedByWrites, HasError
  <1>6. CASE SkipCurrent \/ BeginCurrent \/ CurrentDone \/ UpdateTask \/ WakeUp \/ WriteTimeout
    <2>1. UNCHANGED <<mode, outputs, power, cycled>>
      BY <1>6 DEF SkipCurrent, BeginCurrent, BeginExchange, CurrentDone, ExchangeDone, Settled,
           UpdateTask, ReadCurrent, WakeUp, WriteTimeout, unchangedByWrites, solVars
    <2>2. pc' = pc \/ pc' \notin {"init", "can", "power"}
      BY <1>6 DEF SkipCurrent, BeginCurrent, CurrentDone, UpdateTask, WakeUp, WriteTimeout,
           AfterCurrent
    <2> QED
      BY <2>1, <2>2 DEF PowerInv, HasError
  <1>7. CASE CurrentFails
    <2>1. pc' = "read" /\ mode' = mode \cup {"HARDWARE_ERR"} /\ ~power'
          /\ UNCHANGED <<outputs, cycled>>
      BY <1>7 DEF CurrentFails, PowerAfterFailure, unchangedByWrites
    <2> QED
      BY <2>1 DEF PowerInv
  <1>8. CASE CommanderTask \/ OthersSend \/ FrameArrives \/ Tick \/ UNCHANGED gearboxVars
    <2>1. UNCHANGED powerVars
      BY <1>8 DEF CommanderTask, OthersSend, FrameArrives, Tick, gearboxVars, solVars, powerVars
    <2> QED
      BY <2>1, PowerFrame
  <1> QED
    BY <1>1, <1>2, <1>3, <1>4, <1>5, <1>6, <1>7, <1>8
      DEF Next, GearboxTask, AfterUpdate, Update

\* Whatever fails and whenever, the solenoids have no power in an error once the
\* outputs have been written for the first time.
THEOREM PowerOff == Spec => []PowerOffInError
  <1>1. PowerInv => PowerOffInError
    BY DEF PowerInv, PowerOffInError
  <1> QED
    BY PowerInvInit, PowerInvNext, <1>1, PTL DEF Spec

-----------------------------------------------------------------------------
(* Pressures and currents *)

\* The pressure that is kept from one cycle to the next was calculated for the state
\* of the engine that is kept with it.
PressureInv ==
  /\ pressure.mpc \in Nat
  /\ "INIT" \in mode => ~running
  /\ running /\ "INIT" \notin mode /\ ~HasError(mode) => pressure.mpc >= Hydr.minMpc

pressureVars == <<mode, running, pressure>>

LEMMA PressureInvInit == Init => PressureInv
  BY DEF Init, PressureInv

LEMMA PressureFrame == PressureInv /\ UNCHANGED pressureVars => PressureInv'
  BY DEF PressureInv, pressureVars, HasError

\* Of the pressures that an update may come to.
LEMMA PressuresFloor ==
  ASSUME PressureInv, NEW r \in BOOLEAN
  PROVE  /\ Pressures(r).mpc \in Nat
         /\ r /\ ~HasError(mode) => Pressures(r).mpc >= Hydr.minMpc
  <1>1. Hydr \in HydrCals /\ Neutral \in Nat /\ pressure.mpc \in Nat
    BY GearboxAssumption DEF Neutral, PressureInv
  <1> DEFINE floor == Hydr.minMpc
             m == MpcInGear(Hydr, Neutral, pressure.mpc)
  <1>2. m \in Nat /\ m >= floor
    BY <1>1, PressureBound
  <1>3. \/ HasError(mode) /\ Pressures(r).mpc = 0
        \/ ~r /\ Pressures(r).mpc = NotRunningPressure
        \/ Pressures(r).mpc = m
    BY DEF Pressures
  <1> HIDE DEF m, floor
  <1>4. /\ Pressures(r).mpc \in Nat
        /\ r /\ ~HasError(mode) => Pressures(r).mpc >= floor
    BY <1>2, <1>3 DEF NotRunningPressure
  <1> QED
    BY <1>4 DEF floor

LEMMA PressureInvNext == PressureInv /\ [Next]_gearboxVars => PressureInv'
  <1> SUFFICES ASSUME PressureInv, [Next]_gearboxVars PROVE PressureInv'
    OBVIOUS
  <1>1. CASE GearboxInit \/ CurrentFails
    <2>1. UNCHANGED <<running, pressure>> /\ mode' \in {mode, mode \cup {"HARDWARE_ERR"}}
      BY <1>1 DEF GearboxInit, CurrentFails, unchangedByWrites
    <2>2. CASE mode' = mode
      BY <2>1, <2>2, PressureFrame DEF pressureVars
    <2>3. CASE mode' = mode \cup {"HARDWARE_ERR"}
      BY <2>1, <2>3, Errors DEF PressureInv
    <2> QED
      BY <2>1, <2>2, <2>3
  <1>2. CASE Update /\ UpdateInit
    <2>1. UNCHANGED <<running, pressure>> /\ "INIT" \in mode
      BY <1>2 DEF Update, UpdateInit
    <2> QED
      BY <2>1 DEF PressureInv
  <1>3. CASE Update /\ UpdateRegular
    <2>1. UNCHANGED mode /\ "INIT" \notin mode /\ EngineRunning \in BOOLEAN
          /\ running' = EngineRunning /\ pressure' = Pressures(EngineRunning)
      BY <1>3 DEF Update, UpdateRegular, EngineRunning, RxGet
    <2>2. /\ Pressures(EngineRunning).mpc \in Nat
          /\ EngineRunning /\ ~HasError(mode) => Pressures(EngineRunning).mpc >= Hydr.minMpc
      BY <2>1, PressuresFloor
    <2> QED
      BY <2>1, <2>2 DEF PressureInv, HasError
  <1>4. CASE \/ WriteCan \/ WritePower \/ SkipCurrent \/ BeginCurrent \/ CurrentDone
             \/ UpdateTask \/ WakeUp \/ WriteTimeout \/ CommanderTask \/ OthersSend
             \/ FrameArrives \/ Tick \/ UNCHANGED gearboxVars
    <2>1. UNCHANGED pressureVars
      BY <1>4 DEF WriteCan, WritePower, SkipCurrent, BeginCurrent, CurrentDone, UpdateTask,
           WakeUp, WriteTimeout, CommanderTask, OthersSend, FrameArrives, Tick, gearboxVars,
           unchangedByWrites, pressureVars
    <2> QED
      BY <2>1, PressureFrame
  <1> QED
    BY <1>1, <1>2, <1>3, <1>4 DEF Next, GearboxTask, AfterUpdate, Update

\* For every valid calibration, filter factor and history of the engine.
THEOREM Floor == Spec => []PressureFloor
  <1>1. PressureInv => PressureFloor
    BY DEF PressureInv, PressureFloor
  <1> QED
    BY PressureInvInit, PressureInvNext, <1>1, PTL DEF Spec

-----------------------------------------------------------------------------
(* What the chip holds *)

\* As long as no exchange was abandoned chip select is high between exchanges, so that
\* the chip sees the start of the next and takes its current at the end.
TransferFields == {"at", "sol", "ma", "clean"}

ChipInv ==
  /\ DOMAIN transfer = TransferFields
  /\ transfer # NoTransfer => pc \in {"mpc", "spc"} /\ transfer.at \in {"transfer", "settle"}
  /\ pc = "init" => chip = last
  /\ ~abandoned =>
       /\ transfer = NoTransfer => ~selected /\ chip = last
       /\ transfer.at = "transfer" => transfer.clean /\ chip = last
       /\ transfer.at = "settle" =>
            ~selected /\ chip = [last EXCEPT ![transfer.sol] = transfer.ma]

chipVars == <<transfer, selected, chip, last, abandoned>>

LEMMA NoTransferAt == NoTransfer.at = "none" /\ DOMAIN NoTransfer = TransferFields
  BY DEF NoTransfer, TransferFields

LEMMA ChipInvInit == Init => ChipInv
  BY NoTransferAt DEF Init, SolenoidsInit, ChipInv

LEMMA ChipFrame ==
  ASSUME ChipInv, UNCHANGED chipVars,
         pc' # "init", transfer # NoTransfer => pc' \in {"mpc", "spc"}
  PROVE  ChipInv'
  BY DEF ChipInv, chipVars

LEMMA ChipInvNext == ChipInv /\ [Next]_gearboxVars => ChipInv'
  <1> SUFFICES ASSUME ChipInv, [Next]_gearboxVars PROVE ChipInv'
    OBVIOUS
  <1>1. CASE GearboxInit
    <2>1. pc = "init" /\ pc' = "update" /\ abandoned' = selected' /\ selected' \in BOOLEAN
          /\ UNCHANGED <<last, chip, transfer>>
      BY <1>1 DEF GearboxInit, SolInit
    <2>2. transfer = NoTransfer /\ chip = last
      BY <2>1 DEF ChipInv
    <2> QED
      BY <2>1, <2>2, NoTransferAt DEF ChipInv
  <1>2. CASE Update \/ WriteCan \/ WritePower \/ SkipCurrent \/ WakeUp
    <2>1. UNCHANGED chipVars /\ pc' # "init"
      BY <1>2 DEF Update, WriteCan, WritePower, HighSidePower, SkipCurrent, WakeUp, AfterCurrent,
           chipVars, solVars
    <2>2. transfer # NoTransfer => pc' \in {"mpc", "spc"}
      BY <1>2 DEF ChipInv, Update, WriteCan, WritePower, SkipCurrent, WakeUp
    <2> QED
      BY <2>1, <2>2, ChipFrame
  <1>3. CASE BeginCurrent
    <2> DEFINE t == [at |-> "transfer", sol |-> pc, ma |-> outputs[pc], clean |-> ~selected]
    <2>1. /\ pc \in {"mpc", "spc"} /\ pc' = pc /\ transfer = NoTransfer
          /\ transfer' = t /\ UNCHANGED <<last, chip, abandoned>>
      BY <1>3 DEF BeginCurrent, BeginExchange
    <2>2. t.at = "transfer" /\ t.clean = ~selected /\ DOMAIN t = TransferFields
      BY DEF TransferFields
    <2>3. ~abandoned => ~selected /\ chip = last
      BY <2>1 DEF ChipInv
    <2> HIDE DEF t
    <2> QED
      BY <2>1, <2>2, <2>3, NoTransferAt DEF ChipInv
  <1>4. CASE ExchangeDone /\ UNCHANGED pc
    <2> DEFINE t == [transfer EXCEPT !.at = "settle"]
    <2>1. /\ transfer.at = "transfer" /\ transfer' = t /\ ~selected'
          /\ UNCHANGED <<last, abandoned, pc>>
          /\ transfer.clean => chip' = [chip EXCEPT ![transfer.sol] = transfer.ma]
      BY <1>4 DEF ExchangeDone
    <2>2. transfer # NoTransfer
      BY <2>1, NoTransferAt
    <2>3. /\ DOMAIN t = TransferFields /\ t.at = "settle"
          /\ t.sol = transfer.sol /\ t.ma = transfer.ma
      BY DEF ChipInv, TransferFields
    <2> HIDE DEF t
    <2> QED
      BY <2>1, <2>2, <2>3, NoTransferAt DEF ChipInv
  <1>5. CASE Settled /\ pc' = AfterCurrent
    <2>1. /\ transfer.at = "settle" /\ transfer' = NoTransfer
          /\ last' = [last EXCEPT ![transfer.sol] = transfer.ma]
          /\ UNCHANGED <<chip, selected, abandoned>> /\ pc' # "init"
      BY <1>5 DEF Settled, Remembered, AfterCurrent
    <2> QED
      BY <2>1, NoTransferAt DEF ChipInv
  <1>6. CASE CurrentFails \/ WriteTimeout
    <2>1. transfer' = NoTransfer /\ abandoned' /\ pc' = "read"
      BY <1>6 DEF CurrentFails, WriteTimeout, Abandon
    <2> QED
      BY <2>1, NoTransferAt DEF ChipInv
  <1>7. CASE UpdateTask
    <2>1. /\ pc = "read" /\ pc' = "sleep" /\ UNCHANGED <<last, chip, transfer>>
          /\ \/ UNCHANGED <<selected, abandoned>>
             \/ ~selected' /\ UNCHANGED abandoned
             \/ abandoned'
      BY <1>7 DEF UpdateTask, ReadCurrent
    <2>2. transfer = NoTransfer
      BY <2>1 DEF ChipInv
    <2> QED
      BY <2>1, <2>2, NoTransferAt DEF ChipInv
  <1>8. CASE CommanderTask \/ OthersSend \/ FrameArrives \/ Tick \/ UNCHANGED gearboxVars
    <2>1. UNCHANGED <<pc, chipVars>>
      BY <1>8 DEF CommanderTask, OthersSend, FrameArrives, Tick, gearboxVars, chipVars, solVars
    <2> QED
      BY <2>1 DEF ChipInv, chipVars
  <1> QED
    BY <1>1, <1>2, <1>3, <1>4, <1>5, <1>6, <1>7, <1>8
      DEF Next, GearboxTask, AfterUpdate, CurrentDone

\* Whatever currents are wanted and however exchanges, failures and other tasks mix.
THEOREM Remembers == Spec => []ChipFollows
  <1>1. ChipInv => ChipFollows
    BY DEF ChipInv, ChipFollows
  <1> QED
    BY ChipInvInit, ChipInvNext, <1>1, PTL DEF Spec

-----------------------------------------------------------------------------
(* Calibrations before power *)

Ready == Loaded(cals) /\ db["mech"] = "valid" /\ db["hydr"] = "valid"

\* The mode says how far initialisation has come, and whatever has power or tells
\* that the gearbox is well goes back to an update in a mode without INIT.
LoadInv ==
  /\ CalInv
  /\ "INIT" \notin mode => Loaded(cals)
  /\ mode \cap {"INIT", "TEMP_EMERGENCY"} = {} => Ready
  /\ outputs.pwr \/ told \/ (cycled /\ power) => Ready
  /\ pc = "init" => ~cycled

LEMMA LoadInvInit == Init => LoadInv
  <1> SUFFICES ASSUME Init PROVE LoadInv
    OBVIOUS
  <1>1. CalInit /\ db \in [Cals -> Contents]
    BY GearboxAssumption DEF Init
  <1>2. CalInv
    BY <1>1, CalInvInit
  <1> QED
    BY <1>2 DEF Init, LoadInv, Off

LEMMA LoadFrame ==
  ASSUME LoadInv, CalInv', UNCHANGED <<db, cals>>, pc' = "init" => pc = "init" /\ UNCHANGED cycled,
         "INIT" \in mode => "INIT" \in mode',
         "TEMP_EMERGENCY" \in mode => "TEMP_EMERGENCY" \in mode',
         outputs'.pwr \/ told' \/ (cycled' /\ power') =>
           outputs.pwr \/ told \/ (cycled /\ power)
  PROVE  LoadInv'
  <1>1. Ready' = Ready /\ Loaded(cals)' = Loaded(cals)
    BY DEF Ready, Loaded
  <1>2. /\ "INIT" \notin mode' => Loaded(cals)
        /\ mode' \cap {"INIT", "TEMP_EMERGENCY"} = {} => Ready
        /\ outputs'.pwr \/ told' \/ (cycled' /\ power') => Ready
        /\ pc' = "init" => ~cycled'
    BY DEF LoadInv
  <1> QED
    BY <1>1, <1>2 DEF LoadInv

LEMMA CalFrame == CalInv /\ UNCHANGED calVars => CalInv'
  <1> SUFFICES ASSUME CalInv, UNCHANGED calVars PROVE CalInv'
    OBVIOUS
  <1>1. CalTypes'
    BY DEF calVars, CalInv, CalTypes
  <1>2. AsStored'
    BY DEF calVars, CalInv, AsStored, GetKey
  <1>3. InOrder'
    BY DEF calVars, CalInv, InOrder
  <1> QED
    BY <1>1, <1>2, <1>3 DEF CalInv

LEMMA LoadInvNext == LoadInv /\ [Next]_gearboxVars => LoadInv'
  <1> SUFFICES ASSUME LoadInv, [Next]_gearboxVars PROVE LoadInv'
    OBVIOUS
  <1>0. CalInv
    BY DEF LoadInv
  <1>1. CASE GearboxInit
    <2>1. /\ pc = "init" /\ pc' = "update" /\ UNCHANGED <<outputs, told, cycled, calVars>>
          /\ mode' \in {mode, mode \cup {"HARDWARE_ERR"}}
      BY <1>1 DEF GearboxInit
    <2>2. ~cycled
      BY <2>1 DEF LoadInv
    <2>3. CalInv' /\ UNCHANGED <<db, cals>>
      BY <1>0, <2>1, CalFrame DEF calVars
    <2> QED
      BY <2>1, <2>2, <2>3, LoadFrame
  <1>2. CASE Update /\ UpdateInit
    <2>1. /\ pc' = "can" /\ UNCHANGED <<outputs, told, cycled, power>> /\ "INIT" \in mode
          /\ mode' = AfterPoll(PollResult(cals')) /\ InitPoll
      BY <1>2 DEF Update, UpdateInit, solVars
    <2>2. CalInv' /\ db' = db
      BY <1>0, <2>1, PollKeeps
    <2>3. Loaded(cals) => cals' = cals
      BY <1>0, <2>1, LoadedIsDrained DEF InitPoll, PollReceives
    <2>4. Ready => Ready'
      BY <2>2, <2>3 DEF Ready, Loaded
    <2>5. Loaded(cals') /\ ValidCals(cals') => Ready'
      <3>1. (CalInv /\ Loaded(cals) /\ ValidCals(cals) =>
               db["mech"] = "valid" /\ db["hydr"] = "valid")'
        BY ValidIsStored, PTL
      <3> QED
        BY <2>2, <3>1 DEF Ready
    <2>6. /\ "INIT" \notin mode' => Loaded(cals')
          /\ mode' \cap {"INIT", "TEMP_EMERGENCY"} = {} => Ready'
      BY <2>1, <2>5, Polled
    <2> QED
      BY <2>1, <2>2, <2>4, <2>6 DEF LoadInv, Loaded
  <1>3. CASE Update /\ UpdateRegular
    <2>1. /\ pc' = "can" /\ UNCHANGED <<mode, told, cycled, power, calVars>> /\ "INIT" \notin mode
      BY <1>3 DEF Update, UpdateRegular, solVars
    <2>2. HasError(mode) => ~outputs'.pwr
      BY <1>3 DEF UpdateRegular, Outputs, Off
    <2>3. outputs'.pwr => Ready
      BY <2>1, <2>2 DEF LoadInv, HasError
    <2>4. CalInv' /\ UNCHANGED <<db, cals>>
      BY <1>0, <2>1, CalFrame DEF calVars
    <2>5. Ready' = Ready
      BY <2>4 DEF Ready, Loaded
    <2> QED
      BY <2>1, <2>3, <2>4, <2>5 DEF LoadInv, Loaded
  <1>4. CASE CommanderTask
    <2>1. Commander /\ UNCHANGED <<pc, mode, outputs, told, cycled, power>>
      BY <1>4 DEF CommanderTask, solVars
    <2>2. CalInv' /\ UNCHANGED <<db, cals>>
      BY <1>0, <2>1, CommanderKeeps
    <2> QED
      BY <2>1, <2>2, LoadFrame
  <1>5. CASE \/ WriteCan \/ WritePower \/ SkipCurrent \/ BeginCurrent \/ CurrentDone
             \/ UpdateTask \/ WakeUp \/ CurrentFails \/ WriteTimeout \/ OthersSend
             \/ FrameArrives \/ Tick \/ UNCHANGED gearboxVars
    <2>1. UNCHANGED calVars /\ (pc' = pc \/ pc' # "init") /\ UNCHANGED outputs
          /\ mode' \in {mode, mode \cup {"HARDWARE_ERR"}}
      BY <1>5 DEF WriteCan, WritePower, SkipCurrent, BeginCurrent, CurrentDone, UpdateTask,
           WakeUp, CurrentFails, WriteTimeout, OthersSend, FrameArrives, Tick, gearboxVars,
           unchangedByWrites, AfterCurrent
    <2>2. told' \in {told, outputs.pwr} /\ (cycled' = cycled \/ pc = "power")
      BY <1>5 DEF WriteCan, WritePower, SkipCurrent, BeginCurrent, CurrentDone, UpdateTask,
           WakeUp, CurrentFails, WriteTimeout, OthersSend, FrameArrives, Tick, gearboxVars,
           unchangedByWrites
    <2>3. cycled' /\ power' => (cycled /\ power) \/ outputs.pwr
      BY <1>5 DEF WriteCan, WritePower, HighSidePower, SkipCurrent, BeginCurrent, BeginExchange,
           CurrentDone, ExchangeDone, Settled, UpdateTask, ReadCurrent, WakeUp, CurrentFails,
           PowerAfterFailure, WriteTimeout, OthersSend, FrameArrives, Tick, gearboxVars, solVars
    <2>4. CalInv' /\ UNCHANGED <<db, cals>>
      BY <1>0, <2>1, CalFrame DEF calVars
    <2> QED
      BY <2>1, <2>2, <2>3, <2>4, LoadFrame
  <1> QED
    BY <1>1, <1>2, <1>3, <1>4, <1>5 DEF Next, GearboxTask, AfterUpdate, Update

\* No power and no good word without the calibrations that the database holds.
THEOREM CalibratedFirst == Spec => []OnlyCalibrated
  <1>1. LoadInv => OnlyCalibrated
    BY DEF LoadInv, OnlyCalibrated, Ready, Loaded
  <1> QED
    BY LoadInvInit, LoadInvNext, <1>1, PTL DEF Spec

\* Initialisation leaves nothing behind, however few places the channels have.
THEOREM Drained == Spec => []QueuesDrained
  <1>1. LoadInv => QueuesDrained
    BY LoadedIsDrained DEF LoadInv, QueuesDrained
  <1> QED
    BY LoadInvInit, LoadInvNext, <1>1, PTL DEF Spec

-----------------------------------------------------------------------------
(* Setpoints that fit *)

\* The temperature of the oil is a whole number for every reading.
LEMMA TftType == \A a \in 0 .. MaxAdc : Tft(a) \in Int
  <1> SUFFICES ASSUME NEW a \in 0 .. MaxAdc PROVE Tft(a) \in Int
    OBVIOUS
  <1> DEFINE xs == AdcAxis(2000, KtyOhms)
             zs == KtyDegrees
             n  == 28
             i  == SearchValue(a, xs, n)
             lo == -55
             hi == 175
  <1>1. a \in Int /\ n \in Nat \ {0} /\ lo \in Int /\ hi \in Int
    BY DEF MaxAdc
  <1>2. KtyOhms \in Seq(Nat) /\ DOMAIN KtyOhms = 1 .. n /\ \A k \in 1 .. n : KtyOhms[k] \in Nat
    BY DEF KtyOhms
  <1>3. \A k \in 1 .. n : xs[k] \in Int
    <2> SUFFICES ASSUME NEW k \in 1 .. n PROVE xs[k] \in Int
      OBVIOUS
    <2> DEFINE r == KtyOhms[k]
    <2>1. r \in Nat /\ xs[k] = AdcOf(2000, r)
      BY <1>2 DEF AdcAxis
    <2> HIDE DEF r, xs
    <2>2. AdcOf(2000, r) \in Int
      BY <2>1 DEF AdcOf, MaxAdc
    <2> QED
      BY <2>1, <2>2
  <1>4. Len(xs) = n
    BY <1>2 DEF AdcAxis
  <1>5. \A k \in 1 .. n : zs[k] \in lo .. hi
    BY DEF KtyDegrees
  <1> HIDE DEF xs, zs, n, i, lo, hi
  <1>6. i[1] \in 1 .. n /\ i[2] \in 1 .. n
    BY <1>1, <1>3, SearchPlaces DEF i
  <1>7. Interp1d(a, xs, zs) \in {Whole(zs[i[1]]),
                                 InterpLinear(a, xs[i[1]], xs[i[2]], zs[i[1]], zs[i[2]])}
    BY <1>4 DEF Interp1d, i
  <1>8. Between(Interp1d(a, xs, zs), lo, hi)
    <2>1. Between(Whole(zs[i[1]]), lo, hi)
      BY <1>1, <1>5, <1>6 DEF Between, Fraction, Whole
    <2>2. Between(InterpLinear(a, xs[i[1]], xs[i[2]], zs[i[1]], zs[i[2]]), lo, hi)
      BY <1>1, <1>3, <1>5, <1>6, InterpBetween
    <2> QED
      BY <1>7, <2>1, <2>2
  <1>9. TftLookup(a) = Interp1d(a, xs, zs)
    BY DEF TftLookup, xs, zs
  <1>10. CutToZero(TftLookup(a)) \in Int
    <2> DEFINE q == TftLookup(a)
    <2>1. q[1] \in Int /\ q[2] \in Int /\ q[2] > 0
      BY <1>8, <1>9 DEF Between, Fraction
    <2> HIDE DEF q
    <2>2. \A x, d \in Int : d > 0 => x \div d \in Int /\ (0 - x) \div d \in Int
      OBVIOUS
    <2>3. CutToZero(q) \in {q[1] \div q[2], 0 - ((0 - q[1]) \div q[2])}
      BY DEF CutToZero, DivToZero
    <2> QED
      BY <2>1, <2>2, <2>3 DEF q
  <1> QED
    BY <1>10 DEF Tft, ParkOrNeutral

LEMMA FitsElevenBits ==
  ASSUME NEW m,
         \A f \in DOMAIN m.fields : Messages[m.name].fields[f] = 11 /\ m.fields[f] \in Setpoints
  PROVE  Fits(m)
  <1> SUFFICES ASSUME NEW f \in DOMAIN m.fields
               PROVE  m.fields[f] < 2^Messages[m.name].fields[f]
    BY DEF Fits
  <1> DEFINE v == m.fields[f]
             w == Messages[m.name].fields[f]
  <1>1. w = 11 /\ v \in Setpoints
    OBVIOUS
  <1> HIDE DEF v, w
  <1>2. v < 2^11
    BY <1>1 DEF Setpoints
  <1>3. v < 2^w
    BY <1>1, <1>2
  <1> QED
    BY <1>3 DEF v, w

LEMMA MessageFits ==
  ASSUME NEW sol, NEW n \in Setpoints
  PROVE  Fits(CurrentMessage(sol, n))
  <1> DEFINE name == "CurrentDitherAmpSet"
             m == CurrentMessage(sol, n)
  <1>1. Messages[name].fields = [en |-> 1, ditherStepSize |-> 11, currentSetpoint |-> 11]
    <2>1. name \in DOMAIN ControlMessages /\ name \notin DOMAIN ChipMessages
      BY DEF ControlMessages, ChipMessages
    <2>2. Messages[name] = ControlMessages[name]
      BY <2>1 DEF Messages, Both
    <2> QED
      BY <2>2 DEF ControlMessages, OnChannel
  <1>2. m.name = name /\ m.fields = [currentSetpoint |-> n, ditherStepSize |-> Dither.stepSize]
    BY DEF CurrentMessage, Message
  <1>3. Dither.stepSize = 64
    <2>1. Rounded(1000, 4 * 250) = 1
      BY DEF Rounded
    <2>2. Rounded(100 * 4096 * 50, 320 * 1000 * 1) = 64
      BY DEF Rounded
    <2> QED
      BY <2>1, <2>2 DEF Dither, DitherOpts
  <1> HIDE DEF m
  <1>4. \A f \in DOMAIN m.fields :
          Messages[m.name].fields[f] = 11 /\ m.fields[f] \in {n, 64}
    BY <1>1, <1>2, <1>3
  <1>5. n \in Setpoints /\ 64 \in Setpoints
    BY DEF Setpoints
  <1>6. \A f \in DOMAIN m.fields :
          Messages[m.name].fields[f] = 11 /\ m.fields[f] \in Setpoints
    BY <1>4, <1>5, Zenon
  <1> QED
    BY <1>6, FitsElevenBits DEF m

\* Whatever an update has left in the outputs is within the map of the calibration.
SetpointInv ==
  /\ pressure.mpc \in Nat /\ pressure.spc \in Nat
  /\ outputs.mpc \in 0 .. MaxCurrent /\ outputs.spc \in 0 .. MaxCurrent

LEMMA SetpointInvInit == Init => SetpointInv
  BY DEF Init, SetpointInv, Off, MaxCurrent

LEMMA PressureTypes ==
  ASSUME SetpointInv, NEW r \in BOOLEAN
  PROVE  Pressures(r).mpc \in Nat /\ Pressures(r).spc \in Nat
  <1> DEFINE m == MpcInGear(Hydr, Neutral, pressure.mpc)
             s == MaxPcsPressure(Hydr)
  <1>1. Hydr \in HydrCals /\ Neutral \in Nat /\ pressure.mpc \in Nat
    BY GearboxAssumption DEF Neutral, SetpointInv
  <1>2. m \in Nat /\ s \in Nat
    BY <1>1, PressureBound, CalibrationTypes
  <1>3. Pressures(r) \in {[mpc |-> 0, spc |-> 0], [mpc |-> NotRunningPressure, spc |-> 0],
                          [mpc |-> m, spc |-> s]}
    BY DEF Pressures
  <1> HIDE DEF m, s
  <1> QED
    BY <1>2, <1>3 DEF NotRunningPressure

LEMMA OutputsBound ==
  ASSUME NEW p, p.mpc \in Nat, p.spc \in Nat, NEW tft \in Tfts
  PROVE  Outputs(p, tft).mpc \in 0 .. MaxCurrent /\ Outputs(p, tft).spc \in 0 .. MaxCurrent
  <1> DEFINE t == Temperature(tft)
             cm == SolenoidCurrent(Hydr, p.mpc, p.mpc, t)
             cs == SolenoidCurrent(Hydr, p.mpc, p.spc, t)
  <1>1. Hydr \in HydrCals /\ HydrValid(Hydr) /\ Adcs \subseteq 0 .. MaxAdc
    BY GearboxAssumption
  <1>2. tft \in Int
    BY <1>1, TftType DEF Tfts, NoSensorData, ParkOrNeutral
  <1>3. t \in Int
    BY <1>2 DEF Temperature, Larger
  <1> HIDE DEF t
  <1>4. cm \in 0 .. MaxCurrent /\ cs \in 0 .. MaxCurrent
    <2> DEFINE a == p.mpc
               b == p.spc
    <2>1. a \in Nat /\ b \in Nat
      OBVIOUS
    <2> HIDE DEF a, b
    <2>2. /\ SolenoidCurrent(Hydr, a, a, t) \in 0 .. MaxCurrent
          /\ SolenoidCurrent(Hydr, a, b, t) \in 0 .. MaxCurrent
      BY <1>1, <1>3, <2>1, CurrentBound
    <2> QED
      BY <2>2 DEF a, b
  <1>5. Outputs(p, tft) \in {Off, [pwr |-> TRUE, mpc |-> cm, spc |-> cs]}
    BY DEF Outputs, t
  <1> HIDE DEF cm, cs
  <1> QED
    BY <1>4, <1>5, MaxCurrentNat DEF Off

LEMMA SetpointInvNext == SetpointInv /\ [Next]_gearboxVars => SetpointInv'
  <1> SUFFICES ASSUME SetpointInv, [Next]_gearboxVars PROVE SetpointInv'
    OBVIOUS
  <1>1. CASE Update /\ UpdateRegular
    <2>1. EngineRunning \in BOOLEAN /\ pressure' = Pressures(EngineRunning)
      BY <1>1 DEF UpdateRegular, EngineRunning, RxGet
    <2>2. PICK tft \in Tfts : outputs' = Outputs(Pressures(EngineRunning), tft)
      BY <1>1 DEF UpdateRegular
    <2>3. pressure'.mpc \in Nat /\ pressure'.spc \in Nat
      BY <2>1, PressureTypes
    <2>4. outputs'.mpc \in 0 .. MaxCurrent /\ outputs'.spc \in 0 .. MaxCurrent
      BY <2>1, <2>2, <2>3, OutputsBound
    <2> QED
      BY <2>3, <2>4 DEF SetpointInv
  <1>2. CASE \/ GearboxInit \/ (Update /\ UpdateInit) \/ WriteCan \/ WritePower \/ SkipCurrent
             \/ BeginCurrent \/ CurrentDone \/ UpdateTask \/ WakeUp \/ CurrentFails
             \/ WriteTimeout \/ CommanderTask \/ OthersSend \/ FrameArrives \/ Tick
             \/ UNCHANGED gearboxVars
    <2>1. UNCHANGED <<outputs, pressure>>
      BY <1>2 DEF GearboxInit, UpdateInit, WriteCan, WritePower, SkipCurrent, BeginCurrent,
           CurrentDone, UpdateTask, WakeUp, CurrentFails, WriteTimeout, CommanderTask, OthersSend,
           FrameArrives, Tick, gearboxVars, unchangedByWrites
    <2> QED
      BY <2>1 DEF SetpointInv
  <1> QED
    BY <1>1, <1>2 DEF Next, GearboxTask, AfterUpdate, Update

\* No current is too large for the field of its message, for every valid calibration
\* and every reading of the temperature: the conversion cannot panic.
THEOREM SetpointsFitAlways == Spec => []SetpointsFit
  <1>1. SetpointInv => SetpointsFit
    <2> SUFFICES ASSUME SetpointInv, NEW sol \in {"mpc", "spc"}
                 PROVE  Fits(CurrentMessage(sol, Setpoint(outputs[sol])))
      BY DEF SetpointsFit
    <2> DEFINE ma == outputs[sol]
    <2>1. ma \in 0 .. MaxCurrent
      BY DEF SetpointInv
    <2> HIDE DEF ma
    <2> DEFINE n == Setpoint(ma)
    <2>2. n \in Setpoints
      BY <2>1 DEF Setpoint, MaxCurrent, Setpoints
    <2> HIDE DEF n
    <2>3. Fits(CurrentMessage(sol, n))
      BY <2>2, MessageFits
    <2> QED
      BY <2>3 DEF ma, n
  <1> QED
    BY SetpointInvInit, SetpointInvNext, <1>1, PTL DEF Spec

-----------------------------------------------------------------------------
(* Recursive functions of numbers *)

\* A set of numbers that is not empty has a least one.
LEMMA Least ==
  ASSUME NEW T \in SUBSET Nat, T # {}
  PROVE  \E x \in T : \A y \in T : x <= y
  <1> DEFINE R == OpToRel(<, Nat)
  <1>1. IsWellFoundedOn(R, Nat)
    BY NatLessThanWellFounded
  <1>2. \A x, y \in Nat : y < x => <<y, x>> \in R
    BY DEF R, OpToRel
  <1> HIDE DEF R
  <1>3. PICK x \in T : \A y \in T : ~(<<y, x>> \in R)
    BY <1>1, WFMin
  <1>4. ASSUME NEW y \in T PROVE x <= y
    <2>1. x \in Nat /\ y \in Nat
      OBVIOUS
    <2>2. ~(y < x)
      BY <1>2, <1>3, <2>1, Zenon
    <2> QED
      BY <2>1, <2>2
  <1> QED
    BY <1>4

\* Induction over a set of numbers, for want of induction over a predicate.
LEMMA NatInSet ==
  ASSUME NEW S, 0 \in S, \A n \in Nat : n \in S => n + 1 \in S
  PROVE  Nat \subseteq S
  <1> DEFINE T == {n \in Nat : n \notin S}
  <1>1. ASSUME T # {} PROVE FALSE
    <2>1. T \in SUBSET Nat
      OBVIOUS
    <2> HIDE DEF T
    <2>2. PICK x \in T : \A y \in T : x <= y
      BY <2>1, <1>1, Least
    <2>3. x \in Nat /\ x # 0
      BY <2>1 DEF T
    <2>4. x - 1 \in S
      BY <2>2, <2>3 DEF T
    <2> QED
      BY <2>3, <2>4, <2>2 DEF T
  <1> QED
    BY <1>1

\* A function over 0 .. N that is defined by its value before exists.
Steps(N, S) == [1 .. N -> [S -> S]]

Recursive(f, N, S, a, step) ==
  f \in [0 .. N -> S] /\ f[0] = a /\ \A n \in 1 .. N : f[n] = step[n][f[n - 1]]

LEMMA RecursionExists ==
  ASSUME NEW N \in Nat, NEW S, NEW a \in S, NEW step \in Steps(N, S)
  PROVE  \E f : Recursive(f, N, S, a, step)
  <1> DEFINE K == {k \in Nat : k <= N => \E f : Recursive(f, k, S, a, step)}
  <1>1. 0 \in K
    <2> DEFINE f == [n \in 0 .. 0 |-> a]
    <2>1. Recursive(f, 0, S, a, step)
      BY DEF Recursive
    <2> QED
      BY <2>1
  <1>2. ASSUME NEW k \in Nat, k \in K PROVE k + 1 \in K
    <2> SUFFICES ASSUME k + 1 <= N PROVE \E f : Recursive(f, k + 1, S, a, step)
      OBVIOUS
    <2>1. PICK f : Recursive(f, k, S, a, step)
      BY <1>2
    <2>2. f \in [0 .. k -> S] /\ f[0] = a /\ \A n \in 1 .. k : f[n] = step[n][f[n - 1]]
      BY <2>1 DEF Recursive
    <2> DEFINE g == [n \in 0 .. k + 1 |-> IF n = k + 1 THEN step[k + 1][f[k]] ELSE f[n]]
    <2>3. step[k + 1][f[k]] \in S
      BY <2>2 DEF Steps
    <2>4. g \in [0 .. k + 1 -> S] /\ g[0] = a
      BY <2>2, <2>3
    <2>5. ASSUME NEW n \in 1 .. k + 1 PROVE g[n] = step[n][g[n - 1]]
      <3>1. CASE n = k + 1
        BY <3>1
      <3>2. CASE n \in 1 .. k
        BY <2>2, <3>2
      <3> QED
        BY <3>1, <3>2
    <2> HIDE DEF g
    <2>6. Recursive(g, k + 1, S, a, step)
      BY <2>4, <2>5 DEF Recursive
    <2> QED
      BY <2>6
  <1> HIDE DEF K
  <1>3. N \in K
    BY <1>1, <1>2, NatInSet
  <1> QED
    BY <1>3 DEF K

-----------------------------------------------------------------------------
(* The messages of Tle8242::init *)

Regs == [loops : SUBSET Channels, pwm : SUBSET Channels]

InitFields ==
  {[icManfId |-> 0], [dividerM |-> CurrentMode.m, dividerN |-> CurrentMode.n],
   [dividerM |-> PwmMode.m, dividerN |-> PwmMode.n], [kp |-> 0, ki |-> 0],
   [numberOfSteps |-> Dither.steps], [azOn |-> 0], [fmr |-> 0, fme |-> 0]}

InitNames == {"IcVersion", "MainPeriodSet", "ControlVarsSet", "DitherPeriodSet",
              "AutoZeroTriggerRead", "CtrlMethodFaultMaskCfg"}

InitMessages == [name : InitNames, channel : Channels, fields : InitFields]

ControlChannels == {Chan.mpc, Chan.spc}
ShiftChannels   == {Chan.y3, Chan.y4, Chan.y5}

DitherOf(ch) == Message("DitherPeriodSet", ch, [numberOfSteps |-> Dither.steps])

LEMMA ChannelsOfBoard ==
  /\ ControlChannels \subseteq Channels /\ ShiftChannels \subseteq Channels
  /\ ControlChannels \cap ShiftChannels = {}
  /\ DOMAIN Settings = ControlChannels \cup ShiftChannels
  /\ \A ch \in ControlChannels : Settings[ch] = CurrentMode
  /\ \A ch \in ShiftChannels : Settings[ch] = PwmMode
  BY DEF ControlChannels, ShiftChannels, Channels, Chan, Settings

LEMMA Modes == CurrentMode.mode = "current" /\ PwmMode.mode = "pwm"
  BY DEF CurrentMode, PwmMode

LEMMA MessageIn ==
  ASSUME NEW name \in InitNames, NEW ch \in Channels, NEW f \in InitFields
  PROVE  Message(name, ch, f) \in InitMessages
  BY DEF Message, InitMessages

LEMMA FieldsIn ==
  /\ [icManfId |-> 0] \in InitFields
  /\ [kp |-> 0, ki |-> 0] \in InitFields
  /\ [numberOfSteps |-> Dither.steps] \in InitFields
  /\ [azOn |-> 0] \in InitFields
  /\ [fmr |-> 0, fme |-> 0] \in InitFields
  /\ \A s \in {CurrentMode, PwmMode} : [dividerM |-> s.m, dividerN |-> s.n] \in InitFields
  BY DEF InitFields

LEMMA OfChannel ==
  ASSUME NEW ch \in Channels
  PROVE  /\ ChannelMessages(ch) \in Seq(InitMessages)
         /\ ch \in ControlChannels =>
              \E i \in 1 .. Len(ChannelMessages(ch)) : ChannelMessages(ch)[i] = DitherOf(ch)
  <1>1. CASE ch \notin DOMAIN Settings
    BY <1>1, ChannelsOfBoard DEF ChannelMessages
  <1> DEFINE s == Settings[ch]
             period == Message("MainPeriodSet", ch, [dividerM |-> s.m, dividerN |-> s.n])
             gains == Message("ControlVarsSet", ch, [kp |-> 0, ki |-> 0])
             dither == DitherOf(ch)
             zero == Message("AutoZeroTriggerRead", ch, [azOn |-> 0])
  <1>2. gains \in InitMessages /\ dither \in InitMessages /\ zero \in InitMessages
    BY MessageIn, FieldsIn DEF DitherOf, InitNames
  <1>3. CASE ch \in ControlChannels
    <2>1. s = CurrentMode /\ s.mode = "current" /\ ch \in DOMAIN Settings
      BY <1>3, ChannelsOfBoard, Modes
    <2>2. period \in InitMessages
      BY <2>1, MessageIn, FieldsIn DEF InitNames
    <2>3. ChannelMessages(ch) = (<<period>> \o <<gains, dither>>) \o <<zero>>
      BY <2>1 DEF ChannelMessages, DitherOf
    <2> HIDE DEF period, gains, dither, zero
    <2> DEFINE a == <<period>>
               b == <<gains, dither>>
               c == <<zero>>
    <2>4. /\ a \in Seq(InitMessages) /\ b \in Seq(InitMessages) /\ c \in Seq(InitMessages)
          /\ Len(a) = 1 /\ Len(b) = 2 /\ Len(c) = 1 /\ b[2] = dither
      BY <1>2, <2>2
    <2> HIDE DEF a, b, c
    <2> DEFINE ab == a \o b
               abc == ab \o c
    <2>5. ab \in Seq(InitMessages) /\ Len(ab) = 3 /\ ab[3] = dither
      <3>1. /\ ab \in Seq(InitMessages) /\ Len(ab) = Len(a) + Len(b)
            /\ \A i \in 1 .. Len(a) + Len(b) : ab[i] = IF i <= Len(a) THEN a[i] ELSE b[i - Len(a)]
        BY <2>4, ConcatProperties
      <3> HIDE DEF ab
      <3> QED
        BY <2>4, <3>1
    <2> HIDE DEF ab
    <2>6. abc \in Seq(InitMessages) /\ 3 \in 1 .. Len(abc) /\ abc[3] = dither
      <3>1. /\ abc \in Seq(InitMessages) /\ Len(abc) = Len(ab) + Len(c)
            /\ \A i \in 1 .. Len(ab) + Len(c) :
                 abc[i] = IF i <= Len(ab) THEN ab[i] ELSE c[i - Len(ab)]
        BY <2>4, <2>5, ConcatProperties
      <3> HIDE DEF abc
      <3> QED
        BY <2>4, <2>5, <3>1
    <2>7. ChannelMessages(ch) = abc
      BY <2>3 DEF a, b, c, ab
    <2> QED
      BY <2>6, <2>7 DEF dither
  <1>4. CASE ch \in ShiftChannels
    <2>1. s = PwmMode /\ s.mode = "pwm" /\ ch \in DOMAIN Settings /\ ch \notin ControlChannels
      BY <1>4, ChannelsOfBoard, Modes
    <2>2. period \in InitMessages
      BY <2>1, MessageIn, FieldsIn DEF InitNames
    <2>3. ChannelMessages(ch) = (<<period>> \o <<>>) \o <<zero>>
      BY <2>1 DEF ChannelMessages, DitherOf
    <2> HIDE DEF period, gains, dither, zero
    <2>4. <<period>> \in Seq(InitMessages) /\ <<>> \in Seq(InitMessages)
          /\ <<zero>> \in Seq(InitMessages)
      BY <1>2, <2>2
    <2>5. ChannelMessages(ch) \in Seq(InitMessages)
      BY <2>3, <2>4, ConcatProperties
    <2> QED
      BY <2>1, <2>5
  <1> QED
    BY <1>1, <1>3, <1>4, ChannelsOfBoard

\* The messages up to a channel.
LEMMA PlanSteps ==
  /\ PlanUpTo \in [0 .. 8 -> Seq(InitMessages)]
  /\ \A k \in 0 .. 7 : PlanUpTo[k + 1] = PlanUpTo[k] \o ChannelMessages(k)
  <1> DEFINE first == <<Message("IcVersion", 0, [icManfId |-> 0])>>
             S == Seq(InitMessages)
             Longer(s, k) == s \o ChannelMessages(k - 1)
             step == [k \in 1 .. 8 |-> [s \in S |-> Longer(s, k)]]
             Def(f) == [k \in 0 .. 8 |-> IF k = 0 THEN first ELSE Longer(f[k - 1], k)]
  <1>1. first \in S
    <2>1. Message("IcVersion", 0, [icManfId |-> 0]) \in InitMessages
      BY MessageIn, FieldsIn DEF Channels, InitNames
    <2> QED
      BY <2>1
  <1>2. \A k \in 1 .. 8, s \in S : Longer(s, k) \in S
    <2>1. \A k \in 1 .. 8 : k - 1 \in Channels
      BY DEF Channels
    <2> QED
      BY <2>1, OfChannel, ConcatProperties
  <1> HIDE DEF first, S, Longer
  <1>3. step \in Steps(8, S)
    BY <1>2 DEF Steps
  <1>4. PICK f : Recursive(f, 8, S, first, step)
    <2> HIDE DEF step
    <2> QED
      BY <1>1, <1>3, RecursionExists
  <1>5. f = Def(f)
    <2>1. f \in [0 .. 8 -> S] /\ f[0] = first /\ \A k \in 1 .. 8 : f[k] = step[k][f[k - 1]]
      <3> HIDE DEF step
      <3> QED
        BY <1>4 DEF Recursive
    <2>2. ASSUME NEW k \in 1 .. 8 PROVE f[k] = Longer(f[k - 1], k)
      <3>1. f[k - 1] \in S /\ f[k] = step[k][f[k - 1]]
        BY <2>1
      <3> QED
        BY <3>1
    <2>3. \A k \in 0 .. 8 : f[k] = IF k = 0 THEN first ELSE Longer(f[k - 1], k)
      BY <2>1, <2>2
    <2> QED
      BY <2>1, <2>3
  <1>6. PlanUpTo = Def(PlanUpTo)
    BY <1>5, Zenon DEF PlanUpTo, first, Longer
  <1>7. /\ PlanUpTo[0] = first
        /\ \A k \in 0 .. 7 : PlanUpTo[k + 1] = Longer(PlanUpTo[k], k + 1)
    <2>1. \A k \in 0 .. 8 : PlanUpTo[k] = IF k = 0 THEN first ELSE Longer(PlanUpTo[k - 1], k)
      BY <1>6
    <2>2. ASSUME NEW k \in 0 .. 7 PROVE PlanUpTo[k + 1] = Longer(PlanUpTo[k], k + 1)
      <3>1. k + 1 \in 0 .. 8 /\ k + 1 # 0 /\ (k + 1) - 1 = k
        OBVIOUS
      <3>2. PlanUpTo[k + 1] = Longer(PlanUpTo[(k + 1) - 1], k + 1)
        BY <2>1, <3>1, Zenon
      <3> QED
        BY <3>1, <3>2
    <2> QED
      BY <2>1, <2>2
  <1> DEFINE K == {k \in Nat : k <= 8 => PlanUpTo[k] \in S}
  <1>8. 0 \in K
    BY <1>1, <1>7
  <1>9. ASSUME NEW k \in Nat, k \in K PROVE k + 1 \in K
    <2> SUFFICES ASSUME k + 1 <= 8 PROVE PlanUpTo[k + 1] \in S
      OBVIOUS
    <2>1. PlanUpTo[k] \in S /\ k \in 0 .. 7
      BY <1>9
    <2> QED
      BY <1>2, <1>7, <2>1
  <1> HIDE DEF K
  <1>10. Nat \subseteq K
    BY <1>8, <1>9, NatInSet
  <1>11. \A k \in 0 .. 8 : PlanUpTo[k] \in S
    BY <1>10 DEF K
  <1>12. PlanUpTo \in [0 .. 8 -> S]
    BY <1>6, <1>11
  <1>13. ASSUME NEW k \in 0 .. 7 PROVE PlanUpTo[k + 1] = PlanUpTo[k] \o ChannelMessages(k)
    <2>1. (k + 1) - 1 = k
      OBVIOUS
    <2>2. PlanUpTo[k + 1] = PlanUpTo[k] \o ChannelMessages((k + 1) - 1)
      BY <1>7 DEF Longer
    <2> QED
      BY <2>1, <2>2
  <1> QED
    BY <1>12, <1>13 DEF S

\* Both pressure solenoids are set up, and the modes come at the end.
LEMMA PlanFacts ==
  /\ InitPlan \in Seq(InitMessages) /\ InitPlan # <<>>
  /\ InitPlan[Len(InitPlan)].name = "CtrlMethodFaultMaskCfg"
  /\ \A ch \in ControlChannels : \E i \in 1 .. Len(InitPlan) : InitPlan[i] = DitherOf(ch)
  <1> DEFINE modes == Message("CtrlMethodFaultMaskCfg", 0, [fmr |-> 0, fme |-> 0])
             plan == PlanUpTo[8]
             Found(k) == \A ch \in ControlChannels :
               ch < k => \E i \in 1 .. Len(PlanUpTo[k]) : PlanUpTo[k][i] = DitherOf(ch)
             K == {k \in Nat : k <= 8 => Found(k)}
  <1>1. /\ \A k \in 0 .. 8 : PlanUpTo[k] \in Seq(InitMessages)
        /\ \A k \in 0 .. 7 : PlanUpTo[k + 1] = PlanUpTo[k] \o ChannelMessages(k)
    BY PlanSteps
  <1>2. 0 \in K
    BY ChannelsOfBoard DEF Channels
  <1>3. ASSUME NEW k \in Nat, k \in K PROVE k + 1 \in K
    <2> SUFFICES ASSUME k + 1 <= 8, NEW ch \in ControlChannels, ch < k + 1
                 PROVE  \E i \in 1 .. Len(PlanUpTo[k + 1]) : PlanUpTo[k + 1][i] = DitherOf(ch)
      OBVIOUS
    <2> DEFINE s == PlanUpTo[k]
               t == ChannelMessages(k)
               st == s \o t
    <2>1. k \in Channels /\ k \in 0 .. 7 /\ k \in 0 .. 8 /\ ch \in Channels
      BY ChannelsOfBoard DEF Channels
    <2>2. s \in Seq(InitMessages) /\ t \in Seq(InitMessages) /\ PlanUpTo[k + 1] = st
      BY <1>1, <2>1, OfChannel
    <2>3. ch < k => \E i \in 1 .. Len(s) : s[i] = DitherOf(ch)
      BY <1>3, <2>1
    <2>4. ch = k => \E i \in 1 .. Len(t) : t[i] = DitherOf(ch)
      BY <2>1, OfChannel
    <2>5. ch < k \/ ch = k
      BY <2>1 DEF Channels
    <2> HIDE DEF s, t
    <2>6. /\ Len(st) = Len(s) + Len(t) /\ Len(s) \in Nat /\ Len(t) \in Nat
          /\ \A i \in 1 .. Len(s) + Len(t) : st[i] = IF i <= Len(s) THEN s[i] ELSE t[i - Len(s)]
      BY <2>2, ConcatProperties, LenProperties
    <2> HIDE DEF st
    <2>7. CASE ch < k
      <3>1. PICK i \in 1 .. Len(s) : s[i] = DitherOf(ch)
        BY <2>3, <2>7
      <3>2. i \in 1 .. Len(st) /\ st[i] = s[i]
        BY <2>6
      <3> QED
        BY <2>2, <3>1, <3>2
    <2>8. CASE ch = k
      <3>1. PICK i \in 1 .. Len(t) : t[i] = DitherOf(ch)
        BY <2>4, <2>8
      <3>2. Len(s) + i \in 1 .. Len(st) /\ st[Len(s) + i] = t[i]
        BY <2>6
      <3> QED
        BY <2>2, <3>1, <3>2
    <2> QED
      BY <2>5, <2>7, <2>8
  <1> HIDE DEF K
  <1>4. 8 \in K
    BY <1>2, <1>3, NatInSet
  <1>5. \A ch \in ControlChannels : \E i \in 1 .. Len(plan) : plan[i] = DitherOf(ch)
    BY <1>4, ChannelsOfBoard DEF K, Channels
  <1> DEFINE end == <<modes>>
  <1>6. plan \in Seq(InitMessages) /\ end \in Seq(InitMessages) /\ Len(end) = 1 /\ end[1] = modes
    <2>1. modes \in InitMessages
      BY MessageIn, FieldsIn DEF Channels, InitNames
    <2> HIDE DEF modes
    <2> QED
      BY <1>1, <2>1
  <1>7. InitPlan = plan \o end /\ modes.name = "CtrlMethodFaultMaskCfg"
    BY DEF InitPlan, Message
  <1> HIDE DEF plan, end, modes
  <1>8. /\ InitPlan \in Seq(InitMessages) /\ Len(InitPlan) = Len(plan) + 1 /\ Len(plan) \in Nat
        /\ \A i \in 1 .. Len(plan) + 1 :
             InitPlan[i] = IF i <= Len(plan) THEN plan[i] ELSE end[i - Len(plan)]
    <2>1. plan \in Seq(InitMessages) /\ end \in Seq(InitMessages) /\ Len(end) = 1
      BY <1>6
    <2>2. /\ plan \o end \in Seq(InitMessages) /\ Len(plan \o end) = Len(plan) + Len(end)
          /\ \A i \in 1 .. Len(plan) + Len(end) :
               (plan \o end)[i] = IF i <= Len(plan) THEN plan[i] ELSE end[i - Len(plan)]
      BY <2>1, ConcatProperties
    <2>3. Len(plan) \in Nat
      BY <2>1, LenProperties
    <2> QED
      BY <1>7, <2>1, <2>2, <2>3
  <1>9. InitPlan # <<>> /\ InitPlan[Len(InitPlan)] = modes
    BY <1>6, <1>8
  <1>10. ASSUME NEW ch \in ControlChannels
         PROVE  \E i \in 1 .. Len(InitPlan) : InitPlan[i] = DitherOf(ch)
    <2>1. PICK i \in 1 .. Len(plan) : plan[i] = DitherOf(ch)
      BY <1>5
    <2>2. i \in 1 .. Len(InitPlan) /\ InitPlan[i] = plan[i]
      BY <1>8
    <2> QED
      BY <2>1, <2>2
  <1> QED
    BY <1>7, <1>8, <1>9, <1>10

-----------------------------------------------------------------------------
(* The registers after some of the messages *)

ModeRegister == {ch \in Channels : 7 - ch \in ModeBits}

LEMMA ShiftValvesInPwm == ModeRegister = ShiftChannels
  <1>1. ModeBits = {ModeBit(ch) : ch \in ShiftChannels}
    <2>1. {c \in DOMAIN Settings : Settings[c].mode = "pwm"} = ShiftChannels
      BY ChannelsOfBoard, Modes
    <2> QED
      BY <2>1 DEF ModeBits
  <1> QED
    BY <1>1 DEF ModeRegister, ModeBit, ShiftChannels, Channels, Chan

LEMMA AppliedTo ==
  ASSUME NEW r \in Regs, NEW m \in InitMessages
  PROVE  /\ Applied(r, m) \in Regs /\ r.loops \subseteq Applied(r, m).loops
         /\ m.name = "DitherPeriodSet" => m.channel \in Applied(r, m).loops
         /\ m.name = "CtrlMethodFaultMaskCfg" => Applied(r, m).pwm = ModeRegister
  <1>1. m.channel \in Channels /\ ModeRegister \subseteq Channels
    BY DEF InitMessages, ModeRegister
  <1>2. CASE m.name = "DitherPeriodSet"
    <2>1. Applied(r, m) = [r EXCEPT !.loops = @ \cup {m.channel}]
      BY <1>2 DEF Applied
    <2> QED
      BY <1>1, <1>2, <2>1 DEF Regs
  <1>3. CASE m.name = "CtrlMethodFaultMaskCfg"
    <2>1. Applied(r, m) = [r EXCEPT !.pwm = ModeRegister]
      BY <1>3 DEF Applied, ModeRegister
    <2> QED
      BY <1>1, <1>3, <2>1 DEF Regs
  <1>4. CASE m.name \notin {"DitherPeriodSet", "CtrlMethodFaultMaskCfg"}
    BY <1>4 DEF Applied
  <1> QED
    BY <1>2, <1>3, <1>4

LEMMA AfterSteps ==
  /\ After \in [0 .. Len(InitPlan) -> Regs]
  /\ \A n \in 1 .. Len(InitPlan) : After[n] = Applied(After[n - 1], InitPlan[n])
  <1> DEFINE N == Len(InitPlan)
             Then(r, n) == Applied(r, InitPlan[n])
             step == [n \in 1 .. N |-> [r \in Regs |-> Then(r, n)]]
             Def(f) == [n \in 0 .. N |-> IF n = 0 THEN ResetRegisters ELSE Then(f[n - 1], n)]
  <1>1. N \in Nat /\ ResetRegisters \in Regs
    BY PlanFacts, LenProperties DEF ResetRegisters, Regs
  <1>2. \A n \in 1 .. N, r \in Regs : Then(r, n) \in Regs
    <2>1. \A n \in 1 .. N : InitPlan[n] \in InitMessages
      BY PlanFacts, ElementOfSeq
    <2> QED
      BY <2>1, AppliedTo
  <1> HIDE DEF N, Then
  <1>3. step \in Steps(N, Regs)
    BY <1>2 DEF Steps
  <1>4. PICK f : Recursive(f, N, Regs, ResetRegisters, step)
    <2> HIDE DEF step
    <2> QED
      BY <1>1, <1>3, RecursionExists
  <1>5. f = Def(f)
    <2>1. /\ f \in [0 .. N -> Regs] /\ f[0] = ResetRegisters
          /\ \A n \in 1 .. N : f[n] = step[n][f[n - 1]]
      <3> HIDE DEF step
      <3> QED
        BY <1>4 DEF Recursive
    <2>2. ASSUME NEW n \in 1 .. N PROVE f[n] = Then(f[n - 1], n)
      <3>1. f[n - 1] \in Regs /\ f[n] = step[n][f[n - 1]]
        BY <1>1, <2>1
      <3> QED
        BY <3>1
    <2>3. \A n \in 0 .. N : f[n] = IF n = 0 THEN ResetRegisters ELSE Then(f[n - 1], n)
      BY <1>1, <2>1, <2>2
    <2> QED
      BY <2>1, <2>3
  <1>6. After = Def(After)
    BY <1>5, Zenon DEF After, N, Then
  <1>7. /\ After[0] = ResetRegisters
        /\ \A n \in 1 .. N : After[n] = Then(After[n - 1], n)
    BY <1>1, <1>6
  <1> DEFINE K == {n \in Nat : n <= N => After[n] \in Regs}
  <1>8. 0 \in K
    BY <1>1, <1>7
  <1>9. ASSUME NEW n \in Nat, n \in K PROVE n + 1 \in K
    <2> SUFFICES ASSUME n + 1 <= N PROVE After[n + 1] \in Regs
      OBVIOUS
    <2>1. After[n] \in Regs /\ n + 1 \in 1 .. N /\ (n + 1) - 1 = n
      BY <1>1, <1>9
    <2>2. After[n + 1] = Then(After[n], n + 1)
      BY <1>7, <2>1
    <2> QED
      BY <1>2, <2>1, <2>2
  <1> HIDE DEF K
  <1>10. Nat \subseteq K
    BY <1>8, <1>9, NatInSet
  <1>11. \A n \in 0 .. N : After[n] \in Regs
    BY <1>1, <1>10 DEF K
  <1>12. After \in [0 .. N -> Regs]
    BY <1>6, <1>11
  <1> QED
    BY <1>7, <1>12 DEF N, Then

\* After all of them the pressure solenoids have their loops, and the shift valves are
\* in PWM mode.
LEMMA AfterPlan ==
  /\ DOMAIN After = 0 .. Len(InitPlan) /\ Len(InitPlan) \in DOMAIN After
  /\ \A n \in DOMAIN After : After[n] \in Regs
  /\ ControlChannels \subseteq After[Len(InitPlan)].loops
  /\ After[Len(InitPlan)].pwm = ShiftChannels
  <1> DEFINE N == Len(InitPlan)
             K == {n \in Nat : n <= N =>
                     \A i \in 1 .. n, ch \in ControlChannels :
                       InitPlan[i] = DitherOf(ch) => ch \in After[n].loops}
  <1>1. N \in Nat /\ N # 0 /\ \A n \in 1 .. N : InitPlan[n] \in InitMessages
    BY PlanFacts, ElementOfSeq, LenProperties, EmptySeq
  <1>2. /\ \A n \in 0 .. N : After[n] \in Regs
        /\ \A n \in 1 .. N : After[n] = Applied(After[n - 1], InitPlan[n])
        /\ DOMAIN After = 0 .. N
    BY AfterSteps
  <1> HIDE DEF N
  <1>3. 0 \in K
    OBVIOUS
  <1>4. ASSUME NEW n \in Nat, n \in K PROVE n + 1 \in K
    <2> SUFFICES ASSUME n + 1 <= N, NEW i \in 1 .. n + 1, NEW ch \in ControlChannels,
                        InitPlan[i] = DitherOf(ch)
                 PROVE  ch \in After[n + 1].loops
      OBVIOUS
    <2> DEFINE r == After[n]
               m == InitPlan[n + 1]
    <2>1. r \in Regs /\ m \in InitMessages /\ After[n + 1] = Applied(r, m)
      <3>1. n \in 0 .. N /\ n + 1 \in 1 .. N /\ (n + 1) - 1 = n
        BY <1>1
      <3> QED
        BY <1>1, <1>2, <3>1
    <2>2. CASE i = n + 1
      <3>1. m.name = "DitherPeriodSet" /\ m.channel = ch
        BY <2>2 DEF DitherOf, Message
      <3> QED
        BY <2>1, <3>1, AppliedTo
    <2>3. CASE i \in 1 .. n
      <3>1. ch \in r.loops
        BY <1>1, <1>4, <2>3
      <3> QED
        BY <2>1, <3>1, AppliedTo
    <2> QED
      BY <2>2, <2>3
  <1> HIDE DEF K
  <1>5. N \in K
    BY <1>1, <1>3, <1>4, NatInSet
  <1>6. ASSUME NEW ch \in ControlChannels PROVE ch \in After[N].loops
    <2>1. PICK i \in 1 .. N : InitPlan[i] = DitherOf(ch)
      BY PlanFacts DEF N
    <2> QED
      BY <1>1, <1>5, <2>1 DEF K
  <1>7. After[N].pwm = ShiftChannels
    <2>1. After[N - 1] \in Regs /\ InitPlan[N] \in InitMessages
          /\ After[N] = Applied(After[N - 1], InitPlan[N])
      BY <1>1, <1>2
    <2>2. InitPlan[N].name = "CtrlMethodFaultMaskCfg"
      BY PlanFacts DEF N
    <2> QED
      BY <2>1, <2>2, AppliedTo, ShiftValvesInPwm
  <1> QED
    BY <1>1, <1>2, <1>6, <1>7 DEF N

-----------------------------------------------------------------------------
(* Channels that control their current *)

\* Nothing is set before initialisation has come to its end, and then the registers are
\* those after all of its messages.
ModeInv ==
  /\ transfer # NoTransfer => pc \in {"mpc", "spc"} /\ configured
  /\ (\E sol \in {"mpc", "spc"} : chip[sol] # 0) => pc # "init" /\ configured
  /\ configured => regs = After[Len(InitPlan)]

LEMMA ModeInvInit == Init => ModeInv
  BY DEF Init, SolenoidsInit, ModeInv

LEMMA ModeFrame ==
  ASSUME ModeInv, UNCHANGED <<chip, configured, regs>>, pc' = "init" => pc = "init",
         transfer' = NoTransfer \/ (transfer' = transfer /\ pc' = pc)
  PROVE  ModeInv'
  BY DEF ModeInv

LEMMA ModeInvNext == ModeInv /\ [Next]_gearboxVars => ModeInv'
  <1> SUFFICES ASSUME ModeInv, [Next]_gearboxVars PROVE ModeInv'
    OBVIOUS
  <1>1. CASE GearboxInit
    <2>1. PICK ok \in BOOLEAN : SolInit(ok)
      BY <1>1 DEF GearboxInit
    <2>2. PICK n \in DOMAIN After : regs' = After[n] /\ (ok => n = Len(InitPlan))
      BY <2>1 DEF SolInit
    <2>3. configured' = ok /\ UNCHANGED <<chip, transfer>> /\ pc = "init" /\ pc' = "update"
      BY <1>1, <2>1 DEF GearboxInit, SolInit
    <2> QED
      BY <2>2, <2>3 DEF ModeInv
  <1>2. CASE BeginCurrent
    <2>1. UNCHANGED <<pc, chip, configured, regs>> /\ pc \in {"mpc", "spc"} /\ configured
      BY <1>2 DEF BeginCurrent, BeginExchange
    <2> QED
      BY <2>1 DEF ModeInv
  <1>3. CASE CurrentDone /\ ExchangeDone /\ UNCHANGED pc
    <2>1. UNCHANGED <<pc, configured, regs>> /\ transfer # NoTransfer
      BY <1>3 DEF ExchangeDone, NoTransfer
    <2> QED
      BY <2>1 DEF ModeInv
  <1>4. CASE \/ Update \/ WriteCan \/ WritePower \/ SkipCurrent \/ (CurrentDone /\ Settled)
             \/ UpdateTask \/ WakeUp \/ CurrentFails \/ WriteTimeout \/ CommanderTask \/ OthersSend
             \/ FrameArrives \/ Tick \/ UNCHANGED gearboxVars
    <2>1. UNCHANGED <<chip, configured, regs>>
      BY <1>4 DEF Update, WriteCan, WritePower, HighSidePower, SkipCurrent, Settled, UpdateTask,
           ReadCurrent, WakeUp, CurrentFails, Abandon, WriteTimeout, CommanderTask, OthersSend,
           FrameArrives, Tick, gearboxVars, solVars
    <2>2. pc' = "init" => pc = "init"
      BY <1>4 DEF Update, WriteCan, WritePower, SkipCurrent, CurrentDone, Settled, UpdateTask,
           WakeUp, CurrentFails, WriteTimeout, CommanderTask, OthersSend,
           FrameArrives, Tick, gearboxVars, AfterCurrent
    <2>3. transfer' = NoTransfer \/ (transfer' = transfer /\ pc' = pc)
      BY <1>4 DEF ModeInv, Update, WriteCan, WritePower, HighSidePower, SkipCurrent, Settled,
           UpdateTask, ReadCurrent, WakeUp, CurrentFails, Abandon, WriteTimeout, CommanderTask,
           OthersSend, FrameArrives, Tick, gearboxVars, solVars
    <2> QED
      BY <2>1, <2>2, <2>3, ModeFrame
  <1> QED
    BY <1>1, <1>2, <1>3, <1>4 DEF Next, GearboxTask, AfterUpdate, CurrentDone

\* A current goes only to a channel that has its control loop and is not in PWM mode,
\* in which the shift valves are; and it fits the field of its message.
THEOREM CurrentsFitAlways == Spec => []CurrentsFit
  <1>1. ModeInv => ModesFit
    <2> SUFFICES ASSUME ModeInv PROVE ModesFit
      OBVIOUS
    <2>1. configured => ControlChannels \subseteq regs.loops /\ regs.pwm = ShiftChannels
      BY AfterPlan DEF ModeInv
    <2>2. \A sol \in {"mpc", "spc"} : Chan[sol] \in ControlChannels
      BY DEF ControlChannels, Chan
    <2>3. ASSUME NEW sol \in {"mpc", "spc"}, chip[sol] # 0
          PROVE  Chan[sol] \in regs.loops \ regs.pwm
      <3>1. configured
        BY <2>3 DEF ModeInv
      <3> QED
        BY <2>1, <2>2, <3>1, ChannelsOfBoard
    <2>4. configured => {Chan.y3, Chan.y4, Chan.y5} \subseteq regs.pwm
      BY <2>1 DEF ShiftChannels
    <2> QED
      BY <2>3, <2>4 DEF ModesFit
  <1> QED
    BY ModeInvInit, ModeInvNext, <1>1, SetpointsFitAlways, PTL DEF Spec, CurrentsFit

-----------------------------------------------------------------------------
(* The types of the variables *)

TaskTypes ==
  /\ pc \in {"init", "update", "can", "power", "mpc", "spc", "read", "sleep"}
  /\ mode \subseteq {"INIT", "TEMP_EMERGENCY", "HARDWARE_ERR"}
  /\ outputs \in [pwr : BOOLEAN, mpc : Nat, spc : Nat]
  /\ running \in BOOLEAN /\ pressure \in [mpc : Nat, spc : Nat]
  /\ delta \in [found : BOOLEAN, there : BOOLEAN] /\ told \in BOOLEAN
  /\ cycled \in BOOLEAN /\ faults \in 0 .. MaxFaults

BusTypes ==
  /\ engine \in [age : 0 .. AgeCap \cup {Never}, val : {"stopped", "running", "invalid"}]
  /\ sinceNow \in 0 .. MaxSince /\ canTx \in {"free", "other", "gearbox"}

ChannelTypes == CalInv /\ db \in Databases /\ Len(cmds) <= Slots /\ Len(resps) <= Slots

\* An exchange is with one of the pressure solenoids.
Exchanges ==
  {NoTransfer} \cup
    [at : {"transfer", "settle"}, sol : {"mpc", "spc"}, ma : Nat, clean : BOOLEAN]

SolTypes ==
  /\ power \in BOOLEAN /\ configured \in BOOLEAN /\ selected \in BOOLEAN
  /\ last \in [mpc : Nat, spc : Nat] /\ chip \in [mpc : Nat, spc : Nat]
  /\ regs \in Regs /\ transfer \in Exchanges /\ abandoned \in BOOLEAN

TypeInv == SetpointInv /\ TaskTypes /\ BusTypes /\ ChannelTypes /\ SolTypes

LEMMA TypeInvInit == Init => TypeInv
  <1> SUFFICES ASSUME Init PROVE TypeInv
    OBVIOUS
  <1>1. TaskTypes
    <2>1. MaxFaults \in Nat
      BY GearboxAssumption
    <2>2. /\ outputs \in [pwr : BOOLEAN, mpc : Nat, spc : Nat] /\ pressure \in [mpc : Nat, spc : Nat]
          /\ delta \in [found : BOOLEAN, there : BOOLEAN]
      BY DEF Init, Off, NoDelta
    <2>3. faults \in 0 .. MaxFaults
      BY <2>1 DEF Init
    <2>4. /\ pc \in {"init", "update", "can", "power", "mpc", "spc", "read", "sleep"}
          /\ mode \subseteq {"INIT", "TEMP_EMERGENCY", "HARDWARE_ERR"}
      BY DEF Init
    <2>5. running \in BOOLEAN  /\ told \in BOOLEAN /\ cycled \in BOOLEAN
      BY DEF Init
    <2> QED
      BY <2>2, <2>3, <2>4, <2>5, Zenon DEF TaskTypes
  <1>2. BusTypes
    BY GearboxAssumption DEF Init, BusTypes, Never
  <1>3. ChannelTypes
    <2>1. CalInv
      BY GearboxAssumption, CalInvInit DEF Init
    <2> QED
      BY <2>1, CalAssumption DEF Init, CalInit, ChannelTypes
  <1>4. SolTypes
    BY DEF Init, SolenoidsInit, SolTypes, Exchanges, ResetRegisters, Regs
  <1> QED
    BY <1>1, <1>2, <1>3, <1>4, SetpointInvInit DEF TypeInv

LEMMA TaskTypesNext == TypeInv /\ SetpointInv' /\ [Next]_gearboxVars => TaskTypes'
  <1> SUFFICES ASSUME TypeInv, SetpointInv', [Next]_gearboxVars PROVE TaskTypes'
    OBVIOUS
  <1>0. TaskTypes /\ MaxFaults \in Nat
    BY GearboxAssumption DEF TypeInv
  <1>1. CASE GearboxInit
    BY <1>0, <1>1 DEF TaskTypes, GearboxInit
  <1>2. CASE Update
    <2>1. /\ pc' = "can" /\ UNCHANGED <<delta, told, cycled, faults>>
      BY <1>2 DEF Update
    <2>2. CASE UpdateInit
      <3>1. mode' \subseteq {"INIT", "TEMP_EMERGENCY", "HARDWARE_ERR"}
        <4>1. mode' \in {mode, mode \ {"INIT"}, (mode \ {"INIT"}) \cup {"TEMP_EMERGENCY"}}
          BY <2>2 DEF UpdateInit, AfterPoll, PollResult
        <4> QED
          BY <1>0, <4>1 DEF TaskTypes
      <3> QED
        BY <1>0, <2>1, <2>2, <3>1 DEF TaskTypes, UpdateInit
    <2>3. CASE UpdateRegular
      <3>1. running' \in BOOLEAN /\ mode' = mode
        BY <2>3 DEF UpdateRegular, EngineRunning, RxGet
      <3>2. pressure' \in [mpc : Nat, spc : Nat]
        <4>1. pressure' = Pressures(EngineRunning)
          BY <2>3 DEF UpdateRegular
        <4>2. /\ DOMAIN pressure' = {"mpc", "spc"}
              /\ pressure' = [mpc |-> pressure'.mpc, spc |-> pressure'.spc]
          BY <4>1 DEF Pressures
        <4> QED
          BY <4>2 DEF SetpointInv
      <3>3. outputs' \in [pwr : BOOLEAN, mpc : Nat, spc : Nat]
        <4>1. PICK tft \in Tfts : outputs' = Outputs(Pressures(EngineRunning), tft)
          BY <2>3 DEF UpdateRegular
        <4>2. /\ outputs' = [pwr |-> outputs'.pwr, mpc |-> outputs'.mpc, spc |-> outputs'.spc]
              /\ outputs'.pwr \in BOOLEAN
          BY <4>1 DEF Outputs, Off
        <4>3. outputs'.mpc \in Nat /\ outputs'.spc \in Nat
          BY MaxCurrentNat DEF SetpointInv
        <4> QED
          BY <4>2, <4>3
      <3> QED
        BY <1>0, <2>1, <3>1, <3>2, <3>3 DEF TaskTypes
    <2> QED
      BY <1>2, <2>2, <2>3 DEF Update
  <1>3. CASE WriteCan
    BY <1>0, <1>3 DEF TaskTypes, WriteCan, RxGet
  <1>4. CASE \/ WritePower \/ SkipCurrent \/ BeginCurrent \/ CurrentDone \/ CurrentFails
             \/ WriteTimeout \/ WakeUp
    <2>1. UNCHANGED <<outputs, running, pressure, told>>
      BY <1>4 DEF WritePower, SkipCurrent, BeginCurrent, CurrentDone, CurrentFails, WriteTimeout,
           WakeUp, unchangedByWrites
    <2>2. pc' \in {pc, "mpc", "spc", "read", "update"} /\ mode' \in {mode, mode \cup {"HARDWARE_ERR"}}
      BY <1>4 DEF WritePower, SkipCurrent, BeginCurrent, CurrentDone, CurrentFails, WriteTimeout,
           WakeUp, AfterCurrent
    <2>3. delta' \in {delta, NoDelta} /\ cycled' \in {cycled, TRUE}
      BY <1>4 DEF WritePower, SkipCurrent, BeginCurrent, CurrentDone, CurrentFails, WriteTimeout,
           WakeUp
    <2>4. faults' = faults \/ (faults < MaxFaults /\ faults' = faults + 1)
      BY <1>4 DEF WritePower, SkipCurrent, BeginCurrent, CurrentDone, CurrentFails, WriteTimeout,
           WakeUp
    <2>5. faults' \in 0 .. MaxFaults
      BY <1>0, <2>4 DEF TaskTypes
    <2>6. /\ pc' \in {"init", "update", "can", "power", "mpc", "spc", "read", "sleep"}
          /\ mode' \subseteq {"INIT", "TEMP_EMERGENCY", "HARDWARE_ERR"}
      BY <1>0, <2>2 DEF TaskTypes
    <2>7. delta' \in [found : BOOLEAN, there : BOOLEAN] /\ cycled' \in BOOLEAN
      <3>1. NoDelta \in [found : BOOLEAN, there : BOOLEAN]
        BY DEF NoDelta
      <3> QED
        BY <1>0, <2>3, <3>1, Zenon DEF TaskTypes
    <2> QED
      BY <1>0, <2>1, <2>5, <2>6, <2>7, Zenon DEF TaskTypes
  <1>5. CASE UpdateTask
    BY <1>0, <1>5 DEF TaskTypes, UpdateTask, unchangedByWrites
  <1>6. CASE CommanderTask \/ OthersSend \/ FrameArrives \/ Tick \/ UNCHANGED gearboxVars
    BY <1>0, <1>6 DEF TaskTypes, CommanderTask, OthersSend, FrameArrives, Tick, gearboxVars
  <1> QED
    BY <1>1, <1>2, <1>3, <1>4, <1>5, <1>6 DEF Next, GearboxTask, AfterUpdate

LEMMA BusTypesNext == TypeInv /\ [Next]_gearboxVars => BusTypes'
  <1> SUFFICES ASSUME TypeInv, [Next]_gearboxVars PROVE BusTypes'
    OBVIOUS
  <1>0. BusTypes /\ MaxAge \in Nat /\ MaxSince \in Nat \ {0} /\ AgeCap = MaxAge + MaxSince + 1
    BY GearboxAssumption DEF TypeInv, AgeCap
  <1>1. CASE GearboxInit \/ WakeUp
    BY <1>0, <1>1 DEF BusTypes, GearboxInit, WakeUp, unchangedByWrites
  <1>2. CASE Tick
    <2>1. engine' = [engine EXCEPT !.age = Older(@)] /\ canTx' = canTx
          /\ sinceNow' = sinceNow + 1 /\ sinceNow < MaxSince
      BY <1>2 DEF Tick
    <2>2. Older(engine.age) \in 0 .. AgeCap \cup {Never}
      BY <1>0 DEF BusTypes, Older, Smaller, Never
    <2> QED
      BY <1>0, <2>1, <2>2 DEF BusTypes
  <1>3. CASE FrameArrives
    BY <1>0, <1>3 DEF BusTypes, FrameArrives
  <1>4. CASE OthersSend \/ WriteCan
    BY <1>0, <1>4 DEF BusTypes, OthersSend, WriteCan, TransmitterAfter
  <1>5. CASE \/ Update \/ WritePower \/ SkipCurrent \/ BeginCurrent \/ CurrentDone \/ CurrentFails
             \/ WriteTimeout \/ UpdateTask \/ CommanderTask \/ UNCHANGED gearboxVars
    BY <1>0, <1>5 DEF BusTypes, Update, WritePower, SkipCurrent, BeginCurrent, CurrentDone,
         CurrentFails, WriteTimeout, UpdateTask, CommanderTask, gearboxVars, unchangedByWrites
  <1> QED
    BY <1>1, <1>2, <1>3, <1>4, <1>5 DEF Next, GearboxTask, AfterUpdate

LEMMA ChannelTypesNext == TypeInv /\ [Next]_gearboxVars => ChannelTypes'
  <1> SUFFICES ASSUME TypeInv, [Next]_gearboxVars PROVE ChannelTypes'
    OBVIOUS
  <1>0. /\ ChannelTypes /\ CalInv /\ Slots \in Nat
        /\ cmds \in Seq(Cals) /\ resps \in Seq(Answers)
    BY CalAssumption DEF TypeInv, ChannelTypes, CalInv, CalTypes
  <1>1. CASE Update /\ UpdateInit
    <2>1. InitPoll
      BY <1>1 DEF UpdateInit
    <2>2. CalInv' /\ db' = db
      BY <1>0, <2>1, PollKeeps
    <2>3. Len(cmds') <= Slots
      BY <1>0, <2>1, AppendProperties, LenProperties DEF ChannelTypes, InitPoll, PollSends, CanSend
    <2>4. Len(resps') <= Slots
      BY <1>0, <2>1, HeadTailProperties, LenProperties DEF ChannelTypes, InitPoll, PollReceives
    <2> QED
      BY <1>0, <2>2, <2>3, <2>4 DEF ChannelTypes
  <1>2. CASE CommanderTask
    <2>1. CalInv' /\ db' = db
      BY <1>0, <1>2, CommanderKeeps DEF CommanderTask
    <2>2. Len(cmds') <= Slots /\ Len(resps') <= Slots
      <3>1. CASE Mount \/ ReadKey
        BY <1>0, <3>1 DEF ChannelTypes, Mount, ReadKey
      <3>2. CASE ReceiveCmd
        BY <1>0, <3>2, HeadTailProperties, LenProperties DEF ChannelTypes, ReceiveCmd
      <3>3. CASE SendResp
        <4>1. Len(resps') = Len(resps) + 1 /\ Len(resps) < Slots /\ cmds' = cmds
          BY <1>0, <3>3 DEF SendResp
        <4>2. Len(resps) \in Nat
          BY <1>0, LenProperties
        <4> QED
          BY <1>0, <4>1, <4>2 DEF ChannelTypes
      <3> QED
        BY <1>2, <3>1, <3>2, <3>3 DEF CommanderTask, Commander
    <2> QED
      BY <1>0, <2>1, <2>2 DEF ChannelTypes
  <1>3. CASE \/ GearboxInit \/ (Update /\ UpdateRegular) \/ WriteCan \/ WritePower \/ SkipCurrent
             \/ BeginCurrent \/ CurrentDone \/ UpdateTask \/ WakeUp \/ CurrentFails
             \/ WriteTimeout \/ OthersSend \/ FrameArrives \/ Tick \/ UNCHANGED gearboxVars
    <2>1. UNCHANGED calVars
      BY <1>3 DEF GearboxInit, UpdateRegular, WriteCan, WritePower, SkipCurrent, BeginCurrent,
           CurrentDone, UpdateTask, WakeUp, CurrentFails, WriteTimeout, OthersSend, FrameArrives,
           Tick, gearboxVars, unchangedByWrites
    <2> QED
      BY <1>0, <2>1, CalFrame DEF ChannelTypes, calVars
  <1> QED
    BY <1>1, <1>2, <1>3 DEF Next, GearboxTask, AfterUpdate, Update

LEMMA SolTypesNext == TypeInv /\ [Next]_gearboxVars => SolTypes'
  <1> SUFFICES ASSUME TypeInv, [Next]_gearboxVars PROVE SolTypes'
    OBVIOUS
  <1>0. SolTypes /\ outputs \in [pwr : BOOLEAN, mpc : Nat, spc : Nat]
    BY DEF TypeInv, TaskTypes
  <1>1. CASE GearboxInit
    <2>1. PICK ok \in BOOLEAN : SolInit(ok)
      BY <1>1 DEF GearboxInit
    <2>2. regs' \in Regs
      BY <2>1, AfterPlan DEF SolInit
    <2> QED
      BY <1>0, <2>1, <2>2 DEF SolTypes, SolInit
  <1>2. CASE WritePower
    BY <1>0, <1>2 DEF SolTypes, WritePower, HighSidePower
  <1>3. CASE BeginCurrent
    <2>1. /\ transfer' = [at |-> "transfer", sol |-> pc, ma |-> outputs[pc], clean |-> ~selected]
          /\ pc \in {"mpc", "spc"} /\ selected' = TRUE
          /\ UNCHANGED <<power, configured, last, chip, regs, abandoned>>
      BY <1>3 DEF BeginCurrent, BeginExchange
    <2>2. outputs[pc] \in Nat
      BY <1>0, <2>1
    <2>3. transfer' \in Exchanges
      BY <2>1, <2>2 DEF Exchanges
    <2> QED
      BY <1>0, <2>1, <2>3 DEF SolTypes
  <1>4. CASE CurrentDone
    <2>1. /\ transfer \in [at : {"transfer", "settle"}, sol : {"mpc", "spc"}, ma : Nat,
                           clean : BOOLEAN]
      BY <1>0, <1>4 DEF SolTypes, Exchanges, CurrentDone, ExchangeDone, Settled, NoTransfer
    <2>2. CASE ExchangeDone
      <3>1. transfer' \in Exchanges
        BY <2>1, <2>2 DEF ExchangeDone, Exchanges
      <3>2. chip' \in [mpc : Nat, spc : Nat]
        <4>1. chip' \in {chip, [chip EXCEPT ![transfer.sol] = transfer.ma]}
          BY <2>2 DEF ExchangeDone
        <4> QED
          BY <1>0, <2>1, <4>1 DEF SolTypes
      <3> QED
        BY <1>0, <2>2, <3>1, <3>2 DEF SolTypes, ExchangeDone
    <2>3. CASE Settled
      <3>1. last' = [last EXCEPT ![transfer.sol] = transfer.ma]
        BY <2>3 DEF Settled, Remembered
      <3>2. last' \in [mpc : Nat, spc : Nat]
        BY <1>0, <2>1, <3>1 DEF SolTypes
      <3> QED
        BY <1>0, <2>3, <3>2 DEF SolTypes, Settled, Exchanges
    <2> QED
      BY <1>4, <2>2, <2>3 DEF CurrentDone
  <1>5. CASE CurrentFails \/ WriteTimeout
    BY <1>0, <1>5 DEF SolTypes, CurrentFails, WriteTimeout, Abandon, PowerAfterFailure, Exchanges
  <1>6. CASE UpdateTask
    BY <1>0, <1>6 DEF SolTypes, UpdateTask, ReadCurrent
  <1>7. CASE \/ Update \/ WriteCan \/ SkipCurrent \/ WakeUp \/ CommanderTask \/ OthersSend
             \/ FrameArrives \/ Tick \/ UNCHANGED gearboxVars
    BY <1>0, <1>7 DEF SolTypes, Update, WriteCan, SkipCurrent, WakeUp, CommanderTask, OthersSend,
         FrameArrives, Tick, gearboxVars, solVars
  <1> QED
    BY <1>1, <1>2, <1>3, <1>4, <1>5, <1>6, <1>7 DEF Next, GearboxTask, AfterUpdate

\* No channel ever holds more than its places, no time or fault leaves its bounds, and
\* every current is a number.
THEOREM GearboxTyped == Spec => []GearboxTypeOK
  <1>1. TypeInv /\ [Next]_gearboxVars => TypeInv'
    BY SetpointInvNext, TaskTypesNext, BusTypesNext, ChannelTypesNext, SolTypesNext DEF TypeInv
  <1>2. TypeInv => GearboxTypeOK
    <2> SUFFICES ASSUME TypeInv PROVE GearboxTypeOK
      OBVIOUS
    <2>1. transfer.at \in {"none", "transfer", "settle"}
      BY DEF TypeInv, SolTypes, Exchanges, NoTransfer
    <2> QED
      BY <2>1 DEF TypeInv, TaskTypes, BusTypes, ChannelTypes, SolTypes, Regs, CalInv, CalTypes,
           Values, GearboxTypeOK
  <1> QED
    BY TypeInvInit, <1>1, <1>2, PTL DEF Spec
=============================================================================
