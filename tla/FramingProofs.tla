----------------------------- MODULE FramingProofs -----------------------------
(***************************************************************************)
(* What recv returns and when it fails, for every number of messages and   *)
(* every number of parts a message may come in.                            *)
(***************************************************************************)
EXTENDS Framing, Facts

\* How much of the stream the first n messages fill.
Filled(n) == PartsPerMsg * n

-----------------------------------------------------------------------------
(***************************************************************************)
(* Positions in the stream.                                                *)
(***************************************************************************)

\* Messages lie one after the other.
LEMMA FilledStep ==
    ASSUME NEW n \in Nat
    PROVE  /\ PartsPerMsg \in Nat /\ PartsPerMsg > 1
           /\ Filled(n) \in Nat /\ Filled(n + 1) \in Nat
           /\ Filled(n + 1) = Filled(n) + PartsPerMsg
           /\ Filled(n) < Filled(n + 1)
  <1>1. PartsPerMsg \in Nat /\ PartsPerMsg > 1
    BY FramingAssumption
  <1>2. PartsPerMsg * n \in Nat
    BY <1>1
  <1>3. PartsPerMsg * (n + 1) = PartsPerMsg * n + PartsPerMsg
    BY <1>1
  <1> QED
    BY <1>1, <1>2, <1>3 DEF Filled

\* A position in message n + 1 belongs to it.
LEMMA InMessage ==
    ASSUME NEW n \in Nat, NEW p \in Nat, Filled(n) < p, p <= Filled(n + 1)
    PROVE  /\ MsgOf(p) = n + 1
           /\ EndsLine(p) <=> p = Filled(n + 1)
  <1> DEFINE k == PartsPerMsg
  <1>1. PICK x \in 1 .. k : p = Filled(n) + x
    <2>1. p - Filled(n) \in 1 .. k /\ p = Filled(n) + (p - Filled(n))
      BY FilledStep
    <2> QED
      BY <2>1
  <1>2. /\ k \in Nat /\ k > 1 /\ k \in Nat \ {0} /\ Filled(n) = k * n /\ Filled(n + 1) = k * (n + 1)
        /\ Filled(n) \in Nat /\ Filled(n + 1) = Filled(n) + k /\ n + 1 \in Nat
    BY FilledStep DEF Filled
  <1> HIDE DEF k
  <1>3. MsgOf(p) = n + 1
    <2>1. p + k - 1 = k * (n + 1) + (x - 1)
      <3>1. p + k - 1 = Filled(n + 1) + (x - 1)
        BY <1>1, <1>2
      <3> QED
        BY <1>2, <3>1
    <2>2. x - 1 \in Nat /\ x - 1 < k
      BY <1>1, <1>2
    <2>3. (k * (n + 1) + (x - 1)) \div k = n + 1
      BY <1>2, <2>2, DivisionUnique
    <2> QED
      BY <2>1, <2>3 DEF MsgOf, k
  <1>4. CASE x < k
    <2>1. x \in Nat /\ x # 0 /\ p # Filled(n + 1)
      BY <1>1, <1>2, <1>4
    <2>2. (k * n + x) % k = x
      BY <1>2, <1>4, <2>1, DivisionUnique
    <2> QED
      BY <1>1, <1>2, <1>3, <2>1, <2>2 DEF EndsLine, k
  <1>5. CASE x = k
    <2>1. p = Filled(n + 1)
      BY <1>1, <1>2, <1>5
    <2>2. (k * (n + 1) + 0) % k = 0
      BY <1>2, DivisionUnique
    <2>3. k * (n + 1) \in Nat /\ k * (n + 1) + 0 = k * (n + 1)
      BY <1>2
    <2> QED
      BY <1>2, <1>3, <2>1, <2>2, <2>3 DEF EndsLine, k
  <1> QED
    BY <1>1, <1>2, <1>3, <1>4, <1>5

\* What has filled n messages but their last newline ends in message n.
LEMMA OfLastMessage ==
    ASSUME NEW n \in Nat, NEW p \in Nat, p = Filled(n + 1) - 1
    PROVE  MsgOf(p) = n + 1
  <1>1. /\ Filled(n) \in Nat /\ PartsPerMsg \in Nat /\ PartsPerMsg > 1
        /\ Filled(n + 1) = Filled(n) + PartsPerMsg
    BY FilledStep
  <1>2. Filled(n) < p /\ p <= Filled(n + 1)
    BY <1>1
  <1> QED
    BY <1>2, InMessage

\* A position after n messages belongs to none of the first n - 1.
LEMMA AfterMessages ==
    ASSUME NEW n \in Nat, NEW p \in Nat, Filled(n) <= p, p < Filled(n + 1)
    PROVE  n <= MsgOf(p)
  <1>1. CASE Filled(n) < p
    <2>1. MsgOf(p) = n + 1
      BY <1>1, FilledStep, InMessage
    <2> QED
      BY <2>1
  <1>2. CASE p = Filled(n) /\ n # 0
    <2>1. PICK m \in Nat : n = m + 1
      <3>1. n - 1 \in Nat /\ n = (n - 1) + 1
        BY <1>2
      <3> QED
        BY <3>1
    <2>2. Filled(m) < p /\ p <= Filled(m + 1)
      BY <1>2, <2>1, FilledStep
    <2>3. MsgOf(p) = m + 1
      BY <2>1, <2>2, InMessage
    <2> QED
      BY <2>1, <2>3
  <1>3. CASE n = 0
    <2>1. p + PartsPerMsg - 1 \in Nat /\ PartsPerMsg \in Nat \ {0}
      BY FramingAssumption
    <2>2. (p + PartsPerMsg - 1) \div PartsPerMsg \in Nat
      BY <2>1
    <2> QED
      BY <1>3, <2>2 DEF MsgOf
  <1>4. Filled(n) \in Nat
    BY FilledStep
  <1> QED
    BY <1>1, <1>2, <1>3, <1>4

-----------------------------------------------------------------------------
(***************************************************************************)
(* The invariant.  While the receiver runs, the line it is reading starts  *)
(* in the message after those it has handled -- at its beginning unless    *)
(* part of it was dropped -- and that message has not ended; or the stream *)
(* has ended without the newline of the last message, which was handled.   *)
(***************************************************************************)
Positions ==
    /\ written \in Nat /\ arrived \in Nat /\ taken \in Nat /\ start \in Nat
    /\ start <= taken /\ taken <= arrived /\ arrived <= written

InOrder == handled \in Seq(Nat) /\ \A i \in 1 .. Len(handled) : handled[i] = i

InsideLine ==
    /\ Filled(Len(handled)) <= start
    /\ taken < Filled(Len(handled) + 1)
    /\ dropped \/ start = Filled(Len(handled))

AtEnd ==
    /\ sender = "closed" /\ start = taken /\ taken = written
    /\ Len(handled) > 0 /\ taken = Filled(Len(handled)) - 1

\* The receiver left at the end of the stream, with all of it taken.
EndInv ==
    loop = "eof" =>
        /\ sender = "closed" /\ taken = written
        /\ \/ dropped \/ taken = Filled(Len(handled))
           \/ Len(handled) > 0 /\ taken = Filled(Len(handled)) - 1

FramingInv ==
    /\ Positions
    /\ InOrder
    /\ Len(handled) <= MsgOf(taken)
    /\ dropped \in BOOLEAN
    /\ loop = "running" => InsideLine \/ AtEnd
    /\ BadLineIsTruncation
    /\ EndInv

-----------------------------------------------------------------------------
\* Nothing is sent, taken or handled at first.
LEMMA FramingInit == Init => FramingInv
  <1> SUFFICES ASSUME Init PROVE FramingInv
    OBVIOUS
  <1>1. Len(handled) = 0 /\ InOrder /\ Positions
    BY DEF Init, InOrder, Positions
  <1>2. Filled(0) = 0 /\ 0 < Filled(0 + 1)
    BY FilledStep, FramingAssumption DEF Filled
  <1>3. InsideLine
    BY <1>1, <1>2 DEF Init, InsideLine
  <1>4. 0 <= MsgOf(taken)
    BY <1>2, AfterMessages DEF Init
  <1> QED
    BY <1>1, <1>3, <1>4 DEF Init, FramingInv, BadLineIsTruncation, EndInv

\* The sender and the network touch nothing of the receiver's.
LEMMA WireKeeps ==
    ASSUME FramingInv, Write \/ Close \/ Arrive
    PROVE  FramingInv'
  <1>1. UNCHANGED <<taken, start, dropped, handled, loop>>
    BY DEF Write, Close, Arrive
  <1>2. Positions'
    BY DEF FramingInv, Positions, Write, Close, Arrive
  <1>3. sender = "closed" => UNCHANGED <<written, sender>>
    BY DEF Write, Close, Arrive
  <1>4. /\ InOrder' /\ MsgOf(taken)' = MsgOf(taken) /\ InsideLine' = InsideLine
        /\ AtEnd => AtEnd'
    BY <1>1, <1>3 DEF FramingInv, InOrder, InsideLine, AtEnd, MsgOf
  <1>5. BadLineIsTruncation'
    BY <1>1, <1>3 DEF FramingInv, BadLineIsTruncation, MsgOf
  <1>6. EndInv'
    BY <1>1, <1>3 DEF FramingInv, EndInv
  <1> QED
    BY <1>1, <1>2, <1>4, <1>5, <1>6 DEF FramingInv

\* While no line ends in what has arrived, the message has not ended.
LEMMA NoLineEnd ==
    ASSUME Positions, NEW n \in Nat, Filled(n) <= taken, taken < Filled(n + 1),
           LineEnd = {}
    PROVE  arrived < Filled(n + 1)
  <1>1. Filled(n) \in Nat /\ Filled(n + 1) \in Nat /\ Filled(n) < Filled(n + 1)
    BY FilledStep
  <1>2. EndsLine(Filled(n + 1))
    BY <1>1, InMessage
  <1>3. arrived \in Nat /\ taken \in Nat
    BY DEF Positions
  <1>4. Filled(n + 1) \notin (taken + 1) .. arrived
    BY <1>2 DEF LineEnd
  <1> QED
    BY <1>1, <1>3, <1>4

\* The first line that ends in what has arrived ends with the message.
LEMMA FirstLineEnd ==
    ASSUME Positions, NEW n \in Nat, Filled(n) <= taken, taken < Filled(n + 1),
           NEW p \in LineEnd, \A q \in LineEnd : p <= q
    PROVE  p = Filled(n + 1)
  <1>1. Filled(n) \in Nat /\ Filled(n + 1) \in Nat /\ Filled(n) < Filled(n + 1)
    BY FilledStep
  <1>2. /\ arrived \in Nat /\ taken \in Nat /\ p \in Nat
        /\ taken < p /\ p <= arrived /\ EndsLine(p)
    BY DEF Positions, LineEnd
  <1>3. EndsLine(Filled(n + 1))
    BY <1>1, InMessage
  <1>4. CASE p <= Filled(n + 1)
    BY <1>1, <1>2, <1>4, InMessage
  <1>5. CASE p > Filled(n + 1)
    <2>1. Filled(n + 1) \in LineEnd
      BY <1>1, <1>2, <1>3, <1>5 DEF LineEnd
    <2> QED
      BY <1>1, <1>2, <1>5, <2>1
  <1> QED
    BY <1>1, <1>2, <1>4, <1>5

\* A line that ends in the message after those handled is parsed as that one.
LEMMA ParseResult ==
    ASSUME NEW n \in Nat, n = Len(handled), NEW p \in Nat, MsgOf(p) = n + 1,
           Parse(p)
    PROVE  \/ /\ start = Filled(n) /\ p >= Filled(n + 1) - 1
              /\ handled' = Append(handled, n + 1) /\ loop' = loop
           \/ /\ start # Filled(n) \/ p < Filled(n + 1) - 1
              /\ handled' = handled /\ loop' = "bad line"
  <1>1. (n + 1) * PartsPerMsg = Filled(n + 1) /\ ((n + 1) - 1) * PartsPerMsg = Filled(n)
    BY FramingAssumption DEF Filled
  <1>2. Filled(n + 1) \in Nat
    BY FilledStep
  <1>3. StartsMsg(p) <=> start = Filled(n)
    BY <1>1 DEF StartsMsg
  <1>4. MsgOf(p) * PartsPerMsg - 1 = Filled(n + 1) - 1
    BY <1>1
  <1>5. CASE start = Filled(n) /\ p >= Filled(n + 1) - 1
    BY <1>3, <1>4, <1>5 DEF Parse
  <1>6. CASE ~(start = Filled(n) /\ p >= Filled(n + 1) - 1)
    <2>1. start # Filled(n) \/ p < Filled(n + 1) - 1
      BY <1>2, <1>6
    <2>2. handled' = handled /\ loop' = "bad line"
      BY <1>3, <1>4, <1>6 DEF Parse
    <2> QED
      BY <2>1, <2>2
  <1> QED
    BY <1>5, <1>6

\* One more message keeps the order.
LEMMA InOrderAppend ==
    ASSUME InOrder, handled' = Append(handled, Len(handled) + 1)
    PROVE  InOrder' /\ Len(handled') = Len(handled) + 1
  BY DEF InOrder

\* What has been taken ends in the message after those handled.
LEMMA AfterHandled ==
    ASSUME Positions, InOrder, InsideLine
    PROVE  LET n == Len(handled)
           IN  /\ n \in Nat /\ Filled(n) \in Nat /\ Filled(n + 1) \in Nat
               /\ Filled(n) <= taken /\ taken < Filled(n + 1)
  <1> DEFINE n == Len(handled)
  <1>1. n \in Nat
    BY DEF InOrder
  <1>2. Filled(n) \in Nat /\ Filled(n + 1) \in Nat
    BY <1>1, FilledStep
  <1>3. Filled(n) <= start /\ start <= taken /\ taken < Filled(n + 1)
    BY DEF InsideLine, Positions
  <1>4. start \in Nat /\ taken \in Nat
    BY DEF Positions
  <1> HIDE DEF n
  <1>5. Filled(n) <= taken
    BY <1>2, <1>3, <1>4
  <1> QED
    BY <1>1, <1>2, <1>3, <1>5 DEF n

\* A part of a line is taken.
LEMMA TakePartKeeps ==
    ASSUME FramingInv, TakePart
    PROVE  FramingInv'
  <1> DEFINE n == Len(handled)
  <1>1. /\ Positions /\ InOrder /\ n \in Nat
        /\ loop = "running" /\ LineEnd = {} /\ taken < arrived /\ taken' = arrived
        /\ UNCHANGED <<written, arrived, sender, start, dropped, handled, loop>>
    BY DEF FramingInv, InOrder, TakePart, wireVars
  <1>2. InsideLine
    BY <1>1 DEF FramingInv, AtEnd, Positions
  <1>3. arrived < Filled(n + 1)
    <2>1. Filled(n) <= taken /\ taken < Filled(n + 1)
      BY <1>1, <1>2, AfterHandled
    <2> QED
      BY <1>1, <2>1, NoLineEnd
  <1>4. InsideLine'
    BY <1>1, <1>2, <1>3 DEF InsideLine
  <1>5. Positions' /\ InOrder'
    BY <1>1 DEF Positions, InOrder
  <1>6. n <= MsgOf(arrived)
    <2>1. Filled(n) \in Nat /\ Filled(n) <= taken
      BY <1>1, <1>2, AfterHandled
    <2>2. arrived \in Nat /\ Filled(n) <= arrived
      BY <1>1, <2>1 DEF Positions
    <2> QED
      BY <1>1, <1>3, <2>2, AfterMessages
  <1>7. MsgOf(taken)' = MsgOf(arrived)
    BY <1>1 DEF MsgOf
  <1> QED
    BY <1>1, <1>4, <1>5, <1>6, <1>7 DEF FramingInv, BadLineIsTruncation, EndInv

\* A line is taken, with its newline.
LEMMA TakeLineKeeps ==
    ASSUME FramingInv, TakeLine
    PROVE  FramingInv'
  <1> DEFINE n == Len(handled)
  <1>1. /\ Positions /\ InOrder /\ n \in Nat /\ loop = "running"
        /\ UNCHANGED <<written, arrived, sender, dropped>>
    BY DEF FramingInv, InOrder, TakeLine, wireVars
  <1>2. PICK p \in LineEnd :
            /\ \A q \in LineEnd : p <= q
            /\ Parse(p) /\ taken' = p /\ start' = p
    BY DEF TakeLine
  <1>3. p \in Nat /\ taken < p /\ p <= arrived
    BY <1>1 DEF LineEnd, Positions
  <1>4. InsideLine
    BY <1>1, <1>3 DEF FramingInv, AtEnd, Positions
  <1>5. /\ Filled(n) \in Nat /\ Filled(n + 1) \in Nat /\ Filled(n) < Filled(n + 1)
        /\ Filled(n + 1) < Filled((n + 1) + 1)
    BY <1>1, FilledStep
  <1>6. p = Filled(n + 1)
    BY <1>1, <1>2, <1>4, <1>5, FirstLineEnd DEF InsideLine, Positions
  <1>7. MsgOf(p) = n + 1
    BY <1>1, <1>3, <1>5, <1>6, InMessage
  <1>8. Positions' /\ MsgOf(taken)' = n + 1
    BY <1>1, <1>2, <1>3, <1>7 DEF Positions, MsgOf
  <1>9. CASE start = Filled(n) /\ handled' = Append(handled, n + 1) /\ loop' = loop
    <2>1. InOrder' /\ Len(handled') = n + 1
      BY <1>1, <1>9, InOrderAppend
    <2>2. InsideLine'
      BY <1>2, <1>5, <1>6, <2>1 DEF InsideLine
    <2> QED
      BY <1>1, <1>8, <1>9, <2>1, <2>2 DEF FramingInv, BadLineIsTruncation, EndInv
  <1>10. CASE start # Filled(n) /\ handled' = handled /\ loop' = "bad line"
    <2>1. dropped' = TRUE
      BY <1>1, <1>4, <1>10 DEF InsideLine, FramingInv
    <2>2. InOrder'
      BY <1>1, <1>10 DEF InOrder
    <2>3. Len(handled') <= MsgOf(taken)'
      <3>1. Len(handled') = n
        BY <1>10
      <3>2. n <= n + 1
        BY <1>1
      <3> QED
        BY <1>8, <3>1, <3>2
    <2> QED
      BY <1>1, <1>8, <1>10, <2>1, <2>2, <2>3 DEF FramingInv, BadLineIsTruncation, EndInv
  <1>11. \/ start = Filled(n) /\ handled' = Append(handled, n + 1) /\ loop' = loop
         \/ start # Filled(n) /\ handled' = handled /\ loop' = "bad line"
    <2>1. p >= Filled(n + 1) - 1 /\ ~(p < Filled(n + 1) - 1)
      BY <1>5, <1>6
    <2> QED
      BY <1>1, <1>2, <1>3, <1>7, <2>1, ParseResult
  <1> QED
    BY <1>9, <1>10, <1>11

\* The stream has ended: with a rest, which is parsed, or without.
LEMMA TakeEndKeeps ==
    ASSUME FramingInv, TakeEnd
    PROVE  FramingInv'
  <1> DEFINE n == Len(handled)
  <1>1. /\ Positions /\ InOrder /\ n \in Nat /\ loop = "running"
        /\ sender = "closed" /\ arrived = written /\ LineEnd = {}
        /\ taken' = arrived /\ start' = arrived
        /\ UNCHANGED <<written, arrived, sender, dropped>>
    BY DEF FramingInv, InOrder, TakeEnd, wireVars
  <1>2. Positions' /\ MsgOf(taken)' = MsgOf(arrived) /\ MsgOf(written)' = MsgOf(arrived)
    BY <1>1 DEF Positions, MsgOf
  <1>3. CASE ~(arrived > start)
    <2>1. arrived = taken
      BY <1>1, <1>3 DEF Positions
    <2>2. loop' = "eof" /\ handled' = handled
      BY <1>3 DEF TakeEnd
    <2>3. InOrder' /\ Len(handled') <= MsgOf(taken)'
      BY <1>1, <1>2, <2>1, <2>2 DEF FramingInv, InOrder
    <2>4. \/ dropped \/ taken = Filled(n)
          \/ n > 0 /\ taken = Filled(n) - 1
      BY <1>1, <1>3, <2>1 DEF FramingInv, InsideLine, AtEnd, Positions
    <2>5. EndInv'
      BY <1>1, <2>1, <2>2, <2>4 DEF EndInv
    <2> QED
      BY <1>1, <1>2, <2>2, <2>3, <2>5 DEF FramingInv, BadLineIsTruncation
  <1>4. CASE arrived > start
    <2>1. InsideLine /\ Parse(arrived)
      BY <1>1, <1>4 DEF FramingInv, AtEnd, Positions, TakeEnd
    <2>2. arrived < Filled(n + 1) /\ Filled(n) \in Nat /\ Filled(n + 1) \in Nat
      <3>1. /\ Filled(n) <= taken /\ taken < Filled(n + 1)
            /\ Filled(n) \in Nat /\ Filled(n + 1) \in Nat
        BY <1>1, <2>1, AfterHandled
      <3> QED
        BY <1>1, <3>1, NoLineEnd
    <2>3. arrived \in Nat /\ Filled(n) < arrived
      BY <1>1, <1>4, <2>1, <2>2 DEF InsideLine, Positions
    <2>4. MsgOf(arrived) = n + 1
      BY <1>1, <2>2, <2>3, InMessage
    <2>5. CASE /\ start = Filled(n) /\ arrived >= Filled(n + 1) - 1
               /\ handled' = Append(handled, n + 1) /\ loop' = loop
      <3>1. InOrder' /\ Len(handled') = n + 1
        BY <1>1, <2>5, InOrderAppend
      <3>2. arrived = Filled(n + 1) - 1
        BY <2>2, <2>3, <2>5
      <3>3. AtEnd'
        BY <1>1, <3>1, <3>2 DEF AtEnd
      <3> QED
        BY <1>1, <1>2, <2>4, <2>5, <3>1, <3>3 DEF FramingInv, BadLineIsTruncation, EndInv
    <2>6. CASE /\ start # Filled(n) \/ arrived < Filled(n + 1) - 1
               /\ handled' = handled /\ loop' = "bad line"
      <3>1. InOrder' /\ Len(handled') <= MsgOf(taken)'
        <4>1. InOrder'
          BY <1>1, <2>6 DEF InOrder
        <4>2. MsgOf(taken)' = n + 1 /\ Len(handled') = n
          BY <1>2, <2>4, <2>6
        <4> QED
          BY <1>1, <4>1, <4>2
      <3>2. dropped \/ arrived < Filled(n + 1) - 1
        BY <2>1, <2>6 DEF InsideLine
      <3>3. MsgOf(arrived) * PartsPerMsg = Filled(n + 1)
        BY <1>1, <2>4, FramingAssumption DEF Filled
      <3>4. (MsgOf(written) * PartsPerMsg)' = Filled(n + 1)
        BY <1>1, <1>2, <3>3
      <3>5. /\ Len(handled') = MsgOf(written)' - 1
            /\ sender' = "closed" /\ taken' = written' /\ written' = arrived
            /\ dropped' = dropped
        <4>1. Len(handled') = n
          BY <2>6
        <4>2. MsgOf(written)' = n + 1
          BY <1>2, <2>4
        <4>3. n = (n + 1) - 1
          BY <1>1
        <4> QED
          BY <1>1, <4>1, <4>2, <4>3
      <3>6. BadLineIsTruncation'
        BY <3>2, <3>4, <3>5 DEF BadLineIsTruncation
      <3> QED
        BY <1>1, <1>2, <2>6, <3>1, <3>6 DEF FramingInv, EndInv
    <2> QED
      BY <1>1, <2>1, <2>3, <2>4, <2>5, <2>6, ParseResult
  <1> QED
    BY <1>3, <1>4

\* The terminal's branch drops the recv, or ends the loop.
LEMMA TerminalKeeps ==
    ASSUME FramingInv, TypeLine \/ EndInput
    PROVE  FramingInv'
  <1>1. /\ UNCHANGED <<written, arrived, sender, taken, handled>>
        /\ loop = "running" /\ loop' \notin {"bad line", "eof"}
        /\ loop' = "running" => TypeLine
    BY DEF TypeLine, EndInput, wireVars
  <1>2. /\ start' = start \/ start' = taken
        /\ TypeLine => start' = taken
    BY DEF TypeLine, EndInput
  <1>3. /\ dropped' \in BOOLEAN
        /\ TypeLine /\ (dropped \/ start < taken) => dropped'
    BY DEF FramingInv, TypeLine, EndInput
  <1>4. Positions' /\ InOrder' /\ MsgOf(taken)' = MsgOf(taken)
    <2>1. Positions'
      <3>1. Positions
        BY DEF FramingInv
      <3>2. written' = written /\ arrived' = arrived /\ taken' = taken
        BY <1>1
      <3>3. CASE start' = start
        BY <3>1, <3>2, <3>3 DEF Positions
      <3>4. CASE start' = taken
        BY <3>1, <3>2, <3>4 DEF Positions
      <3> QED
        BY <1>2, <3>3, <3>4
    <2>2. InOrder'
      BY <1>1 DEF FramingInv, InOrder
    <2> QED
      BY <1>1, <2>1, <2>2 DEF MsgOf
  <1>5. ASSUME TypeLine PROVE InsideLine' \/ AtEnd'
    <2>1. CASE InsideLine
      <3>1. Filled(Len(handled)) \in Nat /\ start \in Nat /\ taken \in Nat
            /\ start <= taken
        BY FilledStep DEF FramingInv, Positions, InOrder
      <3>2. dropped' \/ taken = start
        BY <1>3, <1>5, <3>1
      <3>3. dropped' \/ taken = Filled(Len(handled))
        BY <1>3, <1>5, <2>1, <3>2 DEF InsideLine
      <3>4. start' = taken /\ handled' = handled /\ taken' = taken
        BY <1>1, <1>2, <1>5
      <3> QED
        BY <2>1, <3>1, <3>3, <3>4 DEF InsideLine
    <2>2. CASE AtEnd
      BY <1>1, <1>2, <1>5, <2>2 DEF AtEnd
    <2> QED
      BY <1>1, <2>1, <2>2 DEF FramingInv
  <1> QED
    BY <1>1, <1>3, <1>4, <1>5 DEF FramingInv, BadLineIsTruncation, EndInv

\* Every step keeps the invariant.
LEMMA FramingStep == FramingInv /\ [Next]_vars => FramingInv'
  <1> SUFFICES ASSUME FramingInv, [Next]_vars PROVE FramingInv'
    OBVIOUS
  <1>1. CASE UNCHANGED vars
    BY <1>1 DEF vars, FramingInv, Positions, InOrder, MsgOf, InsideLine, AtEnd,
       BadLineIsTruncation, EndInv
  <1>2. CASE Stopped
    BY <1>1, <1>2 DEF Stopped
  <1> QED
    BY <1>1, <1>2, WireKeeps, TakePartKeeps, TakeLineKeeps, TakeEndKeeps, TerminalKeeps
    DEF Next

\* The invariant holds throughout.
LEMMA FramingCorrect == Spec => []FramingInv
  BY FramingInit, FramingStep, PTL DEF Spec

(***************************************************************************)
(* What recv returned is the beginning of what was sent, however the       *)
(* stream is cut and whenever a recv is cancelled.                         *)
(***************************************************************************)
THEOREM OrderOfMessages == Spec => []HandledInOrder
  <1>1. FramingInv => HandledInOrder
    <2> SUFFICES ASSUME FramingInv PROVE HandledInOrder
      OBVIOUS
    <2>1. handled \in [1 .. Len(handled) -> Nat]
      BY LenProperties DEF FramingInv, InOrder
    <2>2. \A i \in 1 .. Len(handled) : handled[i] = i
      BY DEF FramingInv, InOrder
    <2>3. handled = [i \in 1 .. Len(handled) |-> i]
      BY <2>1, <2>2
    <2> QED
      BY <2>3 DEF FramingInv, HandledInOrder
  <1> QED
    BY <1>1, FramingCorrect, PTL

(***************************************************************************)
(* Unless the terminal made the client drop a part of a line, a bad line   *)
(* is a message in the middle of which the sender broke off, and all       *)
(* before it were handled.                                                 *)
(***************************************************************************)
THEOREM BadLines == Spec => []BadLineIsTruncation
  <1>1. FramingInv => BadLineIsTruncation
    BY DEF FramingInv
  <1> QED
    BY <1>1, FramingCorrect, PTL

(***************************************************************************)
(* As long as no recv is dropped with a part of a line, all that was taken *)
(* whole is handled, and all that was sent whole once the stream has ended *)
(* the loop: what SentIsHandled rests on, without any fairness.            *)
(***************************************************************************)
THEOREM WholeMessages == Spec => []WholeIsHandled
  <1>1. FramingInv => WholeIsHandled
    <2> SUFFICES ASSUME FramingInv, ~dropped, NEW m \in 1 .. Messages
                 PROVE  /\ loop = "running" /\ taken >= m * PartsPerMsg
                               => m <= Len(handled)
                        /\ (loop \in {"eof", "bad line"} /\ written >= m * PartsPerMsg - 1)
                               => m <= Len(handled)
      BY DEF WholeIsHandled
    <2> DEFINE n == Len(handled)
    <2>1. /\ n \in Nat /\ m \in Nat /\ taken \in Nat /\ written \in Nat
          /\ PartsPerMsg \in Nat /\ PartsPerMsg > 1
      BY FilledStep, FramingAssumption DEF FramingInv, InOrder, Positions
    <2>2. m * PartsPerMsg = Filled(m) /\ Filled(m) \in Nat /\ Filled(n) \in Nat
      BY <2>1, FilledStep, FramingAssumption DEF Filled
    <2> HIDE DEF n
    <2>3. ASSUME m > n PROVE Filled(n + 1) <= Filled(m)
      <3>1. n + 1 \in Nat /\ n + 1 <= m
        BY <2>1, <2>3
      <3> QED
        BY <2>1, <3>1, TimesMonotone DEF Filled
    <2>4. Filled(n + 1) = Filled(n) + PartsPerMsg /\ Filled(n + 1) \in Nat
      BY <2>1, FilledStep
    <2>5. loop = "running" => taken < Filled(n + 1)
      BY <2>1, <2>2, <2>4 DEF FramingInv, InsideLine, AtEnd, n
    <2>6. loop = "eof" => written < Filled(n + 1) - 1
      BY <2>1, <2>2, <2>4 DEF FramingInv, EndInv, n
    <2>7. ASSUME loop = "bad line" PROVE written < Filled(n + 1) - 1
      <3>1. n = MsgOf(written) - 1 /\ written < MsgOf(written) * PartsPerMsg - 1
        BY <2>7 DEF FramingInv, BadLineIsTruncation, n
      <3>2. written + PartsPerMsg - 1 \in Int /\ PartsPerMsg \in Nat \ {0}
        BY <2>1
      <3>3. MsgOf(written) \in Int
        BY <3>2 DEF MsgOf
      <3>4. MsgOf(written) = n + 1
        BY <2>1, <3>1, <3>3
      <3>5. MsgOf(written) * PartsPerMsg = Filled(n + 1)
        BY <2>1, <3>4, FramingAssumption DEF Filled
      <3> QED
        BY <3>1, <3>5
    <2>8. ASSUME loop = "running", taken >= m * PartsPerMsg
          PROVE  m <= Len(handled)
      <3>1. taken >= Filled(m) /\ taken < Filled(n + 1)
        BY <2>2, <2>5, <2>8
      <3>2. ~(Filled(n + 1) <= Filled(m))
        BY <2>1, <2>2, <2>4, <3>1
      <3> QED
        BY <2>1, <2>3, <3>2 DEF n
    <2>9. ASSUME loop \in {"eof", "bad line"}, written >= m * PartsPerMsg - 1
          PROVE  m <= Len(handled)
      <3>1. written >= Filled(m) - 1 /\ written < Filled(n + 1) - 1
        BY <2>2, <2>6, <2>7, <2>9
      <3>2. ~(Filled(n + 1) <= Filled(m))
        BY <2>1, <2>2, <2>4, <3>1
      <3> QED
        BY <2>1, <2>3, <3>2 DEF n
    <2> QED
      BY <2>8, <2>9
  <1> QED
    BY <1>1, FramingCorrect, PTL

=============================================================================
