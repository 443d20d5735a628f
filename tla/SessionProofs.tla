----------------------------- MODULE SessionProofs -----------------------------
(***************************************************************************)
(* What holds of Session for every set of senders, every capacity of its   *)
(* queue, batch and channels, any number of messages either way, with or   *)
(* without timeouts, on each transport.                                    *)
(***************************************************************************)
EXTENDS Session, SequenceTheorems, TLAPS

(* The actions, by what they are about                                     *)

Closing == Close \/ HandlerReturns \/ HandlerLeaves
Sending == \E s \in Sender : SendBegin(s) \/ SendStep(s)
Reading == StartReading \/ ReaderStep \/ Receive \/ LoopBody \/ Deliver
Client  == ClientSends \/ ClientStalls \/ ClientLeaves

LEMMA NextSplit == Next => Closing \/ Sending \/ WriterStep \/ Reading \/ Client
BY DEF Next, Closing, Sending, Reading, Client

\* What the actions of the closing sequence may change, of any group.
LEMMA ClosingKeeps ==
    Closing => UNCHANGED <<transport, sendVars, writeVars, netVars, reader, via, data, taken>>
BY DEF Closing, Close, CloseSession, ParentEnds, ContextCloses, CloseTransport, CloseCancel,
       HandlerReturns, HandlerLeaves, sendVars, writeVars, netVars, readVars

LEMMA SendingKeeps ==
    Sending => UNCHANGED <<transport, ctx, conn, handler, writeVars, netVars, readVars>>
BY DEF Sending, SendBegin, SendStep, SendTry, SendFull, WaitSend, WaitDone, WaitTimeout,
       SlowReturns, Queue, closeVars, writeVars, netVars, readVars

LEMMA WritingKeeps ==
    WriterStep =>
        UNCHANGED <<transport, ctx, conn, handler, call, sent, accepted, stalled, netVars, readVars>>
BY DEF WriterStep, WriterExits, WriterTake, WriterFill, WriterFilled, WriteDone, WriteFails,
       WriterClosed, closeVars, sendVars, netVars, readVars

LEMMA ReadingKeeps ==
    Reading => UNCHANGED <<transport, ctx, conn, handler, sendVars, writeVars, arrived>>
BY DEF Reading, ReaderStep, StartReading, ReadMore, ReadMessage, ReadFails, ReaderClosed,
       PumpSend, PumpDone, Receive, LoopBody, Deliver, closeVars, sendVars, writeVars, netVars, readVars

LEMMA ClientKeeps ==
    Client => UNCHANGED <<transport, ctx, once, handler, sendVars, writer, batch, wire,
                          buffered, dropped, readVars>>
BY DEF Client, ClientSends, ClientStalls, ClientLeaves, closeVars, sendVars, writeVars, netVars, readVars

-------------------------------------------------------------------------------
(* The closing sequence                                                    *)

CloseTypes ==
    /\ transport \in Transports
    /\ ctx \in {"live", "done"}
    /\ once \in {"open", "close", "cancel", "done"}
    /\ conn \in {"open", "gone", "closed"}
    /\ handler \in {"running", "closing", "done"}

\* The context is done and the connection closed when closeWith is through, and
\* the connection is closed by nobody else.
Closed ==
    /\ once = "done" => ctx = "done"
    /\ conn = "closed" <=> once \in {"cancel", "done"}

LEMMA CloseStep ==
    ASSUME CloseTypes, Closed, [Next]_vars
    PROVE  CloseTypes' /\ Closed'
<1>. USE DEF CloseTypes, Closed, CloseWith, closeVars
<1>1. CASE Closing
      BY <1>1 DEF Closing, Close, CloseSession, ParentEnds, ContextCloses, CloseTransport,
            CloseCancel, HandlerReturns, HandlerLeaves
<1>2. ASSUME once' \in {once, IF once = "open" THEN "close" ELSE once},
             UNCHANGED <<transport, ctx, conn, handler>>
      PROVE  CloseTypes' /\ Closed'
      BY <1>2
<1>3. CASE Sending
  <2>1. once' \in {once, IF once = "open" THEN "close" ELSE once}
        BY <1>3 DEF Sending, SendBegin, SendStep, SendTry, SendFull, WaitSend, WaitDone,
              WaitTimeout, SlowReturns, Queue
  <2>. QED BY <1>2, <1>3, <2>1, SendingKeeps
<1>4. CASE WriterStep
  <2>1. once' \in {once, IF once = "open" THEN "close" ELSE once}
        BY <1>4 DEF WriterStep, WriterExits, WriterTake, WriterFill, WriterFilled, WriteDone,
              WriteFails, WriterClosed
  <2>. QED BY <1>2, <1>4, <2>1, WritingKeeps
<1>5. CASE Reading
  <2>1. once' \in {once, IF once = "open" THEN "close" ELSE once}
        BY <1>5 DEF Reading, ReaderStep, StartReading, ReadMore, ReadMessage, ReadFails,
              ReaderClosed, PumpSend, PumpDone, Receive, LoopBody, Deliver
  <2>. QED BY <1>2, <1>5, <2>1, ReadingKeeps
<1>6. CASE Client
  <2>1. conn' = conn \/ (conn = "open" /\ conn' = "gone")
        BY <1>6 DEF Client, ClientSends, ClientStalls, ClientLeaves
  <2>. QED BY <1>6, <2>1, ClientKeeps
<1>7. CASE UNCHANGED vars
      BY <1>7 DEF vars
<1>. QED BY <1>1, <1>3, <1>4, <1>5, <1>6, <1>7, NextSplit

-------------------------------------------------------------------------------
(* The outbound path                                                       *)

OutTypes ==
    /\ out \in Seq(Message) /\ Len(out) <= QueueSize
    /\ call \in [Sender -> {"idle", "try", "wait", "slow"}]
    /\ sent \in [Sender -> 0..Sends]
    /\ accepted \in Seq(Message)
    /\ writer \in {"select", "fill", "write", "failed", "exited"}
    /\ batch \in Seq(Message) /\ Len(batch) <= MaxBatch
    /\ wire \in Seq(Message)
    /\ stalled \in BOOLEAN

\* A call under way has been counted, so the message it queues has a number.
Numbered == \A s \in Sender : call[s] # "idle" => sent[s] > 0

\* What waits, also after a failed write: the batch and the queue at most.
Waiting == Len(accepted) <= Len(wire) + Len(batch) + Len(out)

OutInv == OutTypes /\ Numbered /\ NothingLost /\ Waiting

\* Queueing a message.
LEMMA AppendLast ==
    ASSUME NEW s \in Seq(Message), NEW t \in Seq(Message), NEW u \in Seq(Message), NEW x \in Message
    PROVE  s \o t \o Append(u, x) = Append(s \o t \o u, x)
<1>1. s \o t \in Seq(Message) /\ s \o t \o u \in Seq(Message) /\ <<x>> \in Seq(Message)
      BY ConcatProperties
<1>2. Append(u, x) = u \o <<x>> /\ Append(s \o t \o u, x) = (s \o t \o u) \o <<x>>
      BY <1>1, AppendIsConcat
<1>. QED BY <1>1, <1>2, ConcatAssociative

\* Moving a message from the queue to the end of the batch.
LEMMA MoveHead ==
    ASSUME NEW s \in Seq(Message), NEW t \in Seq(Message), NEW u \in Seq(Message), u # <<>>
    PROVE  s \o Append(t, Head(u)) \o Tail(u) = s \o t \o u
<1>1. Head(u) \in Message /\ Tail(u) \in Seq(Message) /\ <<Head(u)>> \in Seq(Message)
      BY HeadTailProperties
<1>2. u = <<Head(u)>> \o Tail(u)
      BY <1>1, HeadTailProperties, SeqEqual
<1>3. Append(t, Head(u)) = t \o <<Head(u)>>
      BY <1>1, AppendIsConcat
<1>4. s \o (t \o <<Head(u)>>) = (s \o t) \o <<Head(u)>> /\ s \o t \in Seq(Message)
      BY <1>1, ConcatAssociative, ConcatProperties
<1>5. ((s \o t) \o <<Head(u)>>) \o Tail(u) = (s \o t) \o (<<Head(u)>> \o Tail(u))
      BY <1>1, <1>4, ConcatAssociative
<1>. QED BY <1>2, <1>3, <1>4, <1>5

\* Writing the first n messages of the batch.
LEMMA FirstPart ==
    ASSUME NEW s \in Seq(Message), NEW t \in Seq(Message), NEW u \in Seq(Message), NEW n \in 0..Len(t)
    PROVE  /\ s \o SubSeq(t, 1, n) \in Seq(Message)
           /\ Len(s \o SubSeq(t, 1, n)) = Len(s) + n
           /\ Len(s \o t \o u) = Len(s) + Len(t) + Len(u)
           /\ s \o SubSeq(t, 1, n) = SubSeq(s \o t \o u, 1, Len(s) + n)
<1>1. /\ Len(s) \in Nat /\ Len(t) \in Nat /\ Len(u) \in Nat
      /\ \A i \in 1..n : t[i] \in Message
      BY ElementOfSeq
<1>2. /\ SubSeq(t, 1, n) \in Seq(Message) /\ Len(SubSeq(t, 1, n)) = n
      /\ \A i \in 1..n : SubSeq(t, 1, n)[i] = t[i]
      BY <1>1, SubSeqProperties
<1>3. /\ s \o SubSeq(t, 1, n) \in Seq(Message) /\ Len(s \o SubSeq(t, 1, n)) = Len(s) + n
      /\ \A i \in 1..(Len(s) + n) :
             (s \o SubSeq(t, 1, n))[i] = IF i <= Len(s) THEN s[i] ELSE t[i - Len(s)]
      BY <1>1, <1>2, ConcatProperties
<1>4. /\ s \o t \in Seq(Message) /\ Len(s \o t) = Len(s) + Len(t)
      /\ s \o t \o u \in Seq(Message) /\ Len(s \o t \o u) = Len(s) + Len(t) + Len(u)
      /\ \A i \in 1..(Len(s) + Len(t)) :
             (s \o t \o u)[i] = IF i <= Len(s) THEN s[i] ELSE t[i - Len(s)]
      BY <1>1, ConcatProperties
<1>5. /\ SubSeq(s \o t \o u, 1, Len(s) + n) \in Seq(Message)
      /\ Len(SubSeq(s \o t \o u, 1, Len(s) + n)) = Len(s) + n
      /\ \A i \in 1..(Len(s) + n) : SubSeq(s \o t \o u, 1, Len(s) + n)[i] = (s \o t \o u)[i]
  <2>1. \A i \in 1..(Len(s) + n) : (s \o t \o u)[i] \in Message
        BY <1>1, <1>4, ElementOfSeq
  <2>. QED BY <1>1, <2>1, SubSeqProperties
<1>6. \A i \in 1..(Len(s) + n) :
          (s \o SubSeq(t, 1, n))[i] = SubSeq(s \o t \o u, 1, Len(s) + n)[i]
      BY <1>1, <1>3, <1>4, <1>5
<1>. QED BY <1>3, <1>4, <1>5, <1>6, SeqEqual

\* A message that is queued is accepted behind all others, and there was room for it.
LEMMA QueueStep ==
    ASSUME OutInv, NEW s \in Sender, call[s] # "idle", Queue(s)
    PROVE  /\ OutInv'
           /\ <<s, sent[s]>> \in Message
           /\ Len(accepted) < Len(wire) + (QueueSize + MaxBatch)
<1>. USE DEF OutInv, OutTypes
<1>1. <<s, sent[s]>> \in Message
      BY DEF Numbered, Message
<1>2. /\ out' = Append(out, <<s, sent[s]>>) /\ accepted' = Append(accepted, <<s, sent[s]>>)
      /\ UNCHANGED <<sent, writer, batch, wire, stalled>>
      /\ Len(out) < QueueSize /\ call' = [call EXCEPT ![s] = "idle"]
      BY DEF Queue, writeVars
<1>3. QueueSize \in Nat /\ MaxBatch \in Nat /\ Len(wire) \in Nat /\ Len(batch) \in Nat /\ Len(out) \in Nat
      /\ Len(accepted) \in Nat
      BY SendAssumption
<1>4. OutTypes'
      BY <1>1, <1>2, <1>3, AppendProperties
<1>5. Numbered'
      BY <1>2 DEF Numbered
<1>6. Waiting'
      BY <1>1, <1>2, <1>3, AppendProperties DEF Waiting
<1>7. NothingLost'
  <2>. DEFINE held == IF writer = "select" THEN <<>> ELSE batch
  <2>1. held \in Seq(Message)
        OBVIOUS
  <2>. HIDE DEF held
  <2>2. wire \o held \o Append(out, <<s, sent[s]>>) = Append(wire \o held \o out, <<s, sent[s]>>)
        BY <1>1, <2>1, AppendLast
  <2>3. SUFFICES ASSUME writer \in {"select", "fill", "write"}
                 PROVE  accepted' = wire \o held \o out'
        BY <1>2 DEF NothingLost, held
  <2>4. accepted = wire \o held \o out
        BY <2>3 DEF NothingLost, held
  <2>. QED BY <1>2, <2>2, <2>4
<1>8. Len(accepted) < Len(wire) + (QueueSize + MaxBatch)
      BY <1>2, <1>3 DEF Waiting
<1>. QED BY <1>1, <1>4, <1>5, <1>6, <1>7, <1>8

LEMMA SendingStep ==
    ASSUME OutInv, Sending
    PROVE  /\ OutInv'
           /\ \/ UNCHANGED <<accepted, wire>>
              \/ /\ \E m \in Message : accepted' = Append(accepted, m)
                 /\ Len(accepted) < Len(wire) + (QueueSize + MaxBatch)
                 /\ UNCHANGED wire
<1>. PICK s \in Sender : SendBegin(s) \/ SendStep(s)
     BY DEF Sending
<1>. USE DEF OutInv, OutTypes, writeVars, sendVars
<1>1. CASE SendTry(s) \/ WaitSend(s)
      BY <1>1, QueueStep DEF SendTry, WaitSend, Queue
<1>2. CASE SendBegin(s)
  <2>1. sent[s] + 1 \in 0..Sends /\ sent[s] + 1 > 0
        BY <1>2, SendAssumption DEF SendBegin
  <2>. QED BY <1>2, <2>1 DEF SendBegin, Numbered, NothingLost, Waiting
<1>3. CASE SendFull(s) \/ WaitDone(s) \/ WaitTimeout(s) \/ SlowReturns(s)
  <2>1. /\ UNCHANGED <<out, sent, accepted, writer, batch, wire, stalled>>
        /\ call[s] # "idle"
        /\ \E c \in {"idle", "wait", "slow"} : call' = [call EXCEPT ![s] = c]
        BY <1>3 DEF SendFull, WaitDone, WaitTimeout, SlowReturns
  <2>. QED BY <2>1 DEF Numbered, NothingLost, Waiting
<1>. QED BY <1>1, <1>2, <1>3 DEF SendStep

\* Writing sends a first part of what was accepted, and never less than before.
LEMMA WritingStep ==
    ASSUME OutInv, WriterStep
    PROVE  /\ OutInv'
           /\ \/ UNCHANGED <<accepted, wire>>
              \/ /\ \E n \in 1..Len(accepted) : Len(wire) < n /\ wire' = SubSeq(accepted, 1, n)
                 /\ UNCHANGED accepted
<1>. USE DEF OutInv, OutTypes
<1>1. UNCHANGED <<call, sent, accepted, stalled>>
      BY WritingKeeps
<1>2. /\ QueueSize \in Nat /\ MaxBatch \in Nat /\ MaxBatch > 0
      /\ Len(wire) \in Nat /\ Len(batch) \in Nat /\ Len(out) \in Nat /\ Len(accepted) \in Nat
      BY SendAssumption
<1>3. Numbered'
      BY <1>1 DEF Numbered
<1>4. CASE WriterTake
  <2>1. /\ writer = "select" /\ out # <<>> /\ writer' = "fill" /\ wire' = wire
        /\ batch' = <<Head(out)>> /\ out' = Tail(out)
        BY <1>4 DEF WriterTake
  <2>2. Head(out) \in Message /\ Tail(out) \in Seq(Message) /\ Len(Tail(out)) = Len(out) - 1
        BY <2>1, HeadTailProperties
  <2>3. OutTypes'
        BY <1>1, <1>2, <2>1, <2>2
  <2>4. Append(<<>>, Head(out)) = batch' /\ <<>> \in Seq(Message)
        BY <2>1, <2>2
  <2>5. accepted' = wire' \o batch' \o out'
    <3>1. accepted = wire \o <<>> \o out
          BY <2>1 DEF NothingLost
    <3>2. wire \o Append(<<>>, Head(out)) \o Tail(out) = wire \o <<>> \o out
          BY <2>1, <2>4, MoveHead
    <3>. QED BY <1>1, <2>1, <2>4, <3>1, <3>2
  <2>6. Waiting'
        BY <2>3, <2>5, ConcatProperties DEF Waiting
  <2>. QED BY <1>1, <1>3, <2>1, <2>3, <2>5, <2>6 DEF NothingLost
<1>5. CASE WriterFill
  <2>1. /\ writer = "fill" /\ out # <<>> /\ Len(batch) < MaxBatch /\ UNCHANGED <<writer, wire>>
        /\ batch' = Append(batch, Head(out)) /\ out' = Tail(out)
        BY <1>5 DEF WriterFill
  <2>2. Head(out) \in Message /\ Tail(out) \in Seq(Message) /\ Len(Tail(out)) = Len(out) - 1
        BY <2>1, HeadTailProperties
  <2>3. OutTypes'
        BY <1>1, <1>2, <2>1, <2>2, AppendProperties
  <2>4. accepted' = wire' \o batch' \o out'
    <3>1. accepted = wire \o batch \o out
          BY <2>1 DEF NothingLost
    <3>2. wire \o Append(batch, Head(out)) \o Tail(out) = wire \o batch \o out
          BY <2>1, MoveHead
    <3>. QED BY <1>1, <2>1, <3>1, <3>2
  <2>5. Waiting'
        BY <2>3, <2>4, ConcatProperties DEF Waiting
  <2>. QED BY <1>1, <1>3, <2>1, <2>3, <2>4, <2>5 DEF NothingLost
<1>6. CASE WriterExits \/ WriterFilled \/ WriterClosed
  <2>1. /\ UNCHANGED <<out, batch, wire>>
        /\ writer' = "exited" \/ (writer = "fill" /\ writer' = "write")
        BY <1>6 DEF WriterExits, WriterFilled, WriterClosed, sendVars
  <2>. QED BY <1>1, <1>3, <2>1 DEF NothingLost, Waiting
<1>7. ASSUME NEW n \in 0..Len(batch), writer = "write", wire' = wire \o SubSeq(batch, 1, n)
      PROVE  /\ wire' \in Seq(Message) /\ Len(wire') = Len(wire) + n
             /\ Len(accepted) = Len(wire) + Len(batch) + Len(out)
             /\ wire' = SubSeq(accepted, 1, Len(wire) + n)
      BY <1>7, FirstPart DEF NothingLost
<1>8. ASSUME NEW n \in 0..Len(batch), writer = "write", wire' = wire \o SubSeq(batch, 1, n)
      PROVE  \/ UNCHANGED <<accepted, wire>>
             \/ /\ \E k \in 1..Len(accepted) : Len(wire) < k /\ wire' = SubSeq(accepted, 1, k)
                /\ UNCHANGED accepted
  <2>1. CASE n = 0
    <3>1. SubSeq(batch, 1, n) = <<>>
          BY <2>1, SubSeqEmpty
    <3>. QED BY <1>1, <1>8, <3>1, ConcatEmptySeq
  <2>2. CASE n # 0
    <3>1. wire' = SubSeq(accepted, 1, Len(wire) + n) /\ Len(accepted) = Len(wire) + Len(batch) + Len(out)
          BY <1>7, <1>8
    <3>2. Len(wire) + n \in 1..Len(accepted) /\ Len(wire) < Len(wire) + n
          BY <1>2, <2>2, <3>1
    <3>. QED BY <1>1, <3>1, <3>2
  <2>. QED BY <2>1, <2>2
<1>9. CASE WriteDone
  <2>1. /\ writer = "write" /\ writer' = "select" /\ wire' = wire \o batch
        /\ UNCHANGED <<out, batch>>
        BY <1>9 DEF WriteDone, sendVars
  <2>2. wire' = wire \o SubSeq(batch, 1, Len(batch)) /\ Len(batch) \in 0..Len(batch)
        BY <1>2, <2>1, SubSeqFull
  <2>3. wire' \in Seq(Message) /\ Len(wire') = Len(wire) + Len(batch)
        /\ Len(accepted) = Len(wire) + Len(batch) + Len(out)
        BY <1>7, <2>1, <2>2
  <2>4. accepted' = wire' \o <<>> \o out'
        BY <1>1, <2>1, <2>3, ConcatEmptySeq DEF NothingLost
  <2>5. OutInv'
        BY <1>1, <1>2, <1>3, <2>1, <2>3, <2>4 DEF NothingLost, Waiting
  <2>. QED BY <1>8, <2>1, <2>2, <2>5
<1>10. CASE WriteFails
  <2>1. writer = "write" /\ writer' = "failed" /\ UNCHANGED <<out, batch>>
        BY <1>10 DEF WriteFails, sendVars
  <2>2. PICK n \in 0..Len(batch) : wire' = wire \o SubSeq(batch, 1, n)
        BY <1>10 DEF WriteFails, WireAfter
  <2>3. OutInv'
        BY <1>1, <1>2, <1>3, <1>7, <2>1, <2>2 DEF NothingLost, Waiting
  <2>. QED BY <1>8, <2>1, <2>2, <2>3
<1>. QED BY <1>4, <1>5, <1>6, <1>9, <1>10 DEF WriterStep

-------------------------------------------------------------------------------
(* The inbound path                                                        *)

InTypes ==
    /\ arrived \in 0..Received
    /\ pending \in Nat /\ buffered \in Nat /\ dropped \in Nat /\ taken \in Nat
    /\ transport = "udp" => buffered <= DataSize
    /\ reader \in {"off", "read", "give", "failed", "exited"}
    /\ via \in {"none", "Data", "Messages"}
    /\ data \in 0..DataSize
    /\ dataClosed \in BOOLEAN

\* Nothing reaches the application that the client has not sent, or twice.
Counted == pending + buffered + ReadAhead + taken + dropped <= arrived

InInv == InTypes /\ Counted /\ NoSendOnClosed /\ InboundKept

LEMMA DataSizePositive == DataSize \in Nat /\ DataSize > 0
BY ReadAssumption DEF DataSize

LEMMA ReadingStep ==
    ASSUME InInv, Reading
    PROVE  InInv'
<1>. USE DataSizePositive DEF InInv, InTypes, Counted, NoSendOnClosed, InboundKept, ReadAhead
<1>1. UNCHANGED <<transport, ctx, arrived>>
      BY ReadingKeeps
<1>2. CASE StartReading
      BY <1>1, <1>2 DEF StartReading, netVars
<1>3. CASE ReadMore
  <2>1. PICK n \in 1..pending : buffered' = n /\ pending' = pending - n
        BY <1>3 DEF ReadMore
  <2>2. /\ transport # "udp" /\ buffered = 0
        /\ UNCHANGED <<dropped, reader, via, data, dataClosed, taken>>
        BY <1>3 DEF ReadMore, readVars
  <2>. QED BY <1>1, <2>1, <2>2
<1>4. CASE ReadMessage
      BY <1>1, <1>4 DEF ReadMessage
<1>5. CASE ReadFails
      BY <1>1, <1>5 DEF ReadFails, netVars
<1>6. CASE ReaderClosed
      BY <1>1, <1>6 DEF ReaderClosed, netVars
<1>7. CASE PumpSend
      BY <1>1, <1>7 DEF PumpSend, netVars
<1>8. CASE PumpDone
      BY <1>1, <1>8 DEF PumpDone, netVars
<1>9. CASE Receive
      BY <1>1, <1>9 DEF Receive, netVars
<1>10. CASE LoopBody
      BY <1>1, <1>10 DEF LoopBody, netVars
<1>11. CASE Deliver
      BY <1>1, <1>11 DEF Deliver, readVars
<1>. QED BY <1>2, <1>3, <1>4, <1>5, <1>6, <1>7, <1>8, <1>9, <1>10, <1>11 DEF Reading, ReaderStep

-------------------------------------------------------------------------------
(* The whole session                                                       *)

IInv == CloseTypes /\ Closed /\ OutInv /\ InInv

LEMMA IInvInit == Init => IInv
<1>. SUFFICES ASSUME Init PROVE IInv
     OBVIOUS
<1>1. CloseTypes /\ Closed
      BY DEF Init, CloseTypes, Closed
<1>2. OutTypes /\ Numbered
  <2>1. QueueSize \in Nat /\ MaxBatch \in Nat /\ 0 \in 0..Sends /\ <<>> \in Seq(Message) /\ Len(<<>>) = 0
        BY SendAssumption
  <2>2. sent \in [Sender -> 0..Sends] /\ \A s \in Sender : call[s] = "idle"
        BY <2>1 DEF Init
  <2>3. call \in [Sender -> {"idle", "try", "wait", "slow"}]
        BY DEF Init
  <2>4. /\ out = <<>> /\ accepted = <<>> /\ batch = <<>> /\ wire = <<>>
        /\ writer = "select" /\ stalled \in BOOLEAN
        BY DEF Init
  <2>. QED BY <2>1, <2>2, <2>3, <2>4 DEF OutTypes, Numbered
<1>3. NothingLost /\ Waiting
  <2>1. <<>> \o <<>> \o <<>> = <<>> /\ Len(<<>>) = 0
        OBVIOUS
  <2>. QED BY <2>1 DEF Init, NothingLost, Waiting
<1>4. InInv
  <2>1. ReadAhead = 0
        BY DEF Init, ReadAhead
  <2>2. /\ arrived = 0 /\ pending = 0 /\ buffered = 0 /\ dropped = 0 /\ data = 0 /\ taken = 0
        /\ reader = "off" /\ via = "none" /\ dataClosed \in BOOLEAN
        BY DEF Init
  <2>3. InTypes
        BY <2>2, ReadAssumption, DataSizePositive DEF InTypes
  <2>. QED BY <2>1, <2>2, <2>3 DEF Init, InInv, Counted, NoSendOnClosed, InboundKept
<1>. QED BY <1>1, <1>2, <1>3, <1>4 DEF IInv, OutInv

\* The context, once done, stays done; the rest of the inbound path is untouched.
LEMMA InboundUntouched ==
    ASSUME InInv, ctx' = "live" => ctx = "live",
           UNCHANGED <<transport, netVars, readVars>>
    PROVE  InInv'
BY DEF InInv, InTypes, Counted, NoSendOnClosed, InboundKept, ReadAhead, netVars, readVars

LEMMA OutboundUntouched ==
    ASSUME OutInv, UNCHANGED <<sendVars, writer, batch, wire>>, stalled' \in BOOLEAN
    PROVE  OutInv'
BY DEF OutInv, OutTypes, Numbered, NothingLost, Waiting, sendVars

LEMMA IInvStep == IInv /\ [Next]_vars => IInv'
<1>. SUFFICES ASSUME IInv, [Next]_vars PROVE IInv'
     OBVIOUS
<1>. USE DEF IInv
<1>1. CloseTypes' /\ Closed'
      BY CloseStep
<1>2. CASE Closing
  <2>1. UNCHANGED <<transport, sendVars, writeVars, netVars, reader, via, data, taken>>
        BY <1>2, ClosingKeeps
  <2>2. /\ dataClosed' = dataClosed
        /\ ctx' \in {ctx, "done"}
        BY <1>2 DEF Closing, Close, CloseSession, ParentEnds, ContextCloses, CloseTransport,
              CloseCancel, HandlerReturns, HandlerLeaves, readVars
  <2>3. OutInv'
        BY <2>1, OutboundUntouched DEF writeVars, OutInv, OutTypes
  <2>4. InInv'
        BY <2>1, <2>2, InboundUntouched DEF readVars
  <2>. QED BY <1>1, <2>3, <2>4
<1>3. CASE Sending
      BY <1>1, <1>3, SendingStep, SendingKeeps, InboundUntouched
<1>4. CASE WriterStep
      BY <1>1, <1>4, WritingStep, WritingKeeps, InboundUntouched
<1>5. CASE Reading
  <2>1. OutInv'
        BY <1>5, ReadingKeeps, OutboundUntouched DEF writeVars, OutInv, OutTypes
  <2>. QED BY <1>1, <1>5, <2>1, ReadingStep
<1>6. CASE Client
  <2>1. stalled' \in BOOLEAN
        BY <1>6 DEF Client, ClientSends, ClientStalls, ClientLeaves, writeVars, OutInv, OutTypes
  <2>2. OutInv'
        BY <1>6, <2>1, ClientKeeps, OutboundUntouched
  <2>3. \/ UNCHANGED <<arrived, pending>>
        \/ arrived < Received /\ arrived' = arrived + 1 /\ pending' = pending + 1
        BY <1>6 DEF Client, ClientSends, ClientStalls, ClientLeaves, netVars
  <2>4. UNCHANGED <<transport, ctx, buffered, dropped, reader, via, data, dataClosed, taken>>
        BY <1>6, ClientKeeps DEF readVars
  <2>5. InInv'
        BY <2>3, <2>4, ReadAssumption, DataSizePositive
        DEF InInv, InTypes, Counted, NoSendOnClosed, InboundKept, ReadAhead
  <2>. QED BY <1>1, <2>2, <2>5
<1>7. CASE UNCHANGED vars
  <2>1. OutInv' /\ InInv'
        BY <1>7, OutboundUntouched, InboundUntouched DEF vars, closeVars, writeVars, OutInv, OutTypes
  <2>. QED BY <1>1, <2>1
<1>. QED BY <1>2, <1>3, <1>4, <1>5, <1>6, <1>7, NextSplit

LEMMA Inductive == Spec => []IInv
BY IInvInit, IInvStep, PTL DEF Spec

\* Every variable keeps its type: the queue, the batch, Data() and the UDP inbox
\* hold no more than they were made for.
THEOREM TypeCorrect == Spec => []TypeOK
<1>1. IInv => TypeOK
  <2>. SUFFICES ASSUME IInv PROVE TypeOK
       OBVIOUS
  <2>1. /\ pending \in 0..Received /\ dropped \in 0..Received /\ taken \in 0..Received
        /\ buffered \in 0..Received
        BY ReadAssumption, DataSizePositive DEF IInv, InInv, InTypes, Counted, ReadAhead
  <2>2. buffered \in 0..(IF transport = "udp" THEN DataSize ELSE Received)
        BY <2>1, DataSizePositive DEF IInv, InInv, InTypes
  <2>. QED BY <2>1, <2>2 DEF TypeOK, IInv, CloseTypes, OutInv, OutTypes, InInv, InTypes
<1>. QED BY <1>1, Inductive, PTL

\* While no write has failed, every message queued is in the queue, in the batch or
\* written, once and in order.
THEOREM NothingIsLost == Spec => []NothingLost
<1>1. IInv => NothingLost
      BY DEF IInv, OutInv
<1>. QED BY <1>1, Inductive, PTL

\* Nobody closes Data() under pumpData, whoever closes the session and when.
THEOREM DataClosedByReader == Spec => []NoSendOnClosed
<1>1. IInv => NoSendOnClosed
      BY DEF IInv, InInv
<1>. QED BY <1>1, Inductive, PTL

\* While the session is open no message of the client is lost on its way to the
\* application, but by the UDP server and for want of room.
THEOREM InboundIsKept == Spec => []InboundKept
<1>1. IInv => InboundKept
      BY DEF IInv, InInv
<1>. QED BY <1>1, Inductive, PTL

-------------------------------------------------------------------------------
(* Nobody waits for a close that has not begun                             *)

LEMMA CloseUnderWayStep == IInv /\ CloseIsUnderWay /\ [Next]_vars => CloseIsUnderWay'
<1>. SUFFICES ASSUME IInv, CloseIsUnderWay, [Next]_vars PROVE CloseIsUnderWay'
     OBVIOUS
<1>. DEFINE Waits == \/ writer = "failed" \/ reader = "failed" \/ handler = "closing"
                     \/ \E s \in Sender : call[s] = "slow"
<1>0. Closed'
      BY CloseStep DEF IInv
<1>1. once = "open" \/ once' # "open"
  <2>1. CASE Closing
        BY <2>1 DEF Closing, Close, CloseSession, ParentEnds, ContextCloses, CloseTransport,
              CloseCancel, HandlerReturns, HandlerLeaves, CloseWith
  <2>2. CASE Sending
        BY <2>2 DEF Sending, SendBegin, SendStep, SendTry, SendFull, WaitSend, WaitDone,
              WaitTimeout, SlowReturns, Queue, CloseWith, closeVars
  <2>3. CASE WriterStep
        BY <2>3 DEF WriterStep, WriterExits, WriterTake, WriterFill, WriterFilled, WriteDone,
              WriteFails, WriterClosed, CloseWith, closeVars
  <2>4. CASE Reading
        BY <2>4 DEF Reading, ReaderStep, StartReading, ReadMore, ReadMessage, ReadFails,
              ReaderClosed, PumpSend, PumpDone, Receive, LoopBody, Deliver, CloseWith, closeVars
  <2>5. CASE Client \/ UNCHANGED vars
        BY <2>5, ClientKeeps DEF vars, closeVars
  <2>. QED BY <2>1, <2>2, <2>3, <2>4, <2>5, NextSplit
<1>2. Waits' => Waits \/ once' # "open"
  <2>1. CASE Closing
    <3>1. UNCHANGED <<writer, reader, call>>
          BY <2>1, ClosingKeeps DEF writeVars, sendVars
    <3>2. handler' = "closing" => handler = "closing" \/ once' # "open"
          BY <2>1 DEF Closing, Close, CloseSession, ParentEnds, ContextCloses, CloseTransport,
                CloseCancel, HandlerReturns, HandlerLeaves, CloseWith
    <3>. QED BY <3>1, <3>2
  <2>2. CASE Sending
    <3>1. UNCHANGED <<writer, reader, handler>>
          BY <2>2, SendingKeeps DEF writeVars, readVars
    <3>2. (\E s \in Sender : call'[s] = "slow") => (\E s \in Sender : call[s] = "slow") \/ once' # "open"
          BY <2>2 DEF Sending, SendBegin, SendStep, SendTry, SendFull, WaitSend, WaitDone,
                WaitTimeout, SlowReturns, Queue, CloseWith, IInv, OutInv, OutTypes
    <3>. QED BY <3>1, <3>2
  <2>3. CASE WriterStep
    <3>1. UNCHANGED <<reader, handler, call>>
          BY <2>3, WritingKeeps DEF readVars
    <3>2. writer' = "failed" => writer = "failed" \/ once' # "open"
          BY <2>3 DEF WriterStep, WriterExits, WriterTake, WriterFill, WriterFilled, WriteDone,
                WriteFails, WriterClosed, CloseWith
    <3>. QED BY <3>1, <3>2
  <2>4. CASE Reading
    <3>1. UNCHANGED <<writer, handler, call>>
          BY <2>4, ReadingKeeps DEF writeVars, sendVars
    <3>2. reader' = "failed" => reader = "failed" \/ once' # "open"
          BY <2>4 DEF Reading, ReaderStep, StartReading, ReadMore, ReadMessage, ReadFails,
                ReaderClosed, PumpSend, PumpDone, Receive, LoopBody, Deliver, CloseWith, readVars
    <3>. QED BY <3>1, <3>2
  <2>5. CASE Client \/ UNCHANGED vars
        BY <2>5, ClientKeeps DEF vars, closeVars, sendVars, writeVars, readVars
  <2>. QED BY <2>1, <2>2, <2>3, <2>4, <2>5, NextSplit
<1>. QED BY <1>0, <1>1, <1>2 DEF CloseIsUnderWay, Closed

\* Whoever waits inside closeWith waits for a close that has begun, and one that is
\* through has closed the connection and ended the context.
THEOREM ClosesAreBegun == Spec => []CloseIsUnderWay
<1>1. Init => CloseIsUnderWay
      BY DEF Init, CloseIsUnderWay
<1>. QED BY <1>1, CloseUnderWayStep, Inductive, PTL DEF Spec

-------------------------------------------------------------------------------
(* The session implements the bounded queue                                *)

LEMMA FifoStep == IInv /\ [Next]_vars => [Outbound!Next]_<<accepted, wire>>
<1>. SUFFICES ASSUME IInv, [Next]_vars PROVE [Outbound!Next]_<<accepted, wire>>
     OBVIOUS
<1>1. CASE UNCHANGED <<accepted, wire>>
      BY <1>1
<1>2. CASE Closing \/ Reading \/ Client \/ UNCHANGED vars
      BY <1>1, <1>2, ClosingKeeps, ReadingKeeps, ClientKeeps DEF vars, sendVars, writeVars
<1>3. CASE Sending
  <2>1. ASSUME NEW m \in Message, accepted' = Append(accepted, m), UNCHANGED wire,
               Len(accepted) < Len(wire) + (QueueSize + MaxBatch)
        PROVE  Outbound!Next
        BY <2>1 DEF Outbound!Next, Outbound!Put
  <2>. QED BY <1>1, <1>3, <2>1, SendingStep DEF IInv
<1>4. CASE WriterStep
  <2>1. ASSUME NEW n \in 1..Len(accepted), Len(wire) < n, wire' = SubSeq(accepted, 1, n),
               UNCHANGED accepted
        PROVE  Outbound!Next
        BY <2>1 DEF Outbound!Next, Outbound!Get
  <2>. QED BY <1>1, <1>4, <2>1, WritingStep DEF IInv
<1>. QED BY <1>2, <1>3, <1>4, NextSplit

\* What the client gets is at all times a first part of what was queued, with at
\* most SendQueueSize + maxBatch messages waiting, also when a write has failed.
THEOREM FifoImplemented == Spec => ImplementsFifo
<1>1. Init => Outbound!Init
      BY DEF Init, Outbound!Init
<1>. QED BY <1>1, FifoStep, Inductive, PTL DEF Spec, ImplementsFifo, Outbound!Spec

\* The bounded queue, seen from its two ends.
InOrder ==
    /\ Len(wire) <= Len(accepted)
    /\ Len(accepted) <= Len(wire) + (QueueSize + MaxBatch)
    /\ wire = SubSeq(accepted, 1, Len(wire))

LEMMA InOrderStep ==
    ASSUME TypeOK, TypeOK', InOrder, [Outbound!Next]_<<accepted, wire>>
    PROVE  InOrder'
<1>1. /\ accepted \in Seq(Message) /\ wire \in Seq(Message) /\ accepted' \in Seq(Message)
      BY DEF TypeOK
<1>2. Len(accepted) \in Nat /\ Len(wire) \in Nat /\ QueueSize + MaxBatch \in Nat
      BY <1>1, SendAssumption
<1>3. ASSUME NEW m \in Message, Outbound!Put(m)
      PROVE  InOrder'
  <2>1. /\ Len(accepted) < Len(wire) + (QueueSize + MaxBatch)
        /\ accepted' = Append(accepted, m) /\ wire' = wire
        BY <1>3 DEF Outbound!Put
  <2>2. Len(accepted') = Len(accepted) + 1 /\ \A i \in 1..Len(accepted) : accepted'[i] = accepted[i]
        BY <1>1, <1>2, <2>1, AppendProperties
  <2>3. SubSeq(accepted', 1, Len(wire)) = SubSeq(accepted, 1, Len(wire))
    <3>1. /\ \A i \in 1..Len(wire) : accepted[i] \in Message /\ accepted'[i] \in Message
          /\ \A i \in 1..Len(wire) : accepted'[i] = accepted[i]
          BY <1>1, <1>2, <2>2, ElementOfSeq DEF InOrder
    <3>2. /\ SubSeq(accepted, 1, Len(wire)) \in Seq(Message)
          /\ SubSeq(accepted', 1, Len(wire)) \in Seq(Message)
          /\ Len(SubSeq(accepted, 1, Len(wire))) = Len(wire)
          /\ Len(SubSeq(accepted', 1, Len(wire))) = Len(wire)
          /\ \A i \in 1..Len(wire) : SubSeq(accepted', 1, Len(wire))[i] = SubSeq(accepted, 1, Len(wire))[i]
          BY <1>1, <1>2, <3>1, SubSeqProperties
    <3>. QED BY <3>2, SeqEqual
  <2>. QED BY <1>1, <1>2, <2>1, <2>2, <2>3 DEF InOrder
<1>4. ASSUME NEW n \in 1..Len(accepted), Outbound!Get(n)
      PROVE  InOrder'
  <2>1. Len(wire) < n /\ wire' = SubSeq(accepted, 1, n) /\ accepted' = accepted
        BY <1>4 DEF Outbound!Get
  <2>2. Len(wire') = n
        BY <1>1, <1>2, <2>1, ElementOfSeq, SubSeqProperties
  <2>3. wire' = SubSeq(accepted', 1, Len(wire')) /\ Len(accepted') = Len(accepted)
        BY <2>1, <2>2
  <2>4. Len(wire') <= Len(accepted') /\ Len(accepted') <= Len(wire') + (QueueSize + MaxBatch)
    <3>1. Len(accepted) <= Len(wire) + (QueueSize + MaxBatch)
          BY DEF InOrder
    <3>2. n <= Len(accepted) /\ Len(wire) < n /\ n \in Nat
          BY <1>2, <2>1
    <3>3. Len(accepted) <= n + (QueueSize + MaxBatch)
          BY <1>2, <3>1, <3>2
    <3>. QED BY <2>2, <2>3, <3>2, <3>3
  <2>. QED BY <2>3, <2>4 DEF InOrder
<1>5. CASE UNCHANGED <<accepted, wire>>
      BY <1>5 DEF InOrder
<1>. QED BY <1>3, <1>4, <1>5 DEF Outbound!Next

\* What a client has been sent is a first part of what SendToClient accepted, and no
\* more than the queue and one batch hold is ever outstanding: it holds of the bounded
\* queue, and so of the session that implements it.
THEOREM WrittenInOrder == Spec => []InOrder
<1>1. Init => InOrder
  <2>. SUFFICES ASSUME Init PROVE InOrder
       OBVIOUS
  <2>1. accepted = <<>> /\ wire = <<>> /\ Len(<<>>) = 0 /\ SubSeq(<<>>, 1, 0) = <<>>
        BY SubSeqEmpty DEF Init
  <2>2. QueueSize + MaxBatch \in Nat
        BY SendAssumption
  <2>. QED BY <2>1, <2>2 DEF InOrder
<1>2. TypeOK /\ TypeOK' /\ InOrder /\ [Outbound!Next]_<<accepted, wire>> => InOrder'
      BY InOrderStep
<1>3. Spec => [][Outbound!Next]_<<accepted, wire>>
      BY FifoImplemented, PTL DEF ImplementsFifo, Outbound!Spec
<1>4. Spec => Init
      BY DEF Spec
<1>. QED BY <1>1, <1>2, <1>3, <1>4, TypeCorrect, PTL
===============================================================================
