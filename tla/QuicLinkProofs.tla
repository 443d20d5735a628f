---------------------------- MODULE QuicLinkProofs ----------------------------
(***************************************************************************)
(* What holds of QuicLink for every set of protocols, codecs and Send      *)
(* calls, any number of options and any window.                            *)
(***************************************************************************)
EXTENDS QuicLink, SequenceTheorems, TLAPS

(* Lists of protocols                                                      *)

\* A list of protocols that names each once.
ProtoList == {list \in Seq(Name) : IsInjective(list)}

LEMMA ProtoListFacts ==
    ASSUME NEW list \in ProtoList
    PROVE  /\ list \in Seq(Name) /\ Len(list) \in Nat /\ DOMAIN list = 1..Len(list)
           /\ ToSet(list) \subseteq Name
           /\ \A i \in 1..Len(list) : list[i] \in Name
           /\ \A i, j \in 1..Len(list) : list[i] = list[j] => i = j
BY DEF ProtoList, IsInjective, ToSet

\* Removing a protocol leaves the others, in their order.
LEMMA WithoutKeepsOrder ==
    ASSUME NEW list \in ProtoList, NEW p \in Name
    PROVE  /\ Without(list, p) \in ProtoList
           /\ \A n \in 1..Len(Without(list, p)) : Without(list, p)[n] # p
           /\ \A k \in 1..Len(list) : list[k] # p =>
                  \E m \in 1..Len(Without(list, p)) :
                      /\ Without(list, p)[m] = list[k]
                      /\ \A n \in 1..m : \E j \in 1..k : Without(list, p)[n] = list[j]
<1>. DEFINE rest == Without(list, p)
<1>1. CASE p \notin ToSet(list)
  <2>1. rest = list /\ \A n \in 1..Len(list) : list[n] # p
        BY <1>1, ProtoListFacts DEF Without, ToSet
  <2>. QED BY <2>1, ProtoListFacts
<1>2. CASE p \in ToSet(list)
  <2>1. PICK q \in 1..Len(list) : list[q] = p
        BY <1>2, ProtoListFacts DEF ToSet
  <2>2. rest = [i \in 1..(Len(list) - 1) |-> IF q <= i THEN list[i + 1] ELSE list[i]]
    <3>1. \A i \in 1..(Len(list) - 1) : (\E k \in 1..i : list[k] = p) <=> q <= i
          BY <2>1, ProtoListFacts
    <3>. QED BY <1>2, <3>1 DEF Without
  <2>3. Len(list) - 1 \in Nat /\ \A i \in 1..(Len(list) - 1) : rest[i] \in Name
        BY <2>1, <2>2, ProtoListFacts
  <2>4. rest \in Seq(Name) /\ Len(rest) = Len(list) - 1 /\ DOMAIN rest = 1..(Len(list) - 1)
        BY <2>2, <2>3, IsASeq, LenProperties
  <2>5. \A i, j \in 1..(Len(list) - 1) : rest[i] = rest[j] => i = j
        BY <2>2, ProtoListFacts
  <2>6. rest \in ProtoList
        BY <2>4, <2>5 DEF ProtoList, IsInjective
  <2>7. \A n \in 1..Len(rest) : rest[n] # p
        BY <2>1, <2>2, <2>4, ProtoListFacts
  <2>8. ASSUME NEW k \in 1..Len(list), list[k] # p
        PROVE  \E m \in 1..Len(rest) :
                   /\ rest[m] = list[k]
                   /\ \A n \in 1..m : \E j \in 1..k : rest[n] = list[j]
    <3>1. CASE k < q
      <4>1. k \in 1..Len(rest) /\ rest[k] = list[k]
            BY <2>2, <2>4, <3>1, ProtoListFacts
      <4>2. \A n \in 1..k : rest[n] = list[n]
            BY <2>2, <3>1, ProtoListFacts
      <4>. QED BY <4>1, <4>2
    <3>2. CASE k > q
      <4>1. k - 1 \in 1..Len(rest) /\ rest[k - 1] = list[k]
            BY <2>2, <2>4, <3>2, ProtoListFacts
      <4>2. \A n \in 1..(k - 1) : rest[n] = IF q <= n THEN list[n + 1] ELSE list[n]
            BY <2>2, ProtoListFacts
      <4>. QED BY <4>1, <4>2
    <3>3. k \in Nat /\ q \in Nat /\ k # q
          BY <2>1, <2>8, ProtoListFacts
    <3>. QED BY <3>1, <3>2, <3>3
  <2>. QED BY <2>6, <2>7, <2>8
<1>. QED BY <1>1, <1>2

LEMMA PreferKeepsOrder ==
    ASSUME NEW list \in ProtoList, NEW p \in Name
    PROVE  /\ Prefer(p, list) \in ProtoList
           /\ Prefer(p, list) # <<>>
           /\ Prefer(p, list)[1] = p
           /\ \A k \in 1..Len(list) : list[k] # p =>
                  \E m \in 1..Len(Prefer(p, list)) :
                      /\ Prefer(p, list)[m] = list[k]
                      /\ \A n \in 2..m : \E j \in 1..k : Prefer(p, list)[n] = list[j]
<1>. DEFINE rest == Without(list, p)
            new  == Prefer(p, list)
<1>1. /\ rest \in ProtoList
      /\ \A n \in 1..Len(rest) : rest[n] # p
      /\ \A k \in 1..Len(list) : list[k] # p =>
             \E m \in 1..Len(rest) :
                 rest[m] = list[k] /\ \A n \in 1..m : \E j \in 1..k : rest[n] = list[j]
      BY WithoutKeepsOrder
<1>2. new = <<p>> \o rest
      BY DEF Prefer
<1>. HIDE DEF rest, new
<1>3. /\ rest \in Seq(Name) /\ Len(rest) \in Nat
      /\ \A i \in 1..Len(rest) : rest[i] \in Name
      /\ \A i, j \in 1..Len(rest) : rest[i] = rest[j] => i = j
      BY <1>1, ProtoListFacts
<1>4. /\ new \in Seq(Name) /\ Len(new) = Len(rest) + 1 /\ new[1] = p
      /\ \A i \in 2..Len(new) : i - 1 \in 1..Len(rest) /\ new[i] = rest[i - 1]
      BY <1>2, <1>3
<1>5. \A i, j \in 1..Len(new) : new[i] = new[j] => i = j
  <2>. SUFFICES ASSUME NEW i \in 1..Len(new), NEW j \in 1..Len(new), new[i] = new[j]
                PROVE  i = j
       OBVIOUS
  <2>1. CASE i = 1 \/ j = 1
        BY <1>1, <1>3, <1>4, <2>1
  <2>2. CASE i # 1 /\ j # 1
    <3>1. i \in 2..Len(new) /\ j \in 2..Len(new)
          BY <1>3, <1>4, <2>2
    <3>2. /\ rest[i - 1] = rest[j - 1]
          /\ i - 1 \in 1..Len(rest) /\ j - 1 \in 1..Len(rest)
          BY <1>4, <3>1
    <3>3. i - 1 = j - 1
          BY <1>3, <3>2
    <3>. QED BY <1>3, <3>1, <3>3
  <2>. QED BY <2>1, <2>2
<1>6. new \in ProtoList
      BY <1>3, <1>4, <1>5 DEF ProtoList, IsInjective
<1>7. ASSUME NEW k \in 1..Len(list), list[k] # p
      PROVE  \E m \in 1..Len(new) :
                 /\ new[m] = list[k]
                 /\ \A n \in 2..m : \E j \in 1..k : new[n] = list[j]
  <2>1. PICK m \in 1..Len(rest) :
            rest[m] = list[k] /\ \A n \in 1..m : \E j \in 1..k : rest[n] = list[j]
        BY <1>1, <1>7
  <2>2. m + 1 \in 1..Len(new) /\ new[m + 1] = list[k]
    <3>1. m + 1 \in 2..Len(new) /\ (m + 1) - 1 = m
          BY <1>3, <1>4, <2>1
    <3>. QED BY <1>4, <2>1, <3>1
  <2>3. \A n \in 2..(m + 1) : new[n] = rest[n - 1] /\ n - 1 \in 1..m
        BY <1>3, <1>4, <2>1
  <2>. QED BY <2>1, <2>2, <2>3
<1>8. new # <<>>
      BY <1>3, <1>4
<1>. QED BY <1>4, <1>6, <1>7, <1>8 DEF new

-------------------------------------------------------------------------------
(* Types                                                                   *)

Types == TypeOK /\ alpn \in ProtoList /\ offered \in ProtoList

LEMMA ListsFacts ==
    ASSUME NEW list \in Lists
    PROVE  list \in ProtoList /\ list \in Seq(Name) /\ Reverse(list) \in Seq(Name)
<1>1. list \in ProtoList /\ list \in Seq(Name)
      BY ListAssumption DEF ProtoList
<1>2. Reverse(list) = [i \in 1..Len(list) |-> list[(Len(list) - i) + 1]]
      BY DEF Reverse
<1>3. \A i \in 1..Len(list) : list[(Len(list) - i) + 1] \in Name
      BY <1>1, ProtoListFacts
<1>4. Reverse(list) \in Seq(Name)
      BY <1>1, <1>2, <1>3, IsASeq, ProtoListFacts
<1>. QED BY <1>1, <1>4

LEMMA TypesInit == Init => Types
<1>. SUFFICES ASSUME Init PROVE Types
     OBVIOUS
<1>1. NoCodecs \in [Name -> Codec \cup {None}]
      BY DEF NoCodecs
<1>2. <<Default>> \in ProtoList
      BY NameAssumption DEF ProtoList, IsInjective
<1>3. <<Default>> \in Seq(Name)
      BY NameAssumption
<1>4. applied \in 0..Options
      BY BoundAssumption DEF Init
<1>5. /\ alpn \in Seq(Name) /\ added \in Seq(Name) /\ offered \in Seq(Name)
      /\ alpn \in ProtoList /\ offered \in ProtoList
      BY <1>2, <1>3 DEF Init
<1>6. /\ tlsProtos \in Seq(Name) /\ sent \in Seq(Sends) /\ up \in Seq(Sends)
      /\ got \in Seq(Message) /\ down \in Seq(Message) /\ received \in Seq(Message)
      BY DEF Init
<1>7. /\ codecs \in [Name -> Codec \cup {None}] /\ table \in [Name -> Codec \cup {None}]
      /\ call \in [Sends -> {"idle", "waiting", "locked", "encoded", "returned"}]
      BY <1>1 DEF Init
<1>8. /\ setup \in {"options", "listening", "failed"}
      /\ client \in {"options", "dialed", "codec", "open", "closing", "closed", "refused", "failed"}
      /\ conn \in {"none", "open", "closed"} /\ negotiated \in Name \cup {None}
      /\ cCodec \in Codec \cup {None} /\ sCodec \in Codec \cup {None}
      /\ handler \in {"none", "waiting", "serving", "left"}
      /\ sendMu \in Sends \cup {None} /\ sendBuf \in Sends \cup {None} /\ fin \in BOOLEAN
      BY DEF Init
<1>. QED BY <1>4, <1>5, <1>6, <1>7, <1>8 DEF Types, TypeOK

\* The actions of the two programs' setup.
Configuring ==
    \/ \E pair \in Pairs : WithQUICCodec(pair[1], pair[2]) \/ WithClientQUICCodec(pair[1], pair[2])
    \/ \E list \in Lists : SetALPN(list) \/ WithTLSConfig(list) \/ WithQUICNextProtos(list)
    \/ Listen

\* The actions of the connection.
Connecting ==
    \/ Dial \/ DialFails \/ PickCodec \/ OpenStream \/ CloseStream \/ CloseConn \/ ConnDies
    \/ Admit \/ AcceptStream \/ AcceptFails \/ SessionEnds

\* The actions on messages.
Exchanging ==
    \/ \E s \in Sends : SendBegin(s) \/ Lock(s) \/ Encode(s) \/ Write(s) \/ SendFails(s)
    \/ Receive \/ ReadMessage \/ Answer

LEMMA NextSplit == Next => Configuring \/ Connecting \/ Exchanging
BY DEF Next, Configuring, Connecting, Exchanging

LEMMA TypesConfiguring == Types /\ Configuring => Types'
<1>. SUFFICES ASSUME Types, Configuring PROVE Types'
     OBVIOUS
<1>. USE DEF Types, TypeOK, serverSetup, clientSetup, link, sending, answering
<1>1. ASSUME NEW pair \in Pairs, WithQUICCodec(pair[1], pair[2])
      PROVE  Types'
  <2>1. pair[1] \in Name /\ pair[2] \in Codec
        BY PairAssumption
  <2>2. alpn' \in ProtoList /\ alpn' \in Seq(Name)
        BY <1>1, <2>1, PreferKeepsOrder, ProtoListFacts DEF WithQUICCodec
  <2>3. added' \in Seq(Name) /\ codecs' \in [Name -> Codec \cup {None}]
        BY <1>1, <2>1 DEF WithQUICCodec
  <2>4. applied' \in 0..Options
        BY <1>1, BoundAssumption DEF WithQUICCodec, ApplyServerOption
  <2>. QED BY <1>1, <2>2, <2>3, <2>4 DEF WithQUICCodec, ApplyServerOption
<1>2. ASSUME NEW pair \in Pairs, WithClientQUICCodec(pair[1], pair[2])
      PROVE  Types'
  <2>1. pair[1] \in Name /\ pair[2] \in Codec
        BY PairAssumption
  <2>2. offered' \in ProtoList /\ offered' \in Seq(Name)
        BY <1>2, <2>1, PreferKeepsOrder, ProtoListFacts DEF WithClientQUICCodec
  <2>3. table' \in [Name -> Codec \cup {None}]
        BY <1>2, <2>1 DEF WithClientQUICCodec
  <2>4. applied' \in 0..Options
        BY <1>2, BoundAssumption DEF WithClientQUICCodec, ApplyClientOption
  <2>. QED BY <1>2, <2>2, <2>3, <2>4 DEF WithClientQUICCodec, ApplyClientOption
<1>3. ASSUME NEW list \in Lists, SetALPN(list) \/ WithTLSConfig(list)
      PROVE  Types'
      BY <1>3, ListsFacts, BoundAssumption DEF SetALPN, WithTLSConfig, ApplyServerOption
<1>4. ASSUME NEW list \in Lists, WithQUICNextProtos(list)
      PROVE  Types'
      BY <1>4, ListsFacts, BoundAssumption DEF WithQUICNextProtos, ApplyClientOption
<1>5. ASSUME Listen PROVE Types'
      BY <1>5, BoundAssumption DEF Listen
<1>. QED BY <1>1, <1>2, <1>3, <1>4, <1>5 DEF Configuring

\* What either end looks up is a codec or nil.
LEMMA CodecTypes ==
    Types => \A p \in Name \cup {None} :
        /\ Served(p) \in Codec \cup {None}
        /\ p \in Name => ClientCodec(p) \in Codec \cup {None}
<1>. SUFFICES ASSUME Types, NEW p \in Name \cup {None}
              PROVE  /\ Served(p) \in Codec \cup {None}
                     /\ p \in Name => ClientCodec(p) \in Codec \cup {None}
     OBVIOUS
<1>1. p \in ToSet(alpn) => p \in Name
      BY ProtoListFacts DEF Types
<1>. QED BY <1>1, CodecAssumption DEF Types, TypeOK, Served, Resolved, ClientCodec

LEMMA ServerProtosType ==
    Types => ServerProtos \in Seq(Name) /\ \A i \in Common : ServerProtos[i] \in Name
BY DEF Types, TypeOK, ServerProtos, Common

-------------------------------------------------------------------------------
(* What the handshake fixes                                                *)

\* Options are applied before the handshake only, and what either end picks
\* afterwards is what the negotiated protocol means to it.
Linked ==
    /\ client # "options" => setup = "listening"
    /\ negotiated # None => client # "options"
    /\ client \in {"dialed", "codec", "open", "closing", "closed"} => negotiated # None
    /\ cCodec # None => negotiated # None /\ cCodec = ClientCodec(negotiated)
    /\ sCodec # None => negotiated # None /\ sCodec = ServerCodec
    /\ handler # "none" => negotiated # None

\* Whoever encodes or writes holds sendMu, and the buffer then holds its frame.
Locked ==
    \A s \in Sends :
        /\ call[s] \in {"locked", "encoded"} => sendMu = s
        /\ call[s] = "encoded" => sendBuf = s

LinkInv == Types /\ Linked /\ Locked

LEMMA LinkInit == Init => LinkInv
<1>1. Init => Linked
      BY DEF Init, Linked
<1>2. Init => Locked
      BY DEF Init, Locked
<1>. QED BY <1>1, <1>2, TypesInit DEF LinkInv

LEMMA ExchangeStep == LinkInv /\ Exchanging => Types' /\ Locked'
<1>. SUFFICES ASSUME LinkInv, Exchanging PROVE Types' /\ Locked'
     OBVIOUS
<1>. USE DEF LinkInv, Types, TypeOK, serverSetup, clientSetup, link, sending, answering
<1>1. ASSUME NEW s \in Sends, SendBegin(s) \/ Lock(s) \/ Encode(s) \/ SendFails(s)
      PROVE  Types' /\ Locked'
  <2>1. Locked'
        BY <1>1, SendAssumption DEF SendBegin, Lock, Encode, SendFails, Unlock, Locked
  <2>2. /\ call' \in [Sends -> {"idle", "waiting", "locked", "encoded", "returned"}]
        /\ sendMu' \in Sends \cup {None} /\ sendBuf' \in Sends \cup {None}
        BY <1>1 DEF SendBegin, Lock, Encode, SendFails, Unlock
  <2>3. UNCHANGED <<serverSetup, clientSetup, applied, link, sent, up, fin, answering>>
        BY <1>1 DEF SendBegin, Lock, Encode, SendFails, Unlock
  <2>. QED BY <2>1, <2>2, <2>3
<1>2. ASSUME NEW s \in Sends, Write(s)
      PROVE  Types' /\ Locked'
  <2>1. sendBuf \in Sends
        BY <1>2 DEF Write, Locked
  <2>2. Locked'
        BY <1>2, SendAssumption DEF Write, Unlock, Locked
  <2>3. up' \in Seq(Sends) /\ sent' \in Seq(Sends)
        BY <1>2, <2>1 DEF Write
  <2>4. call' \in [Sends -> {"idle", "waiting", "locked", "encoded", "returned"}]
        BY <1>2 DEF Write, Unlock
  <2>. QED BY <1>2, <2>2, <2>3, <2>4 DEF Write, Unlock
<1>3. CASE Receive \/ ReadMessage \/ Answer
  <2>1. UNCHANGED <<serverSetup, clientSetup, applied, link, sending, fin>>
        BY <1>3 DEF Receive, ReadMessage, Answer
  <2>2. Locked'
        BY <2>1 DEF Locked
  <2>3. CASE Receive
    <3>1. Head(down) \in Message /\ Tail(down) \in Seq(Message) /\ Junk \in Message
          BY <2>3, HeadTailProperties DEF Receive, Message
    <3>2. received' \in Seq(Message) /\ down' \in Seq(Message) /\ UNCHANGED <<up, got>>
          BY <2>3, <3>1 DEF Receive
    <3>. QED BY <2>1, <2>2, <3>2
  <2>4. CASE ReadMessage
    <3>1. Head(up) \in Message /\ Tail(up) \in Seq(Sends) /\ Junk \in Message
          BY <2>4, HeadTailProperties DEF ReadMessage, Message
    <3>2. Append(got, Head(up)) \in Seq(Message) /\ Append(got, Junk) \in Seq(Message)
          BY <3>1
    <3>3. got' \in {got, Append(got, Head(up)), Append(got, Junk)}
          BY <2>4 DEF ReadMessage
    <3>4. up' \in Seq(Sends) /\ UNCHANGED <<down, received>>
          BY <2>4, <3>1 DEF ReadMessage
    <3>5. got' \in Seq(Message)
          BY <3>2, <3>3
    <3>. QED BY <2>1, <2>2, <3>4, <3>5
  <2>5. CASE Answer
    <3>1. Answered + 1 \in 1..Len(got)
          BY <2>5, LenProperties DEF Answer, Answered
    <3>2. got[Answered + 1] \in Message
          BY <3>1, ElementOfSeq
    <3>3. down' \in Seq(Message) /\ UNCHANGED <<up, got, received>>
          BY <2>5, <3>2 DEF Answer
    <3>. QED BY <2>1, <2>2, <3>3
  <2>. QED BY <1>3, <2>3, <2>4, <2>5
<1>. QED BY <1>1, <1>2, <1>3 DEF Exchanging

LEMMA LinkStep == LinkInv /\ [Next]_vars => LinkInv'
<1>. SUFFICES ASSUME LinkInv, [Next]_vars PROVE LinkInv'
     OBVIOUS
<1>. USE DEF serverSetup, clientSetup, link, sending, answering
<1>1. CASE Configuring
  <2>1. Types'
        BY <1>1, TypesConfiguring DEF LinkInv
  <2>2. setup = "options" \/ client = "options"
        BY <1>1 DEF Configuring, WithQUICCodec, SetALPN, WithTLSConfig, Listen,
              WithClientQUICCodec, WithQUICNextProtos, ApplyServerOption, ApplyClientOption
  <2>3. UNCHANGED link
        BY <1>1 DEF Configuring, WithQUICCodec, SetALPN, WithTLSConfig, Listen,
              WithClientQUICCodec, WithQUICNextProtos
  <2>4. Linked'
        BY <2>2, <2>3 DEF LinkInv, Linked
  <2>5. UNCHANGED sending
        BY <1>1 DEF Configuring, WithQUICCodec, SetALPN, WithTLSConfig, Listen,
              WithClientQUICCodec, WithQUICNextProtos
  <2>. QED BY <2>1, <2>4, <2>5 DEF LinkInv, Locked
<1>2. CASE Exchanging
  <2>1. UNCHANGED <<serverSetup, clientSetup, applied, link>>
        BY <1>2 DEF Exchanging, SendBegin, Lock, Encode, Write, SendFails, Receive, ReadMessage, Answer, Unlock
  <2>2. Linked'
        BY <2>1 DEF LinkInv, Linked, ClientCodec, ServerCodec, Served, Resolved
  <2>. QED BY <1>2, <2>2, ExchangeStep DEF LinkInv
<1>3. CASE Connecting
  <2>1. UNCHANGED <<serverSetup, clientSetup, applied, sending, up, answering>>
        BY <1>3 DEF Connecting, Dial, DialFails, PickCodec, OpenStream, CloseStream, CloseConn, ConnDies,
              Admit, AcceptStream, AcceptFails, SessionEnds
  <2>2. \A p : Served(p)' = Served(p) /\ ClientCodec(p)' = ClientCodec(p)
        BY <2>1 DEF Served, Resolved, ClientCodec
  <2>3. /\ ServerCodec \in Codec \cup {None}
        /\ negotiated \in Name => ClientCodec(negotiated) \in Codec \cup {None}
        BY CodecTypes, NameAssumption DEF LinkInv, Types, TypeOK, ServerCodec
  <2>4. ASSUME negotiated' = negotiated
        PROVE  ServerCodec' = ServerCodec /\ ClientCodec(negotiated)' = ClientCodec(negotiated)
        BY <2>2, <2>4 DEF ServerCodec
  <2>5. Locked'
        BY <2>1 DEF LinkInv, Locked
  <2>6. CASE Dial
    <3>1. negotiated' \in Name
          BY <2>6, ServerProtosType DEF Dial, LinkInv
    <3>2. setup = "listening" /\ negotiated = None /\ cCodec = None /\ sCodec = None
          BY <2>6 DEF Dial, LinkInv, Linked
    <3>. QED BY <2>1, <2>5, <2>6, <3>1, <3>2, NameAssumption DEF Dial, LinkInv, Linked, Types, TypeOK
  <2>7. CASE DialFails
    <3>1. setup = "listening" /\ negotiated = None /\ cCodec = None /\ sCodec = None
          BY <2>7 DEF DialFails, LinkInv, Linked
    <3>. QED BY <2>1, <2>5, <2>7, <3>1 DEF DialFails, LinkInv, Linked, Types, TypeOK
  <2>8. CASE PickCodec
    <3>1. negotiated \in Name /\ negotiated # None
          BY <2>8 DEF PickCodec, LinkInv, Linked, Types, TypeOK
    <3>. QED BY <2>1, <2>3, <2>4, <2>5, <2>8, <3>1 DEF PickCodec, LinkInv, Linked, Types, TypeOK
  <2>9. CASE AcceptStream
    <3>1. negotiated # None
          BY <2>9 DEF AcceptStream, LinkInv, Linked
    <3>. QED BY <2>1, <2>3, <2>4, <2>5, <2>9, <3>1 DEF AcceptStream, LinkInv, Linked, Types, TypeOK
  <2>10. CASE OpenStream \/ CloseStream \/ CloseConn \/ ConnDies
    <3>1. fin' \in BOOLEAN
          BY <2>10 DEF OpenStream, CloseStream, CloseConn, ConnDies, LinkInv, Types, TypeOK
    <3>2. /\ UNCHANGED <<negotiated, cCodec, sCodec, handler>>
          /\ client' \in {"open", "closing", "closed", "failed", client}
          /\ conn' \in {"closed", conn}
          /\ client \in {"codec", "open", "closing"} \/ client' = client
          BY <2>10 DEF OpenStream, CloseStream, CloseConn, ConnDies
    <3>3. Types'
          BY <2>1, <3>1, <3>2 DEF LinkInv, Types, TypeOK
    <3>4. Linked'
          BY <2>1, <2>4, <3>2 DEF LinkInv, Linked
    <3>. QED BY <3>3, <3>4, <2>5 DEF LinkInv
  <2>11. CASE Admit \/ AcceptFails \/ SessionEnds
        BY <2>1, <2>5, <2>4, <2>11 DEF Admit, AcceptFails, SessionEnds, LinkInv, Linked, Types, TypeOK
  <2>. QED BY <1>3, <2>6, <2>7, <2>8, <2>9, <2>10, <2>11 DEF Connecting
<1>4. CASE UNCHANGED vars
      BY <1>4 DEF vars, LinkInv, Types, TypeOK, Linked, Locked, ServerCodec, ClientCodec, Served, Resolved
<1>. QED BY <1>1, <1>2, <1>3, <1>4, NextSplit

\* Every variable keeps its type.
THEOREM TypeCorrect == Spec => []TypeOK
<1>1. LinkInv => TypeOK
      BY DEF LinkInv, Types
<1>. QED BY <1>1, LinkInit, LinkStep, PTL DEF Spec

\* Two programs that agree on what a protocol means frame alike, whatever either
\* prefers, offers or registers besides.
THEOREM FramingAgrees == Spec => []FramedAlike
<1>1. LinkInv => FramedAlike
  <2>. SUFFICES ASSUME LinkInv, Agreed, cCodec # None, sCodec # None, Served(negotiated) # None
                PROVE  cCodec = sCodec
       BY DEF FramedAlike
  <2>1. negotiated \in Name
        BY DEF LinkInv, Linked, Types, TypeOK
  <2>2. cCodec = ClientCodec(negotiated) /\ sCodec = Served(negotiated)
        BY DEF LinkInv, Linked, ServerCodec
  <2>. QED BY <2>1, <2>2 DEF Agreed
<1>. QED BY <1>1, LinkInit, LinkStep, PTL DEF Spec

-------------------------------------------------------------------------------
(* The newest protocol is preferred                                        *)

\* In ALPN no protocol stands behind one that was added earlier.
Ordered ==
    \A i \in 1..Len(added) : \E k \in 1..Len(alpn) :
        /\ alpn[k] = added[i]
        /\ \A m \in 1..k : \E j \in i..Len(added) : alpn[m] = added[j]

\* TLS picked the first protocol in common, or there is none.
FirstCommon ==
    /\ client = "refused" => Common = {}
    /\ negotiated # None =>
           \E c \in Common : negotiated = ServerProtos[c] /\ \A d \in Common : c <= d

PreferInv == LinkInv /\ Ordered /\ FirstCommon

LEMMA PreferInit == Init => PreferInv
<1>. SUFFICES ASSUME Init PROVE PreferInv
     OBVIOUS
<1>1. added = <<Default>> /\ alpn = <<Default>>
      BY DEF Init
<1>2. Ordered
      BY <1>1 DEF Ordered
<1>3. FirstCommon
      BY DEF Init, FirstCommon
<1>. QED BY <1>2, <1>3, LinkInit DEF PreferInv

LEMMA OrderedByCodec ==
    ASSUME LinkInv, Ordered, NEW p \in Name, NEW c, WithQUICCodec(p, c)
    PROVE  Ordered'
<1>. DEFINE n == Len(added)
<1>1. /\ alpn \in ProtoList /\ added \in Seq(Name) /\ n \in Nat
      BY DEF LinkInv, Types, TypeOK
<1>2. alpn' = Prefer(p, alpn) /\ added' = Append(added, p)
      BY DEF WithQUICCodec
<1>3. /\ Len(added') = n + 1 /\ added'[n + 1] = p
      /\ \A i \in 1..n : added'[i] = added[i]
      BY <1>1, <1>2
<1>4. /\ Len(alpn') \in Nat /\ 1 \in 1..Len(alpn') /\ alpn'[1] = p
      /\ \A k \in 1..Len(alpn) : alpn[k] # p =>
             \E m \in 1..Len(alpn') :
                 /\ alpn'[m] = alpn[k]
                 /\ \A l \in 2..m : \E j \in 1..k : alpn'[l] = alpn[j]
  <2>1. alpn' \in ProtoList /\ alpn' # <<>> /\ alpn'[1] = p
        BY <1>1, <1>2, PreferKeepsOrder
  <2>2. Len(alpn') \in Nat /\ Len(alpn') # 0
        BY <2>1, ProtoListFacts, EmptySeq
  <2>3. 1 \in 1..Len(alpn')
        BY <2>2
  <2>4. \A k \in 1..Len(alpn) : alpn[k] # p =>
            \E m \in 1..Len(alpn') :
                /\ alpn'[m] = alpn[k]
                /\ \A l \in 2..m : \E j \in 1..k : alpn'[l] = alpn[j]
    <3>. DEFINE new == Prefer(p, alpn)
    <3>1. \A k \in 1..Len(alpn) : alpn[k] # p =>
              \E m \in 1..Len(new) :
                  new[m] = alpn[k] /\ \A l \in 2..m : \E j \in 1..k : new[l] = alpn[j]
          BY <1>1, PreferKeepsOrder
    <3>2. alpn' = new
          BY <1>2
    <3>. HIDE DEF new
    <3>. QED BY <3>1, <3>2
  <2>. QED BY <2>1, <2>2, <2>3, <2>4
<1>. HIDE DEF n
<1>5. ASSUME NEW i \in 1..(n + 1)
      PROVE  \E k \in 1..Len(alpn') :
                 /\ alpn'[k] = added'[i]
                 /\ \A m \in 1..k : \E j \in i..(n + 1) : alpn'[m] = added'[j]
  <2>1. CASE added'[i] = p
    <3>1. \A m \in 1..1 : alpn'[m] = added'[n + 1] /\ n + 1 \in i..(n + 1)
          BY <1>1, <1>3, <1>4
    <3>. QED BY <1>4, <2>1, <3>1
  <2>2. CASE added'[i] # p
    <3>1. i \in 1..n /\ added'[i] = added[i]
          BY <1>1, <1>3, <2>2
    <3>2. PICK k \in 1..Len(alpn) :
              /\ alpn[k] = added[i]
              /\ \A m \in 1..k : \E j \in i..n : alpn[m] = added[j]
          BY <3>1 DEF Ordered, n
    <3>3. PICK m \in 1..Len(alpn') :
              /\ alpn'[m] = alpn[k]
              /\ \A l \in 2..m : \E j \in 1..k : alpn'[l] = alpn[j]
          BY <1>4, <2>2, <3>1, <3>2
    <3>4. ASSUME NEW l \in 1..m
          PROVE  \E j \in i..(n + 1) : alpn'[l] = added'[j]
      <4>1. CASE l = 1
            BY <1>1, <1>3, <1>4, <4>1
      <4>2. CASE l # 1
        <5>1. PICK a \in 1..k : alpn'[l] = alpn[a]
              BY <3>3, <4>2
        <5>2. PICK j \in i..n : alpn[a] = added[j]
              BY <3>2
        <5>. QED BY <1>1, <1>3, <3>1, <5>1, <5>2
      <4>. QED BY <4>1, <4>2
    <3>. QED BY <3>1, <3>2, <3>3, <3>4
  <2>. QED BY <2>1, <2>2
<1>6. \A i \in 1..Len(added') : \E k \in 1..Len(alpn') :
          /\ alpn'[k] = added'[i]
          /\ \A m \in 1..k : \E j \in i..Len(added') : alpn'[m] = added'[j]
      BY <1>3, <1>5
<1>. QED BY <1>6 DEF Ordered

LEMMA OrderedByList ==
    ASSUME LinkInv, NEW list \in Lists, SetALPN(list)
    PROVE  Ordered'
<1>. DEFINE n == Len(list)
<1>1. alpn' = list /\ added' = [i \in 1..n |-> list[(n - i) + 1]]
      BY DEF SetALPN, Reverse
<1>2. n \in Nat /\ Len(added') = n
      BY <1>1, ListsFacts, LenProperties
<1>. HIDE DEF n
<1>3. ASSUME NEW i \in 1..n
      PROVE  /\ (n - i) + 1 \in 1..n
             /\ alpn'[(n - i) + 1] = added'[i]
             /\ \A m \in 1..((n - i) + 1) : (n - m) + 1 \in i..n /\ alpn'[m] = added'[(n - m) + 1]
      BY <1>1, <1>2
<1>4. Len(alpn') = n
      BY <1>1 DEF n
<1>5. ASSUME NEW i \in 1..n
      PROVE  \E k \in 1..n :
                 /\ alpn'[k] = added'[i]
                 /\ \A m \in 1..k : \E j \in i..n : alpn'[m] = added'[j]
  <2>. DEFINE k == (n - i) + 1
  <2>1. k \in 1..n /\ alpn'[k] = added'[i]
        BY <1>3
  <2>2. \A m \in 1..k : \E j \in i..n : alpn'[m] = added'[j]
        BY <1>3
  <2>. QED BY <2>1, <2>2
<1>6. \A i \in 1..Len(added') : \E k \in 1..Len(alpn') :
          /\ alpn'[k] = added'[i]
          /\ \A m \in 1..k : \E j \in i..Len(added') : alpn'[m] = added'[j]
  <2>. SUFFICES ASSUME NEW i \in 1..Len(added')
                PROVE  \E k \in 1..Len(alpn') :
                           /\ alpn'[k] = added'[i]
                           /\ \A m \in 1..k : \E j \in i..Len(added') : alpn'[m] = added'[j]
       OBVIOUS
  <2>1. Len(alpn') = n /\ Len(added') = n /\ i \in 1..n
        BY <1>2, <1>4
  <2>2. PICK k \in 1..n :
            alpn'[k] = added'[i] /\ \A m \in 1..k : \E j \in i..n : alpn'[m] = added'[j]
        BY <1>5, <2>1
  <2>. QED BY <2>1, <2>2
<1>. QED BY <1>6 DEF Ordered

LEMMA PreferStep == PreferInv /\ [Next]_vars => PreferInv'
<1>. SUFFICES ASSUME PreferInv, [Next]_vars PROVE PreferInv'
     OBVIOUS
<1>. USE DEF serverSetup, clientSetup, link, sending, answering
<1>1. LinkInv /\ LinkInv'
      BY LinkStep DEF PreferInv
<1>2. Ordered'
  <2>1. ASSUME NEW pair \in Pairs, WithQUICCodec(pair[1], pair[2])
        PROVE  Ordered'
        BY <1>1, <2>1, PairAssumption, OrderedByCodec DEF PreferInv
  <2>2. ASSUME NEW list \in Lists, SetALPN(list)
        PROVE  Ordered'
        BY <1>1, <2>2, OrderedByList
  <2>3. CASE UNCHANGED <<alpn, added>>
        BY <2>3 DEF PreferInv, Ordered
  <2>4. CASE Configuring
        BY <2>1, <2>2, <2>3, <2>4 DEF Configuring, WithClientQUICCodec, WithTLSConfig, WithQUICNextProtos, Listen
  <2>5. CASE Connecting
        BY <2>3, <2>5 DEF Connecting, Dial, DialFails, PickCodec, OpenStream, CloseStream, CloseConn, ConnDies,
              Admit, AcceptStream, AcceptFails, SessionEnds
  <2>6. CASE Exchanging
        BY <2>3, <2>6 DEF Exchanging, SendBegin, Lock, Encode, Write, SendFails, Receive, ReadMessage, Answer, Unlock
  <2>7. CASE UNCHANGED vars
        BY <2>3, <2>7 DEF vars
  <2>. QED BY <2>4, <2>5, <2>6, <2>7, NextSplit
<1>3. FirstCommon'
  <2>1. CASE Configuring
    <3>1. UNCHANGED link /\ (setup = "options" \/ client = "options")
          BY <2>1 DEF Configuring, WithQUICCodec, SetALPN, WithTLSConfig, Listen,
                WithClientQUICCodec, WithQUICNextProtos, ApplyServerOption, ApplyClientOption
    <3>. QED BY <1>1, <3>1 DEF LinkInv, Linked, FirstCommon
  <2>2. CASE UNCHANGED <<serverSetup, clientSetup, negotiated>> /\ (client' = client \/ client' # "refused")
        BY <2>2 DEF PreferInv, FirstCommon, Common, ServerProtos
  <2>3. CASE Dial \/ DialFails
    <3>1. Common' = Common /\ ServerProtos' = ServerProtos
          BY <2>3 DEF Dial, DialFails, Common, ServerProtos
    <3>2. negotiated = None
          BY <1>1, <2>3 DEF Dial, DialFails, LinkInv, Linked
    <3>. QED BY <2>3, <3>1, <3>2 DEF Dial, DialFails, FirstCommon
  <2>4. CASE Connecting /\ ~(Dial \/ DialFails)
        BY <2>2, <2>4 DEF Connecting, PickCodec, OpenStream, CloseStream, CloseConn, ConnDies,
              Admit, AcceptStream, AcceptFails, SessionEnds
  <2>5. CASE Exchanging
        BY <2>2, <2>5 DEF Exchanging, SendBegin, Lock, Encode, Write, SendFails, Receive, ReadMessage, Answer, Unlock
  <2>6. CASE UNCHANGED vars
        BY <2>2, <2>6 DEF vars
  <2>. QED BY <2>1, <2>3, <2>4, <2>5, <2>6, NextSplit
<1>. QED BY <1>1, <1>2, <1>3 DEF PreferInv

\* A client that offers a protocol the server has added gets it or one added later,
\* and is never refused: new formats are preferred, old clients still served.
THEOREM NewestWins == Spec => []NewestPreferred
<1>1. PreferInv => NewestPreferred
  <2>. SUFFICES ASSUME PreferInv, tlsProtos = <<>>,
                       NEW i \in 1..Len(added), added[i] \in ToSet(offered)
                PROVE  /\ client # "refused"
                       /\ negotiated # None => \E j \in i..Len(added) : negotiated = added[j]
    <3>1. DOMAIN added = 1..Len(added)
          BY DEF PreferInv, LinkInv, Types, TypeOK
    <3>. QED BY <3>1 DEF NewestPreferred
  <2>1. ServerProtos = alpn /\ DOMAIN alpn = 1..Len(alpn) /\ Len(alpn) \in Nat
        BY DEF ServerProtos, PreferInv, LinkInv, Types, TypeOK
  <2>2. PICK k \in 1..Len(alpn) :
            alpn[k] = added[i] /\ \A m \in 1..k : \E j \in i..Len(added) : alpn[m] = added[j]
        BY DEF PreferInv, Ordered
  <2>3. k \in Common
        BY <2>1, <2>2 DEF Common
  <2>4. client # "refused"
        BY <2>3 DEF PreferInv, FirstCommon
  <2>5. ASSUME negotiated # None
        PROVE  \E j \in i..Len(added) : negotiated = added[j]
    <3>1. PICK c \in Common : negotiated = alpn[c] /\ c <= k
          BY <2>1, <2>3, <2>5 DEF PreferInv, FirstCommon
    <3>2. c \in 1..k
          BY <2>1, <3>1 DEF Common
    <3>. QED BY <2>2, <3>1, <3>2
  <2>. QED BY <2>4, <2>5
<1>. QED BY <1>1, PreferInit, PreferStep, PTL DEF Spec

-------------------------------------------------------------------------------
(* Messages arrive in order                                                *)

LEMMA PrefixDef ==
    ASSUME NEW S, NEW s \in Seq(S), NEW t \in Seq(S)
    PROVE  IsPrefix(s, t) <=> Len(s) <= Len(t) /\ \A i \in 1..Len(s) : s[i] = t[i]
<1>1. ASSUME Len(s) <= Len(t)
      PROVE  /\ SubSeq(s, 1, Len(s)) \in Seq(S) /\ Len(SubSeq(s, 1, Len(s))) = Len(s)
             /\ SubSeq(t, 1, Len(s)) \in Seq(S) /\ Len(SubSeq(t, 1, Len(s))) = Len(s)
             /\ \A i \in 1..Len(s) : SubSeq(s, 1, Len(s))[i] = s[i] /\ SubSeq(t, 1, Len(s))[i] = t[i]
      BY <1>1
<1>2. ASSUME Len(s) <= Len(t), \A i \in 1..Len(s) : s[i] = t[i]
      PROVE  SubSeq(s, 1, Len(s)) = SubSeq(t, 1, Len(s))
      BY <1>1, <1>2, SeqEqual
<1>3. ASSUME Len(s) <= Len(t), SubSeq(s, 1, Len(s)) = SubSeq(t, 1, Len(s))
      PROVE  \A i \in 1..Len(s) : s[i] = t[i]
      BY <1>1, <1>3
<1>. QED BY <1>2, <1>3 DEF IsPrefix

LEMMA ConcatAppend ==
    ASSUME NEW S, NEW s \in Seq(S), NEW t \in Seq(S), NEW x \in S
    PROVE  s \o Append(t, x) = Append(s \o t, x)
<1>1. s \o Append(t, x) \in Seq(S) /\ Append(s \o t, x) \in Seq(S)
      OBVIOUS
<1>2. Len(s \o Append(t, x)) = Len(Append(s \o t, x))
      OBVIOUS
<1>3. \A i \in 1..Len(s \o Append(t, x)) : (s \o Append(t, x))[i] = Append(s \o t, x)[i]
      OBVIOUS
<1>. QED BY <1>1, <1>2, <1>3, SeqEqual

LEMMA ConcatHeadTail ==
    ASSUME NEW S, NEW s \in Seq(S), NEW t \in Seq(S), t # <<>>
    PROVE  Append(s, Head(t)) \o Tail(t) = s \o t
<1>1. Head(t) \in S /\ Tail(t) \in Seq(S) /\ Len(Tail(t)) = Len(t) - 1
      BY HeadTailProperties
<1>2. Append(s, Head(t)) \o Tail(t) \in Seq(S) /\ s \o t \in Seq(S)
      BY <1>1
<1>3. Len(Append(s, Head(t)) \o Tail(t)) = Len(s \o t)
      BY <1>1
<1>4. \A i \in 1..Len(s \o t) : (Append(s, Head(t)) \o Tail(t))[i] = (s \o t)[i]
      BY <1>1, HeadTailProperties
<1>. QED BY <1>2, <1>3, <1>4, SeqEqual

LEMMA PrefixAppend ==
    ASSUME NEW S, NEW s \in Seq(S), NEW t \in Seq(S), NEW x \in S, IsPrefix(s, t)
    PROVE  IsPrefix(s, Append(t, x))
<1>1. Append(t, x) \in Seq(S)
      OBVIOUS
<1>2. Len(s) <= Len(t) /\ \A i \in 1..Len(s) : s[i] = t[i]
      BY PrefixDef
<1>3. Len(s) <= Len(Append(t, x)) /\ \A i \in 1..Len(s) : s[i] = Append(t, x)[i]
      BY <1>2
<1>. QED BY <1>1, <1>3, PrefixDef

LEMMA PrefixNext ==
    ASSUME NEW S, NEW s \in Seq(S), NEW t \in Seq(S), IsPrefix(s, t), Len(s) < Len(t)
    PROVE  IsPrefix(Append(s, t[Len(s) + 1]), t)
<1>1. t[Len(s) + 1] \in S /\ Append(s, t[Len(s) + 1]) \in Seq(S)
      BY ElementOfSeq
<1>2. Len(s) <= Len(t) /\ \A i \in 1..Len(s) : s[i] = t[i]
      BY PrefixDef
<1>3. /\ Len(Append(s, t[Len(s) + 1])) <= Len(t)
      /\ \A i \in 1..Len(Append(s, t[Len(s) + 1])) : Append(s, t[Len(s) + 1])[i] = t[i]
      BY <1>1, <1>2
<1>. QED BY <1>1, <1>3, PrefixDef

\* Until handleConn has picked a codec nothing has been read, and from then on what
\* was written is what was read and what is under way.
Flow ==
    /\ client \notin {"open", "closing", "closed"} =>
           up = <<>> /\ fin = FALSE /\ \A s \in Sends : call[s] = "idle"
    /\ sCodec # None => client \in {"open", "closing", "closed"}
    /\ handler \in {"none", "waiting"} => sCodec = None
    /\ handler = "serving" => sCodec # None
    /\ sCodec = None => got = <<>> /\ down = <<>> /\ received = <<>>
    /\ sCodec = None \/ cCodec = sCodec =>
           sent = got \o up /\ IsPrefix(received \o down, got)

FlowInv == LinkInv /\ Flow

LEMMA FlowTypes ==
    LinkInv => /\ up \in Seq(Message) /\ sent \in Seq(Message) /\ got \in Seq(Message)
               /\ down \in Seq(Message) /\ received \in Seq(Message)
BY DEF LinkInv, Types, TypeOK, Message

LEMMA FlowInit == Init => FlowInv
<1>. SUFFICES ASSUME Init PROVE Flow
     BY LinkInit DEF FlowInv
<1>1. sent = got \o up /\ received \o down = <<>> /\ got = <<>>
      BY DEF Init
<1>2. IsPrefix(received \o down, got)
      BY <1>1 DEF IsPrefix
<1>. QED BY <1>1, <1>2 DEF Init, Flow

LEMMA FlowStep == FlowInv /\ [Next]_vars => FlowInv'
<1>. SUFFICES ASSUME FlowInv, [Next]_vars PROVE Flow'
     BY LinkStep DEF FlowInv
<1>. USE DEF serverSetup, clientSetup, link, sending, answering
<1>1. CASE Configuring
  <2>1. UNCHANGED <<link, sending, up, fin, answering>>
        BY <1>1 DEF Configuring, WithQUICCodec, SetALPN, WithTLSConfig, Listen,
              WithClientQUICCodec, WithQUICNextProtos
  <2>. QED BY <2>1 DEF FlowInv, Flow
<1>2. CASE Connecting
  <2>1. UNCHANGED <<sending, up, answering>>
        BY <1>2 DEF Connecting, Dial, DialFails, PickCodec, OpenStream, CloseStream, CloseConn, ConnDies,
              Admit, AcceptStream, AcceptFails, SessionEnds
  <2>2. CASE Dial \/ DialFails \/ PickCodec \/ OpenStream
    <3>1. /\ client \notin {"open", "closing", "closed"}
          /\ UNCHANGED <<fin, sCodec, handler>>
          BY <2>2 DEF Dial, DialFails, PickCodec, OpenStream
    <3>. QED BY <2>1, <3>1 DEF FlowInv, Flow
  <2>3. CASE CloseStream \/ CloseConn \/ ConnDies
    <3>1. /\ client' \in {"closing", "closed", client}
          /\ client \in {"open", "closing"} \/ (client' = client /\ fin' = fin)
          /\ UNCHANGED <<cCodec, sCodec, handler>>
          BY <2>3 DEF CloseStream, CloseConn, ConnDies
    <3>. QED BY <2>1, <3>1 DEF FlowInv, Flow
  <2>4. CASE Admit \/ AcceptFails \/ SessionEnds
    <3>1. /\ UNCHANGED <<fin, client, cCodec, sCodec>>
          /\ \/ handler' = "left"
             \/ handler = "none" /\ handler' = "waiting"
          BY <2>4 DEF Admit, AcceptFails, SessionEnds
    <3>. QED BY <2>1, <3>1 DEF FlowInv, Flow
  <2>5. CASE AcceptStream
    <3>1. /\ UNCHANGED <<fin, client, cCodec>>
          /\ handler = "waiting" /\ (up # <<>> \/ fin)
          /\ \/ handler' = "left" /\ sCodec' = None
             \/ handler' = "serving" /\ sCodec' # None
          BY <2>5 DEF AcceptStream
    <3>2. client \in {"open", "closing", "closed"} /\ sCodec = None
          BY <3>1 DEF FlowInv, Flow
    <3>. QED BY <2>1, <3>1, <3>2 DEF FlowInv, Flow
  <2>. QED BY <1>2, <2>2, <2>3, <2>4, <2>5 DEF Connecting
<1>3. ASSUME NEW s \in Sends, SendBegin(s) \/ Lock(s) \/ Encode(s) \/ SendFails(s)
      PROVE  Flow'
  <2>1. UNCHANGED <<link, sent, up, fin, answering>>
        BY <1>3 DEF SendBegin, Lock, Encode, SendFails, Unlock
  <2>2. client \in {"open", "closing", "closed"}
        BY <1>3 DEF SendBegin, Lock, Encode, SendFails, FlowInv, Flow
  <2>. QED BY <2>1, <2>2 DEF FlowInv, Flow
<1>4. ASSUME NEW s \in Sends, Write(s)
      PROVE  Flow'
  <2>1. /\ UNCHANGED <<link, fin, answering>>
        /\ sent' = Append(sent, s) /\ up' = Append(up, sendBuf) /\ call[s] = "encoded"
        BY <1>4 DEF Write
  <2>2. sendBuf = s /\ s \in Message
        BY <2>1 DEF FlowInv, LinkInv, Locked, Message
  <2>3. client \in {"open", "closing", "closed"}
        BY <2>1 DEF FlowInv, Flow
  <2>4. ASSUME sent = got \o up PROVE sent' = got' \o up'
    <3>1. got \o Append(up, s) = Append(got \o up, s)
          BY <2>2, ConcatAppend, FlowTypes DEF FlowInv
    <3>. QED BY <2>1, <2>2, <2>4, <3>1
  <2>. QED BY <2>1, <2>3, <2>4 DEF FlowInv, Flow
<1>5. CASE Receive
  <2>1. /\ UNCHANGED <<link, sent, up, call, fin, got>>
        /\ down # <<>> /\ down' = Tail(down)
        /\ cCodec = sCodec => received' = Append(received, Head(down))
        BY <1>5 DEF Receive
  <2>2. sCodec # None
        BY <2>1 DEF FlowInv, Flow
  <2>3. cCodec = sCodec => received' \o down' = received \o down
        BY <2>1, ConcatHeadTail, FlowTypes DEF FlowInv
  <2>. QED BY <2>1, <2>2, <2>3 DEF FlowInv, Flow
<1>6. CASE ReadMessage
  <2>1. /\ UNCHANGED <<link, sent, call, fin, down, received>>
        /\ up # <<>> /\ up' = Tail(up) /\ handler = "serving"
        /\ cCodec = sCodec => got' = Append(got, Head(up))
        BY <1>6 DEF ReadMessage
  <2>2. sCodec # None /\ client \in {"open", "closing", "closed"}
        BY <2>1 DEF FlowInv, Flow
  <2>3. cCodec = sCodec => got' \o up' = got \o up
        BY <2>1, ConcatHeadTail, FlowTypes DEF FlowInv
  <2>4. ASSUME cCodec = sCodec, IsPrefix(received \o down, got)
        PROVE  IsPrefix(received \o down, got')
    <3>1. received \o down \in Seq(Message) /\ Head(up) \in Message
          BY <2>1, FlowTypes, HeadTailProperties DEF FlowInv
    <3>. QED BY <2>1, <2>4, <3>1, PrefixAppend, FlowTypes DEF FlowInv
  <2>. QED BY <2>1, <2>2, <2>3, <2>4 DEF FlowInv, Flow
<1>7. CASE Answer
  <2>1. /\ UNCHANGED <<link, sent, call, up, fin, got, received>>
        /\ handler = "serving" /\ Answered < Len(got)
        /\ down' = Append(down, got[Answered + 1])
        BY <1>7 DEF Answer
  <2>2. sCodec # None
        BY <2>1 DEF FlowInv, Flow
  <2>3. /\ received \o down \in Seq(Message) /\ Len(received \o down) = Answered
        /\ Answered \in Nat
        BY FlowTypes DEF FlowInv, Answered
  <2>4. got[Answered + 1] \in Message
        BY <2>1, <2>3, FlowTypes, ElementOfSeq DEF FlowInv
  <2>5. received' \o down' = Append(received \o down, got[Answered + 1])
        BY <2>1, <2>4, ConcatAppend, FlowTypes DEF FlowInv
  <2>6. ASSUME IsPrefix(received \o down, got)
        PROVE  IsPrefix(received' \o down', got')
        BY <2>1, <2>3, <2>5, <2>6, PrefixNext, FlowTypes DEF FlowInv
  <2>. QED BY <2>1, <2>2, <2>6 DEF FlowInv, Flow
<1>8. CASE UNCHANGED vars
      BY <1>8 DEF vars, FlowInv, Flow
<1>. QED BY <1>1, <1>2, <1>3, <1>4, <1>5, <1>6, <1>7, <1>8, NextSplit DEF Exchanging

\* The handler reads exactly the messages of the calls that wrote, in the order they
\* did, and is answered for in that order, however many calls share the buffer.
THEOREM SentInOrder == Spec => []InOrder
<1>1. FlowInv => InOrder
  <2>. SUFFICES ASSUME FlowInv, cCodec = sCodec
                PROVE  sent = got \o up /\ IsPrefix(received \o down, got)
       BY DEF InOrder
  <2>. QED BY DEF FlowInv, Flow
<1>. QED BY <1>1, FlowInit, FlowStep, PTL DEF Spec

-------------------------------------------------------------------------------
(* Nobody waits for nobody                                                 *)

\* The lock is held by a call between Lock and Unlock, and handleConn closes the
\* connection on every way out.
Attended ==
    /\ sendMu # None => call[sendMu] \in {"locked", "encoded"}
    /\ handler = "left" => conn = "closed"

LEMMA AttendedStep == LinkInv /\ Attended /\ [Next]_vars => Attended'
<1>. SUFFICES ASSUME LinkInv, Attended, [Next]_vars PROVE Attended'
     OBVIOUS
<1>. USE DEF Attended
<1>1. ASSUME UNCHANGED <<call, sendMu>> PROVE sendMu' # None => call'[sendMu'] \in {"locked", "encoded"}
      BY <1>1
<1>2. CASE Configuring
      BY <1>2 DEF Configuring, WithQUICCodec, SetALPN, WithTLSConfig, Listen,
            WithClientQUICCodec, WithQUICNextProtos, link, sending
<1>3. CASE Connecting
  <2>1. UNCHANGED <<call, sendMu>>
        BY <1>3 DEF Connecting, Dial, DialFails, PickCodec, OpenStream, CloseStream, CloseConn, ConnDies,
              Admit, AcceptStream, AcceptFails, SessionEnds, sending
  <2>2. Dial => handler' # "left"
        BY DEF Dial, LinkInv, Linked
  <2>3. ASSUME ~Dial PROVE handler' = "left" => conn' = "closed"
        BY <1>3, <2>3 DEF Connecting, DialFails, PickCodec, OpenStream, CloseStream, CloseConn, ConnDies,
              Admit, AcceptStream, AcceptFails, SessionEnds
  <2>. QED BY <1>1, <2>1, <2>2, <2>3
<1>4. ASSUME NEW s \in Sends, SendBegin(s) \/ Lock(s) \/ Encode(s) \/ Write(s) \/ SendFails(s)
      PROVE  Attended'
  <2>1. UNCHANGED <<handler, conn>>
        BY <1>4 DEF SendBegin, Lock, Encode, Write, SendFails, Unlock, link
  <2>2. call \in [Sends -> {"idle", "waiting", "locked", "encoded", "returned"}]
        /\ sendMu \in Sends \cup {None}
        BY DEF LinkInv, Types, TypeOK
  <2>3. CASE SendBegin(s)
        BY <2>1, <2>2, <2>3 DEF SendBegin
  <2>4. CASE Lock(s)
        BY <2>1, <2>2, <2>4 DEF Lock
  <2>5. CASE Encode(s)
        BY <2>1, <2>2, <2>5 DEF Encode
  <2>6. CASE Write(s) \/ SendFails(s)
        BY <2>1, <2>6 DEF Write, SendFails, Unlock
  <2>. QED BY <1>4, <2>3, <2>4, <2>5, <2>6
<1>5. CASE Receive \/ ReadMessage \/ Answer
      BY <1>5 DEF Receive, ReadMessage, Answer, link, sending
<1>6. CASE UNCHANGED vars
      BY <1>6 DEF vars, link, sending
<1>. QED BY <1>2, <1>3, <1>4, <1>5, <1>6, NextSplit DEF Exchanging

\* A Send that waits for the lock waits for a call that is under way, and one that waits
\* for the window has a server that has neither left nor closed the connection.
THEOREM WaitsAreAttended == Spec => []NobodyStuck
<1>1. Init => Attended
      BY DEF Init, Attended
<1>2. Attended => NobodyStuck
      BY DEF Attended, NobodyStuck
<1>. QED BY <1>1, <1>2, AttendedStep, LinkInit, LinkStep, PTL DEF Spec
===============================================================================
