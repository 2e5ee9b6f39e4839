-------------------------- MODULE EadChannelProofs --------------------------
(***************************************************************************)
(* Proofs about EadChannel for every window, increment, vector width and   *)
(* pattern of damage. At-most-once acceptance needs only that the vectors  *)
(* of the accepted messages grow up to ead_rx_iv. Order, the abstract      *)
(* channel and the tolerance of bursts need also that the sender's vectors *)
(* grow, which is what NoOverflow buys.                                    *)
(***************************************************************************)
EXTENDS EadChannel, SequenceTheorems, TLAPS

(* The vectors of the accepted messages grow and end at or below rx.       *)
AcceptedGrow ==
  /\ \A i \in DOMAIN delivered : sent[delivered[i]] <= ead_rx_iv
  /\ \A i, j \in DOMAIN delivered :
        i < j => sent[delivered[i]] < sent[delivered[j]]

(* A frame, intact or not, only ever moves rx up to a 32-bit value.        *)
LEMMA RxAdvances ==
  ASSUME TypeOK, NEW iv \in 0 .. Wrap - 1, NEW heard, Decrypt(iv, heard)
  PROVE  /\ ead_rx_iv' \in 0 .. Wrap - 1
         /\ ead_rx_iv < ead_rx_iv'
         /\ ead_rx_iv' = iv
  BY ChannelConstants DEF TypeOK, Decrypt, CheckRxIv

(* The vectors that frames can carry are 32-bit values.                    *)
LEMMA FrameIvs ==
  ASSUME TypeOK
  PROVE  /\ \A n \in DOMAIN sent : sent[n] \in 0 .. Wrap - 1
         /\ DamagedIvs \subseteq 0 .. Wrap - 1
  <1>1. \A n \in DOMAIN sent : sent[n] \in 0 .. Wrap - 1
    <2>1. sent \in [1 .. Len(sent) -> 0 .. Wrap - 1]
      BY LenProperties DEF TypeOK
    <2> QED BY <2>1
  <1>2. Garbled \subseteq 0 .. Wrap - 1
    BY ChannelConstants
  <1> QED BY <1>1, <1>2 DEF DamagedIvs

(* The next vector is a 32-bit value.                                      *)
LEMMA NextIvType ==
  ASSUME TypeOK
  PROVE  /\ NextIv \in 0 .. Wrap - 1
         /\ (ivofs_idx + 1) % Period \in 0 .. Period - 1
         /\ ivofs_vec[ivofs_idx] \in 1 .. MaxOfs
  <1>1. ivofs_vec[ivofs_idx] \in 1 .. MaxOfs
    BY DEF TypeOK
  <1>2. ead_tx_iv + ivofs_vec[ivofs_idx] \in Int
    BY <1>1, ChannelConstants DEF TypeOK
  <1>3. \A a \in Int, b \in Nat \ {0} : a % b \in 0 .. b - 1
    OBVIOUS
  <1>4. Wrap \in Nat \ {0} /\ Period \in Nat \ {0}
    BY ChannelConstants
  <1>5. ivofs_idx + 1 \in Int
    BY <1>4 DEF TypeOK
  <1>6. NextIv \in 0 .. Wrap - 1
    BY <1>2, <1>3, <1>4 DEF NextIv
  <1>7. (ivofs_idx + 1) % Period \in 0 .. Period - 1
    BY <1>3, <1>4, <1>5
  <1> QED BY <1>1, <1>6, <1>7

-----------------------------------------------------------------------------
LEMMA InitType == Init => TypeOK
  BY ChannelConstants DEF Init, TypeOK

LEMMA NextType == TypeOK /\ [Next]_vars => TypeOK'
  <1> SUFFICES ASSUME TypeOK, [Next]_vars PROVE TypeOK'
    OBVIOUS
  <1>1. CASE Encrypt
    <2>1. sent' \in Seq(0 .. Wrap - 1) /\ DOMAIN sent \subseteq DOMAIN sent'
      BY <1>1, NextIvType DEF TypeOK, Encrypt
    <2>2. delivered' \in Seq(DOMAIN sent')
      BY <1>1, <2>1 DEF TypeOK, Encrypt
    <2> QED BY <1>1, <2>1, <2>2, NextIvType DEF TypeOK, Encrypt
  <1>2. ASSUME NEW n \in DOMAIN sent, Receive(n) PROVE TypeOK'
    <2>1. delivered' \in Seq(DOMAIN sent')
      BY <1>2 DEF TypeOK, Receive, Decrypt
    <2> QED
      BY <1>2, <2>1, FrameIvs, RxAdvances DEF TypeOK, Receive, Decrypt
  <1>3. ASSUME NEW iv \in DamagedIvs, ReceiveDamaged(iv) PROVE TypeOK'
    BY <1>3, FrameIvs, RxAdvances DEF TypeOK, ReceiveDamaged, Decrypt
  <1>4. CASE UNCHANGED vars
    BY <1>4 DEF TypeOK, vars
  <1> QED BY <1>1, <1>2, <1>3, <1>4 DEF Next

(* Type correctness: the counters stay 32-bit values and the receiver only *)
(* ever hears messages that were sent.                                     *)
THEOREM TypeCorrect == Spec => []TypeOK
  BY InitType, NextType, PTL DEF Spec

-----------------------------------------------------------------------------
LEMMA NextGrow == TypeOK /\ AcceptedGrow /\ [Next]_vars => AcceptedGrow'
  <1> SUFFICES ASSUME TypeOK, AcceptedGrow, [Next]_vars PROVE AcceptedGrow'
    OBVIOUS
  <1>1. CASE Encrypt
    <2>1. \A n \in DOMAIN sent : sent'[n] = sent[n]
      BY <1>1, NextIvType DEF TypeOK, Encrypt
    <2>2. \A i \in DOMAIN delivered : delivered[i] \in DOMAIN sent
      BY DEF TypeOK
    <2> QED BY <1>1, <2>1, <2>2 DEF AcceptedGrow, Encrypt
  <1>2. ASSUME NEW n \in DOMAIN sent, Receive(n) PROVE AcceptedGrow'
    <2>1. /\ sent' = sent /\ ead_rx_iv' = sent[n] /\ ead_rx_iv < sent[n]
          /\ delivered' = Append(delivered, n)
      BY <1>2, FrameIvs, RxAdvances DEF Receive, Decrypt
    <2>2. /\ DOMAIN delivered' = 1 .. Len(delivered) + 1
          /\ DOMAIN delivered = 1 .. Len(delivered)
          /\ \A i \in DOMAIN delivered : delivered'[i] = delivered[i]
          /\ delivered'[Len(delivered) + 1] = n
      BY <2>1 DEF TypeOK
    <2>3. \A i \in DOMAIN delivered : delivered[i] \in DOMAIN sent
      BY DEF TypeOK
    <2>4. /\ ead_rx_iv \in Int
          /\ \A k \in DOMAIN sent : sent[k] \in Int
      BY FrameIvs, ChannelConstants DEF TypeOK
    <2>5. \A i \in DOMAIN delivered : sent[delivered[i]] < sent[n]
      BY <2>1, <2>3, <2>4 DEF AcceptedGrow
    <2>6. \A i \in DOMAIN delivered' : sent'[delivered'[i]] <= ead_rx_iv'
      BY <2>1, <2>2, <2>3, <2>4, <2>5
    <2>7. ASSUME NEW i \in DOMAIN delivered', NEW j \in DOMAIN delivered', i < j
          PROVE  sent'[delivered'[i]] < sent'[delivered'[j]]
      <3>1. i \in DOMAIN delivered
        BY <2>2, <2>7 DEF TypeOK
      <3>2. CASE j \in DOMAIN delivered
        BY <2>1, <2>2, <2>7, <3>1, <3>2 DEF AcceptedGrow
      <3>3. CASE j = Len(delivered) + 1
        BY <2>1, <2>2, <2>5, <3>1, <3>3
      <3> QED BY <2>2, <3>2, <3>3 DEF TypeOK
    <2> QED BY <2>6, <2>7 DEF AcceptedGrow
  <1>3. ASSUME NEW iv \in DamagedIvs, ReceiveDamaged(iv) PROVE AcceptedGrow'
    <2>1. /\ sent' = sent /\ delivered' = delivered
          /\ ead_rx_iv' = iv /\ ead_rx_iv < iv /\ iv \in Int /\ ead_rx_iv \in Int
      BY <1>3, FrameIvs, RxAdvances, ChannelConstants
         DEF ReceiveDamaged, Decrypt, TypeOK
    <2>2. \A i \in DOMAIN delivered : sent[delivered[i]] \in Int
      BY FrameIvs, ChannelConstants DEF TypeOK
    <2> QED BY <2>1, <2>2 DEF AcceptedGrow
  <1>4. CASE UNCHANGED vars
    BY <1>4 DEF AcceptedGrow, vars
  <1> QED BY <1>1, <1>2, <1>3, <1>4 DEF Next

LEMMA GrowAtMostOnce == TypeOK /\ AcceptedGrow => AtMostOnce
  <1> SUFFICES ASSUME TypeOK, AcceptedGrow,
                      NEW i \in DOMAIN delivered, NEW j \in DOMAIN delivered,
                      delivered[i] = delivered[j], i # j
               PROVE  FALSE
    BY DEF AtMostOnce
  <1>1. i \in Int /\ j \in Int /\ delivered[i] \in DOMAIN sent
    BY ElementOfSeq DEF TypeOK
  <1>2. i < j \/ j < i
    BY <1>1
  <1>3. sent[delivered[i]] \in Int
    BY <1>1, FrameIvs, ChannelConstants
  <1> QED BY <1>1, <1>2, <1>3 DEF AcceptedGrow

(* No frame is accepted twice: for every window, every increment, every    *)
(* vector width and with frames damaged in any way, overflow included.     *)
THEOREM NeverTwice == Spec => []AtMostOnce
  <1>1. Init => AcceptedGrow
    BY DEF Init, AcceptedGrow
  <1> QED BY <1>1, InitType, NextType, NextGrow, GrowAtMostOnce, PTL DEF Spec

-----------------------------------------------------------------------------
(***************************************************************************)
(* The sender's side without overflow. Each vector exceeds the one before  *)
(* by 1 .. MaxOfs: two messages are as far apart as their numbers at least *)
(* and MaxOfs times as far at most.                                        *)
(***************************************************************************)
Spacing ==
  /\ Len(sent) <= MaxSend
  /\ ead_tx_iv = IvOf(Len(sent))
  /\ \A m \in 0 .. Len(sent) : \A n \in m .. Len(sent) :
        /\ IvOf(n) >= IvOf(m) + (n - m)
        /\ IvOf(n) <= IvOf(m) + MaxOfs * (n - m)

LEMMA IvType ==
  ASSUME TypeOK, NEW n \in 0 .. Len(sent)
  PROVE  IvOf(n) \in Nat
  <1>1. CASE n = 0
    BY <1>1, ChannelConstants DEF IvOf
  <1>2. CASE n # 0
    <2>1. n \in DOMAIN sent
      BY <1>2, LenProperties DEF TypeOK
    <2> QED BY <1>2, <2>1, FrameIvs, ChannelConstants DEF IvOf
  <1> QED BY <1>1, <1>2

(* The product of the increment and a distance grows with the distance.    *)
LEMMA OfsProduct ==
  ASSUME NEW a \in Nat, NEW b \in Nat, a <= b
  PROVE  /\ MaxOfs * a \in Nat /\ MaxOfs * b \in Nat
         /\ MaxOfs * a <= MaxOfs * b
         /\ MaxOfs * (a + 1) = MaxOfs * a + MaxOfs
  <1>1. \A m, x, y \in Nat : x <= y => m * x \in Nat /\ m * y \in Nat /\ m * x <= m * y
    OBVIOUS
  <1>2. \A m, x \in Nat : m * (x + 1) = m * x + m
    OBVIOUS
  <1> QED BY <1>1, <1>2, ChannelConstants

(* While fewer than MaxSend messages were sent the next vector is exact.   *)
LEMMA NoWrapYet ==
  ASSUME NoOverflow, TypeOK, Spacing, Len(sent) < MaxSend
  PROVE  NextIv = ead_tx_iv + ivofs_vec[ivofs_idx]
  <1> DEFINE k == Len(sent)
  <1>1. k \in Nat /\ k + 1 <= MaxSend /\ k + 1 \in Nat /\ MaxSend \in Nat
    BY LenProperties, ChannelConstants DEF TypeOK
  <1>2. ead_tx_iv <= IvInit + MaxOfs * k /\ ead_tx_iv \in Nat
    <2>1. IvOf(k) <= IvOf(0) + MaxOfs * (k - 0) /\ ead_tx_iv = IvOf(k)
      BY <1>1 DEF Spacing
    <2>2. k - 0 = k
      BY <1>1
    <2>3. IvOf(k) \in Nat
      BY <1>1, IvType
    <2> QED BY <2>1, <2>2, <2>3 DEF IvOf
  <1>3. MaxOfs * (k + 1) <= MaxOfs * MaxSend /\ MaxOfs * (k + 1) = MaxOfs * k + MaxOfs
    BY <1>1, OfsProduct
  <1>4. MaxOfs * k \in Nat /\ MaxOfs * MaxSend \in Nat
    BY <1>1, OfsProduct
  <1> HIDE DEF k
  <1>5. ead_tx_iv + ivofs_vec[ivofs_idx] \in 0 .. Wrap - 1
    BY <1>2, <1>3, <1>4, NextIvType, ChannelConstants DEF NoOverflow
  <1>6. \A a \in Nat, b \in Nat \ {0} : a < b => a % b = a
    OBVIOUS
  <1> QED BY <1>5, <1>6, ChannelConstants DEF NextIv

LEMMA InitSpacing == Init => Spacing
  <1> SUFFICES ASSUME Init PROVE Spacing
    OBVIOUS
  <1>1. Len(sent) = 0 /\ IvOf(0) = IvInit /\ ead_tx_iv = IvInit
    BY DEF Init, IvOf
  <1>2. \A m \in 0 .. 0 : \A n \in m .. 0 : m = 0 /\ n = 0 /\ n - m = 0
    OBVIOUS
  <1>3. MaxOfs * 0 = 0
    BY ChannelConstants
  <1> QED BY <1>1, <1>2, <1>3, ChannelConstants DEF Spacing

LEMMA NextSpacing == NoOverflow /\ TypeOK /\ Spacing /\ [Next]_vars => Spacing'
  <1> SUFFICES ASSUME NoOverflow, TypeOK, Spacing, [Next]_vars PROVE Spacing'
    OBVIOUS
  <1>1. CASE Encrypt
    <2>k. PICK k \in Nat : k = Len(sent)
      BY LenProperties DEF TypeOK
    <2>o. PICK ofs \in 1 .. MaxOfs : ofs = ivofs_vec[ivofs_idx]
      BY NextIvType
    <2>1. /\ k \in Nat /\ k < MaxSend /\ Len(sent') = k + 1
          /\ sent' = Append(sent, NextIv) /\ ead_tx_iv' = NextIv
          /\ MaxSend \in Nat
      BY <1>1, <2>k, LenProperties, ChannelConstants DEF TypeOK, Encrypt
    <2>2. NextIv = ead_tx_iv + ofs /\ ofs \in 1 .. MaxOfs /\ ead_tx_iv = IvOf(k)
      BY <2>k, <2>o, <2>1, NoWrapYet DEF Spacing
    <2>3. \A n \in 1 .. k : sent'[n] = sent[n]
      BY <2>k, <2>1, LenProperties DEF TypeOK
    <2>4. sent'[k + 1] = NextIv
      BY <2>k, <2>1, LenProperties DEF TypeOK
    <2>5. (\A n \in 0 .. k : IvOf(n)' = IvOf(n)) /\ IvOf(k + 1)' = IvOf(k) + ofs
      BY <2>1, <2>2, <2>3, <2>4 DEF IvOf
    <2>6. \A n \in 0 .. k : IvOf(n) \in Nat
      BY <2>k, IvType
    <2>7. ASSUME NEW m \in 0 .. k + 1, NEW n \in m .. k + 1
          PROVE  /\ IvOf(n)' >= IvOf(m)' + (n - m)
                 /\ IvOf(n)' <= IvOf(m)' + MaxOfs * (n - m)
      <3>1. CASE n <= k
        <4>1. m \in 0 .. k /\ n \in m .. k /\ n \in 0 .. k
          BY <2>1, <2>7, <3>1
        <4> QED BY <4>1, <2>k, <2>5 DEF Spacing
      <3>2. CASE n = k + 1 /\ m = k + 1
        <4>1. n - m = 0 /\ MaxOfs * 0 = 0
          BY <2>1, <3>2, ChannelConstants
        <4>2. IvOf(k + 1)' \in Int
          BY <2>1, <2>2, <2>5, <2>6, ChannelConstants
        <4> QED BY <4>1, <4>2, <3>2
      <3>3. CASE n = k + 1 /\ m <= k
        <4>1. m \in 0 .. k /\ k \in m .. k /\ k - m \in Nat /\ n - m = (k - m) + 1
          BY <2>1, <2>7, <3>3
        <4>2. /\ IvOf(k) >= IvOf(m) + (k - m)
              /\ IvOf(k) <= IvOf(m) + MaxOfs * (k - m)
          BY <4>1, <2>k DEF Spacing
        <4>3. /\ MaxOfs * (n - m) = MaxOfs * (k - m) + MaxOfs
              /\ MaxOfs * (k - m) \in Nat
          BY <4>1, OfsProduct
        <4>4. IvOf(m)' = IvOf(m) /\ IvOf(n)' = IvOf(k) + ofs
          BY <2>5, <3>3, <4>1
        <4>5. IvOf(k) \in Nat /\ IvOf(m) \in Nat /\ ofs \in Nat /\ ofs >= 1 /\ ofs <= MaxOfs
          BY <2>2, <2>6, <4>1, ChannelConstants
        <4>6. IvOf(k) + ofs >= IvOf(m) + (n - m)
          BY <4>1, <4>2, <4>5
        <4>7. IvOf(k) + ofs <= IvOf(m) + MaxOfs * (n - m)
          <5> DEFINE p == MaxOfs * (k - m)
          <5>1. p \in Nat /\ IvOf(k) <= IvOf(m) + p
            BY <4>2, <4>3
          <5>2. MaxOfs * (n - m) = p + MaxOfs /\ MaxOfs \in Nat
            BY <4>3, ChannelConstants
          <5> HIDE DEF p
          <5> QED BY <4>5, <5>1, <5>2
        <4> QED BY <4>4, <4>6, <4>7
      <3> QED BY <2>1, <2>7, <3>1, <3>2, <3>3
    <2>8. (k + 1 <= MaxSend) /\ ead_tx_iv' = IvOf(k + 1)'
      BY <2>1, <2>2, <2>5
    <2>9. Len(sent') = k + 1
      BY <2>1
    <2>10. ead_tx_iv' = IvOf(Len(sent))' /\ Len(sent)' = k + 1
      BY <2>8, <2>9 DEF IvOf
    <2> QED BY <2>7, <2>8, <2>10 DEF Spacing
  <1>2. CASE UNCHANGED <<sent, ead_tx_iv>>
    BY <1>2 DEF Spacing, IvOf
  <1> QED BY <1>1, <1>2 DEF Next, Receive, ReceiveDamaged, Decrypt, vars

(* Message numbers and vectors are ordered alike.                          *)
LEMMA SentIncreasing ==
  ASSUME TypeOK, Spacing, NEW m \in DOMAIN sent, NEW n \in DOMAIN sent
  PROVE  /\ sent[m] < sent[n] <=> m < n
         /\ sent[m] \in Nat /\ sent[n] \in Nat
  <1>1. /\ m \in 1 .. Len(sent) /\ n \in 1 .. Len(sent) /\ Len(sent) \in Nat
        /\ IvOf(m) = sent[m] /\ IvOf(n) = sent[n]
    BY LenProperties DEF TypeOK, IvOf
  <1>2. IvOf(m) \in Nat /\ IvOf(n) \in Nat
    BY <1>1, IvType
  <1>3. CASE m < n
    <2>1. IvOf(n) >= IvOf(m) + (n - m)
      BY <1>1, <1>3 DEF Spacing
    <2> QED BY <1>1, <1>2, <1>3, <2>1
  <1>4. CASE n <= m
    <2>1. IvOf(m) >= IvOf(n) + (m - n)
      BY <1>1, <1>4 DEF Spacing
    <2> QED BY <1>1, <1>2, <1>4, <2>1
  <1> QED BY <1>1, <1>3, <1>4

(* Everything the theorems below need, under NoOverflow.                   *)
IInv == TypeOK /\ AcceptedGrow /\ Spacing

LEMMA IInvInvariant == ASSUME NoOverflow PROVE Spec => []IInv
  <1>1. Init => IInv
    BY InitType, InitSpacing DEF IInv, AcceptedGrow, Init
  <1>2. IInv /\ [Next]_vars => IInv'
    BY NextType, NextGrow, NextSpacing DEF IInv
  <1> QED BY <1>1, <1>2, PTL DEF Spec

(* Without overflow the receiver hears the messages in the order they were *)
(* sent, whatever the network does to the frames.                          *)
THEOREM AlwaysInOrder == ASSUME NoOverflow PROVE Spec => []InOrder
  <1>1. IInv => InOrder
    <2> SUFFICES ASSUME IInv, NEW i \in DOMAIN delivered,
                        NEW j \in DOMAIN delivered, i < j
                 PROVE  delivered[i] < delivered[j]
      BY DEF InOrder
    <2>1. delivered[i] \in DOMAIN sent /\ delivered[j] \in DOMAIN sent
      BY ElementOfSeq, LenProperties DEF IInv, TypeOK
    <2> QED BY <2>1, SentIncreasing DEF IInv, AcceptedGrow
  <1> QED BY <1>1, IInvInvariant, PTL

(* A burst of losses that fits in the window never shuts the receiver out. *)
THEOREM BurstTolerated == ASSUME NoOverflow PROVE Spec => []BurstTolerance
  <1>1. IInv => BurstTolerance
    <2> SUFFICES ASSUME IInv, NEW m \in 0 .. Len(sent),
                        NEW n \in m + 1 .. Len(sent),
                        ead_rx_iv = IvOf(m), (n - m) * MaxOfs <= MaxIncr
                 PROVE  CheckRxIv(sent[n])
      BY DEF BurstTolerance
    <2>1. /\ Len(sent) \in Nat /\ Len(sent) <= MaxSend /\ n \in m .. Len(sent)
          /\ n \in 0 .. Len(sent) /\ n - m \in Nat /\ n - m >= 1 /\ n >= m
          /\ n # 0 /\ m \in Nat /\ m - 0 = m /\ n - 0 = n /\ m <= MaxSend
      BY LenProperties, ChannelConstants DEF IInv, TypeOK, Spacing
    <2>2. IvOf(m) \in Nat /\ IvOf(n) \in Nat /\ sent[n] = IvOf(n)
      BY <2>1, IvType DEF IInv, IvOf
    <2>3. /\ IvOf(n) >= IvOf(m) + (n - m)
          /\ IvOf(n) <= IvOf(m) + MaxOfs * (n - m)
      BY <2>1 DEF IInv, Spacing
    <2>4. MaxOfs * (n - m) = (n - m) * MaxOfs /\ MaxOfs * (n - m) \in Nat
      BY <2>1, ChannelConstants
    <2>5. IvOf(m) <= IvInit + MaxOfs * MaxSend
      <3>1. IvOf(m) <= IvOf(0) + MaxOfs * (m - 0)
        BY <2>1 DEF IInv, Spacing
      <3>2. MaxOfs * m <= MaxOfs * MaxSend /\ MaxOfs * m \in Nat /\ MaxOfs * MaxSend \in Nat
        BY <2>1, OfsProduct, ChannelConstants
      <3> QED BY <2>1, <2>2, <3>1, <3>2, ChannelConstants DEF IvOf
    <2>6. MaxOfs * MaxSend \in Nat
      BY ChannelConstants, OfsProduct
    <2>7. IvOf(m) + MaxIncr \in Nat /\ IvOf(m) + MaxIncr < Wrap
      BY <2>2, <2>5, <2>6, ChannelConstants DEF NoOverflow
    <2>8. \A a \in Nat, b \in Nat \ {0} : a < b => a % b = a
      OBVIOUS
    <2>9. (ead_rx_iv + MaxIncr) % Wrap = IvOf(m) + MaxIncr
      BY <2>7, <2>8, ChannelConstants
    <2> QED BY <2>1, <2>2, <2>3, <2>4, <2>9, ChannelConstants DEF CheckRxIv
  <1> QED BY <1>1, IInvInvariant, PTL

-----------------------------------------------------------------------------
(* A step of the window protocol is a step of the ordered channel or none. *)
LEMMA StepImplements ==
  ASSUME IInv, IInv', [Next]_vars
  PROVE  [Ordered!Next]_<<Len(sent), delivered>>
  <1>1. CASE Encrypt
    BY <1>1, NextIvType DEF IInv, TypeOK, Encrypt, Ordered!Next, Ordered!Send
  <1>2. ASSUME NEW n \in DOMAIN sent, Receive(n)
        PROVE  n \in 1 .. Len(sent) /\ Ordered!Deliver(n)
    <2>1. /\ n \in 1 .. Len(sent) /\ n \in Nat
          /\ sent' = sent /\ delivered' = Append(delivered, n)
          /\ sent[n] > ead_rx_iv
      BY <1>2, LenProperties DEF IInv, TypeOK, Receive, Decrypt, CheckRxIv
    <2>2. n > Ordered!LastReceived
      <3>1. CASE delivered = <<>>
        BY <2>1, <3>1 DEF Ordered!LastReceived
      <3>2. CASE delivered # <<>>
        <4> DEFINE last == delivered[Len(delivered)]
        <4>1. Len(delivered) \in DOMAIN delivered /\ last \in DOMAIN sent
          BY <3>2, EmptySeq, LenProperties, ElementOfSeq DEF IInv, TypeOK
        <4>2. sent[last] <= ead_rx_iv
          BY <4>1 DEF IInv, AcceptedGrow
        <4>3. sent[last] \in Int /\ sent[n] \in Int /\ ead_rx_iv \in Int
          <5>1. TypeOK /\ Wrap \in Nat
            BY ChannelConstants DEF IInv
          <5>2. ead_rx_iv \in Int
            BY <5>1 DEF TypeOK
          <5>3. \A m \in DOMAIN sent : sent[m] \in 0 .. Wrap - 1
            BY <5>1, FrameIvs
          <5> QED BY <4>1, <1>2, <5>1, <5>2, <5>3
        <4>4. sent[last] < sent[n]
          BY <2>1, <4>2, <4>3
        <4>5. last < n
          BY <4>1, <4>4, SentIncreasing DEF IInv
        <4>6. last \in Nat
          BY <4>1, LenProperties DEF IInv, TypeOK
        <4> QED BY <2>1, <3>2, <4>5, <4>6 DEF Ordered!LastReceived
      <3> QED BY <3>1, <3>2
    <2> QED BY <2>1, <2>2 DEF Ordered!Deliver
  <1>3. ASSUME NEW iv \in DamagedIvs, ReceiveDamaged(iv)
        PROVE  UNCHANGED <<Len(sent), delivered>>
    BY <1>3 DEF ReceiveDamaged, Decrypt
  <1>4. CASE UNCHANGED vars
    BY <1>4 DEF vars
  <1> QED BY <1>1, <1>2, <1>3, <1>4 DEF Next, Ordered!Next

(* Without overflow the command channel implements the ordered channel.    *)
THEOREM ChannelImplementsOrdered == ASSUME NoOverflow PROVE Spec => ImplementsOrdered
  <1>1. Init => Ordered!Init
    BY DEF Init, Ordered!Init
  <1>2. IInv /\ IInv' /\ [Next]_vars => [Ordered!Next]_<<Len(sent), delivered>>
    BY StepImplements
  <1> QED BY <1>1, <1>2, IInvInvariant, PTL DEF Spec, ImplementsOrdered, Ordered!Spec
=============================================================================
