--------------------------- MODULE SerialLinkProofs -------------------------
(***************************************************************************)
(* SerialLink is correct for every window, block size and buffer size: the *)
(* invariant LinkInv is inductive, and the properties follow from it.      *)
(***************************************************************************)
EXTENDS SerialLinkHostProofs

\* handle_message decodes the number of a response, and a response never
\* answers a block that was not sent, unless the connection is being set up.
LEMMA Decoded ==
  ASSUME LinkInv, m2h # <<>>
  PROVE  /\ Head(m2h).seq \in Nat /\ Head(m2h).data \in BOOLEAN
         /\ receive_seq <= Head(m2h).seq /\ Head(m2h).seq <= next_sequence
         /\ ReceivedSeq(Wire(Head(m2h).seq)) = Head(m2h).seq
         /\ Head(m2h).seq > send_seq =>
              receive_seq = 1 /\ Head(m2h).seq = next_sequence
         /\ rx_head # "wire" /\ ~Head(m2h).data => Head(m2h).seq < next_sequence
<1> DEFINE m == Head(m2h)
           r == Head(m2h).seq
<1>1. m2h \in Seq(Response) BY DEF LinkInv, TypeOK, Response
<1>2. Len(m2h) \in Nat \ {0} /\ m = m2h[1] /\ m2h[1] \in Response
  BY <1>1, PopProperties
<1>3. r \in Nat /\ m.data \in BOOLEAN BY ONLY <1>2 DEF Response
<1>4. 1 \in 1..Len(m2h) BY ONLY <1>2
<1>5. /\ receive_seq <= r /\ r <= next_sequence
      /\ rx_head # "wire" /\ ~m.data => r < next_sequence
  BY <1>2, <1>4 DEF LinkInv, ResponseInv
<1>6. /\ send_seq \in Nat /\ receive_seq \in Nat /\ next_sequence \in Nat
      /\ send_seq - receive_seq <= MaxPending
  BY DEF LinkInv, TypeOK, ContentInv, SentQueueIsWindow
<1>7. next_sequence > send_seq =>
        receive_seq = 1 /\ next_sequence <= SeqMod /\ r = next_sequence
  BY <1>2, <1>4 DEF LinkInv, ExpectInv
<1> HIDE DEF r, m
<1>8. r < receive_seq + SeqMod BY ONLY <1>3, <1>5, <1>6, <1>7, Constants
<1>9. LET h == receive_seq - (receive_seq % SeqMod) + (r % SeqMod)
      IN  r = IF h < receive_seq THEN h + SeqMod ELSE h
  BY ONLY <1>3, <1>5, <1>6, <1>8, Constants, DecodeMod, Zenon
<1>10. ReceivedSeq(Wire(r)) = r BY ONLY <1>9 DEF ReceivedSeq, Wire
<1>11. r > send_seq => receive_seq = 1 /\ r = next_sequence
  BY ONLY <1>3, <1>5, <1>6, <1>7
<1> QED BY ONLY <1>3, <1>5, <1>10, <1>11 DEF r, m

\* update_receive_seq takes p blocks from the front of the sent queue.
Popped(p) ==
  /\ p \in 1..Len(sent_queue)
  /\ sent_queue' = SubSeq(sent_queue, p + 1, Len(sent_queue))
  /\ receive_seq' = receive_seq + p
  /\ need_ack_bytes' = need_ack_bytes - PoppedBytes(p)
  /\ last_ack_bytes' = Size(sent_queue[p])
  /\ UNCHANGED <<submitted, taken, send_seq, next_sequence, executed, is_shutdown,
                 rx_head, h2m, retransmit_seq, ignore_nak_seq>>

\* The shorter sent queue, block by block.
LEMMA PoppedQueue ==
  ASSUME LinkInv, NEW p, Popped(p)
  PROVE  /\ p \in Nat /\ p >= 1 /\ p <= Len(sent_queue) /\ Len(sent_queue) \in Nat
         /\ sent_queue' \in Seq(SentBlock) /\ Len(sent_queue') = Len(sent_queue) - p
         /\ \A i \in 1..(Len(sent_queue) - p) : sent_queue'[i] = sent_queue[p + i]
         /\ \A i \in 1..Len(sent_queue) :
              /\ sent_queue[i].first \in Nat /\ sent_queue[i].last \in Nat
              /\ sent_queue[i].naks \in Nat /\ sent_queue[i].seq \in Nat
         /\ sent_queue' = <<>> <=> Len(sent_queue) = p
         /\ sent_queue # <<>>
         /\ taken \in Nat /\ send_seq \in Nat /\ receive_seq \in Nat
         /\ next_sequence \in Nat /\ need_ack_bytes \in Nat
         /\ Len(sent_queue) = send_seq - receive_seq /\ 1 <= receive_seq
<1> DEFINE q == sent_queue
           L == Len(sent_queue)
<1>1. /\ q \in Seq(SentBlock) /\ taken \in Nat /\ send_seq \in Nat
      /\ receive_seq \in Nat /\ next_sequence \in Nat /\ need_ack_bytes \in Nat
  BY DEF LinkInv, TypeOK
<1>2. L = send_seq - receive_seq /\ 1 <= receive_seq
  BY DEF LinkInv, ContentInv, SentQueueIsWindow
<1>3. L \in Nat BY ONLY <1>1, LenProperties
<1>4. p \in 1..L /\ sent_queue' = SubSeq(q, p + 1, L) BY DEF Popped
<1>5. \A i \in 1..L : q[i] \in SentBlock BY ONLY <1>1, ElementOfSeq
<1>6. \A i \in 1..L : /\ q[i].first \in Nat /\ q[i].last \in Nat
                      /\ q[i].naks \in Nat /\ q[i].seq \in Nat
  BY ONLY <1>5 DEF SentBlock
<1> HIDE DEF q, L
<1>7. p \in Nat /\ p >= 1 /\ p <= L /\ p + 1 \in 1..(L + 1) BY ONLY <1>3, <1>4
<1>8. \A i \in (p + 1)..L : q[i] \in SentBlock
  <2>1. \A i \in (p + 1)..L : i \in 1..L BY ONLY <1>3, <1>7
  <2> QED BY ONLY <1>5, <2>1
<1>9. /\ SubSeq(q, p + 1, L) \in Seq(SentBlock)
      /\ Len(SubSeq(q, p + 1, L)) = IF p + 1 <= L THEN L - (p + 1) + 1 ELSE 0
      /\ \A i \in 1..(L - (p + 1) + 1) : SubSeq(q, p + 1, L)[i] = q[p + 1 + i - 1]
  BY ONLY <1>3, <1>7, <1>8, SubSeqProperties
<1>10. sent_queue' \in Seq(SentBlock) /\ Len(sent_queue') = L - p
  BY ONLY <1>3, <1>4, <1>7, <1>9
<1>11. ASSUME NEW i \in 1..(L - p) PROVE sent_queue'[i] = q[p + i]
  <2>1. i \in 1..(L - (p + 1) + 1) /\ p + 1 + i - 1 = p + i BY ONLY <1>3, <1>7, i \in 1..(L - p)
  <2> QED BY ONLY <1>4, <1>9, <2>1, Zenon
<1>12. (sent_queue' = <<>> <=> L = p) BY ONLY <1>3, <1>7, <1>10, EmptySeq
<1>13. q # <<>> BY ONLY <1>1, <1>7, EmptySeq DEF L, q
<1> QED BY ONLY <1>1, <1>2, <1>3, <1>6, <1>7, <1>10, <1>11, <1>12, <1>13 DEF q, L

\* update_receive_seq: the kept blocks still carry the commands in order.
LEMMA PoppedContent ==
  ASSUME LinkInv, NEW p, Popped(p)
  PROVE  /\ ContentInv' /\ need_ack_bytes' \in Nat
         /\ need_ack_bytes' + last_ack_bytes' <= need_ack_bytes
         /\ last_ack_bytes' \in Nat /\ last_ack_bytes' <= BlockMax
<1> DEFINE q == sent_queue
           s == sent_queue'
           L == Len(sent_queue)
<1>1. /\ p \in Nat /\ p >= 1 /\ p <= L /\ L \in Nat /\ Len(s) = L - p
      /\ taken \in Nat /\ send_seq \in Nat /\ receive_seq \in Nat
      /\ need_ack_bytes \in Nat /\ L = send_seq - receive_seq /\ 1 <= receive_seq
  BY PoppedQueue, Zenon
<1>2. /\ \A i \in 1..(L - p) : s[i] = q[p + i]
      /\ s = <<>> <=> L = p
      /\ q # <<>>
  BY PoppedQueue, Zenon
<1>3. \A i \in 1..L : q[i].first \in Nat /\ q[i].last \in Nat BY PoppedQueue, Zenon
<1>4. /\ receive_seq' = receive_seq + p /\ submitted' = submitted /\ taken' = taken
      /\ need_ack_bytes' = need_ack_bytes - (q[p].last - q[1].first + 1)
      /\ last_ack_bytes' = Size(q[p]) /\ send_seq' = send_seq
  BY DEF Popped, PoppedBytes
<1>5. /\ taken <= submitted /\ q[L].last = taken
      /\ need_ack_bytes = taken + 1 - FirstUnacked
      /\ \A i \in 1..L : q[i].seq = receive_seq + i - 1
      /\ L <= MaxPending
  BY <1>2 DEF LinkInv, ContentInv, SentQueueIsWindow
<1>6. \A i \in 1..L : /\ 1 <= q[i].first /\ q[i].first <= q[i].last
                      /\ q[i].last <= taken /\ Size(q[i]) <= BlockMax
  BY DEF LinkInv, ContentInv
<1>7. /\ \A i \in 1..(L - 1) : q[i + 1].first = q[i].last + 1
      /\ \A i, j \in 1..L : i < j => q[i].last < q[j].first
  BY DEF LinkInv, ContentInv
<1>8. FirstUnacked = q[1].first BY <1>2 DEF FirstUnacked
<1>9. FirstUnacked' = IF s = <<>> THEN taken' + 1 ELSE s[1].first BY DEF FirstUnacked
<1> HIDE DEF q, s, L
<1>10. 1 \in 1..L /\ p \in 1..L /\ L \in 1..L BY ONLY <1>1
<1>11. FirstUnacked' = q[p].last + 1
  <2>1. CASE p = L BY ONLY <1>2, <1>4, <1>5, <1>9, <2>1
  <2>2. CASE p < L
    <3>1. 1 \in 1..(L - p) /\ p \in 1..(L - 1) /\ L # p BY ONLY <1>1, <2>2
    <3> QED BY ONLY <1>2, <1>7, <1>9, <3>1
  <2> QED BY ONLY <1>1, <2>1, <2>2
<1>12. q[1].first <= q[p].first
  <2>1. CASE p = 1 BY ONLY <1>3, <1>10, <2>1
  <2>2. CASE 1 < p
    <3>1. q[1].last < q[p].first BY ONLY <1>7, <1>10, <2>2
    <3> QED BY ONLY <1>3, <1>6, <1>10, <3>1
  <2> QED BY ONLY <1>1, <2>1, <2>2
<1>13. /\ need_ack_bytes' = taken' + 1 - FirstUnacked' /\ need_ack_bytes' \in Nat
       /\ need_ack_bytes' + last_ack_bytes' <= need_ack_bytes
       /\ last_ack_bytes' \in Nat /\ last_ack_bytes' <= BlockMax
  <2>1. /\ q[p].first \in Nat /\ q[p].last \in Nat /\ q[1].first \in Nat
        /\ q[p].first <= q[p].last /\ q[p].last <= taken /\ Size(q[p]) <= BlockMax
    BY ONLY <1>3, <1>6, <1>10
  <2>2. Size(q[p]) = q[p].last - q[p].first + 1 BY DEF Size
  <2> DEFINE a == q[1].first
             b == q[p].first
             c == q[p].last
  <2>3. /\ a \in Nat /\ b \in Nat /\ c \in Nat /\ a <= b /\ b <= c /\ c <= taken
        /\ taken \in Nat /\ taken' = taken /\ FirstUnacked' = c + 1
    BY ONLY <1>1, <1>4, <1>11, <1>12, <2>1
  <2>4. /\ need_ack_bytes = taken + 1 - a
        /\ need_ack_bytes' = need_ack_bytes - (c - a + 1)
        /\ last_ack_bytes' = c - b + 1 /\ last_ack_bytes' <= BlockMax
    BY ONLY <1>4, <1>5, <1>8, <2>1, <2>2
  <2> HIDE DEF a, b, c
  <2> QED BY ONLY <2>3, <2>4
<1>14. SentQueueIsWindow'
  <2>1. Len(s) = send_seq' - receive_seq' /\ Len(s) <= MaxPending
    BY ONLY <1>1, <1>4, <1>5, Constants
  <2>2. ASSUME NEW i \in 1..Len(s) PROVE s[i].seq = receive_seq' + i - 1
    <3>1. i \in 1..(L - p) /\ p + i \in 1..L /\ i \in Nat BY ONLY <1>1, i \in 1..Len(s)
    <3>2. s[i].seq = receive_seq + (p + i) - 1 BY ONLY <1>2, <1>5, <3>1
    <3> QED BY ONLY <1>1, <1>4, <3>1, <3>2
  <2> QED BY ONLY <2>1, <2>2 DEF SentQueueIsWindow, s
<1>15. \A i \in 1..Len(s) : /\ 1 <= s[i].first /\ s[i].first <= s[i].last
                            /\ s[i].last <= taken' /\ Size(s[i]) <= BlockMax
  <2> SUFFICES ASSUME NEW i \in 1..Len(s)
               PROVE  /\ 1 <= s[i].first /\ s[i].first <= s[i].last
                      /\ s[i].last <= taken' /\ Size(s[i]) <= BlockMax
    OBVIOUS
  <2>1. i \in 1..(L - p) /\ p + i \in 1..L BY ONLY <1>1, i \in 1..Len(s)
  <2> QED BY ONLY <1>2, <1>4, <1>6, <2>1
<1>16. ASSUME NEW i \in 1..(Len(s) - 1) PROVE s[i + 1].first = s[i].last + 1
  <2>1. /\ i \in 1..(L - p) /\ i + 1 \in 1..(L - p) /\ p + i \in 1..(L - 1)
        /\ p + (i + 1) = (p + i) + 1
    BY ONLY <1>1, i \in 1..(Len(s) - 1)
  <2>2. s[i] = q[p + i] /\ s[i + 1] = q[(p + i) + 1] BY ONLY <1>2, <2>1
  <2> QED BY ONLY <1>7, <2>1, <2>2
<1>17. ASSUME NEW i \in 1..Len(s), NEW j \in 1..Len(s), i < j
       PROVE  s[i].last < s[j].first
  <2>1. /\ i \in 1..(L - p) /\ j \in 1..(L - p) /\ p + i \in 1..L /\ p + j \in 1..L
        /\ p + i < p + j
    BY ONLY <1>1, <1>17, i \in 1..Len(s), j \in 1..Len(s)
  <2>2. s[i] = q[p + i] /\ s[j] = q[p + j] BY ONLY <1>2, <2>1
  <2> QED BY ONLY <1>7, <2>1, <2>2
<1>18. ASSUME s # <<>> PROVE s[Len(s)].last = taken'
  <2>1. Len(s) \in 1..(L - p) /\ p + Len(s) = L BY ONLY <1>1, <1>2, <1>18
  <2> QED BY ONLY <1>2, <1>4, <1>5, <2>1
<1>19. 1 <= receive_seq' /\ taken' <= submitted' BY ONLY <1>1, <1>4, <1>5
<1> QED BY ONLY <1>13, <1>14, <1>15, <1>16, <1>17, <1>18, <1>19 DEF ContentInv, s

\* The blocks on the line still match the shorter queue, and last_ack_bytes is
\* the size of the block acknowledged last.
LEMMA PoppedLine ==
  ASSUME LinkInv, NEW p, Popped(p)
  PROVE  LineInv'
<1> DEFINE L == Len(sent_queue)
<1>1. /\ p \in Nat /\ p >= 1 /\ p <= L /\ L \in Nat
      /\ send_seq \in Nat /\ receive_seq \in Nat
      /\ L = send_seq - receive_seq
  BY PoppedQueue, Zenon
<1>2. \A i \in 1..(L - p) : sent_queue'[i] = sent_queue[p + i] BY PoppedQueue, Zenon
<1>3. /\ receive_seq' = receive_seq + p /\ last_ack_bytes' = Size(sent_queue[p])
      /\ UNCHANGED <<send_seq, next_sequence, rx_head, h2m>>
  BY DEF Popped
<1>4. h2m \in Seq(Block) /\ LineInv BY DEF LinkInv, TypeOK
<1> HIDE DEF L
<1>5. ASSUME NEW i \in 1..Len(h2m), h2m[i] # Garbage PROVE LineBlock(i)'
  <2> DEFINE b == h2m[i]
             k == b.seq - receive_seq + 1
             k2 == b.seq - (receive_seq + p) + 1
  <2>1. h2m[i] \in Block BY ONLY <1>4, i \in 1..Len(h2m), ElementOfSeq
  <2>2. b.seq \in Nat BY ONLY <2>1 DEF Block
  <2>3. LineBlock(i) BY ONLY <1>4, <1>5 DEF LineInv
  <2>4. /\ 1 <= b.seq /\ b.seq < send_seq /\ next_sequence < b.seq + SeqMod
        /\ \A j \in 1..(i - 1) : h2m[j].seq + 1 < b.seq + SeqMod
        /\ receive_seq <= b.seq => /\ b.first = sent_queue[k].first
                                   /\ b.last = sent_queue[k].last
    BY ONLY <2>3 DEF LineBlock, Slot
  <2> HIDE DEF b
  <2>5. ASSUME receive_seq + p <= b.seq
        PROVE  b.first = sent_queue'[k2].first /\ b.last = sent_queue'[k2].last
    <3>1. k2 \in 1..(L - p) /\ p + k2 = k /\ receive_seq <= b.seq
      <4>1. b.seq < send_seq BY ONLY <2>4
      <4> QED BY ONLY <1>1, <2>2, <2>5, <4>1
    <3> HIDE DEF k, k2
    <3> QED BY ONLY <1>2, <2>4, <3>1
  <2>6. ASSUME b.seq = receive_seq' - 1 PROVE Size(b) = last_ack_bytes'
    <3>1. k = p /\ receive_seq <= b.seq BY ONLY <1>1, <1>3, <2>2, <2>6
    <3> HIDE DEF k
    <3>2. b.first = sent_queue[p].first /\ b.last = sent_queue[p].last BY ONLY <2>4, <3>1
    <3> QED BY ONLY <1>3, <3>2 DEF Size
  <2>7. h2m' = h2m /\ h2m'[i] = b BY ONLY <1>3 DEF b
  <2>8. /\ 1 <= b.seq /\ b.seq < send_seq' /\ next_sequence' < b.seq + SeqMod
        /\ \A j \in 1..(i - 1) : h2m'[j].seq + 1 < b.seq + SeqMod
    BY ONLY <1>3, <2>4, <2>7
  <2>9. receive_seq' <= b.seq =>
          /\ b.first = sent_queue'[b.seq - receive_seq' + 1].first
          /\ b.last = sent_queue'[b.seq - receive_seq' + 1].last
    BY ONLY <1>3, <2>5
  <2> QED BY ONLY <2>6, <2>7, <2>8, <2>9 DEF LineBlock, Slot
<1> QED BY ONLY <1>3, <1>4, <1>5 DEF LineInv, Garbage

\* update_receive_seq: what the mcu runs next is still kept.
LEMMA PoppedLog ==
  ASSUME LinkInv, NEW p, Popped(p), receive_seq + p <= next_sequence
  PROVE  LogInv'
<1> DEFINE L == Len(sent_queue)
<1>1. /\ p \in Nat /\ p >= 1 /\ p <= L /\ L \in Nat /\ next_sequence \in Nat
      /\ send_seq \in Nat /\ receive_seq \in Nat /\ L = send_seq - receive_seq
  BY PoppedQueue, Zenon
<1>2. \A i \in 1..(L - p) : sent_queue'[i] = sent_queue[p + i] BY PoppedQueue, Zenon
<1>3. /\ receive_seq' = receive_seq + p
      /\ UNCHANGED <<send_seq, taken, next_sequence, executed, is_shutdown>>
  BY DEF Popped
<1>4. LogInv /\ receive_seq + p <= next_sequence BY DEF LinkInv
<1> HIDE DEF L
<1>5. NextFirst' = NextFirst
  <2>1. CASE next_sequence < send_seq
    <3> DEFINE k == next_sequence - receive_seq + 1
               k2 == next_sequence - (receive_seq + p) + 1
    <3>1. k2 \in 1..(L - p) /\ p + k2 = k BY ONLY <1>1, <1>4, <2>1
    <3> HIDE DEF k, k2
    <3>2. sent_queue'[k2] = sent_queue[k] BY ONLY <1>2, <3>1
    <3> QED BY ONLY <1>3, <2>1, <3>2 DEF NextFirst, Slot, k, k2
  <2>2. CASE ~(next_sequence < send_seq) BY ONLY <1>3, <2>2 DEF NextFirst
  <2> QED BY ONLY <2>1, <2>2
<1> QED BY ONLY <1>3, <1>4, <1>5 DEF LogInv, ExecutedOnceInOrder

\* update_receive_seq: the resend bookkeeping stays below the window.
LEMMA PoppedNaks ==
  ASSUME LinkInv, NEW p, Popped(p)
  PROVE  \A i \in 1..Len(sent_queue') :
           /\ sent_queue'[i].naks <= 2
           /\ sent_queue'[i].naks >= 1 => sent_queue'[i].seq < retransmit_seq'
           /\ sent_queue'[i].naks = 2 => sent_queue'[i].seq < ignore_nak_seq'
<1> DEFINE L == Len(sent_queue)
<1>1. p \in Nat /\ p >= 1 /\ p <= L /\ L \in Nat /\ Len(sent_queue') = L - p
  BY PoppedQueue, Zenon
<1>2. \A i \in 1..(L - p) : sent_queue'[i] = sent_queue[p + i] BY PoppedQueue, Zenon
<1>3. UNCHANGED <<retransmit_seq, ignore_nak_seq>> BY DEF Popped
<1>4. \A i \in 1..L :
        /\ sent_queue[i].naks <= 2
        /\ sent_queue[i].naks >= 1 => sent_queue[i].seq < retransmit_seq
        /\ sent_queue[i].naks = 2 => sent_queue[i].seq < ignore_nak_seq
  BY DEF LinkInv, NakInv, NakResendsBounded
<1> HIDE DEF L
<1>5. ASSUME NEW i \in 1..Len(sent_queue')
      PROVE  /\ sent_queue'[i].naks <= 2
             /\ sent_queue'[i].naks >= 1 => sent_queue'[i].seq < retransmit_seq'
             /\ sent_queue'[i].naks = 2 => sent_queue'[i].seq < ignore_nak_seq'
  <2>1. i \in 1..(L - p) /\ p + i \in 1..L BY ONLY <1>1, i \in 1..Len(sent_queue')
  <2>2. sent_queue'[i] = sent_queue[p + i] BY ONLY <1>2, <2>1
  <2> QED BY ONLY <1>3, <1>4, <2>1, <2>2
<1> QED BY <1>5

\* A response leaves the line, and the host learns its number.
LEMMA ResponseTaken ==
  ASSUME LinkInv, m2h # <<>>, m2h' = Tail(m2h), receive_seq' = Head(m2h).seq,
         UNCHANGED <<next_sequence, rx_head, executed>>,
         \/ send_seq' = send_seq
         \/ send_seq' = Head(m2h).seq /\ Head(m2h).seq > send_seq,
         receive_seq = receive_seq' \/ Head(m2h).seq <= send_seq'
  PROVE  /\ m2h' \in Seq(Response) /\ ExpectInv'
         /\ \A i \in 1..Len(m2h') :
              /\ receive_seq' <= m2h'[i].seq /\ m2h'[i].seq <= next_sequence'
              /\ rx_head' # "wire" /\ ~m2h'[i].data => m2h'[i].seq < next_sequence'
         /\ \A i, j \in 1..Len(m2h') : i < j => m2h'[i].seq <= m2h'[j].seq
<1> DEFINE r == Head(m2h).seq
<1>1. m2h \in Seq(Response) BY DEF LinkInv, TypeOK, Response
<1>2. /\ m2h' \in Seq(Response) /\ Len(m2h') = Len(m2h) - 1
      /\ Len(m2h) \in Nat \ {0} /\ Head(m2h) = m2h[1]
      /\ \A i \in 1..Len(m2h') : m2h'[i] = m2h[i + 1]
  BY <1>1, PopProperties
<1>3. \A i \in 1..Len(m2h') : i + 1 \in 1..Len(m2h) /\ 1 < i + 1 BY ONLY <1>2
<1>4. 1 \in 1..Len(m2h) BY ONLY <1>2
<1>5. ResponseInv /\ ExpectInv BY DEF LinkInv
<1>6. /\ receive_seq' = r /\ UNCHANGED <<next_sequence, rx_head, executed>>
      /\ send_seq' = send_seq \/ (send_seq' = r /\ r > send_seq)
      /\ receive_seq = receive_seq' \/ r <= send_seq'
  OBVIOUS
<1>7. /\ r \in Nat /\ receive_seq <= r /\ r <= next_sequence
      /\ (r > send_seq => receive_seq = 1 /\ r = next_sequence)
  BY Decoded
<1>8. send_seq \in Nat /\ next_sequence \in Nat /\ receive_seq \in Nat
  BY DEF LinkInv, TypeOK
<1>9. \A i \in 1..Len(m2h') :
        /\ receive_seq' <= m2h'[i].seq /\ m2h'[i].seq <= next_sequence'
        /\ rx_head' # "wire" /\ ~m2h'[i].data => m2h'[i].seq < next_sequence'
  <2>1. \A i \in 1..Len(m2h') : r <= m2h'[i].seq
    BY ONLY <1>2, <1>3, <1>4, <1>5 DEF ResponseInv
  <2> HIDE DEF r
  <2> QED BY ONLY <1>2, <1>3, <1>5, <1>6, <2>1, Zenon DEF ResponseInv
<1>10. \A i, j \in 1..Len(m2h') : i < j => m2h'[i].seq <= m2h'[j].seq
  <2> SUFFICES ASSUME NEW i \in 1..Len(m2h'), NEW j \in 1..Len(m2h'), i < j
               PROVE  m2h'[i].seq <= m2h'[j].seq
    OBVIOUS
  <2>1. i + 1 \in 1..Len(m2h) /\ j + 1 \in 1..Len(m2h) /\ i + 1 < j + 1
    BY ONLY <1>2, i \in 1..Len(m2h'), j \in 1..Len(m2h'), i < j
  <2> QED BY ONLY <1>2, <1>5, <2>1, i \in 1..Len(m2h'), j \in 1..Len(m2h') DEF ResponseInv
<1>11. ExpectInv'
  <2>1. receive_seq' <= next_sequence' BY ONLY <1>6, <1>7
  <2>2. ASSUME next_sequence' > send_seq'
        PROVE  /\ receive_seq' = 1 /\ next_sequence' <= SeqMod /\ executed' = <<>>
               /\ \A i \in 1..Len(m2h') : m2h'[i].seq = next_sequence'
    <3>1. m2h[1].seq = next_sequence \/ ~(next_sequence > send_seq)
      BY ONLY <1>4, <1>5 DEF ExpectInv
    <3>2. r = m2h[1].seq BY ONLY <1>2
    <3> HIDE DEF r
    <3>3. next_sequence > send_seq /\ receive_seq' = receive_seq
      BY ONLY <1>6, <1>7, <1>8, <2>2, <3>1, <3>2
    <3> QED BY ONLY <1>2, <1>3, <1>5, <1>6, <3>3 DEF ExpectInv
  <2> QED BY ONLY <2>1, <2>2 DEF ExpectInv
<1> QED BY ONLY <1>2, <1>9, <1>10, <1>11

\* What handle_message does with a response that carries number r.
Handled(r) ==
  /\ m2h # <<>> /\ r = Head(m2h).seq /\ m2h' = Tail(m2h)
  /\ UNCHANGED <<mcuVars, h2m, faults, submitted, taken, kicked, need_kick,
                 ignore_nak_seq, retransmit_seq>>
  /\ IF r # receive_seq
     THEN UpdateReceiveSeq(r)
     ELSE UNCHANGED <<sent_queue, need_ack_bytes, send_seq, receive_seq,
                      last_receive_sent, last_ack_bytes, command_timer,
                      rtt_sample_seq>>
  /\ notify_queue' \subseteq notify_queue
  /\ completed' \subseteq completed \cup {q.cmd : q \in notify_queue}
  /\ last_ack_seq' = IF ~Head(m2h).data /\ last_ack_seq < r THEN r ELSE last_ack_seq
  /\ \/ /\ retransmit_timer' = "now" /\ sent_queue' # <<>> /\ r > ignore_nak_seq
     \/ /\ r # receive_seq
        /\ retransmit_timer' = IF sent_queue' = <<>> THEN "never" ELSE "armed"
     \/ r = receive_seq /\ retransmit_timer' = retransmit_timer

\* input_event: what any valid response does to the state.
LEMMA InputHandled ==
  ASSUME LinkInv, InputEvent
  PROVE  Handled(Head(m2h).seq)
<1> DEFINE m == Head(m2h)
           r == Head(m2h).seq
           isNak == /\ ~m.data /\ last_ack_seq >= r
                    /\ r > ignore_nak_seq /\ sent_queue' # <<>>
<1>1. m2h # <<>> BY DEF InputEvent
<1>2. /\ r \in Nat /\ ReceivedSeq(Wire(r)) = r
      /\ r > send_seq => receive_seq = 1
  BY <1>1, Decoded
<1>3. /\ m2h' = Tail(m2h) /\ UNCHANGED <<mcuVars, h2m, faults>>
      /\ UNCHANGED <<submitted, taken, kicked, need_kick, ignore_nak_seq, retransmit_seq>>
      /\ IF r # receive_seq
         THEN UpdateReceiveSeq(r)
         ELSE UNCHANGED <<sent_queue, need_ack_bytes, send_seq, receive_seq,
                          last_receive_sent, last_ack_bytes, command_timer,
                          rtt_sample_seq>>
      /\ notify_queue' = notify_queue \ Woken(r, m.data)
      /\ completed' = completed \cup {q.cmd : q \in Woken(r, m.data)}
      /\ last_ack_seq' = IF ~m.data /\ last_ack_seq < r THEN r ELSE last_ack_seq
      /\ retransmit_timer' = RetransmitAfter(r # receive_seq, isNak)
  BY <1>2, Zenon DEF InputEvent
<1>4. Woken(r, m.data) \subseteq notify_queue BY DEF Woken
<1>5. notify_queue' \subseteq notify_queue BY ONLY <1>3
<1>6. completed' \subseteq completed \cup {q.cmd : q \in notify_queue}
  BY ONLY <1>3, <1>4
<1>7. \/ /\ retransmit_timer' = "now" /\ sent_queue' # <<>> /\ r > ignore_nak_seq
      \/ /\ r # receive_seq
         /\ retransmit_timer' = IF sent_queue' = <<>> THEN "never" ELSE "armed"
      \/ r = receive_seq /\ retransmit_timer' = retransmit_timer
  <2>1. retransmit_timer' = RetransmitAfter(r # receive_seq, isNak) BY ONLY <1>3
  <2>2. CASE isNak BY ONLY <2>1, <2>2 DEF RetransmitAfter
  <2>3. CASE ~isNak /\ r # receive_seq BY ONLY <2>1, <2>3 DEF RetransmitAfter
  <2>4. CASE ~isNak /\ r = receive_seq BY ONLY <2>1, <2>4 DEF RetransmitAfter
  <2> QED BY ONLY <2>2, <2>3, <2>4
<1> QED BY ONLY <1>1, <1>3, <1>5, <1>6, <1>7, Zenon DEF Handled

\* What holds of the host's window after a response.
WindowSettled(r) ==
  /\ ContentInv' /\ LineInv' /\ LogInv'
  /\ \A i \in 1..Len(sent_queue') :
       /\ sent_queue'[i].naks <= 2
       /\ sent_queue'[i].naks >= 1 => sent_queue'[i].seq < retransmit_seq'
       /\ sent_queue'[i].naks = 2 => sent_queue'[i].seq < ignore_nak_seq'
  /\ sent_queue' \in Seq(SentBlock) /\ send_seq' \in Nat /\ need_ack_bytes' \in Nat
  /\ last_ack_bytes' \in Nat /\ last_ack_bytes' <= BlockMax
  /\ need_ack_bytes' <= need_ack_bytes /\ receive_seq' = r
  /\ send_seq' = send_seq \/ (send_seq' = r /\ r > send_seq)
  /\ receive_seq = r \/ r <= send_seq'
  /\ ReceiveWindow # 0 =>
       need_ack_bytes' + (IF last_ack_seq' < r THEN last_ack_bytes' ELSE 0)
         <= ReceiveWindow

\* A response that acknowledges nothing new leaves the window alone.
LEMMA SameSettled ==
  ASSUME LinkInv, NEW r \in Nat, Handled(r), r = receive_seq
  PROVE  WindowSettled(r)
<1>1. UNCHANGED <<submitted, taken, sent_queue, need_ack_bytes, send_seq, receive_seq,
                  last_ack_bytes, ignore_nak_seq, retransmit_seq, h2m, next_sequence,
                  executed, is_shutdown, rx_head>>
  BY DEF Handled, mcuVars
<1>2. ContentInv /\ LineInv /\ LogInv /\ NakInv /\ TypeOK /\ BufferInv BY DEF LinkInv
<1>3. ContentInv' BY ONLY <1>1, <1>2 DEF ContentInv, SentQueueIsWindow, FirstUnacked, Size
<1>4. LogInv' BY ONLY <1>1, <1>2 DEF LogInv, ExecutedOnceInOrder, NextFirst, Slot
<1>5. LineInv' BY <1>1, <1>2, LineFrame, Zenon
<1>6. \A i \in 1..Len(sent_queue') :
        /\ sent_queue'[i].naks <= 2
        /\ sent_queue'[i].naks >= 1 => sent_queue'[i].seq < retransmit_seq'
        /\ sent_queue'[i].naks = 2 => sent_queue'[i].seq < ignore_nak_seq'
  BY ONLY <1>1, <1>2 DEF NakInv, NakResendsBounded
<1>7. /\ last_ack_seq' = IF ~Head(m2h).data /\ last_ack_seq < r THEN r ELSE last_ack_seq
      /\ receive_seq' = r /\ receive_seq = r
  BY <1>1 DEF Handled
<1>8. /\ sent_queue' \in Seq(SentBlock) /\ send_seq' \in Nat /\ need_ack_bytes' \in Nat
      /\ last_ack_bytes' \in Nat /\ last_ack_bytes' <= BlockMax
      /\ need_ack_bytes \in Nat /\ last_ack_bytes \in Nat /\ last_ack_seq \in Nat
  BY ONLY <1>1, <1>2 DEF TypeOK, BufferInv
<1>9. ReceiveWindow # 0 =>
        need_ack_bytes + (IF last_ack_seq < r THEN last_ack_bytes ELSE 0)
          <= ReceiveWindow
  BY ONLY <1>2, <1>7 DEF BufferInv
<1>10. ReceiveWindow # 0 =>
         need_ack_bytes' + (IF last_ack_seq' < r THEN last_ack_bytes' ELSE 0)
           <= ReceiveWindow
  <2>1. need_ack_bytes' = need_ack_bytes /\ last_ack_bytes' = last_ack_bytes BY ONLY <1>1
  <2>2. last_ack_seq' < r => last_ack_seq < r BY <1>7, <1>8
  <2> QED BY ONLY <1>8, <1>9, <2>1, <2>2, BufferConstants
<1>11. send_seq' = send_seq /\ need_ack_bytes' <= need_ack_bytes BY ONLY <1>1, <1>8
<1> QED BY ONLY <1>3, <1>4, <1>5, <1>6, <1>7, <1>8, <1>10, <1>11 DEF WindowSettled

\* Arithmetic used for the receive window.
LEMMA SumBound ==
  ASSUME NEW a \in Nat, NEW b \in Nat, NEW c \in Nat, NEW d \in Nat,
         a + b <= c, c <= d
  PROVE  a + 0 <= d /\ a + b <= d
  OBVIOUS

\* A response that acknowledges blocks removes them from the window.
LEMMA PopSettled ==
  ASSUME LinkInv, NEW r \in Nat, Handled(r), receive_seq < r, r <= send_seq,
         r <= next_sequence
  PROVE  WindowSettled(r)
<1> DEFINE p == r - receive_seq
<1>1. /\ receive_seq \in Nat /\ send_seq \in Nat /\ need_ack_bytes \in Nat
      /\ Len(sent_queue) = send_seq - receive_seq
      /\ (ReceiveWindow # 0 =>
           need_ack_bytes + (IF last_ack_seq < receive_seq THEN last_ack_bytes ELSE 0)
             <= ReceiveWindow)
      /\ last_ack_bytes \in Nat
  BY DEF LinkInv, TypeOK, ContentInv, SentQueueIsWindow, BufferInv
<1>2. p \in 1..Len(sent_queue) /\ receive_seq + p = r /\ r # receive_seq
      /\ p <= Len(sent_queue) /\ p # 0
  BY <1>1
<1>3. UpdateReceiveSeq(r) BY ONLY <1>2, Handled(r) DEF Handled
<1>4. /\ sent_queue' = SubSeq(sent_queue, p + 1, Len(sent_queue))
      /\ need_ack_bytes' = need_ack_bytes - PoppedBytes(p)
      /\ send_seq' = send_seq /\ last_ack_bytes' = Size(sent_queue[p])
      /\ receive_seq' = r
  BY ONLY <1>2, <1>3, Zenon DEF UpdateReceiveSeq
<1>5. UNCHANGED <<submitted, taken, next_sequence, executed, is_shutdown,
                  rx_head, h2m, retransmit_seq, ignore_nak_seq>>
  BY DEF Handled, mcuVars
<1>6. r <= next_sequence OBVIOUS
<1> HIDE DEF p
<1>7. Popped(p) BY ONLY <1>2, <1>4, <1>5 DEF Popped
<1>8. /\ ContentInv' /\ need_ack_bytes' \in Nat
      /\ need_ack_bytes' + last_ack_bytes' <= need_ack_bytes
      /\ last_ack_bytes' \in Nat /\ last_ack_bytes' <= BlockMax
  BY <1>7, PoppedContent, Zenon
<1>9. LineInv' BY <1>7, PoppedLine, Zenon
<1>10. LogInv' BY <1>2, <1>6, <1>7, PoppedLog, Zenon
<1>11. \A i \in 1..Len(sent_queue') :
         /\ sent_queue'[i].naks <= 2
         /\ sent_queue'[i].naks >= 1 => sent_queue'[i].seq < retransmit_seq'
         /\ sent_queue'[i].naks = 2 => sent_queue'[i].seq < ignore_nak_seq'
  BY <1>7, PoppedNaks, Zenon
<1>12. sent_queue' \in Seq(SentBlock) BY <1>7, PoppedQueue, Zenon
<1>13. ReceiveWindow # 0 =>
         need_ack_bytes' + (IF last_ack_seq' < r THEN last_ack_bytes' ELSE 0)
           <= ReceiveWindow
  <2>1. ReceiveWindow # 0 => need_ack_bytes <= ReceiveWindow
    BY ONLY <1>1, BufferConstants
  <2>2. /\ need_ack_bytes' + last_ack_bytes' <= need_ack_bytes
        /\ need_ack_bytes' \in Nat /\ last_ack_bytes' \in Nat /\ need_ack_bytes \in Nat
    BY ONLY <1>1, <1>8, Zenon
  <2>3. ReceiveWindow \in Nat BY BufferConstants
  <2>4. ReceiveWindow # 0 => /\ need_ack_bytes' + 0 <= ReceiveWindow
                            /\ need_ack_bytes' + last_ack_bytes' <= ReceiveWindow
    BY ONLY <2>1, <2>2, <2>3, SumBound, Zenon
  <2>5. CASE last_ack_seq' < r BY ONLY <2>4, <2>5
  <2>6. CASE ~(last_ack_seq' < r) BY ONLY <2>4, <2>6
  <2> QED BY ONLY <2>5, <2>6
<1>14. r <= send_seq' /\ send_seq' \in Nat BY <1>1, <1>4
<1>15. need_ack_bytes' <= need_ack_bytes
  <2>1. /\ need_ack_bytes' + last_ack_bytes' <= need_ack_bytes
        /\ need_ack_bytes' \in Nat /\ last_ack_bytes' \in Nat /\ need_ack_bytes \in Nat
    BY ONLY <1>1, <1>8, Zenon
  <2>2. ASSUME NEW a \in Nat, NEW b \in Nat, NEW c \in Nat, a + b <= c PROVE a <= c
    BY ONLY <2>2
  <2> QED BY ONLY <2>1, <2>2, Zenon
<1> QED BY ONLY <1>4, <1>8, <1>9, <1>10, <1>11, <1>12, <1>13, <1>14, <1>15
        DEF WindowSettled

\* The first response of a mcu that was not reset sets up both numbers.
LEMMA SetupSettled ==
  ASSUME LinkInv, NEW r \in Nat, Handled(r), send_seq < r, r = next_sequence,
         r # receive_seq
  PROVE  WindowSettled(r)
<1> DEFINE q == sent_queue
           L == Len(sent_queue)
<1>1. /\ receive_seq \in Nat /\ send_seq \in Nat /\ need_ack_bytes \in Nat
      /\ taken \in Nat /\ q \in Seq(SentBlock) /\ L \in Nat
      /\ L = send_seq - receive_seq /\ last_ack_bytes \in Nat
      /\ taken <= submitted /\ last_ack_bytes <= BlockMax
      /\ next_sequence \in Nat /\ 1 <= receive_seq
  BY LenProperties DEF LinkInv, TypeOK, ContentInv, SentQueueIsWindow, BufferInv
<1>2. ~(r - receive_seq <= L) BY <1>1
<1>3. UpdateReceiveSeq(r) BY DEF Handled
<1>4. /\ sent_queue' = SubSeq(q, L + 1, L)
      /\ need_ack_bytes' = IF L = 0 THEN need_ack_bytes
                           ELSE need_ack_bytes - PoppedBytes(L)
      /\ send_seq' = r /\ last_ack_bytes' = last_ack_bytes /\ receive_seq' = r
  BY ONLY <1>2, <1>3 DEF UpdateReceiveSeq
<1>5. UNCHANGED <<submitted, taken, next_sequence, executed, is_shutdown,
                  rx_head, h2m, retransmit_seq, ignore_nak_seq>>
  BY DEF Handled, mcuVars
<1>6. sent_queue' = <<>> /\ sent_queue' \in Seq(SentBlock) /\ Len(sent_queue') = 0
  <2>1. \A i \in (L + 1)..L : q[i] \in SentBlock BY ONLY <1>1
  <2>2. /\ SubSeq(q, L + 1, L) \in Seq(SentBlock)
        /\ Len(SubSeq(q, L + 1, L)) = IF L + 1 <= L THEN L - (L + 1) + 1 ELSE 0
    BY ONLY <1>1, <2>1, SubSeqProperties
  <2>3. ~(L + 1 <= L) BY ONLY <1>1
  <2> HIDE DEF L, q
  <2> QED BY ONLY <1>4, <2>2, <2>3, EmptySeq
<1>7. need_ack_bytes' = 0
  <2>1. CASE L = 0
    <3>1. sent_queue = <<>> BY <1>1, <2>1, EmptySeq
    <3>2. need_ack_bytes = taken + 1 - (taken + 1)
      BY <3>1 DEF LinkInv, ContentInv, FirstUnacked
    <3> QED BY ONLY <1>1, <1>4, <2>1, <3>2
  <2>2. CASE L # 0
    <3>1. sent_queue # <<>> /\ 1 \in 1..L BY <1>1, <2>2, EmptySeq
    <3>2. need_ack_bytes = taken + 1 - q[1].first /\ q[L].last = taken
      BY <3>1 DEF LinkInv, ContentInv, FirstUnacked
    <3>3. PoppedBytes(L) = q[L].last - q[1].first + 1 BY DEF PoppedBytes
    <3>4. q[1] \in SentBlock BY ONLY <1>1, <3>1, ElementOfSeq
    <3>5. q[1].first \in Nat BY ONLY <3>4 DEF SentBlock
    <3> HIDE DEF L, q
    <3> QED BY ONLY <1>1, <1>4, <2>2, <3>2, <3>3, <3>5
  <2> QED BY ONLY <2>1, <2>2
<1>8. r \in Nat /\ send_seq < r /\ r = next_sequence OBVIOUS
<1> HIDE DEF L, q
<1>9. ContentInv'
  <2>1. FirstUnacked' = taken' + 1 BY ONLY <1>6 DEF FirstUnacked
  <2>2. SentQueueIsWindow'
    <3>1. 0 = send_seq' - receive_seq' /\ 0 <= MaxPending BY ONLY <1>4, <1>8, Constants
    <3>2. \A i \in 1..0 : FALSE OBVIOUS
    <3> QED BY ONLY <1>6, <3>1, <3>2 DEF SentQueueIsWindow
  <2>3. 1 <= receive_seq' /\ taken' <= submitted'
        /\ need_ack_bytes' = taken' + 1 - FirstUnacked'
    BY ONLY <1>1, <1>4, <1>5, <1>7, <1>8, <2>1
  <2>4. \A i \in 1..Len(sent_queue') : FALSE BY ONLY <1>6
  <2>5. \A i \in 1..(Len(sent_queue') - 1) : FALSE BY ONLY <1>6
  <2> QED BY ONLY <1>6, <2>2, <2>3, <2>4, <2>5, Zenon DEF ContentInv
<1>10. LineInv'
  <2>1. LineInv /\ h2m \in Seq(Block) BY DEF LinkInv, TypeOK
  <2>2. ASSUME NEW i \in 1..Len(h2m), h2m[i] # Garbage PROVE LineBlock(i)'
    <3> DEFINE b == h2m[i]
    <3>1. b \in Block BY ONLY <2>1, i \in 1..Len(h2m), ElementOfSeq
    <3>2. b.seq \in Nat BY ONLY <3>1 DEF Block
    <3>3. LineBlock(i) BY ONLY <2>1, <2>2 DEF LineInv
    <3>4. /\ 1 <= b.seq /\ b.seq < send_seq /\ next_sequence < b.seq + SeqMod
          /\ \A j \in 1..(i - 1) : h2m[j].seq + 1 < b.seq + SeqMod
      BY ONLY <3>3 DEF LineBlock
    <3> HIDE DEF b
    <3>5. b.seq < r /\ ~(r <= b.seq) /\ b.seq # r - 1
      <4>1. b.seq < send_seq BY ONLY <3>4
      <4> QED BY ONLY <1>1, <1>8, <3>2, <4>1
    <3>6. h2m' = h2m /\ h2m'[i] = b BY ONLY <1>5 DEF b
    <3> QED BY ONLY <1>4, <1>5, <3>4, <3>5, <3>6 DEF LineBlock
  <2> QED BY ONLY <1>5, <2>1, <2>2 DEF LineInv, Garbage
<1>11. LogInv'
  <2>1. LogInv /\ executed = <<>> BY <1>1, <1>8 DEF LinkInv, ExpectInv
  <2> QED BY ONLY <1>5, <2>1 DEF LogInv, ExecutedOnceInOrder
<1>12. \A i \in 1..Len(sent_queue') :
         /\ sent_queue'[i].naks <= 2
         /\ sent_queue'[i].naks >= 1 => sent_queue'[i].seq < retransmit_seq'
         /\ sent_queue'[i].naks = 2 => sent_queue'[i].seq < ignore_nak_seq'
  BY ONLY <1>6
<1>13. ReceiveWindow # 0 =>
         need_ack_bytes' + (IF last_ack_seq' < r THEN last_ack_bytes' ELSE 0)
           <= ReceiveWindow
  BY ONLY <1>1, <1>4, <1>7, BufferConstants
<1>14. /\ need_ack_bytes' \in Nat /\ last_ack_bytes' \in Nat /\ send_seq' \in Nat
       /\ last_ack_bytes' <= BlockMax /\ r <= send_seq' /\ r > send_seq
       /\ need_ack_bytes' <= need_ack_bytes
  BY ONLY <1>1, <1>4, <1>7, <1>8
<1> QED BY ONLY <1>4, <1>6, <1>9, <1>10, <1>11, <1>12, <1>13, <1>14 DEF WindowSettled

\* The three kinds of response: nothing new, an ack, the first one.
LEMMA InputSettled ==
  ASSUME LinkInv, InputEvent
  PROVE  WindowSettled(Head(m2h).seq)
<1> DEFINE r == Head(m2h).seq
<1>1. Handled(r) BY InputHandled
<1>2. m2h # <<>> BY ONLY <1>1 DEF Handled
<1>3. /\ r \in Nat /\ receive_seq <= r /\ r <= next_sequence
      /\ (r > send_seq => r = next_sequence)
      /\ (rx_head # "wire" /\ ~Head(m2h).data => r < next_sequence)
  BY <1>2, Decoded
<1>4. /\ receive_seq \in Nat /\ send_seq \in Nat /\ last_ack_seq \in Nat
      /\ ignore_nak_seq \in Nat /\ retransmit_seq \in Nat /\ retransmit_seq <= send_seq
  BY DEF LinkInv, TypeOK, NakInv
<1>5. WindowSettled(r)
  <2> HIDE DEF r
  <2>1. CASE r = receive_seq BY <1>1, <1>3, <2>1, SameSettled, Zenon
  <2>2. CASE r # receive_seq /\ r <= send_seq
    <3>1. receive_seq < r BY ONLY <1>3, <1>4, <2>2
    <3> QED BY <1>1, <1>3, <2>2, <3>1, PopSettled, Zenon
  <2>3. CASE r # receive_seq /\ r > send_seq
    <3>1. send_seq < r BY ONLY <1>3, <1>4, <2>3
    <3> QED BY <1>1, <1>3, <2>3, <3>1, SetupSettled, Zenon
  <2> QED BY ONLY <1>3, <1>4, <2>1, <2>2, <2>3
<1> QED BY ONLY <1>5

\* A response never adds to the unacknowledged bytes.
LEMMA AckedMonotone ==
  ASSUME LinkInv, InputEvent
  PROVE  need_ack_bytes' <= need_ack_bytes
  BY InputSettled DEF WindowSettled

\* input_event preserves the invariant, whatever kind of response it handles.
LEMMA InputEventInv == LinkInv /\ InputEvent => LinkInv'
<1> SUFFICES ASSUME LinkInv, InputEvent PROVE LinkInv'
  OBVIOUS
<1> DEFINE r == Head(m2h).seq
<1>1. Handled(r) BY InputHandled
<1>2. m2h # <<>> /\ m2h' = Tail(m2h) BY ONLY <1>1 DEF Handled
<1>3. /\ r \in Nat /\ receive_seq <= r /\ r <= next_sequence
      /\ (r > send_seq => r = next_sequence)
      /\ (rx_head # "wire" /\ ~Head(m2h).data => r < next_sequence)
  BY <1>2, Decoded
<1>4. /\ receive_seq \in Nat /\ send_seq \in Nat /\ last_ack_seq \in Nat
      /\ ignore_nak_seq \in Nat /\ retransmit_seq \in Nat /\ retransmit_seq <= send_seq
  BY DEF LinkInv, TypeOK, NakInv
<1>5. WindowSettled(r) BY InputSettled
<1>6. UNCHANGED <<next_sequence, rx_head, executed, is_shutdown>>
  BY ONLY <1>1 DEF Handled, mcuVars
<1>7. /\ receive_seq' = r
      /\ send_seq' = send_seq \/ (send_seq' = r /\ r > send_seq)
      /\ receive_seq = r \/ r <= send_seq'
  BY ONLY <1>5 DEF WindowSettled
<1>8. /\ m2h' \in Seq(Response) /\ ExpectInv'
      /\ \A i \in 1..Len(m2h') :
           /\ receive_seq' <= m2h'[i].seq /\ m2h'[i].seq <= next_sequence'
           /\ rx_head' # "wire" /\ ~m2h'[i].data => m2h'[i].seq < next_sequence'
      /\ \A i, j \in 1..Len(m2h') : i < j => m2h'[i].seq <= m2h'[j].seq
  BY <1>2, <1>6, <1>7, ResponseTaken, Zenon
<1>9. /\ last_ack_seq' = (IF ~Head(m2h).data /\ last_ack_seq < r THEN r ELSE last_ack_seq)
      /\ UNCHANGED <<ignore_nak_seq, retransmit_seq>>
  BY ONLY <1>1 DEF Handled
<1>10. ResponseInv'
  <2>1. last_ack_seq <= next_sequence /\ (rx_head # "wire" => last_ack_seq < next_sequence)
    BY DEF LinkInv, ResponseInv
  <2>2. last_ack_seq' <= next_sequence'
        /\ (rx_head' # "wire" => last_ack_seq' < next_sequence')
    BY ONLY <1>3, <1>6, <1>9, <2>1
  <2> QED BY ONLY <1>8, <2>2 DEF ResponseInv
<1>11. BufferInv' BY ONLY <1>5 DEF WindowSettled, BufferInv
<1>12. NakInv'
  <2>1. RetransmitTimerArmed'
    <3>1. CASE r # receive_seq
      BY ONLY <1>1, <3>1 DEF Handled, RetransmitTimerArmed
    <3>2. CASE r = receive_seq
      <4>1. sent_queue' = sent_queue BY ONLY <1>1, <3>2 DEF Handled
      <4>2. RetransmitTimerArmed BY DEF LinkInv, NakInv
      <4>3. \/ retransmit_timer' = "now" /\ sent_queue' # <<>>
            \/ retransmit_timer' = retransmit_timer
        BY ONLY <1>1, <3>2 DEF Handled
      <4> QED BY ONLY <4>1, <4>2, <4>3 DEF RetransmitTimerArmed
    <3> QED BY ONLY <3>1, <3>2
  <2>2. retransmit_timer' = "now" => ignore_nak_seq' < receive_seq'
    <3>1. /\ retransmit_timer = "now" => ignore_nak_seq < receive_seq
      BY DEF LinkInv, NakInv
    <3>2. \/ r > ignore_nak_seq
          \/ retransmit_timer' \in {"never", "armed"}
          \/ r = receive_seq /\ retransmit_timer' = retransmit_timer
      BY ONLY <1>1 DEF Handled
    <3> HIDE DEF r
    <3> QED BY ONLY <1>3, <1>4, <1>7, <1>9, <3>1, <3>2
  <2>3. retransmit_seq' <= send_seq' BY ONLY <1>3, <1>4, <1>7, <1>9
  <2>4. \A i \in 1..Len(sent_queue') :
          /\ sent_queue'[i].naks <= 2
          /\ sent_queue'[i].naks >= 1 => sent_queue'[i].seq < retransmit_seq'
          /\ sent_queue'[i].naks = 2 => sent_queue'[i].seq < ignore_nak_seq'
    BY ONLY <1>5 DEF WindowSettled
  <2> QED BY ONLY <2>1, <2>2, <2>3, <2>4 DEF NakInv, NakResendsBounded
<1>13. TypeOK'
  <2>a. TypeOK BY DEF LinkInv
  <2>1. /\ sent_queue' \in Seq(SentBlock) /\ send_seq' \in Nat /\ need_ack_bytes' \in Nat
        /\ last_ack_bytes' \in Nat /\ receive_seq' \in Nat
    BY ONLY <1>3, <1>5 DEF WindowSettled
  <2>2. last_ack_seq' \in Nat BY ONLY <1>3, <1>4, <1>9
  <2>3. UNCHANGED <<mcuVars, h2m, faults, submitted, taken, kicked, need_kick,
                    ignore_nak_seq, retransmit_seq>>
    BY ONLY <1>1 DEF Handled
  <2>4. m2h' \in Seq([seq : Nat, data : BOOLEAN]) BY ONLY <1>8 DEF Response
  <2>5. /\ last_receive_sent' \in Nat /\ command_timer' \in {"never", "now"}
        /\ rtt_sample_seq' \in Nat
    <3>1. CASE r = receive_seq BY ONLY <1>1, <2>a, <3>1, Zenon DEF Handled, TypeOK
    <3>2. CASE r # receive_seq
      <4>1. UpdateReceiveSeq(r) BY ONLY <1>1, <3>2 DEF Handled
      <4>2. /\ last_receive_sent' = r - 1 \/ last_receive_sent' = 0
            /\ command_timer' = "now"
            /\ rtt_sample_seq' = 0 \/ rtt_sample_seq' = rtt_sample_seq
        BY ONLY <4>1, Zenon DEF UpdateReceiveSeq
      <4>3. r - 1 \in Nat BY <1>3, <1>4, <3>2
      <4>4. rtt_sample_seq \in Nat BY ONLY <2>a DEF TypeOK
      <4> QED BY ONLY <4>2, <4>3, <4>4
    <3> QED BY ONLY <3>1, <3>2
  <2>6. notify_queue \subseteq [cmd : Nat, seq : Nat] /\ completed \subseteq Nat
    BY ONLY <2>a DEF TypeOK
  <2>7. /\ notify_queue' \subseteq notify_queue
        /\ completed' \subseteq completed \cup {q.cmd : q \in notify_queue}
    BY ONLY <1>1 DEF Handled
  <2>8. notify_queue' \subseteq [cmd : Nat, seq : Nat] BY ONLY <2>6, <2>7
  <2>9. completed' \subseteq Nat BY ONLY <2>6, <2>7
  <2>10. retransmit_timer' \in {"never", "now", "armed"}
    <3>1. \/ retransmit_timer' \in {"never", "now", "armed"}
          \/ retransmit_timer' = retransmit_timer
      BY ONLY <1>1 DEF Handled
    <3>2. retransmit_timer \in {"never", "now", "armed"} BY ONLY <2>a DEF TypeOK
    <3> QED BY ONLY <3>1, <3>2
  <2> QED BY ONLY <2>a, <2>1, <2>2, <2>3, <2>4, <2>5, <2>8, <2>9, <2>10
          DEF TypeOK, mcuVars
<1>14. ContentInv' /\ LineInv' /\ LogInv' BY ONLY <1>5 DEF WindowSettled
<1> QED BY ONLY <1>8, <1>10, <1>11, <1>12, <1>13, <1>14 DEF LinkInv

\* serialqueue_alloc and the reset of the mcu establish the invariant.
LEMMA InitInv == Init => LinkInv
<1> SUFFICES ASSUME Init PROVE LinkInv
  OBVIOUS
<1>1. TypeOK
  <2>1. next_sequence \in Nat BY Constants DEF Init
  <2>2. /\ sent_queue \in Seq(SentBlock) /\ h2m \in Seq(Block) /\ executed \in Seq(Nat)
        /\ m2h \in Seq([seq : Nat, data : BOOLEAN])
    BY EmptySeq DEF Init
  <2>3. /\ submitted = 0 /\ taken = 0 /\ send_seq = 1 /\ receive_seq = 1
        /\ last_ack_seq = 0 /\ ignore_nak_seq = 0 /\ retransmit_seq = 0
        /\ rtt_sample_seq = 0 /\ last_receive_sent = 0 /\ need_ack_bytes = 0
        /\ last_ack_bytes = 0 /\ notify_queue = {} /\ completed = {}
    BY DEF Init
  <2>4. /\ retransmit_timer = "never" /\ command_timer = "never"
        /\ kicked = FALSE /\ need_kick = TRUE /\ need_valid = FALSE
        /\ rx_head = "wire" /\ is_shutdown = FALSE /\ faults = 0
    BY DEF Init
  <2> QED BY ONLY <2>1, <2>2, <2>3, <2>4, Zenon DEF TypeOK
<1>2. /\ sent_queue = <<>> /\ h2m = <<>> /\ m2h = <<>> /\ executed = <<>>
      /\ Len(sent_queue) = 0 /\ Len(h2m) = 0 /\ Len(m2h) = 0 /\ Len(executed) = 0
  BY DEF Init
<1>3. /\ submitted = 0 /\ taken = 0 /\ send_seq = 1 /\ receive_seq = 1
      /\ last_ack_seq = 0 /\ ignore_nak_seq = 0 /\ retransmit_seq = 0
      /\ need_ack_bytes = 0 /\ last_ack_bytes = 0 /\ retransmit_timer = "never"
      /\ next_sequence \in 1..SeqMod /\ rx_head = "wire"
  BY DEF Init
<1>4. ContentInv
  <2>1. SentQueueIsWindow BY ONLY <1>2, <1>3, Constants DEF SentQueueIsWindow
  <2>2. FirstUnacked = 1 BY ONLY <1>2, <1>3 DEF FirstUnacked
  <2> QED BY ONLY <1>2, <1>3, <2>1, <2>2 DEF ContentInv
<1>5. ExpectInv BY ONLY <1>2, <1>3, Constants DEF ExpectInv
<1>6. ResponseInv BY ONLY <1>2, <1>3, Constants DEF ResponseInv
<1>7. LineInv BY ONLY <1>2, <1>3 DEF LineInv
<1>8. LogInv BY ONLY <1>2 DEF LogInv, ExecutedOnceInOrder
<1>9. BufferInv BY ONLY <1>3, BufferConstants DEF BufferInv
<1>10. NakInv BY ONLY <1>2, <1>3 DEF NakInv, RetransmitTimerArmed, NakResendsBounded
<1> QED BY ONLY <1>1, <1>4, <1>5, <1>6, <1>7, <1>8, <1>9, <1>10 DEF LinkInv

\* Every step of the host, the mcu and the line preserves the invariant.
LEMMA NextInv == LinkInv /\ [Next]_vars => LinkInv'
<1> SUFFICES ASSUME LinkInv, [Next]_vars PROVE LinkInv'
  OBVIOUS
<1>1. CASE Host
  BY <1>1, SendInv, KickEventInv, CommandEventInv, InputEventInv, RetransmitEventInv
     DEF Host
<1>2. CASE Mcu
  BY <1>2, McuDispatchInv, McuDispatchShutdownInv, McuShutdownInv, McuAckInv,
     McuNakInv, McuBadBlockInv, McuResponseInv
     DEF Mcu
<1>3. CASE Line BY <1>3, LoseBlockInv, GarbleBlockInv, LoseResponseInv DEF Line
<1>4. CASE UNCHANGED vars
  <2>1. /\ UNCHANGED hostVars /\ UNCHANGED mcuVars /\ UNCHANGED <<h2m, m2h, faults>>
    BY ONLY <1>4 DEF vars
  <2>2. UNCHANGED <<send_seq, receive_seq, sent_queue, last_ack_seq, last_ack_bytes,
                    next_sequence, rx_head, executed, is_shutdown>>
    BY ONLY <2>1 DEF hostVars, seqVars, mcuVars
  <2>3. TypeOK'
    <3>1. TypeOK BY DEF LinkInv
    <3> QED BY ONLY <2>1, <3>1
            DEF TypeOK, hostVars, queueVars, seqVars, resendVars, notifyVars, mcuVars
  <2>4. ContentInv' /\ BufferInv' /\ NakInv' BY <2>1, HostFrame DEF LinkInv
  <2>5. LogInv' BY <2>1, <2>2, LogFrame, Zenon DEF LinkInv, TypeOK
  <2>6. LineInv' BY <2>1, <2>2, LineFrame, Zenon DEF LinkInv
  <2>7. ExpectInv' /\ ResponseInv' BY <2>1, <2>2, ResponseFrame, Zenon DEF LinkInv
  <2> QED BY ONLY <2>3, <2>4, <2>5, <2>6, <2>7 DEF LinkInv
<1> QED BY <1>1, <1>2, <1>3, <1>4 DEF Next

(***************************************************************************)
(* The theorems.                                                           *)
(***************************************************************************)

\* The numbers, the contents and the buffer space of the blocks in the sent
\* queue, on the line and in the mcu agree, whatever the line loses, garbles or
\* the host resends: LinkInv is an invariant of serialqueue.c and command.c.
THEOREM LinkInvariant == Spec => []LinkInv
<1>1. Init => LinkInv BY InitInv
<1>2. LinkInv /\ [Next]_vars => LinkInv' BY NextInv
<1> QED BY <1>1, <1>2, PTL DEF Spec

\* Every variable of the transport keeps its type.
THEOREM TypeCorrect == Spec => []TypeOK
<1>1. LinkInv => TypeOK BY DEF LinkInv
<1> QED BY <1>1, LinkInvariant, PTL

\* The sent queue of serialqueue.c is exactly the window of unacknowledged
\* blocks and never exceeds MAX_PENDING_BLOCKS.
THEOREM WindowCorrect == Spec => []SentQueueIsWindow
<1>1. LinkInv => SentQueueIsWindow BY DEF LinkInv, ContentInv
<1> QED BY <1>1, LinkInvariant, PTL

\* handle_message always recovers the full number the mcu meant from its low
\* bits, and never drops a response of the mcu as an ack for a block not sent.
THEOREM DecodeCorrect == Spec => []ResponsesDecode
<1>1. LinkInv => ResponsesDecode
  <2> SUFFICES ASSUME LinkInv, m2h # <<>>
               PROVE  /\ ReceivedSeq(Wire(Head(m2h).seq)) = Head(m2h).seq
                      /\ Head(m2h).seq <= send_seq \/ receive_seq = 1
    BY DEF ResponsesDecode
  <2>1. /\ ReceivedSeq(Wire(Head(m2h).seq)) = Head(m2h).seq /\ Head(m2h).seq \in Nat
        /\ Head(m2h).seq > send_seq => receive_seq = 1
    BY Decoded
  <2>2. send_seq \in Nat BY DEF LinkInv, TypeOK
  <2> QED BY ONLY <2>1, <2>2
<1> QED BY <1>1, LinkInvariant, PTL

\* Commands reach command_dispatch once each and in order, over a line that
\* loses, garbles and repeats blocks.
THEOREM ExactlyOnceInOrder == Spec => []ExecutedOnceInOrder
<1>1. LinkInv => ExecutedOnceInOrder BY DEF LinkInv, LogInv
<1> QED BY <1>1, LinkInvariant, PTL

\* The log of the mcu reaches the first block the host still keeps.
LEMMA AckedFromInv == LinkInv => AckedWereExecuted
<1> SUFFICES ASSUME LinkInv, executed # <<>>, ~is_shutdown
             PROVE  executed[Len(executed)] >= FirstUnacked - 1
  BY DEF AckedWereExecuted
<1>1. executed[Len(executed)] = NextFirst - 1 BY DEF LinkInv, LogInv
<1>2. /\ send_seq \in Nat /\ receive_seq \in Nat /\ next_sequence \in Nat
      /\ taken \in Nat /\ sent_queue \in Seq(SentBlock) /\ Len(sent_queue) \in Nat
      /\ Len(sent_queue) = send_seq - receive_seq /\ receive_seq <= next_sequence
  BY LenProperties DEF LinkInv, TypeOK, ContentInv, SentQueueIsWindow, ExpectInv
<1>3. \A i \in 1..Len(sent_queue) :
        sent_queue[i].first \in Nat /\ sent_queue[i].last \in Nat
  <2>1. \A i \in 1..Len(sent_queue) : sent_queue[i] \in SentBlock
    BY ONLY <1>2, ElementOfSeq
  <2> QED BY ONLY <2>1 DEF SentBlock
<1>4. /\ \A i \in 1..Len(sent_queue) :
           /\ sent_queue[i].first <= sent_queue[i].last
           /\ sent_queue[i].last <= taken
      /\ \A i, j \in 1..Len(sent_queue) :
           i < j => sent_queue[i].last < sent_queue[j].first
  BY DEF LinkInv, ContentInv
<1>5. NextFirst \in Nat /\ FirstUnacked \in Nat /\ FirstUnacked <= NextFirst
  <2>1. CASE sent_queue = <<>>
    <3>1. ~(next_sequence < send_seq) BY <1>2, <2>1, EmptySeq
    <3> QED BY ONLY <1>2, <2>1, <3>1 DEF NextFirst, FirstUnacked
  <2>2. CASE sent_queue # <<>>
    <3>1. 1 \in 1..Len(sent_queue) BY <1>2, <2>2, EmptySeq
    <3>2. FirstUnacked = sent_queue[1].first BY ONLY <2>2 DEF FirstUnacked
    <3>3. CASE next_sequence < send_seq
      <4> DEFINE k == next_sequence - receive_seq + 1
      <4>1. k \in 1..Len(sent_queue) /\ (k = 1 \/ 1 < k) BY ONLY <1>2, <3>3
      <4>2. NextFirst = sent_queue[k].first BY ONLY <3>3 DEF NextFirst, Slot
      <4> HIDE DEF k
      <4>3. CASE k = 1 BY ONLY <1>3, <3>1, <3>2, <4>2, <4>3
      <4>4. CASE 1 < k
        <5>1. sent_queue[1].first <= sent_queue[1].last
              /\ sent_queue[1].last < sent_queue[k].first
          BY ONLY <1>4, <3>1, <4>1, <4>4
        <5> QED BY ONLY <1>3, <3>1, <3>2, <4>1, <4>2, <5>1
      <4> QED BY ONLY <4>1, <4>3, <4>4
    <3>4. CASE ~(next_sequence < send_seq)
      <4>1. NextFirst = taken + 1 BY ONLY <3>4 DEF NextFirst
      <4>2. sent_queue[1].first <= taken /\ sent_queue[1].first \in Nat
        <5>1. /\ sent_queue[1].first <= sent_queue[1].last
              /\ sent_queue[1].last <= taken /\ sent_queue[1].first \in Nat
              /\ sent_queue[1].last \in Nat
          BY ONLY <1>3, <1>4, <3>1
        <5> QED BY ONLY <1>2, <5>1
      <4> QED BY ONLY <1>2, <3>2, <4>1, <4>2
    <3> QED BY ONLY <3>3, <3>4
  <2> QED BY ONLY <2>1, <2>2
<1> QED BY ONLY <1>1, <1>5

\* The host forgets a block only after the mcu ran its commands.
THEOREM AckedExecuted == Spec => []AckedWereExecuted
  BY AckedFromInv, LinkInvariant, PTL

\* The receive window: the blocks the mcu has not popped fit its buffer, also
\* when a response sent during a dispatch acknowledged the block still in it.
THEOREM ReceiveBufferFits == Spec => []FitsReceiveWindow
<1>1. LinkInv => FitsReceiveWindow
  <2> SUFFICES ASSUME LinkInv, ReceiveWindow # 0
               PROVE  need_ack_bytes + (IF rx_head # "wire" /\ receive_seq = next_sequence
                                        THEN Size(Head(h2m)) ELSE 0) <= ReceiveWindow
    BY DEF FitsReceiveWindow
  <2>1. /\ need_ack_bytes \in Nat /\ last_ack_bytes \in Nat /\ last_ack_seq \in Nat
        /\ receive_seq \in Nat /\ next_sequence \in Nat /\ h2m \in Seq(Block)
    BY DEF LinkInv, TypeOK
  <2>2. need_ack_bytes + (IF last_ack_seq < receive_seq THEN last_ack_bytes ELSE 0)
          <= ReceiveWindow
    BY DEF LinkInv, BufferInv
  <2>3. CASE rx_head # "wire" /\ receive_seq = next_sequence
    <3>1. /\ h2m # <<>> /\ h2m[1] # Garbage /\ h2m[1].seq = next_sequence - 1
          /\ last_ack_seq < next_sequence
      BY <2>3 DEF LinkInv, LineInv, ResponseInv
    <3>2. 1 \in 1..Len(h2m) /\ Head(h2m) = h2m[1] BY <2>1, <3>1, PopProperties
    <3>3. LineBlock(1) BY <3>1, <3>2 DEF LinkInv, LineInv
    <3>4. Size(h2m[1]) = last_ack_bytes BY <2>3, <3>1, <3>3 DEF LineBlock
    <3> QED BY <2>2, <2>3, <3>1, <3>2, <3>4
  <2>4. CASE ~(rx_head # "wire" /\ receive_seq = next_sequence)
    BY <2>1, <2>2, <2>4, BufferConstants
  <2> QED BY <2>3, <2>4
<1> QED BY <1>1, LinkInvariant, PTL

\* Duplicate acks make retransmit_event resend a block at most twice.
THEOREM NakResendsCorrect == Spec => []NakResendsBounded
<1>1. LinkInv => NakResendsBounded BY DEF LinkInv, NakInv
<1> QED BY <1>1, LinkInvariant, PTL

\* A block that waits for its ack has a retransmit timer, an idle link has none.
THEOREM RetransmitTimerCorrect == Spec => []RetransmitTimerArmed
<1>1. LinkInv => RetransmitTimerArmed BY DEF LinkInv, NakInv
<1> QED BY <1>1, LinkInvariant, PTL

(***************************************************************************)
(* SerialLink implements CommandStream.                                    *)
(***************************************************************************)

\* The first unacknowledged command, computed from need_ack_bytes.
LEMMA UnackedType ==
  ASSUME LinkInv
  PROVE  /\ FirstUnacked \in Nat /\ FirstUnacked = taken + 1 - need_ack_bytes
         /\ taken \in Nat /\ submitted \in Nat /\ need_ack_bytes \in Nat
         /\ taken <= submitted
<1>1. /\ taken \in Nat /\ submitted \in Nat /\ need_ack_bytes \in Nat
      /\ taken <= submitted /\ need_ack_bytes = taken + 1 - FirstUnacked
      /\ sent_queue \in Seq(SentBlock)
  BY DEF LinkInv, TypeOK, ContentInv
<1>2. FirstUnacked \in Nat
  <2>1. CASE sent_queue = <<>> BY ONLY <1>1, <2>1 DEF FirstUnacked
  <2>2. CASE sent_queue # <<>>
    <3>1. 1 \in 1..Len(sent_queue) BY ONLY <1>1, <2>2, PopProperties
    <3>2. sent_queue[1] \in SentBlock BY ONLY <1>1, <3>1, ElementOfSeq
    <3>3. sent_queue[1].first \in Nat BY ONLY <3>2 DEF SentBlock
    <3> QED BY ONLY <2>2, <3>3 DEF FirstUnacked
  <2> QED BY ONLY <2>1, <2>2
<1> QED BY ONLY <1>1, <1>2

\* A block that is dispatched continues the log.
LEMMA StreamRun ==
  ASSUME LinkInv, h2m # <<>>, Expected(Head(h2m)), ~is_shutdown,
         NEW last \in (Head(h2m).first - 1)..Head(h2m).last,
         executed' = executed \o Commands(Head(h2m).first, last),
         is_shutdown' \in BOOLEAN, UNCHANGED <<submitted, FirstUnacked>>
  PROVE  Stream!Run
<1> DEFINE f == Head(h2m).first
           l == Head(h2m).last
<1>1. /\ Head(h2m) \in Block /\ next_sequence < send_seq
      /\ f = sent_queue[Slot(next_sequence)].first
      /\ 1 <= f /\ f <= l /\ l <= taken
  BY AcceptedBlock
<1>2. f \in Nat /\ l \in Nat BY ONLY <1>1 DEF Block
<1>3. taken \in Nat /\ submitted \in Nat /\ taken <= submitted BY UnackedType
<1>4. executed # <<>> => executed[Len(executed)] = f - 1
  BY <1>1 DEF LinkInv, LogInv, NextFirst
<1>5. /\ executed' = executed \o Commands(f, last) /\ last \in (f - 1)..l
      /\ ~is_shutdown /\ is_shutdown' \in BOOLEAN
      /\ UNCHANGED <<submitted, FirstUnacked>>
  OBVIOUS
<1> HIDE DEF f, l
<1>6. f \in 1..submitted /\ last \in (f - 1)..submitted
  BY ONLY <1>1, <1>2, <1>3, <1>5
<1>7. executed # <<>> => f = executed[Len(executed)] + 1 BY ONLY <1>2, <1>4
<1>8. executed' = executed \o [i \in 1..(last - f + 1) |-> f + i - 1]
  BY ONLY <1>5 DEF Commands
<1> QED BY ONLY <1>5, <1>6, <1>7, <1>8 DEF Stream!Run

\* What StreamStep needs of the state after the step.
UnackedFacts ==
  /\ FirstUnacked \in Nat /\ FirstUnacked = taken + 1 - need_ack_bytes
  /\ taken \in Nat /\ submitted \in Nat /\ need_ack_bytes \in Nat
  /\ taken <= submitted /\ AckedWereExecuted

\* The same facts hold after a step that preserves the invariant.
LEMMA UnackedNext == LinkInv' => UnackedFacts'
<1>1. LinkInv => UnackedFacts
  BY UnackedType, AckedFromInv DEF UnackedFacts
<1> QED BY <1>1, PTL

\* Commands put in new blocks leave the first unacknowledged command alone.
LEMMA SameUnacked ==
  ASSUME NEW t \in Nat, NEW t2 \in Nat, NEW n \in Nat
  PROVE  t2 + 1 - (n + (t2 - t)) = t + 1 - n
  OBVIOUS

\* Fewer unacknowledged bytes: the first unacknowledged command moves forward.
LEMMA MoreAcked ==
  ASSUME NEW t \in Nat, NEW n \in Nat, NEW n2 \in Nat, n2 <= n
  PROVE  t + 1 - n <= t + 1 - n2
  OBVIOUS

\* Only submitted commands are acknowledged.
LEMMA UnackedBound ==
  ASSUME NEW t \in Nat, NEW s \in Nat, NEW n2 \in Nat, t <= s
  PROVE  t + 1 - n2 <= s + 1
  OBVIOUS

\* The last acknowledged command, as a range.
LEMMA NewlyAcked ==
  ASSUME NEW f \in Nat, NEW f2 \in Nat, NEW s \in Nat, f <= f2, f2 <= s + 1, f2 # f
  PROVE  f2 - 1 \in ((f - 1) + 1)..s
  OBVIOUS

\* Every step of the transport is a step of the stream, or leaves it alone.
LEMMA StreamStep ==
  LinkInv /\ LinkInv' /\ [Next]_vars => [Stream!StreamNext]_(Stream!streamVars)
<1> SUFFICES ASSUME LinkInv, LinkInv', [Next]_vars
             PROVE  Stream!StreamNext \/ UNCHANGED Stream!streamVars
  OBVIOUS
<1>1. /\ FirstUnacked \in Nat /\ FirstUnacked = taken + 1 - need_ack_bytes
      /\ taken \in Nat /\ submitted \in Nat /\ need_ack_bytes \in Nat
      /\ taken <= submitted
  BY UnackedType
<1>2. /\ FirstUnacked' \in Nat /\ FirstUnacked' = taken' + 1 - need_ack_bytes'
      /\ taken' \in Nat /\ submitted' \in Nat /\ need_ack_bytes' \in Nat
      /\ taken' <= submitted'
      /\ AckedWereExecuted'
  BY UnackedNext DEF UnackedFacts
<1>3. ASSUME UNCHANGED <<taken, need_ack_bytes>> PROVE FirstUnacked' = FirstUnacked
  BY ONLY <1>1, <1>2, <1>3
<1>4. ASSUME UNCHANGED <<submitted, executed, is_shutdown, taken, need_ack_bytes>>
      PROVE  UNCHANGED Stream!streamVars
  BY <1>3, <1>4 DEF Stream!streamVars
<1>5. ASSUME UNCHANGED hostVars PROVE UNCHANGED <<submitted, taken, need_ack_bytes>>
  BY ONLY <1>5 DEF hostVars, queueVars, seqVars
<1>6. CASE Send
  <2>1. /\ submitted' = submitted + 1
        /\ UNCHANGED <<executed, is_shutdown, taken, need_ack_bytes>>
    BY ONLY <1>6 DEF Send, seqVars, mcuVars
  <2>2. FirstUnacked' = FirstUnacked BY ONLY <1>3, <2>1
  <2> QED BY ONLY <2>1, <2>2 DEF Stream!StreamNext, Stream!Queue
<1>7. CASE KickEvent \/ RetransmitEvent
  <2>1. UNCHANGED <<submitted, executed, is_shutdown, taken, need_ack_bytes>>
    BY ONLY <1>7 DEF KickEvent, RetransmitEvent, queueVars, seqVars, mcuVars
  <2> QED BY <1>4, <2>1
<1>8. CASE CommandEvent
  <2>1. UNCHANGED <<submitted, executed, is_shutdown>>
    BY ONLY <1>8 DEF CommandEvent, mcuVars
  <2>2. need_ack_bytes' = need_ack_bytes + (taken' - taken)
    BY ONLY <1>8, Zenon DEF CommandEvent
  <2>3. FirstUnacked' = FirstUnacked
    <3>1. taken \in Nat /\ taken' \in Nat /\ need_ack_bytes \in Nat BY ONLY <1>1, <1>2
    <3>2. taken' + 1 - (need_ack_bytes + (taken' - taken)) = taken + 1 - need_ack_bytes
      BY ONLY <3>1, SameUnacked, Zenon
    <3>3. FirstUnacked' = taken' + 1 - (need_ack_bytes + (taken' - taken))
      BY ONLY <1>2, <2>2, Zenon
    <3>4. FirstUnacked = taken + 1 - need_ack_bytes BY ONLY <1>1
    <3> QED BY ONLY <3>2, <3>3, <3>4, Zenon
  <2> QED BY ONLY <2>1, <2>3 DEF Stream!streamVars
<1>9. CASE InputEvent
  <2>1. Handled(Head(m2h).seq) BY <1>9, InputHandled
  <2>2. UNCHANGED <<submitted, taken, executed, is_shutdown>>
    BY ONLY <2>1 DEF Handled, mcuVars
  <2>3. need_ack_bytes' <= need_ack_bytes BY <1>9, AckedMonotone
  <2>4. FirstUnacked <= FirstUnacked' /\ FirstUnacked' <= submitted + 1
    BY ONLY <1>1, <1>2, <2>2, <2>3, MoreAcked, UnackedBound, Zenon
  <2>5. CASE FirstUnacked' = FirstUnacked BY ONLY <2>2, <2>5 DEF Stream!streamVars
  <2>6. CASE FirstUnacked' # FirstUnacked
    <3>1. FirstUnacked' - 1 \in ((FirstUnacked - 1) + 1)..submitted
      BY ONLY <1>1, <1>2, <2>4, <2>6, NewlyAcked, Zenon
    <3>2. executed # <<>> /\ ~is_shutdown => FirstUnacked' - 1 <= executed[Len(executed)]
      <4>2. AckedWereExecuted' BY ONLY <1>2
      <4>3. executed # <<>> /\ ~is_shutdown =>
              executed[Len(executed)] >= FirstUnacked' - 1
        BY ONLY <2>2, <4>2 DEF AckedWereExecuted
      <4>4. executed # <<>> => executed[Len(executed)] \in Nat
        <5> SUFFICES ASSUME executed # <<>> PROVE executed[Len(executed)] \in Nat
          OBVIOUS
        <5>1. executed \in Seq(Nat) /\ executed # <<>> BY DEF LinkInv, TypeOK
        <5>2. Len(executed) \in Nat \ {0} BY ONLY <5>1, PopProperties
        <5>3. Len(executed) \in 1..Len(executed) BY ONLY <5>2
        <5> QED BY ONLY <5>1, <5>3, ElementOfSeq
      <4> QED BY ONLY <1>2, <4>3, <4>4
    <3> QED BY ONLY <2>2, <3>1, <3>2 DEF Stream!StreamNext, Stream!Acknowledge
  <2> QED BY ONLY <2>5, <2>6
<1>10. CASE McuDispatch
  <2>1. h2m # <<>> /\ Expected(Head(h2m)) /\ UNCHANGED <<hostVars, is_shutdown>>
        /\ executed' = IF is_shutdown THEN executed
                       ELSE executed \o Commands(Head(h2m).first, Head(h2m).last)
    BY ONLY <1>10 DEF McuDispatch
  <2>2. UNCHANGED <<submitted, taken, need_ack_bytes>> BY <1>5, <2>1
  <2>3. CASE is_shutdown BY <1>4, <2>1, <2>2, <2>3
  <2>4. CASE ~is_shutdown
    <3>1. Head(h2m).last \in (Head(h2m).first - 1)..Head(h2m).last
      <4>1. Head(h2m) \in Block /\ Head(h2m).first <= Head(h2m).last
        BY <2>1, AcceptedBlock
      <4> QED BY ONLY <4>1 DEF Block
    <3>2. FirstUnacked' = FirstUnacked BY ONLY <1>3, <2>2
    <3>3. is_shutdown' \in BOOLEAN BY <2>1 DEF LinkInv, TypeOK
    <3>4. Stream!Run BY <2>1, <2>2, <2>4, <3>1, <3>2, <3>3, StreamRun, Zenon
    <3> QED BY ONLY <3>4 DEF Stream!StreamNext
  <2> QED BY ONLY <2>3, <2>4
<1>11. CASE McuDispatchShutdown
  <2>1. h2m # <<>> /\ Expected(Head(h2m)) /\ UNCHANGED hostVars /\ ~is_shutdown
        /\ is_shutdown' = TRUE
    BY ONLY <1>11 DEF McuDispatchShutdown
  <2>2. PICK last \in (Head(h2m).first - 1)..Head(h2m).last :
          executed' = executed \o Commands(Head(h2m).first, last)
    BY ONLY <1>11 DEF McuDispatchShutdown
  <2>3. UNCHANGED <<submitted, taken, need_ack_bytes>> BY <1>5, <2>1
  <2>4. FirstUnacked' = FirstUnacked BY ONLY <1>3, <2>3
  <2>5. is_shutdown' \in BOOLEAN BY ONLY <2>1
  <2>6. Stream!Run BY <2>1, <2>2, <2>3, <2>4, <2>5, StreamRun, Zenon
  <2> QED BY ONLY <2>6 DEF Stream!StreamNext
<1>12. CASE McuShutdown
  <2>1. is_shutdown' = TRUE /\ UNCHANGED hostVars /\ executed' = executed
    BY ONLY <1>12 DEF McuShutdown
  <2>2. UNCHANGED <<submitted, taken, need_ack_bytes>> BY <1>5, <2>1
  <2>3. FirstUnacked' = FirstUnacked BY ONLY <1>3, <2>2
  <2> QED BY ONLY <2>1, <2>2, <2>3 DEF Stream!StreamNext, Stream!Stop
<1>13. CASE McuAck \/ McuNak \/ McuBadBlock \/ McuResponse \/ Line \/ UNCHANGED vars
  <2>1. UNCHANGED hostVars /\ UNCHANGED <<executed, is_shutdown>>
    BY ONLY <1>13 DEF McuAck, McuNak, McuBadBlock, McuResponse, Line, LoseBlock,
                      GarbleBlock, LoseResponse, vars, mcuVars
  <2>2. UNCHANGED <<submitted, taken, need_ack_bytes>> BY <1>5, <2>1
  <2> QED BY <1>4, <2>1, <2>2
<1> QED BY <1>6, <1>7, <1>8, <1>9, <1>10, <1>11, <1>12, <1>13 DEF Next, Host, Mcu

\* The transport implements the command stream its users rely on: commands are
\* run in order and once each, and forgotten only after they were run.
THEOREM LinkImplementsStream == Spec => ImplementsStream
<1>1. Init => Stream!StreamInit
  <2> SUFFICES ASSUME Init PROVE Stream!StreamInit
    OBVIOUS
  <2>1. FirstUnacked - 1 = 0 BY DEF Init, FirstUnacked
  <2> QED BY <2>1 DEF Init, Stream!StreamInit
<1>2. LinkInv /\ LinkInv' /\ [Next]_vars => [Stream!StreamNext]_(Stream!streamVars)
  BY StreamStep
<1> QED BY <1>1, <1>2, LinkInvariant, PTL
        DEF Spec, ImplementsStream, Stream!StreamSpec
=============================================================================
