------------------------- MODULE SerialLinkHostProofs -----------------------
(***************************************************************************)
(* The steps of the host that queue, send and resend blocks preserve the   *)
(* invariant LinkInv of SerialLink.                                        *)
(***************************************************************************)
EXTENDS SerialLinkMcuProofs

\* serialqueue_send_batch only extends the commands that wait to be sent.
LEMMA SendInv == LinkInv /\ Send => LinkInv'
<1> SUFFICES ASSUME LinkInv, Send PROVE LinkInv'
  OBVIOUS
<1> USE DEF LinkInv, Send, mcuVars, seqVars
<1>1. submitted \in Nat /\ taken \in Nat /\ submitted' \in Nat BY DEF TypeOK
<1>a. kicked' \in BOOLEAN /\ need_kick' \in BOOLEAN BY Zenon DEF TypeOK
<1>b. UNCHANGED <<taken, command_timer, seqVars, resendVars, notifyVars,
                  mcuVars, h2m, m2h, faults>>
  OBVIOUS
<1>c. TypeOK'
  BY ONLY TypeOK, <1>1, <1>a, <1>b
     DEF TypeOK, seqVars, resendVars, notifyVars, mcuVars
<1>2. ContentInv'
  <2>1. taken' <= submitted' BY <1>1 DEF ContentInv
  <2> QED BY <2>1 DEF ContentInv, SentQueueIsWindow, FirstUnacked, Size
<1>3. BufferInv' /\ NakInv'
  BY DEF BufferInv, NakInv, RetransmitTimerArmed, NakResendsBounded, resendVars
<1>4. LogInv' BY DEF LogInv, ExecutedOnceInOrder, NextFirst, Slot
<1>5. LineInv' BY LineFrame
<1>6. ResponseInv' /\ ExpectInv' BY ResponseFrame
<1> QED BY <1>c, <1>2, <1>3, <1>4, <1>5, <1>6

\* kick_event only arms the command timer.
LEMMA KickEventInv == LinkInv /\ KickEvent => LinkInv'
<1> SUFFICES ASSUME LinkInv, KickEvent PROVE LinkInv'
  OBVIOUS
<1> USE DEF LinkInv, KickEvent, mcuVars, seqVars
<1>1. TypeOK' BY Zenon DEF TypeOK, resendVars, notifyVars
<1>2. ContentInv'
  BY DEF ContentInv, SentQueueIsWindow, FirstUnacked, Size
<1>3. BufferInv' /\ NakInv'
  BY DEF BufferInv, NakInv, RetransmitTimerArmed, NakResendsBounded, resendVars
<1>4. LogInv' BY DEF LogInv, ExecutedOnceInOrder, NextFirst, Slot
<1>5. LineInv' BY LineFrame
<1>6. ResponseInv' /\ ExpectInv' BY ResponseFrame
<1> QED BY <1>1, <1>2, <1>3, <1>4, <1>5, <1>6

\* LineBlock for any line s and window q, lo..hi - 1.
GoodBlock(s, i, q, lo, hi, next, ackBytes) ==
  /\ 1 <= s[i].seq /\ s[i].seq < hi
  /\ next < s[i].seq + SeqMod
  /\ \A j \in 1..(i - 1) : s[j].seq + 1 < s[i].seq + SeqMod
  /\ lo <= s[i].seq => /\ s[i].first = q[s[i].seq - lo + 1].first
                       /\ s[i].last = q[s[i].seq - lo + 1].last
  /\ s[i].seq = lo - 1 => Size(s[i]) = ackBytes

\* The frames of the window are blocks.
LEMMA FramesType ==
  ASSUME NEW r \in Seq(SentBlock)
  PROVE  /\ Frames(r) \in Seq(Block) /\ Len(Frames(r)) = Len(r) /\ Len(r) \in Nat
         /\ \A k \in 1..Len(r) : /\ Frames(r)[k].seq = r[k].seq
                                 /\ Frames(r)[k].first = r[k].first
                                 /\ Frames(r)[k].last = r[k].last
<1>1. Len(r) \in Nat /\ \A k \in 1..Len(r) : r[k] \in SentBlock
  BY LenProperties, ElementOfSeq
<1>2. \A k \in 1..Len(r) :
        [seq |-> r[k].seq, first |-> r[k].first, last |-> r[k].last] \in Block
  BY <1>1 DEF SentBlock, Block
<1>3. Frames(r) \in [1..Len(r) -> Block] BY <1>2 DEF Frames
<1>4. Frames(r) \in Seq(Block) BY <1>1, <1>3, SeqDef
<1> QED BY <1>1, <1>3, <1>4 DEF Frames

LineOf(t, q, lo, hi, next, ab) ==
  /\ t \in Seq(Block)
  /\ \A i \in 1..Len(t) : t[i] # Garbage => GoodBlock(t, i, q, lo, hi, next, ab)

\* The line s may be followed by r, the end of the window q from off on.
CanWrite(s, r, off, q, lo, hi, next, ab) ==
  /\ LineOf(s, q, lo, hi, next, ab) /\ q \in Seq(SentBlock) /\ r \in Seq(SentBlock)
  /\ lo \in Nat /\ hi \in Nat /\ next \in Nat /\ off \in Nat
  /\ 1 <= lo /\ hi = lo + Len(q) /\ Len(q) <= MaxPending
  /\ next <= hi \/ next <= SeqMod
  /\ off + Len(r) = Len(q)
  /\ \A k \in 1..Len(q) : q[k].seq = lo + k - 1
  /\ \A k \in 1..Len(r) : r[k] = q[off + k]
  /\ \A i \in 1..Len(s) : s[i].seq < lo + MaxPending

\* Blocks of the window may be written behind any blocks of the line.
LEMMA FramesGood ==
  ASSUME NEW s, NEW r, NEW off, NEW q, NEW lo, NEW hi, NEW next, NEW ab,
         CanWrite(s, r, off, q, lo, hi, next, ab)
  PROVE  /\ LineOf(s \o Frames(r), q, lo, hi, next, ab)
         /\ Len(s \o Frames(r)) = Len(s) + Len(r)
         /\ \A i \in 1..Len(s) : (s \o Frames(r))[i] = s[i]
<1>a. s \in Seq(Block) /\ q \in Seq(SentBlock) /\ r \in Seq(SentBlock)
  BY DEF CanWrite, LineOf
<1>b. /\ lo \in Nat /\ hi \in Nat /\ next \in Nat /\ off \in Nat
      /\ 1 <= lo /\ hi = lo + Len(q) /\ Len(q) <= MaxPending
      /\ next <= hi \/ next <= SeqMod
      /\ off + Len(r) = Len(q)
  BY DEF CanWrite
<1>c. /\ \A k \in 1..Len(q) : q[k].seq = lo + k - 1
      /\ \A k \in 1..Len(r) : r[k] = q[off + k]
      /\ \A i \in 1..Len(s) : s[i].seq < lo + MaxPending
  BY DEF CanWrite
<1>d. \A i \in 1..Len(s) : s[i] # Garbage => GoodBlock(s, i, q, lo, hi, next, ab)
  BY DEF CanWrite, LineOf
<1> DEFINE f == Frames(r)
           t == s \o f
           n == Len(s)
           m == Len(r)
<1>1. /\ f \in Seq(Block) /\ Len(f) = m /\ m \in Nat
      /\ \A k \in 1..m : /\ f[k].seq = r[k].seq /\ f[k].first = r[k].first
                         /\ f[k].last = r[k].last
  BY <1>a, FramesType
<1> HIDE DEF f
<1>2. n \in Nat /\ \A i \in 1..n : s[i] \in Block BY <1>a, LenProperties, ElementOfSeq
<1>3. Len(q) \in Nat /\ \A k \in 1..Len(q) : q[k] \in SentBlock
  BY <1>a, LenProperties, ElementOfSeq
<1>4. /\ t \in Seq(Block) /\ Len(t) = n + m
      /\ \A i \in 1..n : t[i] = s[i]
      /\ \A k \in 1..m : t[n + k] = f[k]
  <2>1. /\ t \in Seq(Block) /\ Len(t) = n + Len(f)
        /\ \A i \in 1..n : t[i] = s[i]
        /\ \A k \in 1..Len(f) : t[n + k] = f[k]
    <3>1. s \in Seq(Block) BY <1>a
    <3>2. f \in Seq(Block) BY <1>1
    <3>3. s \o f \in Seq(Block) /\ Len(s \o f) = Len(s) + Len(f)
      BY ONLY <3>1, <3>2, ConcatIndex
    <3>4. \A i \in 1..Len(s) : (s \o f)[i] = s[i] BY ONLY <3>1, <3>2, ConcatIndex
    <3>5. \A k \in 1..Len(f) : (s \o f)[Len(s) + k] = f[k]
      BY ONLY <3>1, <3>2, ConcatIndex
    <3> QED BY ONLY <3>3, <3>4, <3>5
  <2> HIDE DEF t, n, m
  <2> QED BY <1>1, <2>1
<1> HIDE DEF t, n, m
<1>5. \A i \in 1..n : t[i] = s[i] BY <1>4
<1>6. ASSUME NEW k \in 1..m
      PROVE  /\ off + k \in 1..Len(q)
             /\ t[n + k].seq = lo + off + k - 1
             /\ t[n + k].first = q[off + k].first
             /\ t[n + k].last = q[off + k].last
  <2>1. off + k \in 1..Len(q) BY <1>b, <1>1, <1>3 DEF m
  <2>2. r[k] = q[off + k] /\ q[off + k].seq = lo + (off + k) - 1
    BY <1>b, <1>c, <1>1, <1>3, <2>1 DEF m
  <2>3. f[k].seq = q[off + k].seq /\ f[k].first = q[off + k].first
        /\ f[k].last = q[off + k].last
    BY <1>1, <2>2
  <2> QED BY <1>b, <1>4, <2>1, <2>2, <2>3
<1>7. ASSUME NEW i \in 1..Len(t), t[i] # Garbage
      PROVE  GoodBlock(t, i, q, lo, hi, next, ab)
  <2>0. i \in 1..(n + m) BY <1>4
  <2>1. CASE i <= n
    <3>0. i \in 1..n BY <1>2, <2>1
    <3>1. GoodBlock(s, i, q, lo, hi, next, ab) BY <1>d, <1>5, <1>7, <3>0 DEF n
    <3>2. \A j \in 1..(i - 1) : t[j] = s[j] BY <1>2, <1>5, <2>1
    <3> QED BY <1>5, <3>0, <3>1, <3>2 DEF GoodBlock
  <2>2. CASE ~(i <= n)
    <3> DEFINE k == i - n
    <3>1. k \in 1..m /\ i = n + k BY <1>1, <1>2, <2>0, <2>2
    <3> HIDE DEF k
    <3>2. /\ off + k \in 1..Len(q) /\ t[i].seq = lo + off + k - 1
          /\ t[i].first = q[off + k].first /\ t[i].last = q[off + k].last
      BY <1>6, <3>1
    <3>3. t[i].seq \in Nat /\ lo <= t[i].seq /\ t[i].seq < hi
      BY <1>b, <1>1, <1>3, <3>1, <3>2
    <3>4. next < t[i].seq + SeqMod
      BY <1>b, <1>3, <3>3, Constants
    <3>5. ASSUME NEW j \in 1..(i - 1) PROVE t[j].seq + 1 < t[i].seq + SeqMod
      <4>1. CASE j <= n
        <5>0. j \in 1..n BY <1>2, <4>1
        <5>1. t[j].seq \in Nat /\ t[j].seq < lo + MaxPending
          BY <1>c, <1>2, <1>5, <5>0 DEF Block, n
        <5> QED BY <1>b, <3>3, <5>1, SeqGap
      <4>2. CASE ~(j <= n)
        <5> DEFINE l == j - n
        <5>1. l \in 1..m /\ j = n + l /\ l < k BY <1>1, <1>2, <2>0, <3>1, <4>2
        <5> HIDE DEF l
        <5>2. t[j].seq = lo + off + l - 1 BY <1>6, <5>1
        <5>3. t[j].seq \in Nat /\ t[j].seq < t[i].seq BY <1>b, <1>1, <3>1, <3>2, <5>1, <5>2
        <5> QED BY ONLY <3>3, <5>3, SeqStep
      <4> QED BY <4>1, <4>2
    <3>6. t[i].seq - lo + 1 = off + k BY <1>b, <1>1, <3>1, <3>2
    <3>7. t[i].seq # lo - 1 BY <1>b, <3>3
    <3>8. 1 <= t[i].seq BY <1>b, <3>3
    <3>9. /\ t[i].first = q[t[i].seq - lo + 1].first
          /\ t[i].last = q[t[i].seq - lo + 1].last
      BY <3>2, <3>6
    <3> QED BY ONLY <3>3, <3>4, <3>5, <3>7, <3>8, <3>9 DEF GoodBlock
  <2> QED BY <2>1, <2>2
<1> QED BY ONLY <1>4, <1>5, <1>7 DEF t, n, m, f, LineOf

\* The numbers on the line are below the end of the window.
LEMMA LineSeqs ==
  ASSUME LinkInv
  PROVE  \A i \in 1..Len(h2m) : /\ h2m[i] \in Block
                                /\ h2m[i].seq < receive_seq + MaxPending
<1> USE DEF LinkInv
<1>1. h2m \in Seq(Block) /\ receive_seq \in Nat /\ send_seq \in Nat BY DEF TypeOK
<1>2. 1 <= receive_seq /\ send_seq - receive_seq <= MaxPending
  BY DEF ContentInv, SentQueueIsWindow
<1>3. ASSUME NEW i \in 1..Len(h2m)
      PROVE  h2m[i] \in Block /\ h2m[i].seq < receive_seq + MaxPending
  <2>1. h2m[i] \in Block BY <1>1, ElementOfSeq
  <2>2. h2m[i].seq \in Nat BY <2>1 DEF Block
  <2>3. CASE h2m[i] = Garbage
    <3>1. h2m[i].seq = 0 BY <2>3, GarbageType
    <3> QED BY ONLY <1>1, <1>2, <2>1, <3>1, Constants
  <2>4. CASE h2m[i] # Garbage
    <3>1. h2m[i].seq < send_seq BY <2>4 DEF LineInv, LineBlock
    <3> QED BY ONLY <1>1, <1>2, <2>1, <2>2, <3>1, Constants
  <2> QED BY <2>3, <2>4
<1> QED BY <1>3

\* Every block of a resend belongs to the window the host still keeps.
LEMMA LineGood ==
  ASSUME LinkInv
  PROVE  \A i \in 1..Len(h2m) : h2m[i] # Garbage =>
           GoodBlock(h2m, i, sent_queue, receive_seq, send_seq, next_sequence,
                     last_ack_bytes)
  BY DEF LinkInv, LineInv, LineBlock, GoodBlock, Slot

\* The blocks of the sent queue keep numbers and contents.
LEMMA SameBlocks ==
  ASSUME LinkInv, sent_queue' \in Seq(SentBlock), Len(sent_queue') = Len(sent_queue),
         \A i \in 1..Len(sent_queue) :
           /\ sent_queue'[i].seq = sent_queue[i].seq
           /\ sent_queue'[i].first = sent_queue[i].first
           /\ sent_queue'[i].last = sent_queue[i].last,
         UNCHANGED <<submitted, taken, send_seq, receive_seq, need_ack_bytes,
                     next_sequence, executed, is_shutdown>>
  PROVE  ContentInv' /\ LogInv'
<1> USE DEF LinkInv
<1>1. sent_queue \in Seq(SentBlock) /\ Len(sent_queue) \in Nat
  BY LenProperties DEF TypeOK
<1>2. sent_queue' = <<>> <=> sent_queue = <<>> BY <1>1, EmptySeq
<1>3. FirstUnacked' = FirstUnacked
  <2>1. sent_queue # <<>> => 1 \in 1..Len(sent_queue) BY <1>1, EmptySeq
  <2> QED BY <1>2, <2>1 DEF FirstUnacked
<1>4. sent_queue # <<>> => Len(sent_queue) \in 1..Len(sent_queue) BY <1>1, EmptySeq
<1>5. ContentInv'
  <2>1. SentQueueIsWindow' BY DEF ContentInv, SentQueueIsWindow
  <2>2. \A i \in 1..Len(sent_queue') :
          /\ 1 <= sent_queue'[i].first /\ sent_queue'[i].first <= sent_queue'[i].last
          /\ sent_queue'[i].last <= taken' /\ Size(sent_queue'[i]) <= BlockMax
    BY DEF ContentInv, Size
  <2>3. \A i \in 1..(Len(sent_queue') - 1) :
          sent_queue'[i + 1].first = sent_queue'[i].last + 1
    BY <1>1 DEF ContentInv
  <2>4. \A i, j \in 1..Len(sent_queue') :
          i < j => sent_queue'[i].last < sent_queue'[j].first
    BY <1>1 DEF ContentInv
  <2>5. sent_queue' # <<>> => sent_queue'[Len(sent_queue')].last = taken'
    BY <1>2, <1>4 DEF ContentInv
  <2> QED BY <1>3, <2>1, <2>2, <2>3, <2>4, <2>5 DEF ContentInv
<1>6. LogInv'
  <2>1. CASE next_sequence < send_seq
    <3>1. Slot(next_sequence) \in 1..Len(sent_queue)
      BY <2>1 DEF Slot, TypeOK, ContentInv, SentQueueIsWindow, ExpectInv
    <3>2. NextFirst' = NextFirst BY <2>1, <3>1 DEF NextFirst, Slot
    <3> QED BY <3>2 DEF LogInv, ExecutedOnceInOrder
  <2>2. CASE ~(next_sequence < send_seq)
    BY <2>2 DEF LogInv, ExecutedOnceInOrder, NextFirst
  <2> QED BY <2>1, <2>2
<1> QED BY <1>5, <1>6

\* After do_write of the whole window the line holds blocks in sending order.
LEMMA RetransmitLine ==
  ASSUME LinkInv, RetransmitEvent
  PROVE  /\ h2m' \in Seq(Block)
         /\ \A i \in 1..Len(h2m') : h2m'[i] # Garbage =>
              GoodBlock(h2m', i, sent_queue, receive_seq, send_seq, next_sequence,
                        last_ack_bytes)
         /\ rx_head # "wire" => h2m' # <<>> /\ h2m'[1] = h2m[1]
<1>1. PICK kept \in (IF rx_head = "wire" THEN 0 ELSE 1)..Len(h2m), cut \in BOOLEAN :
        h2m' = SubSeq(h2m, 1, kept)
               \o (IF cut /\ kept < Len(h2m) THEN <<Garbage>> ELSE <<>>)
               \o Frames(sent_queue)
  BY Zenon DEF RetransmitEvent
<1> DEFINE p == SubSeq(h2m, 1, kept)
           g == IF cut /\ kept < Len(h2m) THEN <<Garbage>> ELSE <<>>
           s == p \o g
<1>2. h2m \in Seq(Block) /\ Len(h2m) \in Nat BY LenProperties DEF LinkInv, TypeOK
<1>3. kept \in Nat /\ kept <= Len(h2m) /\ (rx_head # "wire" => 1 <= kept)
  BY <1>2
<1>4. /\ p \in Seq(Block) /\ Len(p) = kept
      /\ \A i \in 1..kept : p[i] = h2m[i]
  <2>1. \A i \in 1..kept : h2m[i] \in Block BY <1>2, <1>3, ElementOfSeq
  <2>2. /\ p \in Seq(Block) /\ Len(p) = IF 1 <= kept THEN kept - 1 + 1 ELSE 0
        /\ \A i \in 1..(kept - 1 + 1) : p[i] = h2m[1 + i - 1]
    BY <1>3, <2>1, SubSeqProperties
  <2> HIDE DEF p
  <2> QED BY <1>3, <2>2
<1>5. /\ g \in Seq(Block) /\ (Len(g) = 0 \/ Len(g) = 1)
      /\ \A k \in 1..Len(g) : g[k] = Garbage
  <2>1. <<Garbage>> \in Seq(Block) /\ Len(<<Garbage>>) = 1 /\ <<Garbage>>[1] = Garbage
    BY GarbageType
  <2>2. <<>> \in Seq(Block) /\ Len(<<>>) = 0 BY EmptySeq
  <2> QED BY <2>1, <2>2
<1> HIDE DEF p, g
<1>6. /\ s \in Seq(Block) /\ Len(s) = kept + Len(g)
      /\ \A i \in 1..kept : s[i] = h2m[i]
      /\ \A k \in 1..Len(g) : s[kept + k] = Garbage
  <2>1. /\ s \in Seq(Block) /\ Len(s) = Len(p) + Len(g)
        /\ \A i \in 1..Len(p) : s[i] = p[i]
    BY <1>4, <1>5, ConcatIndex
  <2>2. \A k \in 1..Len(g) : s[Len(p) + k] = g[k] BY <1>4, <1>5, ConcatIndex
  <2> HIDE DEF s
  <2> QED BY <1>3, <1>4, <1>5, <2>1, <2>2
<1>7. h2m' = s \o Frames(sent_queue) BY <1>1 DEF p, g
<1> HIDE DEF s
<1>8. \A i \in 1..Len(s) : s[i] # Garbage => i \in 1..kept
  <2> SUFFICES ASSUME NEW i \in 1..Len(s), ~(i \in 1..kept) PROVE s[i] = Garbage
    OBVIOUS
  <2>1. 1 \in 1..Len(g) /\ i = kept + 1 BY <1>3, <1>5, <1>6
  <2> QED BY <1>6, <2>1
<1>9. ASSUME NEW i \in 1..Len(s), s[i] # Garbage
      PROVE  GoodBlock(s, i, sent_queue, receive_seq, send_seq, next_sequence,
                       last_ack_bytes)
  <2>1. i \in 1..kept /\ i \in 1..Len(h2m) /\ s[i] = h2m[i]
    BY <1>2, <1>3, <1>6, <1>8, <1>9
  <2>2. GoodBlock(h2m, i, sent_queue, receive_seq, send_seq, next_sequence,
                  last_ack_bytes)
    BY <1>9, <2>1, LineGood
  <2>3. \A j \in 1..(i - 1) : s[j] = h2m[j] BY <1>3, <1>6, <2>1
  <2> QED BY ONLY <2>1, <2>2, <2>3 DEF GoodBlock
<1>10. ASSUME NEW i \in 1..Len(s) PROVE s[i].seq < receive_seq + MaxPending
  <2>1. CASE s[i] = Garbage
    <3>1. s[i].seq = 0 /\ receive_seq \in Nat /\ 1 <= receive_seq
      BY <2>1, GarbageType DEF LinkInv, TypeOK, ContentInv
    <3> QED BY ONLY <3>1, Constants
  <2>2. CASE s[i] # Garbage
    <3>1. i \in 1..kept /\ i \in 1..Len(h2m) /\ s[i] = h2m[i]
      BY <1>2, <1>3, <1>6, <1>8, <2>2
    <3> QED BY <3>1, LineSeqs
  <2> QED BY <2>1, <2>2
<1>11. /\ sent_queue \in Seq(SentBlock) /\ receive_seq \in Nat /\ send_seq \in Nat
       /\ next_sequence \in Nat /\ Len(sent_queue) \in Nat
  BY LenProperties DEF LinkInv, TypeOK
<1>12. /\ 1 <= receive_seq /\ send_seq = receive_seq + Len(sent_queue)
       /\ Len(sent_queue) <= MaxPending
       /\ next_sequence <= send_seq \/ next_sequence <= SeqMod
       /\ \A k \in 1..Len(sent_queue) : sent_queue[k].seq = receive_seq + k - 1
  BY <1>11, Constants DEF LinkInv, ContentInv, SentQueueIsWindow, ExpectInv
<1>13. 0 + Len(sent_queue) = Len(sent_queue)
       /\ \A k \in 1..Len(sent_queue) : sent_queue[k] = sent_queue[0 + k]
  BY <1>11
<1>a. CanWrite(s, sent_queue, 0, sent_queue, receive_seq, send_seq, next_sequence,
               last_ack_bytes)
  BY ONLY <1>6, <1>9, <1>10, <1>11, <1>12, <1>13 DEF CanWrite, LineOf
<1>14. /\ h2m' \in Seq(Block) /\ Len(h2m') = Len(s) + Len(sent_queue)
       /\ \A i \in 1..Len(s) : h2m'[i] = s[i]
       /\ \A i \in 1..Len(h2m') : h2m'[i] # Garbage =>
            GoodBlock(h2m', i, sent_queue, receive_seq, send_seq, next_sequence,
                      last_ack_bytes)
  BY ONLY <1>7, <1>a, FramesGood DEF LineOf
<1>15. ASSUME rx_head # "wire" PROVE h2m' # <<>> /\ h2m'[1] = h2m[1]
  <2>1. 1 \in 1..kept /\ 1 \in 1..Len(s) BY <1>3, <1>5, <1>6, <1>15
  <2>2. Len(h2m') # 0 BY <1>3, <1>5, <1>6, <1>11, <1>14, <2>1
  <2> QED BY <1>6, <1>14, <2>1, <2>2, EmptySeq
<1> QED BY <1>14, <1>15

\* retransmit_event resends the window and leaves its content alone.
LEMMA RetransmitEventInv == LinkInv /\ RetransmitEvent => LinkInv'
<1> SUFFICES ASSUME LinkInv, RetransmitEvent PROVE LinkInv'
  OBVIOUS
<1> USE DEF LinkInv
<1>1. /\ UNCHANGED <<queueVars, send_seq, receive_seq, last_ack_seq, need_ack_bytes,
                     last_ack_bytes, last_receive_sent, notifyVars, mcuVars, m2h,
                     faults>>
      /\ retransmit_seq' = send_seq /\ rtt_sample_seq' = 0
      /\ retransmit_timer' = "armed" /\ retransmit_timer # "never"
  BY DEF RetransmitEvent, SampleAfterResend
<1>2. sent_queue \in Seq(SentBlock) /\ Len(sent_queue) \in Nat
      /\ \A i \in 1..Len(sent_queue) : sent_queue[i] \in SentBlock
  BY LenProperties, ElementOfSeq DEF TypeOK
<1>3. /\ sent_queue' \in Seq(SentBlock) /\ Len(sent_queue') = Len(sent_queue)
      /\ \A i \in 1..Len(sent_queue) :
           /\ sent_queue'[i].seq = sent_queue[i].seq
           /\ sent_queue'[i].first = sent_queue[i].first
           /\ sent_queue'[i].last = sent_queue[i].last
           /\ sent_queue'[i].naks = IF retransmit_timer = "now"
                                    THEN sent_queue[i].naks + 1
                                    ELSE sent_queue[i].naks
  <2>1. CASE retransmit_timer = "now"
    <3>1. sent_queue' = [i \in 1..Len(sent_queue) |->
                           [sent_queue[i] EXCEPT !.naks = sent_queue[i].naks + 1]]
      BY <2>1 DEF RetransmitEvent
    <3>2. \A i \in 1..Len(sent_queue) :
            /\ sent_queue'[i] = [sent_queue[i] EXCEPT !.naks = sent_queue[i].naks + 1]
            /\ sent_queue'[i] \in SentBlock
      <4> SUFFICES ASSUME NEW i \in 1..Len(sent_queue)
                   PROVE  /\ sent_queue'[i] =
                               [sent_queue[i] EXCEPT !.naks = sent_queue[i].naks + 1]
                          /\ sent_queue'[i] \in SentBlock
        OBVIOUS
      <4>1. sent_queue'[i] = [sent_queue[i] EXCEPT !.naks = sent_queue[i].naks + 1]
        BY <3>1
      <4>2. sent_queue[i] \in SentBlock BY <1>2
      <4>3. sent_queue[i].naks + 1 \in Nat BY <4>2 DEF SentBlock
      <4>4. [sent_queue[i] EXCEPT !.naks = sent_queue[i].naks + 1] \in SentBlock
        BY ONLY <4>2, <4>3 DEF SentBlock
      <4> QED BY <4>1, <4>4
    <3>3. sent_queue' \in [1..Len(sent_queue) -> SentBlock] BY <3>1, <3>2
    <3>4. sent_queue' \in Seq(SentBlock) BY <1>2, <3>3, SeqDef
    <3>5. Len(sent_queue') = Len(sent_queue) BY <1>2, <3>3, <3>4
    <3> QED BY <1>2, <2>1, <3>2, <3>4, <3>5, Zenon DEF SentBlock
  <2>2. CASE retransmit_timer # "now"
    BY <1>2, <2>2 DEF RetransmitEvent
  <2> QED BY <2>1, <2>2
<1>4. ContentInv' /\ LogInv' BY <1>1, <1>3, SameBlocks DEF queueVars, mcuVars
<1>5. ExpectInv' /\ ResponseInv' BY <1>1, ResponseFrame DEF mcuVars
<1>6. h2m' \in Seq(Block) /\ LineInv'
  <2>1. /\ h2m' \in Seq(Block)
        /\ \A i \in 1..Len(h2m') : h2m'[i] # Garbage =>
             GoodBlock(h2m', i, sent_queue, receive_seq, send_seq, next_sequence,
                       last_ack_bytes)
        /\ rx_head # "wire" => h2m' # <<>> /\ h2m'[1] = h2m[1]
    BY RetransmitLine
  <2>2. ASSUME NEW i \in 1..Len(h2m'), h2m'[i] # Garbage PROVE LineBlock(i)'
    <3>1. GoodBlock(h2m', i, sent_queue, receive_seq, send_seq, next_sequence,
                    last_ack_bytes)
      BY <2>1, <2>2
    <3>2. h2m'[i] \in Block BY <2>1, ElementOfSeq
    <3>3. h2m'[i].seq \in Nat /\ receive_seq \in Nat /\ send_seq \in Nat
      BY <3>2 DEF Block, TypeOK
    <3>4. Len(sent_queue) = send_seq - receive_seq
      BY DEF ContentInv, SentQueueIsWindow
    <3>5. receive_seq <= h2m'[i].seq =>
            /\ h2m'[i].first = sent_queue'[h2m'[i].seq - receive_seq + 1].first
            /\ h2m'[i].last = sent_queue'[h2m'[i].seq - receive_seq + 1].last
      <4> SUFFICES ASSUME receive_seq <= h2m'[i].seq
                   PROVE  /\ h2m'[i].first = sent_queue'[h2m'[i].seq - receive_seq + 1].first
                          /\ h2m'[i].last = sent_queue'[h2m'[i].seq - receive_seq + 1].last
        OBVIOUS
      <4> DEFINE k == h2m'[i].seq - receive_seq + 1
      <4>1. h2m'[i].seq < send_seq BY ONLY <3>1 DEF GoodBlock
      <4>2. k \in 1..Len(sent_queue) BY ONLY <3>3, <3>4, <4>1, receive_seq <= h2m'[i].seq
      <4>3. h2m'[i].first = sent_queue[k].first /\ h2m'[i].last = sent_queue[k].last
        BY <3>1 DEF GoodBlock
      <4> HIDE DEF k
      <4>4. h2m'[i].first = sent_queue'[k].first /\ h2m'[i].last = sent_queue'[k].last
        BY <1>3, <4>2, <4>3
      <4> QED BY <4>4 DEF k
    <3>6. UNCHANGED <<send_seq, receive_seq, next_sequence, last_ack_bytes>>
      BY <1>1 DEF mcuVars
    <3> QED BY ONLY <3>1, <3>5, <3>6 DEF GoodBlock, LineBlock, Slot
  <2>3. rx_head' = rx_head /\ next_sequence' = next_sequence BY <1>1 DEF mcuVars
  <2> QED BY <2>1, <2>2, <2>3 DEF LineInv, Garbage
<1>7. ignore_nak_seq' \in Nat
  BY Zenon DEF RetransmitEvent, IgnoreNak, TypeOK
<1>8. TypeOK'
  BY ONLY TypeOK, <1>1, <1>3, <1>6, <1>7 DEF TypeOK, queueVars, notifyVars, mcuVars
<1>9. BufferInv' BY <1>1 DEF BufferInv
<1>10. NakInv'
  <2>1. sent_queue # <<>> /\ sent_queue' # <<>>
    BY <1>1, <1>2, <1>3, EmptySeq DEF NakInv, RetransmitTimerArmed
  <2>2. \A i \in 1..Len(sent_queue) :
          /\ sent_queue[i].seq < send_seq /\ receive_seq <= sent_queue[i].seq
          /\ sent_queue[i].seq \in Nat /\ sent_queue[i].naks \in Nat
    <3>1. send_seq \in Nat /\ receive_seq \in Nat BY DEF TypeOK
    <3>2. /\ Len(sent_queue) = send_seq - receive_seq
          /\ \A i \in 1..Len(sent_queue) : sent_queue[i].seq = receive_seq + i - 1
      BY DEF ContentInv, SentQueueIsWindow
    <3>3. \A i \in 1..Len(sent_queue) :
            sent_queue[i].seq \in Nat /\ sent_queue[i].naks \in Nat
      BY <1>2 DEF SentBlock
    <3> QED BY <3>1, <3>2, <3>3
  <2>3. send_seq \in Nat /\ receive_seq \in Nat /\ ignore_nak_seq \in Nat
        /\ retransmit_seq \in Nat
    BY DEF TypeOK
  <2>4. ASSUME NEW i \in 1..Len(sent_queue')
        PROVE  /\ sent_queue'[i].naks <= 2
               /\ sent_queue'[i].seq < retransmit_seq'
               /\ sent_queue'[i].naks = 2 => sent_queue'[i].seq < ignore_nak_seq'
    <3>1. i \in 1..Len(sent_queue) BY <1>3
    <3>2. sent_queue'[i].seq < retransmit_seq' BY <1>1, <1>3, <2>2, <3>1
    <3>3. CASE retransmit_timer = "now"
      <4>1. ignore_nak_seq < receive_seq BY <3>3 DEF NakInv
      <4>2. sent_queue[i].naks # 2
        BY <2>2, <2>3, <3>1, <4>1 DEF NakInv
      <4>3. sent_queue[i].naks <= 1
        BY <2>2, <3>1, <4>2 DEF NakInv, NakResendsBounded
      <4>4. sent_queue'[i].naks = sent_queue[i].naks + 1
            /\ sent_queue'[i].seq = sent_queue[i].seq
        BY <1>3, <3>1, <3>3
      <4>5. ignore_nak_seq' = IgnoreNak BY <3>3 DEF RetransmitEvent
      <4>6. sent_queue[i].naks = 1 => sent_queue[i].seq < retransmit_seq
        BY <3>1 DEF NakInv
      <4>7. sent_queue[i].naks = 1 => sent_queue[i].seq < IgnoreNak
        BY <2>2, <2>3, <3>1, <4>6 DEF IgnoreNak
      <4> QED BY <2>2, <3>1, <3>2, <4>3, <4>4, <4>5, <4>7
    <3>4. CASE retransmit_timer # "now"
      <4>1. ignore_nak_seq' = send_seq BY <3>4 DEF RetransmitEvent
      <4>2. sent_queue'[i].naks = sent_queue[i].naks
            /\ sent_queue'[i].seq = sent_queue[i].seq
        BY <1>3, <3>1, <3>4
      <4> QED BY <2>2, <3>1, <3>2, <4>1, <4>2 DEF NakInv, NakResendsBounded
    <3> QED BY <3>3, <3>4
  <2> QED BY <1>1, <2>1, <2>3, <2>4
          DEF NakInv, RetransmitTimerArmed, NakResendsBounded
<1> QED BY <1>4, <1>5, <1>6, <1>8, <1>9, <1>10

\* The blocks command_event builds: consecutive, none empty, none too large.
LEMMA BuiltBlocks ==
  ASSUME LinkInv, NEW n \in 0..MaxPending,
         \A k \in 0..(n - 1) : WindowOpen(k) /\ Ready(k)
  PROVE  LET blocks == [k \in 1..n |-> Built(k)]
             end == Lesser(taken + n * BlockMax, submitted)
         IN  /\ blocks \in Seq(SentBlock) /\ Len(blocks) = n /\ n \in Nat
             /\ taken <= end /\ end <= submitted /\ end \in Nat
             /\ n = 0 => end = taken
             /\ \A k \in 1..n :
                  /\ blocks[k].seq = send_seq + k - 1 /\ blocks[k].naks = 0
                  /\ taken < blocks[k].first /\ blocks[k].first <= blocks[k].last
                  /\ blocks[k].last <= end /\ Size(blocks[k]) <= BlockMax
                  /\ blocks[k].first \in Nat /\ blocks[k].last \in Nat
             /\ n > 0 => blocks[1].first = taken + 1 /\ blocks[n].last = end
             /\ \A k \in 1..(n - 1) : blocks[k + 1].first = blocks[k].last + 1
             /\ \A i, j \in 1..n : i < j => blocks[i].last < blocks[j].first
<1> DEFINE blocks == [k \in 1..n |-> Built(k)]
           end == Lesser(taken + n * BlockMax, submitted)
           P(k) == k * BlockMax
<1>1. /\ taken \in Nat /\ submitted \in Nat /\ send_seq \in Nat /\ n \in Nat
      /\ taken <= submitted /\ BlockMax \in Nat /\ BlockMax >= 1
  BY BufferConstants, Constants DEF LinkInv, TypeOK, ContentInv
<1>2. \A k \in 0..n : P(k) \in Nat BY <1>1
<1>3. \A k \in 0..n : P(k + 1) = P(k) + BlockMax BY <1>1, MulSucc
<1>4. \A i, j \in 0..n : i <= j => P(i) <= P(j) BY <1>1, MulMono
<1>5. P(0) = 0 BY <1>1
<1>6. \A k \in 0..(n - 1) : taken + P(k) < submitted BY DEF Ready
<1>7. end = IF taken + P(n) <= submitted THEN taken + P(n) ELSE submitted
  BY DEF Lesser
<1>8. \A k \in 1..n :
        /\ blocks[k] = Built(k) /\ Built(k).seq = send_seq + k - 1
        /\ Built(k).first = taken + P(k - 1) + 1
        /\ Built(k).last = IF taken + P(k) <= submitted THEN taken + P(k) ELSE submitted
        /\ Built(k).naks = 0
        /\ Built(k) = [seq |-> Built(k).seq, first |-> Built(k).first,
                       last |-> Built(k).last, naks |-> 0]
  BY DEF Built, Lesser
<1> HIDE DEF P, end
<1>9. ASSUME NEW k \in 1..n
      PROVE  /\ k - 1 \in 0..n /\ k \in 0..n /\ P(k) = P(k - 1) + BlockMax
             /\ taken + P(k - 1) < submitted /\ P(k - 1) \in Nat /\ P(k) \in Nat
             /\ P(k) <= P(n)
  <2>1. k - 1 \in 0..n /\ k \in 0..n /\ k - 1 \in 0..(n - 1) /\ (k - 1) + 1 = k
        /\ n \in 0..n /\ k <= n
    BY <1>1
  <2>2. P((k - 1) + 1) = P(k - 1) + BlockMax BY <1>3, <2>1
  <2> QED BY <1>2, <1>4, <1>6, <2>1, <2>2
<1>10. ASSUME NEW k \in 1..n
       PROVE  /\ blocks[k].seq = send_seq + k - 1 /\ blocks[k].naks = 0
              /\ taken < blocks[k].first /\ blocks[k].first <= blocks[k].last
              /\ blocks[k].last <= end /\ Size(blocks[k]) <= BlockMax
              /\ blocks[k].first \in Nat /\ blocks[k].last \in Nat
              /\ blocks[k] \in SentBlock
  <2>1. /\ blocks[k].seq = send_seq + k - 1 /\ blocks[k].naks = 0
        /\ blocks[k].first = taken + P(k - 1) + 1
        /\ blocks[k].last = IF taken + P(k) <= submitted THEN taken + P(k) ELSE submitted
    BY <1>8
  <2>2. P(n) \in Nat BY <1>1, <1>2
  <2> HIDE DEF blocks
  <2>3. /\ taken < blocks[k].first /\ blocks[k].first <= blocks[k].last
        /\ blocks[k].last <= end /\ Size(blocks[k]) <= BlockMax
        /\ blocks[k].first \in Nat /\ blocks[k].last \in Nat /\ blocks[k].seq \in Nat
    BY <1>1, <1>7, <1>9, <2>1, <2>2 DEF Size
  <2>4. blocks[k] \in SentBlock
    <3>1. blocks[k] = [seq |-> blocks[k].seq, first |-> blocks[k].first,
                       last |-> blocks[k].last, naks |-> 0]
      BY <1>8 DEF blocks
    <3> DEFINE a == blocks[k].seq
               b == blocks[k].first
               c == blocks[k].last
    <3>2. a \in Nat /\ b \in Nat /\ c \in Nat BY <2>3
    <3> HIDE DEF a, b, c
    <3>3. [seq |-> a, first |-> b, last |-> c, naks |-> 0] \in SentBlock
      BY <3>2 DEF SentBlock
    <3> QED BY <3>1, <3>3 DEF a, b, c
  <2> QED BY <2>1, <2>3, <2>4
<1>11. blocks \in Seq(SentBlock) /\ Len(blocks) = n
  <2>1. blocks \in [1..n -> SentBlock] BY <1>10
  <2>2. blocks \in Seq(SentBlock) BY <1>1, <2>1, SeqDef
  <2> QED BY <1>1, <2>1, <2>2
<1>12. taken <= end /\ end <= submitted /\ end \in Nat
  BY <1>1, <1>2, <1>7
<1>13. n = 0 => end = taken BY <1>1, <1>5, <1>7
<1>14. n > 0 => blocks[1].first = taken + 1 /\ blocks[n].last = end
  <2> SUFFICES ASSUME n > 0 PROVE blocks[1].first = taken + 1 /\ blocks[n].last = end
    OBVIOUS
  <2>1. 1 \in 1..n /\ n \in 1..n BY <1>1
  <2>2. blocks[1].first = taken + P(1 - 1) + 1 /\ blocks[n].last = end
    BY <1>7, <1>8, <2>1
  <2> QED BY <1>1, <1>5, <2>2
<1>15. ASSUME NEW k \in 1..(n - 1) PROVE blocks[k + 1].first = blocks[k].last + 1
  <2>1. k \in 1..n /\ k + 1 \in 1..n /\ k \in 0..(n - 1) /\ (k + 1) - 1 = k BY <1>1
  <2>2. taken + P(k) < submitted /\ P(k) \in Nat BY <1>6, <1>9, <2>1
  <2>3. blocks[k + 1].first = taken + P((k + 1) - 1) + 1
        /\ blocks[k].last = IF taken + P(k) <= submitted THEN taken + P(k) ELSE submitted
    BY <1>8, <2>1
  <2> QED BY <1>1, <2>1, <2>2, <2>3
<1>16. ASSUME NEW i \in 1..n, NEW j \in 1..n, i < j
       PROVE  blocks[i].last < blocks[j].first
  <2>1. j - 1 \in 0..n /\ i \in 0..n /\ i <= j - 1 BY <1>1, <1>16
  <2>2. P(i) <= P(j - 1) /\ P(i) \in Nat /\ P(j - 1) \in Nat BY <1>2, <1>4, <2>1
  <2>3. blocks[j].first = taken + P(j - 1) + 1
        /\ blocks[i].last = IF taken + P(i) <= submitted THEN taken + P(i) ELSE submitted
    BY <1>8
  <2> HIDE DEF blocks
  <2> QED BY <1>1, <2>2, <2>3
<1> QED BY <1>1, <1>10, <1>11, <1>12, <1>13, <1>14, <1>15, <1>16, Zenon DEF end

\* command_event appends the n new blocks to the sent queue.
Appended(n, blocks, end) ==
  /\ taken' = end /\ send_seq' = send_seq + n /\ sent_queue' = sent_queue \o blocks
  /\ need_ack_bytes' = need_ack_bytes + (end - taken)
  /\ UNCHANGED <<submitted, receive_seq, last_ack_seq, last_ack_bytes,
                 ignore_nak_seq, retransmit_seq, next_sequence, executed, is_shutdown,
                 rx_head, m2h>>
  /\ blocks \in Seq(SentBlock) /\ Len(blocks) = n /\ n \in Nat
  /\ taken <= end /\ end <= submitted /\ end \in Nat
  /\ n = 0 => end = taken
  /\ n > 0 => blocks[1].first = taken + 1 /\ blocks[n].last = end
  /\ \A k \in 1..n :
       /\ blocks[k].seq = send_seq + k - 1 /\ blocks[k].naks = 0
       /\ taken < blocks[k].first /\ blocks[k].first <= blocks[k].last
       /\ blocks[k].last <= end /\ Size(blocks[k]) <= BlockMax
       /\ blocks[k].first \in Nat /\ blocks[k].last \in Nat
  /\ \A k \in 1..(n - 1) : blocks[k + 1].first = blocks[k].last + 1
  /\ \A i, j \in 1..n : i < j => blocks[i].last < blocks[j].first
  /\ send_seq + n - receive_seq <= MaxPending

\* The longer sent queue, block by block.
LEMMA AppendedQueue ==
  ASSUME LinkInv, NEW n, NEW blocks, NEW end, Appended(n, blocks, end)
  PROVE  /\ sent_queue' \in Seq(SentBlock) /\ Len(sent_queue') = Len(sent_queue) + n
         /\ \A i \in 1..Len(sent_queue) : sent_queue'[i] = sent_queue[i]
         /\ \A k \in 1..n : sent_queue'[Len(sent_queue) + k] = blocks[k]
         /\ sent_queue \in Seq(SentBlock) /\ Len(sent_queue) \in Nat
         /\ sent_queue = <<>> <=> Len(sent_queue) = 0
         /\ sent_queue' = <<>> <=> Len(sent_queue) + n = 0
         /\ \A i \in 1..Len(sent_queue) :
              /\ sent_queue[i].first \in Nat /\ sent_queue[i].last \in Nat
              /\ sent_queue[i].naks \in Nat /\ sent_queue[i].seq \in Nat
         /\ taken \in Nat /\ submitted \in Nat /\ send_seq \in Nat
         /\ receive_seq \in Nat /\ next_sequence \in Nat /\ need_ack_bytes \in Nat
         /\ Len(sent_queue) = send_seq - receive_seq /\ 1 <= receive_seq
<1>1. /\ sent_queue \in Seq(SentBlock) /\ taken \in Nat /\ submitted \in Nat
      /\ send_seq \in Nat /\ receive_seq \in Nat /\ next_sequence \in Nat
      /\ need_ack_bytes \in Nat
  BY DEF LinkInv, TypeOK
<1>2. blocks \in Seq(SentBlock) /\ Len(blocks) = n /\ sent_queue' = sent_queue \o blocks
  BY DEF Appended
<1>3. Len(sent_queue) = send_seq - receive_seq /\ 1 <= receive_seq
  BY DEF LinkInv, ContentInv, SentQueueIsWindow
<1>4. /\ sent_queue' \in Seq(SentBlock) /\ Len(sent_queue') = Len(sent_queue) + n
      /\ \A i \in 1..Len(sent_queue) : sent_queue'[i] = sent_queue[i]
  BY ONLY <1>1, <1>2, ConcatIndex
<1>5. \A k \in 1..n : sent_queue'[Len(sent_queue) + k] = blocks[k]
  BY ONLY <1>1, <1>2, ConcatIndex
<1>6. \A i \in 1..Len(sent_queue) : sent_queue[i] \in SentBlock
  BY ONLY <1>1, ElementOfSeq
<1>7. \A i \in 1..Len(sent_queue) :
        /\ sent_queue[i].first \in Nat /\ sent_queue[i].last \in Nat
        /\ sent_queue[i].naks \in Nat /\ sent_queue[i].seq \in Nat
  BY ONLY <1>6 DEF SentBlock
<1>8. Len(sent_queue) \in Nat BY ONLY <1>1, LenProperties
<1>9. /\ sent_queue = <<>> <=> Len(sent_queue) = 0
      /\ sent_queue' = <<>> <=> Len(sent_queue) + n = 0
  BY ONLY <1>1, <1>4, EmptySeq
<1> QED BY ONLY <1>1, <1>3, <1>4, <1>5, <1>7, <1>8, <1>9

\* Every block of the longer queue is an old one or a new one.
LEMMA AppendedIndex ==
  ASSUME LinkInv, NEW n, NEW blocks, NEW end, Appended(n, blocks, end)
  PROVE  \A i \in 1..Len(sent_queue') :
           \/ i \in 1..Len(sent_queue) /\ sent_queue'[i] = sent_queue[i]
           \/ \E k \in 1..n : i = Len(sent_queue) + k /\ sent_queue'[i] = blocks[k]
<1> SUFFICES ASSUME NEW i \in 1..Len(sent_queue')
             PROVE  \/ i \in 1..Len(sent_queue) /\ sent_queue'[i] = sent_queue[i]
                    \/ \E k \in 1..n : /\ i = Len(sent_queue) + k
                                       /\ sent_queue'[i] = blocks[k]
  OBVIOUS
<1> DEFINE L == Len(sent_queue)
           k == i - L
<1>1. L \in Nat /\ Len(sent_queue') = L + n /\ n \in Nat
  BY AppendedQueue, Zenon DEF Appended
<1>2. /\ \A x \in 1..L : sent_queue'[x] = sent_queue[x]
      /\ \A x \in 1..n : sent_queue'[L + x] = blocks[x]
  BY AppendedQueue
<1> HIDE DEF L
<1>3. i \in 1..(L + n) BY <1>1
<1>4. CASE i <= L
  <2>1. i \in 1..L BY ONLY <1>1, <1>3, <1>4
  <2> QED BY ONLY <1>2, <2>1 DEF L
<1>5. CASE ~(i <= L)
  <2>1. k \in 1..n /\ i = L + k BY ONLY <1>1, <1>3, <1>5
  <2> HIDE DEF k
  <2>2. sent_queue'[i] = blocks[k] BY ONLY <1>2, <2>1
  <2> QED BY ONLY <2>1, <2>2 DEF L
<1> QED BY <1>4, <1>5

\* The numbers of the new blocks continue the window.
LEMMA AppendedWindow ==
  ASSUME LinkInv, NEW n, NEW blocks, NEW end, Appended(n, blocks, end)
  PROVE  SentQueueIsWindow'
<1>a. \A i \in 1..Len(sent_queue') :
        \/ i \in 1..Len(sent_queue) /\ sent_queue'[i] = sent_queue[i]
        \/ \E k \in 1..n : i = Len(sent_queue) + k /\ sent_queue'[i] = blocks[k]
  BY ONLY LinkInv, Appended(n, blocks, end), AppendedIndex
<1> DEFINE L == Len(sent_queue)
<1>1. /\ L \in Nat /\ Len(sent_queue') = L + n /\ n \in Nat /\ send_seq \in Nat
      /\ receive_seq \in Nat /\ L = send_seq - receive_seq
      /\ send_seq' = send_seq + n /\ receive_seq' = receive_seq
      /\ send_seq + n - receive_seq <= MaxPending
  BY AppendedQueue, Zenon DEF Appended
<1>2. \A x \in 1..L : sent_queue[x].seq = receive_seq + x - 1
  BY DEF LinkInv, ContentInv, SentQueueIsWindow
<1>3. \A x \in 1..n : blocks[x].seq = send_seq + x - 1 BY DEF Appended
<1>4. ASSUME NEW i \in 1..Len(sent_queue')
      PROVE  sent_queue'[i].seq = receive_seq' + i - 1
  <2>1. CASE i \in 1..L /\ sent_queue'[i] = sent_queue[i]
    BY ONLY <1>1, <1>2, <2>1
  <2>2. ASSUME NEW k \in 1..n, i = L + k, sent_queue'[i] = blocks[k]
        PROVE  sent_queue'[i].seq = receive_seq' + i - 1
    <3> HIDE DEF L
    <3>1. blocks[k].seq = send_seq + k - 1 BY ONLY <1>3, k \in 1..n
    <3>2. k \in Nat BY ONLY <1>1, k \in 1..n
    <3> QED BY ONLY <1>1, <2>2, <3>1, <3>2
  <2> QED BY <1>a, <2>1, <2>2
<1> HIDE DEF L
<1>5. Len(sent_queue') = send_seq' - receive_seq' /\ Len(sent_queue') <= MaxPending
  BY ONLY <1>1, Constants
<1> QED BY ONLY <1>4, <1>5 DEF SentQueueIsWindow

\* The new blocks carry the next commands, in order, none of them empty.
LEMMA AppendedContent ==
  ASSUME LinkInv, NEW n, NEW blocks, NEW end, Appended(n, blocks, end)
  PROVE  ContentInv' /\ FirstUnacked' = FirstUnacked /\ FirstUnacked \in Nat
<1>a. \A i \in 1..Len(sent_queue') :
        \/ i \in 1..Len(sent_queue) /\ sent_queue'[i] = sent_queue[i]
        \/ \E k \in 1..n : i = Len(sent_queue) + k /\ sent_queue'[i] = blocks[k]
  BY ONLY LinkInv, Appended(n, blocks, end), AppendedIndex
<1> DEFINE q == sent_queue
           p == sent_queue'
           L == Len(sent_queue)
<1>1. /\ L \in Nat /\ Len(p) = L + n /\ n \in Nat /\ taken \in Nat /\ submitted \in Nat
      /\ need_ack_bytes \in Nat /\ 1 <= receive_seq
  BY AppendedQueue, Zenon DEF Appended
<1>2. /\ q = <<>> <=> L = 0
      /\ p = <<>> <=> L + n = 0
      /\ \A i \in 1..L : p[i] = q[i]
      /\ \A k \in 1..n : p[L + k] = blocks[k]
  BY AppendedQueue
<1>3. \A i \in 1..L : q[i].first \in Nat /\ q[i].last \in Nat BY AppendedQueue
<1>4. /\ taken' = end /\ need_ack_bytes' = need_ack_bytes + (end - taken)
      /\ submitted' = submitted /\ receive_seq' = receive_seq
      /\ taken <= end /\ end <= submitted /\ end \in Nat
      /\ n = 0 => end = taken
      /\ n > 0 => blocks[1].first = taken + 1 /\ blocks[n].last = end
  BY DEF Appended
<1>5. \A k \in 1..n :
        /\ taken < blocks[k].first /\ blocks[k].first <= blocks[k].last
        /\ blocks[k].last <= end /\ Size(blocks[k]) <= BlockMax
        /\ blocks[k].first \in Nat /\ blocks[k].last \in Nat
  BY DEF Appended
<1>6. /\ \A k \in 1..(n - 1) : blocks[k + 1].first = blocks[k].last + 1
      /\ \A i, j \in 1..n : i < j => blocks[i].last < blocks[j].first
  BY Zenon DEF Appended
<1>7. /\ \A i \in 1..L : /\ 1 <= q[i].first /\ q[i].first <= q[i].last
                         /\ q[i].last <= taken /\ Size(q[i]) <= BlockMax
      /\ (q # <<>> => q[L].last = taken)
      /\ need_ack_bytes = taken + 1 - FirstUnacked
  BY DEF LinkInv, ContentInv
<1>8. /\ \A i \in 1..(L - 1) : q[i + 1].first = q[i].last + 1
      /\ \A i, j \in 1..L : i < j => q[i].last < q[j].first
  BY DEF LinkInv, ContentInv
<1>9. /\ FirstUnacked = IF q = <<>> THEN taken + 1 ELSE q[1].first
      /\ FirstUnacked' = IF p = <<>> THEN taken' + 1 ELSE p[1].first
  BY DEF FirstUnacked
<1>10. SentQueueIsWindow' BY AppendedWindow
<1>11. \A i \in 1..Len(p) : \/ i \in 1..L /\ p[i] = q[i]
                            \/ \E k \in 1..n : i = L + k /\ p[i] = blocks[k]
  BY ONLY <1>a
<1> HIDE DEF q, p, L
<1>12. FirstUnacked' = FirstUnacked /\ FirstUnacked \in Nat
  <2>1. CASE L = 0 /\ n = 0 BY ONLY <1>1, <1>2, <1>4, <1>9, <2>1
  <2>2. CASE L = 0 /\ n > 0
    <3>1. 1 \in 1..n /\ L + 1 = 1 /\ p # <<>> /\ q = <<>> BY ONLY <1>1, <1>2, <2>2
    <3>2. p[1] = blocks[1] BY ONLY <1>2, <3>1
    <3> QED BY ONLY <1>1, <1>4, <1>9, <2>2, <3>1, <3>2
  <2>3. CASE L # 0
    <3>1. 1 \in 1..L /\ p # <<>> /\ q # <<>> BY ONLY <1>1, <1>2, <2>3
    <3> QED BY ONLY <1>2, <1>3, <1>9, <3>1
  <2> QED BY ONLY <1>1, <2>1, <2>2, <2>3
<1>13. 1 <= receive_seq' /\ taken' <= submitted'
       /\ need_ack_bytes' = taken' + 1 - FirstUnacked'
  BY ONLY <1>1, <1>4, <1>7, <1>12
<1>14. ASSUME NEW i \in 1..Len(p)
       PROVE  /\ 1 <= p[i].first /\ p[i].first <= p[i].last
              /\ p[i].last <= taken' /\ Size(p[i]) <= BlockMax
  <2>1. CASE i \in 1..L /\ p[i] = q[i]
    <3>1. q[i].last <= taken' BY ONLY <1>1, <1>3, <1>4, <1>7, <2>1
    <3> QED BY ONLY <1>7, <2>1, <3>1
  <2>2. ASSUME NEW k \in 1..n, p[i] = blocks[k]
        PROVE  /\ 1 <= p[i].first /\ p[i].first <= p[i].last
               /\ p[i].last <= taken' /\ Size(p[i]) <= BlockMax
    <3>1. 1 <= blocks[k].first BY ONLY <1>1, <1>5, k \in 1..n
    <3> QED BY ONLY <1>4, <1>5, k \in 1..n, <2>2, <3>1
  <2> QED BY <1>11, <2>1, <2>2
<1>15. ASSUME NEW i \in 1..(Len(p) - 1)
       PROVE  p[i + 1].first = p[i].last + 1
  <2>1. i \in Nat /\ 1 <= i /\ i + 1 <= L + n BY ONLY <1>1, i \in 1..(Len(p) - 1)
  <2>2. CASE i + 1 <= L
    <3>1. i \in 1..L /\ i + 1 \in 1..L /\ i \in 1..(L - 1) BY ONLY <1>1, <2>1, <2>2
    <3> QED BY ONLY <1>2, <1>8, <3>1
  <2>3. CASE i = L
    <3>1. i \in 1..L /\ 1 \in 1..n /\ q # <<>> /\ n > 0
      BY ONLY <1>1, <1>2, <2>1, <2>3
    <3>2. p[L + 1] = blocks[1] /\ p[i] = q[L] BY ONLY <1>2, <2>3, <3>1
    <3> QED BY ONLY <1>4, <1>7, <2>3, <3>1, <3>2
  <2>4. CASE L < i
    <3> DEFINE k == i - L
    <3>1. /\ k \in 1..(n - 1) /\ k \in 1..n /\ k + 1 \in 1..n
          /\ i = L + k /\ i + 1 = L + (k + 1)
      BY ONLY <1>1, <2>1, <2>4
    <3> HIDE DEF k
    <3>2. p[i] = blocks[k] /\ p[i + 1] = blocks[k + 1] BY ONLY <1>2, <3>1
    <3> QED BY ONLY <1>6, <3>1, <3>2
  <2> QED BY ONLY <1>1, <2>1, <2>2, <2>3, <2>4
<1>16. ASSUME NEW i \in 1..Len(p), NEW j \in 1..Len(p), i < j
       PROVE  p[i].last < p[j].first
  <2>1. i \in Nat /\ j \in Nat /\ 1 <= i /\ i < j /\ j <= L + n
    BY ONLY <1>1, <1>16, i \in 1..Len(p), j \in 1..Len(p)
  <2>2. CASE j <= L
    <3>1. i \in 1..L /\ j \in 1..L BY ONLY <1>1, <2>1, <2>2
    <3> QED BY ONLY <1>2, <1>8, <1>16, <3>1
  <2>3. CASE i <= L /\ ~(j <= L)
    <3> DEFINE k == j - L
    <3>1. i \in 1..L /\ k \in 1..n /\ j = L + k BY ONLY <1>1, <2>1, <2>3
    <3> HIDE DEF k
    <3>2. p[i] = q[i] /\ p[j] = blocks[k] BY ONLY <1>2, <3>1
    <3>3. q[i].last <= taken /\ taken < blocks[k].first /\ q[i].last \in Nat
          /\ blocks[k].first \in Nat
      BY ONLY <1>3, <1>5, <1>7, <3>1
    <3> QED BY ONLY <1>1, <3>2, <3>3
  <2>4. CASE ~(i <= L)
    <3> DEFINE k == i - L
               m == j - L
    <3>1. k \in 1..n /\ m \in 1..n /\ k < m /\ i = L + k /\ j = L + m
      BY ONLY <1>1, <2>1, <2>4
    <3> HIDE DEF k, m
    <3>2. p[i] = blocks[k] /\ p[j] = blocks[m] BY ONLY <1>2, <3>1
    <3> QED BY ONLY <1>6, <3>1, <3>2
  <2> QED BY <2>2, <2>3, <2>4
<1>17. ASSUME p # <<>> PROVE p[Len(p)].last = taken'
  <2>1. CASE n = 0
    <3>1. L \in 1..L /\ Len(p) = L /\ q # <<>> BY ONLY <1>1, <1>2, <1>17, <2>1
    <3> QED BY ONLY <1>2, <1>4, <1>7, <2>1, <3>1, Zenon
  <2>2. CASE n > 0
    <3>1. n \in 1..n BY ONLY <1>1, <2>2
    <3> QED BY ONLY <1>1, <1>2, <1>4, <2>2, <3>1
  <2> QED BY ONLY <1>1, <2>1, <2>2
<1> QED BY ONLY <1>10, <1>12, <1>13, <1>14, <1>15, <1>16, <1>17 DEF ContentInv, p

\* What the mcu runs next is not changed by blocks added at the end.
LEMMA AppendedLog ==
  ASSUME LinkInv, NEW n, NEW blocks, NEW end, Appended(n, blocks, end)
  PROVE  LogInv'
<1> DEFINE L == Len(sent_queue)
<1>1. /\ L \in Nat /\ n \in Nat /\ send_seq \in Nat /\ receive_seq \in Nat
      /\ next_sequence \in Nat /\ taken \in Nat /\ L = send_seq - receive_seq
  BY AppendedQueue, Zenon DEF Appended
<1>2. /\ next_sequence' = next_sequence /\ executed' = executed
      /\ is_shutdown' = is_shutdown /\ receive_seq' = receive_seq
      /\ send_seq' = send_seq + n /\ taken' = end
      /\ n = 0 => end = taken
      /\ n > 0 => blocks[1].first = taken + 1
  BY DEF Appended
<1>3. /\ \A i \in 1..L : sent_queue'[i] = sent_queue[i]
      /\ \A k \in 1..n : sent_queue'[L + k] = blocks[k]
  BY AppendedQueue
<1>4. LogInv /\ receive_seq <= next_sequence
      /\ (next_sequence > send_seq => executed = <<>>)
  BY DEF LinkInv, ExpectInv
<1> HIDE DEF L
<1>5. CASE next_sequence > send_seq
  BY ONLY <1>2, <1>4, <1>5 DEF LogInv, ExecutedOnceInOrder
<1>6. CASE next_sequence <= send_seq
  <2>1. NextFirst' = NextFirst
    <3>1. CASE next_sequence < send_seq
      <4> DEFINE k == next_sequence - receive_seq + 1
      <4>1. k \in 1..L /\ next_sequence < send_seq + n BY ONLY <1>1, <1>4, <3>1
      <4> HIDE DEF k
      <4>2. sent_queue'[k] = sent_queue[k] BY ONLY <1>3, <4>1
      <4> QED BY ONLY <1>2, <3>1, <4>1, <4>2 DEF NextFirst, Slot, k
    <3>2. CASE next_sequence = send_seq /\ n = 0
      <4>1. ~(next_sequence < send_seq) /\ ~(next_sequence < send_seq + n)
        BY ONLY <1>1, <3>2
      <4> QED BY ONLY <1>2, <3>2, <4>1 DEF NextFirst
    <3>3. CASE next_sequence = send_seq /\ n > 0
      <4>1. /\ ~(next_sequence < send_seq) /\ next_sequence < send_seq + n
            /\ 1 \in 1..n /\ next_sequence - receive_seq + 1 = L + 1
        BY ONLY <1>1, <3>3
      <4>2. sent_queue'[L + 1] = blocks[1] BY ONLY <1>3, <4>1
      <4>3. NextFirst' = blocks[1].first BY ONLY <1>2, <4>1, <4>2 DEF NextFirst, Slot
      <4> QED BY ONLY <1>2, <3>3, <4>1, <4>3 DEF NextFirst
    <3> QED BY ONLY <1>1, <1>6, <3>1, <3>2, <3>3
  <2> QED BY ONLY <1>2, <1>4, <2>1 DEF LogInv, ExecutedOnceInOrder
<1> QED BY ONLY <1>1, <1>5, <1>6

\* The new blocks follow the old ones on the line.
LEMMA AppendedLine ==
  ASSUME LinkInv, NEW n, NEW blocks, NEW end, Appended(n, blocks, end),
         h2m' = h2m \o Frames(blocks)
  PROVE  h2m' \in Seq(Block) /\ LineInv'
<1> DEFINE L == Len(sent_queue)
<1>1. /\ L \in Nat /\ n \in Nat /\ send_seq \in Nat /\ receive_seq \in Nat
      /\ next_sequence \in Nat /\ L = send_seq - receive_seq /\ 1 <= receive_seq
      /\ send_seq + n - receive_seq <= MaxPending
  BY AppendedQueue, Zenon DEF Appended
<1>2. h2m \in Seq(Block) /\ Len(h2m) \in Nat BY LenProperties DEF LinkInv, TypeOK
<1>3. /\ sent_queue' \in Seq(SentBlock) /\ Len(sent_queue') = L + n
      /\ \A i \in 1..L : sent_queue'[i] = sent_queue[i]
      /\ \A k \in 1..n : sent_queue'[L + k] = blocks[k]
  BY AppendedQueue
<1>4. /\ UNCHANGED <<receive_seq, next_sequence, last_ack_bytes, rx_head>>
      /\ send_seq' = send_seq + n /\ blocks \in Seq(SentBlock) /\ Len(blocks) = n
  BY DEF Appended
<1>5. next_sequence <= send_seq \/ next_sequence <= SeqMod
  BY <1>1 DEF LinkInv, ExpectInv
<1>6. \A k \in 1..Len(sent_queue') : sent_queue'[k].seq = receive_seq + k - 1
  BY <1>4, AppendedWindow DEF SentQueueIsWindow
<1> HIDE DEF L
<1>7. ASSUME NEW i \in 1..Len(h2m), h2m[i] # Garbage
      PROVE  GoodBlock(h2m, i, sent_queue', receive_seq, send_seq + n,
                       next_sequence, last_ack_bytes)
  <2>1. GoodBlock(h2m, i, sent_queue, receive_seq, send_seq, next_sequence,
                  last_ack_bytes)
    BY <1>7, LineGood
  <2>2. h2m[i] \in Block BY <1>2, ElementOfSeq
  <2>3. h2m[i].seq \in Nat BY ONLY <2>2 DEF Block
  <2>4. h2m[i].seq < send_seq BY ONLY <2>1 DEF GoodBlock
  <2>5. h2m[i].seq < send_seq + n BY ONLY <1>1, <2>3, <2>4
  <2> DEFINE k == h2m[i].seq - receive_seq + 1
  <2>6. receive_seq <= h2m[i].seq => k \in 1..L BY ONLY <1>1, <2>3, <2>4
  <2>7. receive_seq <= h2m[i].seq =>
          h2m[i].first = sent_queue[k].first /\ h2m[i].last = sent_queue[k].last
    BY ONLY <2>1 DEF GoodBlock
  <2> HIDE DEF k
  <2>8. receive_seq <= h2m[i].seq =>
          h2m[i].first = sent_queue'[k].first /\ h2m[i].last = sent_queue'[k].last
    BY ONLY <1>3, <2>6, <2>7
  <2> QED BY ONLY <2>1, <2>5, <2>8 DEF GoodBlock, k
<1>8. LineOf(h2m, sent_queue', receive_seq, send_seq + n, next_sequence, last_ack_bytes)
  BY ONLY <1>2, <1>7 DEF LineOf
<1>9. /\ send_seq + n \in Nat /\ send_seq + n = receive_seq + Len(sent_queue')
      /\ Len(sent_queue') <= MaxPending /\ L + Len(blocks) = Len(sent_queue')
      /\ next_sequence <= send_seq + n \/ next_sequence <= SeqMod
  BY ONLY <1>1, <1>3, <1>4, <1>5, Constants
<1>10. \A i \in 1..Len(h2m) : h2m[i].seq < receive_seq + MaxPending BY LineSeqs
<1>11. \A k \in 1..Len(blocks) : blocks[k] = sent_queue'[L + k] BY ONLY <1>3, <1>4
<1>12. CanWrite(h2m, blocks, L, sent_queue', receive_seq, send_seq + n,
                next_sequence, last_ack_bytes)
  BY ONLY <1>1, <1>3, <1>4, <1>6, <1>8, <1>9, <1>10, <1>11 DEF CanWrite
<1>13. h2m' = h2m \o Frames(blocks) OBVIOUS
<1>14. /\ LineOf(h2m', sent_queue', receive_seq, send_seq + n, next_sequence,
                 last_ack_bytes)
       /\ Len(h2m') = Len(h2m) + Len(blocks)
       /\ \A i \in 1..Len(h2m) : h2m'[i] = h2m[i]
  BY ONLY <1>12, <1>13, FramesGood
<1>15. ASSUME NEW i \in 1..Len(h2m'), h2m'[i] # Garbage PROVE LineBlock(i)'
  <2>1. GoodBlock(h2m', i, sent_queue', receive_seq', send_seq', next_sequence',
                  last_ack_bytes')
    BY ONLY <1>4, <1>14, <1>15 DEF LineOf
  <2> QED BY ONLY <2>1 DEF GoodBlock, LineBlock, Slot
<1>16. h2m' \in Seq(Block) BY ONLY <1>14 DEF LineOf
<1>17. ASSUME rx_head # "wire"
       PROVE  h2m' # <<>> /\ h2m'[1] = h2m[1] /\ h2m[1] # Garbage
              /\ h2m[1].seq = next_sequence - 1
  <2>1. h2m # <<>> /\ h2m[1] # Garbage /\ h2m[1].seq = next_sequence - 1
    BY <1>17 DEF LinkInv, LineInv
  <2>2. 1 \in 1..Len(h2m) BY ONLY <1>2, <2>1, EmptySeq
  <2>3. Len(h2m') # 0 BY ONLY <1>1, <1>2, <1>4, <1>14, <2>2
  <2> QED BY ONLY <1>14, <1>16, <2>1, <2>2, <2>3, EmptySeq
<1> QED BY ONLY <1>4, <1>15, <1>16, <1>17 DEF LineInv, Garbage

\* check_send_command left room in the receive buffer for the blocks.
LEMMA AppendedBuffer ==
  ASSUME LinkInv, NEW n, NEW blocks, Appended(n, blocks, Lesser(taken + n * BlockMax, submitted)),
         \A k \in 0..(n - 1) : WindowOpen(k)
  PROVE  BufferInv'
<1> DEFINE end == Lesser(taken + n * BlockMax, submitted)
           w == IF last_ack_seq < receive_seq THEN last_ack_bytes ELSE 0
           P(k) == k * BlockMax
<1>1. /\ n \in Nat /\ send_seq \in Nat /\ receive_seq \in Nat
      /\ Len(sent_queue) = send_seq - receive_seq
      /\ sent_queue = <<>> <=> Len(sent_queue) = 0
  BY AppendedQueue, Zenon DEF Appended
<1>2. /\ taken \in Nat /\ submitted \in Nat /\ need_ack_bytes \in Nat
      /\ last_ack_bytes \in Nat /\ taken <= submitted
      /\ need_ack_bytes = taken + 1 - FirstUnacked
  BY DEF LinkInv, TypeOK, ContentInv
<1>3. /\ need_ack_bytes' = need_ack_bytes + (end - taken)
      /\ UNCHANGED <<receive_seq, last_ack_seq, last_ack_bytes>>
      /\ n = 0 => end = taken
  BY DEF Appended
<1>4. /\ last_ack_bytes <= BlockMax
      /\ ReceiveWindow # 0 => need_ack_bytes + w <= ReceiveWindow
  BY DEF LinkInv, BufferInv
<1>5. end = IF taken + P(n) <= submitted THEN taken + P(n) ELSE submitted
  BY DEF Lesser
<1>6. w \in Nat /\ w <= BlockMax BY ONLY <1>2, <1>4, BufferConstants
<1>7. ASSUME ReceiveWindow # 0, n > 0
      PROVE  \/ send_seq + (n - 1) <= receive_seq
             \/ need_ack_bytes + Lesser(P(n - 1), submitted - taken) + BlockMax + w
                  <= ReceiveWindow
  <2>1. n - 1 \in 0..(n - 1) BY ONLY <1>1, <1>7
  <2>2. WindowOpen(n - 1) BY <2>1
  <2> QED BY ONLY <1>7, <2>2 DEF WindowOpen
<1>8. n > 0 => P(n - 1) \in Nat /\ P(n) = P(n - 1) + BlockMax
  <2> SUFFICES ASSUME n > 0 PROVE P(n - 1) \in Nat /\ P(n) = P(n - 1) + BlockMax
    OBVIOUS
  <2>1. n - 1 \in Nat /\ (n - 1) + 1 = n BY ONLY <1>1, n > 0
  <2> DEFINE m == n - 1
  <2> HIDE DEF m
  <2>2. m \in Nat => (m + 1) * BlockMax = m * BlockMax + BlockMax /\ m * BlockMax \in Nat
    BY ONLY BufferConstants, MulSucc
  <2> QED BY ONLY <2>1, <2>2 DEF m
<1>9. P(1) = BlockMax BY ONLY BufferConstants
<1> HIDE DEF end, w, P
<1>10. ASSUME ReceiveWindow # 0 PROVE need_ack_bytes' + w <= ReceiveWindow
  <2>1. CASE n = 0 BY ONLY <1>2, <1>3, <1>4, <1>6, <1>10, <2>1, BufferConstants
  <2>2. CASE n > 0 /\ send_seq + (n - 1) <= receive_seq
    <3>1. n = 1 /\ sent_queue = <<>> BY <1>1, <2>2
    <3>2. need_ack_bytes = 0 BY ONLY <1>2, <3>1 DEF FirstUnacked
    <3>3. end - taken <= BlockMax
      BY ONLY <1>2, <1>5, <1>9, <3>1, BufferConstants
    <3>4. end \in Nat BY ONLY <1>2, <1>5, <1>9, <3>1, BufferConstants
    <3> QED BY ONLY <1>2, <1>3, <1>6, <1>10, <3>2, <3>3, <3>4, BufferConstants
  <2>3. CASE n > 0 /\ need_ack_bytes + Lesser(P(n - 1), submitted - taken) + BlockMax + w
                        <= ReceiveWindow
    <3> DEFINE x == P(n - 1)
               y == Lesser(x, submitted - taken)
    <3>1. y = IF x <= submitted - taken THEN x ELSE submitted - taken BY DEF Lesser
    <3>2. x \in Nat /\ P(n) = x + BlockMax BY <1>8, <2>3
    <3>3. need_ack_bytes + y + BlockMax + w <= ReceiveWindow BY <2>3
    <3> HIDE DEF x, y
    <3>4. y \in Int /\ end \in Nat /\ end - taken <= y + BlockMax
      BY ONLY <1>2, <1>5, <3>1, <3>2, BufferConstants
    <3> QED BY ONLY <1>2, <1>3, <1>6, <3>3, <3>4, BufferConstants
  <2> QED BY ONLY <1>1, <1>7, <1>10, <2>1, <2>2, <2>3
<1> QED BY ONLY <1>3, <1>4, <1>10 DEF BufferInv, w

\* No nak was received for the new blocks.
LEMMA AppendedNaks ==
  ASSUME LinkInv, NEW n, NEW blocks, NEW end, Appended(n, blocks, end)
  PROVE  \A i \in 1..Len(sent_queue') :
           /\ sent_queue'[i].naks <= 2
           /\ sent_queue'[i].naks >= 1 => sent_queue'[i].seq < retransmit_seq'
           /\ sent_queue'[i].naks = 2 => sent_queue'[i].seq < ignore_nak_seq'
<1>a. \A i \in 1..Len(sent_queue') :
        \/ i \in 1..Len(sent_queue) /\ sent_queue'[i] = sent_queue[i]
        \/ \E k \in 1..n : i = Len(sent_queue) + k /\ sent_queue'[i] = blocks[k]
  BY ONLY LinkInv, Appended(n, blocks, end), AppendedIndex
<1>1. \A k \in 1..n : blocks[k].naks = 0 BY DEF Appended
<1>2. NakInv /\ UNCHANGED <<retransmit_seq, ignore_nak_seq>>
  BY DEF LinkInv, Appended
<1>3. ASSUME NEW i \in 1..Len(sent_queue')
      PROVE  /\ sent_queue'[i].naks <= 2
             /\ sent_queue'[i].naks >= 1 => sent_queue'[i].seq < retransmit_seq'
             /\ sent_queue'[i].naks = 2 => sent_queue'[i].seq < ignore_nak_seq'
  <2>1. CASE i \in 1..Len(sent_queue) /\ sent_queue'[i] = sent_queue[i]
    BY ONLY <1>2, <2>1 DEF NakInv, NakResendsBounded
  <2>2. CASE \E k \in 1..n : sent_queue'[i] = blocks[k]
    <3>1. sent_queue'[i].naks = 0 BY ONLY <1>1, <2>2, Zenon
    <3>2. 0 <= 2 /\ ~(0 >= 1) /\ 0 # 2 OBVIOUS
    <3> QED BY ONLY <3>1, <3>2, Zenon
  <2> QED BY ONLY <1>a, <2>1, <2>2, Zenon
<1> QED BY <1>3

\* command_event builds blocks from the waiting commands and sends them.
LEMMA CommandEventInv == LinkInv /\ CommandEvent => LinkInv'
<1> SUFFICES ASSUME LinkInv, CommandEvent PROVE LinkInv'
  OBVIOUS
<1>1. PICK n \in 0..MaxPending :
        LET blocks == [k \in 1..n |-> Built(k)]
            last == Lesser(taken + n * BlockMax, submitted)
        IN
        /\ \A k \in 0..(n - 1) : WindowOpen(k) /\ Ready(k)
        /\ need_kick' = (need_kick \/ WindowOpen(n))
        /\ taken' = last
        /\ send_seq' = send_seq + n
        /\ sent_queue' = sent_queue \o blocks
        /\ need_ack_bytes' = need_ack_bytes + (last - taken)
        /\ h2m' = h2m \o Frames(blocks)
        /\ notify_queue' = notify_queue \cup
             UNION {{[cmd |-> c, seq |-> blocks[k].seq] :
                       c \in NotifyCmds \cap (blocks[k].first .. blocks[k].last)}
                    : k \in 1..n}
        /\ retransmit_timer' = IF sent_queue = <<>> /\ n > 0
                               THEN "armed" ELSE retransmit_timer
        /\ rtt_sample_seq' = IF rtt_sample_seq = 0 /\ n > 0
                             THEN send_seq ELSE rtt_sample_seq
  BY Zenon DEF CommandEvent
<1> DEFINE blocks == [k \in 1..n |-> Built(k)]
           end == Lesser(taken + n * BlockMax, submitted)
<1>2. /\ UNCHANGED <<submitted, kicked, receive_seq, last_ack_seq, last_ack_bytes,
                     ignore_nak_seq, retransmit_seq, last_receive_sent, completed,
                     mcuVars, m2h, faults>>
      /\ command_timer' = "never"
  BY DEF CommandEvent
<1>3. /\ taken' = end /\ send_seq' = send_seq + n /\ sent_queue' = sent_queue \o blocks
      /\ need_ack_bytes' = need_ack_bytes + (end - taken)
      /\ \A k \in 0..(n - 1) : WindowOpen(k) /\ Ready(k)
  BY ONLY <1>1
<1>4. /\ h2m' = h2m \o Frames(blocks) /\ need_kick' = (need_kick \/ WindowOpen(n))
  BY ONLY <1>1
<1>5. /\ retransmit_timer' = IF sent_queue = <<>> /\ n > 0
                             THEN "armed" ELSE retransmit_timer
      /\ rtt_sample_seq' = IF rtt_sample_seq = 0 /\ n > 0
                           THEN send_seq ELSE rtt_sample_seq
  BY ONLY <1>1
<1>6. notify_queue' = notify_queue \cup
        UNION {{[cmd |-> c, seq |-> blocks[k].seq] :
                  c \in NotifyCmds \cap (blocks[k].first .. blocks[k].last)}
               : k \in 1..n}
  BY ONLY <1>1
<1>7. Appended(n, blocks, end)
  <2>1. send_seq + n - receive_seq <= MaxPending
    <3>1. send_seq \in Nat /\ receive_seq \in Nat /\ MaxPending \in Nat /\ n \in Nat
          /\ send_seq - receive_seq <= MaxPending
      BY Constants DEF LinkInv, TypeOK, ContentInv, SentQueueIsWindow
    <3>2. CASE n = 0 BY ONLY <3>1, <3>2
    <3>3. CASE n > 0
      <4>1. n - 1 \in 0..(n - 1) BY ONLY <3>1, <3>3
      <4>2. WindowOpen(n - 1) BY ONLY <1>3, <4>1
      <4>3. send_seq + (n - 1) - receive_seq < MaxPending BY ONLY <4>2 DEF WindowOpen
      <4> QED BY ONLY <3>1, <4>3
    <3> QED BY ONLY <3>1, <3>2, <3>3
  <2>2. UNCHANGED <<submitted, receive_seq, last_ack_seq, last_ack_bytes,
                    ignore_nak_seq, retransmit_seq, next_sequence, executed,
                    is_shutdown, rx_head, m2h>>
    BY ONLY <1>2 DEF mcuVars
  <2>3. LinkInv /\ n \in 0..MaxPending OBVIOUS
  <2>4. LET bs == [k \in 1..n |-> Built(k)]
            e == Lesser(taken + n * BlockMax, submitted)
        IN  /\ bs \in Seq(SentBlock) /\ Len(bs) = n /\ n \in Nat
            /\ taken <= e /\ e <= submitted /\ e \in Nat
            /\ n = 0 => e = taken
            /\ \A k \in 1..n :
                 /\ bs[k].seq = send_seq + k - 1 /\ bs[k].naks = 0
                 /\ taken < bs[k].first /\ bs[k].first <= bs[k].last
                 /\ bs[k].last <= e /\ Size(bs[k]) <= BlockMax
                 /\ bs[k].first \in Nat /\ bs[k].last \in Nat
            /\ n > 0 => bs[1].first = taken + 1 /\ bs[n].last = e
            /\ \A k \in 1..(n - 1) : bs[k + 1].first = bs[k].last + 1
            /\ \A i, j \in 1..n : i < j => bs[i].last < bs[j].first
    BY ONLY <1>3, <2>3, BuiltBlocks, Zenon
  <2> HIDE DEF blocks, end
  <2> QED BY ONLY <1>3, <2>1, <2>2, <2>4, Zenon DEF Appended, blocks, end
<1>8. ContentInv' /\ LogInv' BY <1>7, AppendedContent, AppendedLog, Zenon
<1>9. h2m' \in Seq(Block) /\ LineInv' BY <1>4, <1>7, AppendedLine, Zenon
<1>10. BufferInv' BY <1>3, <1>7, AppendedBuffer, Zenon
<1> HIDE DEF blocks, end
<1>11. /\ send_seq \in Nat /\ n \in Nat /\ next_sequence \in Nat /\ taken \in Nat
       /\ end \in Nat /\ taken <= end /\ need_ack_bytes \in Nat
       /\ Len(sent_queue) \in Nat
       /\ sent_queue = <<>> <=> Len(sent_queue) = 0
       /\ sent_queue' = <<>> <=> Len(sent_queue) + n = 0
  BY <1>7, AppendedQueue, Zenon DEF Appended
<1>12. ExpectInv' /\ ResponseInv'
  <2>1. ResponseInv' BY <1>2 DEF LinkInv, ResponseInv, mcuVars
  <2>2. next_sequence > send_seq + n => next_sequence > send_seq BY ONLY <1>11
  <2>3. ExpectInv BY DEF LinkInv
  <2>4. ExpectInv' BY ONLY <1>2, <1>3, <2>2, <2>3 DEF ExpectInv, mcuVars
  <2> QED BY <2>1, <2>4
<1>13. NakInv'
  <2>1. NakInv BY DEF LinkInv
  <2>4. \A i \in 1..Len(sent_queue') :
          /\ sent_queue'[i].naks <= 2
          /\ sent_queue'[i].naks >= 1 => sent_queue'[i].seq < retransmit_seq'
          /\ sent_queue'[i].naks = 2 => sent_queue'[i].seq < ignore_nak_seq'
    BY <1>7, AppendedNaks, Zenon
  <2>5. RetransmitTimerArmed'
    BY ONLY <1>5, <1>11, <2>1 DEF RetransmitTimerArmed, NakInv
  <2>6. retransmit_seq' <= send_seq'
    <3>1. retransmit_seq \in Nat /\ retransmit_seq <= send_seq
      BY DEF LinkInv, NakInv, TypeOK
    <3> QED BY ONLY <1>2, <1>3, <1>11, <3>1
  <2>7. retransmit_timer' = "now" => ignore_nak_seq' < receive_seq'
    BY ONLY <1>2, <1>5, <2>1 DEF NakInv
  <2> QED BY ONLY <2>4, <2>5, <2>6, <2>7 DEF NakInv, NakResendsBounded
<1>14. TypeOK'
  <2>a. TypeOK BY DEF LinkInv
  <2>1. taken' \in Nat /\ send_seq' \in Nat /\ need_ack_bytes' \in Nat
    BY ONLY <1>3, <1>11
  <2>2. need_kick' \in BOOLEAN BY ONLY <1>4
  <2>3. rtt_sample_seq' \in Nat BY ONLY <2>a, <1>5 DEF TypeOK
  <2>4. retransmit_timer' \in {"never", "now", "armed"} BY ONLY <2>a, <1>5 DEF TypeOK
  <2>5. notify_queue' \subseteq [cmd : Nat, seq : Nat]
    <3>1. \A k \in 1..n : blocks[k].seq \in Nat
      <4>1. blocks \in Seq(SentBlock) /\ Len(blocks) = n BY ONLY <1>7 DEF Appended
      <4>2. \A k \in 1..n : blocks[k] \in SentBlock BY ONLY <4>1, ElementOfSeq
      <4> QED BY ONLY <4>2 DEF SentBlock
    <3>2. NotifyCmds \subseteq Nat BY BoundsAssumption
    <3>3. notify_queue \subseteq [cmd : Nat, seq : Nat] BY ONLY <2>a DEF TypeOK
    <3> QED BY ONLY <1>6, <3>1, <3>2, <3>3
  <2>6. sent_queue' \in Seq(SentBlock) BY <1>7, AppendedQueue, Zenon
  <2> QED BY ONLY <2>a, <1>2, <1>9, <2>1, <2>2, <2>3, <2>4, <2>5, <2>6
          DEF TypeOK, mcuVars
<1> QED BY ONLY <1>8, <1>9, <1>10, <1>12, <1>13, <1>14 DEF LinkInv
=============================================================================
