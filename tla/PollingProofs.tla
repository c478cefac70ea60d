---------------------------- MODULE PollingProofs ----------------------------
(***************************************************************************)
(* Proofs about PollingClient, for every memory size, burst length, depth  *)
(* and set of transfers: its types, one acknowledgement per burst, and     *)
(* that polling returns whole reads in the order they were sent.           *)
(***************************************************************************)
EXTENDS PollingClient, ConvProofs

-----------------------------------------------------------------------------
(* The bursts of a transfer                                                *)

\* A transfer is made of good payloads of its direction, at least one.
LEMMA BurstsGood ==
  ASSUME NEW t \in Transfers
  PROVE  /\ Bursts(t) \in Seq(Payload) /\ Len(Bursts(t)) \in Nat \ {0}
         /\ GoodPayloads(Bursts(t))
         /\ \A j \in 1 .. Len(Bursts(t)) : Bursts(t)[j].is_write = t.is_write
<1> DEFINE n == Len(t.data)
           N == num_subreq(n, t.is_write)
<1>1. /\ t.is_write \in BOOLEAN /\ t.addr \in Nat /\ t.data \in Seq(Byte)
      /\ t.strobe \in Seq(BOOLEAN)
      /\ t.is_write => Len(t.strobe) = n
      /\ t.addr + n <= MemSize /\ ~ MisalignedStrobe(n, t.is_write)
      /\ n > 0
  BY ClientConstants DEF Transfer
<1>2. n \in Nat \ {0}
  <2>1. n \in Nat
    BY <1>1, LenProperties
  <2> QED BY <1>1, <2>1
<1>3. t.is_write => t.data \in [1 .. n -> Byte] /\ t.strobe \in [1 .. n -> BOOLEAN]
  <2>1. t.data \in [1 .. n -> Byte] /\ t.strobe \in [1 .. Len(t.strobe) -> BOOLEAN]
    BY <1>1, LenProperties
  <2> HIDE DEF n
  <2> QED BY <1>1, <2>1
<1>4. N \in Nat \ {0}
  BY <1>1, <1>2, EqualPieces
<1> HIDE DEF n
<1>5. ASSUME NEW j \in 1 .. N
      PROVE  /\ GoodPayload(SubPayload(j - 1, t.addr, n, t.is_write, t.data, t.strobe))
             /\ SubPayload(j - 1, t.addr, n, t.is_write, t.data, t.strobe).is_write = t.is_write
  <2>1. PICK i \in 0 .. num_subreq(n, t.is_write) - 1 : i = j - 1
    BY <1>4
  <2>2. /\ GoodPayload(SubPayload(i, t.addr, n, t.is_write, t.data, t.strobe))
        /\ SubPayload(i, t.addr, n, t.is_write, t.data, t.strobe).is_write = t.is_write
    BY <1>1, <1>2, <1>3, SubPayloadGood
  <2> QED BY <2>1, <2>2
<1> DEFINE p(j) == SubPayload(j - 1, t.addr, n, t.is_write, t.data, t.strobe)
<1>6. Bursts(t) = [j \in 1 .. N |-> p(j)]
  BY DEF Bursts, n
<1>7. \A j \in 1 .. N : GoodPayload(p(j)) /\ p(j).is_write = t.is_write /\ p(j) \in Payload
  BY <1>5 DEF GoodPayload
<1> HIDE DEF p, N
<1>8. Len(Bursts(t)) = N /\ Bursts(t) \in Seq(Payload)
  BY <1>4, <1>6, <1>7
<1>9. \A j \in 1 .. N : Bursts(t)[j] = p(j)
  BY <1>6
<1> QED BY <1>4, <1>7, <1>8, <1>9 DEF GoodPayloads

\* The bursts of a write store it.
LEMMA BurstsStore ==
  ASSUME NEW t \in Transfers, t.is_write, NEW m \in Memory
  PROVE  /\ Store(m, t) \in Memory
         /\ \E es : Trace(Bursts(t), m, Store(m, t), es)
<1> DEFINE n == Len(t.data)
           N == num_subreq(n, t.is_write)
           l == sub_len(n, t.is_write)
<1>1. /\ t.is_write \in BOOLEAN /\ t.addr \in Nat /\ t.data \in Seq(Byte)
      /\ ~ MisalignedStrobe(n, t.is_write) /\ n > 0
  BY ClientConstants DEF Transfer
<1>2. n \in Nat \ {0}
  <2>1. n \in Nat
    BY <1>1, LenProperties
  <2> QED BY <1>1, <2>1
<1>3. N \in Nat \ {0} /\ l \in Nat \ {0} /\ l * N = n
  BY <1>1, <1>2, EqualPieces
<1>4. Len(Bursts(t)) = N
  BY <1>3 DEF Bursts
<1>5. ASSUME NEW j \in 1 .. N
      PROVE  /\ Bursts(t)[j].is_write /\ Bursts(t)[j].addr = t.addr + (j - 1) * l
             /\ Bursts(t)[j].len = l
             /\ \A k \in 1 .. l : /\ Bursts(t)[j].data[k] = t.data[(j - 1) * l + k]
                                  /\ Bursts(t)[j].strobe[k] = t.strobe[(j - 1) * l + k]
  <2>1. Bursts(t)[j] = SubPayload(j - 1, t.addr, n, t.is_write, t.data, t.strobe)
    BY DEF Bursts
  <2> HIDE DEF n, N
  <2>2. Bursts(t)[j] = [addr |-> t.addr + (j - 1) * l, len |-> l, is_write |-> t.is_write,
                        data |-> [k \in 1 .. l |-> t.data[(j - 1) * l + k]],
                        strobe |-> [k \in 1 .. l |-> t.strobe[(j - 1) * l + k]]]
    BY <2>1 DEF SubPayload
  <2> HIDE DEF l
  <2> QED BY <2>2
<1> HIDE DEF n, N, l
<1>6. Pieces(Bursts(t), t.addr, N, l, t.data, t.strobe)
  BY <1>4, <1>5 DEF Pieces
<1>7. \A i \in 1 .. l * N : t.data[i] \in Byte
  BY <1>1, <1>3, ElementOfSeq DEF n
<1>8. \E es : Trace(Bursts(t), m, StoreAt(m, t.addr, l * N, t.data, t.strobe), es)
  BY <1>1, <1>3, <1>6, <1>7, PiecesStore
<1>9. StoreAt(m, t.addr, n, t.data, t.strobe) = Store(m, t)
  <2>1. DOMAIN m = Addrs /\ MemSize \in Nat
    BY ConvConstants DEF Memory
  <2>2. \A x \in Addrs : x \in t.addr .. t.addr + n - 1 <=> x >= t.addr /\ x < t.addr + n
    BY <1>1, <1>2, <2>1 DEF Addrs
  <2> QED BY <2>1, <2>2 DEF StoreAt, Store, Written, Bytes, n
<1>10. \E es : Trace(Bursts(t), m, Store(m, t), es)
  BY <1>3, <1>8, <1>9
<1>11. Store(m, t) \in Memory
  <2>1. PICK es : Trace(Bursts(t), m, Store(m, t), es)
    BY <1>10
  <2>2. N + 1 \in 1 .. N + 1
    BY <1>3
  <2> QED BY <1>4, <2>1, <2>2 DEF Trace
<1> QED BY <1>10, <1>11

\* A read is a single payload, which fetches what it asks for.
LEMMA BurstsLoad ==
  ASSUME NEW t \in Transfers, ~ t.is_write, NEW m \in Memory
  PROVE  /\ Len(Bursts(t)) = 1 /\ Bits(m, Bursts(t)[1]) = Load(m, t)
         /\ Load(m, t) \in Seq(Byte) /\ Load(m, t) # << >>
<1> DEFINE n == Len(t.data)
<1>1. /\ t.is_write \in BOOLEAN /\ t.addr \in Nat /\ t.data \in Seq(Byte) /\ n > 0
      /\ t.addr + n <= MemSize
  BY ClientConstants DEF Transfer
<1>2. n \in Nat \ {0} /\ DOMAIN t.data = 1 .. n
  <2>1. n \in Nat /\ DOMAIN t.data = 1 .. n
    BY <1>1, LenProperties
  <2> QED BY <1>1, <2>1
<1>3. num_subreq(n, t.is_write) = 1 /\ sub_len(n, t.is_write) = n
  BY DEF num_subreq, sub_len, Splits
<1>4. /\ Len(Bursts(t)) = 1
      /\ Bursts(t)[1] = SubPayload(0, t.addr, n, t.is_write, t.data, t.strobe)
  BY <1>3 DEF Bursts
<1> HIDE DEF n
<1>5. Bursts(t)[1].addr = t.addr /\ Bursts(t)[1].len = n
  BY <1>1, <1>2, <1>3, <1>4 DEF SubPayload
<1>6. Load(m, t) = [k \in 1 .. n |-> m[t.addr + k - 1]]
  BY <1>2 DEF Load
<1>7. \A k \in 1 .. n : m[t.addr + k - 1] \in Byte
  <2>1. \A k \in 1 .. n : t.addr + k - 1 \in Addrs
    BY <1>1, <1>2, ConvConstants DEF Addrs
  <2> QED BY <2>1 DEF Memory
<1>8. Load(m, t) \in Seq(Byte) /\ Len(Load(m, t)) = n
  BY <1>2, <1>6, <1>7
<1>9. Load(m, t) # << >>
  BY <1>2, <1>8
<1> QED BY <1>4, <1>5, <1>6, <1>8, <1>9 DEF Bits

-----------------------------------------------------------------------------
(* The invariant of the client                                             *)

\* The bytes delivered are the reads done, end to end; the reads on their way
\* will deliver what the others want.
Delivering(done, want) ==
  /\ done \in Seq(Seq(Byte)) /\ want \in Seq(Seq(Byte)) /\ due = done \o want
  /\ \E off : Joined(done, read_rsp_queue, off)
  /\ Coming(want, amem)

WriteReqs == {e \in ReqT : e.is_write}

Acked ==
  owed = acks + Len(write_rsp_queue) + Len(write_req_list)
           + CountIn(all_req_list, WriteReqs)

ClientInv ==
  /\ pc \in {"idle", "match"}
  /\ rec \in Seq(Byte) /\ rec = wanted
  /\ due \in Seq(Seq(Byte)) /\ \A c \in 1 .. Len(due) : due[c] # << >>
  /\ sends \in 0 .. MaxSends /\ acks \in Nat /\ amem \in Memory
  /\ Acked
  /\ \E done, want : Delivering(done, want)

Inv == ConvInv /\ ClientInv

\* Both hold at the start.
LEMMA InitInv == Init => Inv
<1> SUFFICES ASSUME Init PROVE Inv
  OBVIOUS
<1>1. mem \in Memory /\ 0 \in Byte
  BY ConvConstants DEF Init, Memory
<1>2. ConvInv
  <2>1. \A K : CountIn(<< >>, K) = 0
    BY CountEmpty
  <2>2. \A S : << >> \in Seq(S) /\ Len(<< >>) = 0
    BY EmptySeq
  <2>3. ConvTypeOK
    BY <1>1, <2>2 DEF ConvTypeOK, Init, ConvInit, Memory
  <2> QED
    BY <2>1, <2>2, <2>3 DEF ConvInv, Init, ConvInit, GoodPayloads, Sent, Accounted, Totals
<1>3. Coming(<< >>, amem)
  BY <1>1, ComingInit DEF Init
<1>4. << >> \o << >> = << >>
  BY ConcatEmptySeq, EmptySeq
<1>5. Delivering(<< >>, << >>)
  <2>1. /\ due = << >> /\ read_rsp_queue = << >>
        /\ << >> \in Seq(Seq(Byte)) /\ << >> \in Seq(Byte)
    BY EmptySeq DEF Init, ConvInit
  <2>2. \E off : Joined(<< >>, << >>, off)
    BY <2>1, JoinedNone
  <2> QED BY <1>3, <1>4, <2>1, <2>2 DEF Delivering
<1>6. Acked
  <2>1. CountIn(all_req_list, WriteReqs) = 0
    BY CountEmpty DEF Init, ConvInit
  <2>2. /\ owed = 0 /\ acks = 0 /\ Len(write_rsp_queue) = 0 /\ Len(write_req_list) = 0
    BY DEF Init, ConvInit
  <2> QED BY <2>1, <2>2 DEF Acked
<1>7. /\ rec = << >> /\ wanted = << >> /\ due = << >> /\ sends = 0 /\ acks = 0
      /\ amem = mem /\ pc = "idle"
  BY DEF Init
<1>8. /\ << >> \in Seq(Byte) /\ << >> \in Seq(Seq(Byte)) /\ Len(<< >>) = 0
      /\ 0 \in 0 .. MaxSends
  BY ClientConstants, EmptySeq
<1>9. ClientInv
  BY <1>1, <1>5, <1>6, <1>7, <1>8 DEF ClientInv
<1> QED BY <1>2, <1>9 DEF Inv

\* A write is sent.
LEMMA SendWriteKeeps ==
  ASSUME Inv, NEW t \in Transfers, Send(t), t.is_write
  PROVE  Inv'
<1>1. /\ CanSend /\ dram_send_req(Bursts(t)) /\ sends' = sends + 1
      /\ amem' = Store(amem, t) /\ due' = due /\ owed' = owed + Len(Bursts(t))
      /\ UNCHANGED <<pc, rec, acks, wanted>>
  BY DEF Send
<1>2. ConvInv /\ ClientInv /\ amem \in Memory
  BY DEF Inv, ClientInv
<1>3. ConvInv'
  BY <1>1, <1>2, BurstsGood, SendKeeps
<1>4. PICK done, want : Delivering(done, want)
  BY <1>2 DEF ClientInv
<1>5. PICK es : Trace(Bursts(t), amem, amem', es)
  BY <1>1, <1>2, BurstsStore
<1>6. Coming(want, amem)'
  <2>1. \A j \in 1 .. Len(Bursts(t)) : Bursts(t)[j].is_write
    BY BurstsGood
  <2> QED BY <1>1, <1>2, <1>4, <1>5, <2>1, BurstsGood, ComingWrites DEF Delivering
<1>7. /\ all_req_list' = all_req_list \o [i \in 1 .. Len(Bursts(t)) |-> ReqOf(Bursts(t)[i])]
      /\ UNCHANGED <<read_rsp_queue, write_rsp_queue, write_req_list>>
  BY <1>1 DEF dram_send_req
<1>8. Delivering(done, want)'
  BY <1>1, <1>4, <1>6, <1>7 DEF Delivering
<1>9. CountIn(all_req_list, WriteReqs)' = CountIn(all_req_list, WriteReqs) + Len(Bursts(t))
  <2> DEFINE rs == [i \in 1 .. Len(Bursts(t)) |-> ReqOf(Bursts(t)[i])]
  <2>1. \A i \in 1 .. Len(Bursts(t)) : ReqOf(Bursts(t)[i]) \in WriteReqs
    BY BurstsGood, ElementOfSeq, ReqOfType DEF WriteReqs
  <2>2. /\ rs \in Seq(ReqT) /\ Len(rs) = Len(Bursts(t))
        /\ \A i \in 1 .. Len(rs) : rs[i] \in WriteReqs
    BY <2>1, BurstsGood DEF WriteReqs
  <2> HIDE DEF rs
  <2>3. CountIn(all_req_list \o rs, WriteReqs) = CountIn(all_req_list, WriteReqs) + Len(rs)
    BY <1>2, <2>2, CountJoin DEF ConvInv, ConvTypeOK
  <2> QED BY <1>7, <2>2, <2>3 DEF rs
<1>10. Acked'
  <2>1. CountIn(all_req_list, WriteReqs) \in Nat
    BY <1>2, CountType DEF ConvInv, ConvTypeOK
  <2>2. Len(write_rsp_queue) \in Nat /\ Len(write_req_list) \in Nat /\ acks \in Nat
    BY <1>2, LenProperties DEF ConvInv, ConvTypeOK, ClientInv
  <2>3. Len(Bursts(t)) \in Nat
    BY BurstsGood
  <2>4. owed = acks + Len(write_rsp_queue) + Len(write_req_list)
                 + CountIn(all_req_list, WriteReqs)
    BY <1>2 DEF ClientInv, Acked
  <2> QED BY <1>1, <1>7, <1>9, <2>1, <2>2, <2>3, <2>4 DEF Acked
<1>11. sends' \in 0 .. MaxSends
  BY <1>1, <1>2, ClientConstants DEF CanSend, ClientInv
<1>12. amem' \in Memory
  BY <1>1, <1>2, BurstsStore
<1>13. ClientInv'
  BY <1>1, <1>2, <1>8, <1>10, <1>11, <1>12 DEF ClientInv
<1> QED BY <1>3, <1>13 DEF Inv

\* A read is sent.
LEMMA SendReadKeeps ==
  ASSUME Inv, NEW t \in Transfers, Send(t), ~ t.is_write
  PROVE  Inv'
<1>0. PICK ps, d : ps = Bursts(t) /\ d = Load(amem, t)
  OBVIOUS
<1>1. /\ CanSend /\ dram_send_req(ps) /\ sends' = sends + 1
      /\ amem' = amem /\ due' = Append(due, d) /\ owed' = owed + 0
      /\ UNCHANGED <<pc, rec, acks, wanted>>
  BY <1>0 DEF Send
<1>2. ConvInv /\ ClientInv /\ amem \in Memory /\ due \in Seq(Seq(Byte))
  BY DEF Inv, ClientInv
<1>3. ConvInv'
  BY <1>0, <1>1, <1>2, BurstsGood, SendKeeps
<1>4. PICK done, want : Delivering(done, want)
  BY <1>2 DEF ClientInv
<1>5. /\ done \in Seq(Seq(Byte)) /\ want \in Seq(Seq(Byte)) /\ due = done \o want
      /\ Coming(want, amem)
  BY <1>4 DEF Delivering
<1>6. /\ ps \in Seq(Payload) /\ Len(ps) = 1 /\ \A j \in 1 .. Len(ps) : ~ ps[j].is_write
      /\ Bits(amem, ps[1]) = d /\ d \in Seq(Byte) /\ d # << >>
  BY <1>0, <1>2, BurstsGood, BurstsLoad
<1>7. /\ all_req_list' = all_req_list \o [i \in 1 .. Len(ps) |-> ReqOf(ps[i])]
      /\ UNCHANGED <<read_rsp_queue, write_rsp_queue, write_req_list>>
  BY <1>1 DEF dram_send_req
<1>8. Coming(want \o <<d>>, amem)'
  <2>1. /\ <<d>> \in Seq(Seq(Byte)) /\ Len(<<d>>) = 1
        /\ \A j \in 1 .. Len(ps) : <<d>>[j] = Bits(amem, ps[j])
    BY <1>6
  <2>2. PICK m : m = amem
    OBVIOUS
  <2>3. Coming(want \o <<d>>, m)'
    BY <1>1, <1>2, <1>5, <1>6, <2>1, <2>2, ComingReads
  <2>4. amem' = m
    BY <1>1, <2>2
  <2> QED BY <2>3, <2>4
<1>9. done \o (want \o <<d>>) = due'
  <2>1. <<d>> \in Seq(Seq(Byte))
    BY <1>6
  <2>2. Append(due, d) = due \o <<d>>
    BY <1>2, <1>6, AppendIsConcat
  <2> QED BY <1>1, <1>5, <2>1, <2>2, ConcatAssociative
<1>10. Delivering(done, want \o <<d>>)'
  <2>1. want \o <<d>> \in Seq(Seq(Byte))
    BY <1>5, <1>6, ConcatProperties
  <2>2. \E off : Joined(done, read_rsp_queue', off)
    BY <1>4, <1>7 DEF Delivering
  <2> HIDE DEF Joined
  <2>3. due' = done \o (want \o <<d>>)
    BY <1>9
  <2> QED BY <1>5, <1>8, <2>1, <2>2, <2>3 DEF Delivering
<1>11. CountIn(all_req_list, WriteReqs)' = CountIn(all_req_list, WriteReqs)
  <2> DEFINE rs == [i \in 1 .. Len(ps) |-> ReqOf(ps[i])]
  <2>1. \A i \in 1 .. Len(ps) : ReqOf(ps[i]) \in ReqT /\ ReqOf(ps[i]) \notin WriteReqs
    BY <1>6, ElementOfSeq, ReqOfType DEF WriteReqs
  <2>2. rs \in Seq(ReqT) /\ \A i \in 1 .. Len(rs) : rs[i] \notin WriteReqs
    BY <1>6, <2>1
  <2> HIDE DEF rs
  <2>3. CountIn(all_req_list \o rs, WriteReqs) = CountIn(all_req_list, WriteReqs)
    BY <1>2, <2>2, CountJoin DEF ConvInv, ConvTypeOK
  <2> QED BY <1>7, <2>3 DEF rs
<1>12. Acked'
  <2>1. CountIn(all_req_list, WriteReqs) \in Nat
    BY <1>2, CountType DEF ConvInv, ConvTypeOK
  <2>2. Len(write_rsp_queue) \in Nat /\ Len(write_req_list) \in Nat /\ acks \in Nat
    BY <1>2, LenProperties DEF ConvInv, ConvTypeOK, ClientInv
  <2>4. owed = acks + Len(write_rsp_queue) + Len(write_req_list)
                 + CountIn(all_req_list, WriteReqs)
    BY <1>2 DEF ClientInv, Acked
  <2> QED BY <1>1, <1>7, <1>11, <2>1, <2>2, <2>4 DEF Acked
<1>13. sends' \in 0 .. MaxSends
  BY <1>1, <1>2, ClientConstants DEF CanSend, ClientInv
<1>14. due' \in Seq(Seq(Byte)) /\ \A c \in 1 .. Len(due') : due'[c] # << >>
  <2>1. PICK n \in Nat : n = Len(due)
    BY <1>2, LenProperties
  <2>2. /\ due' \in Seq(Seq(Byte)) /\ Len(due') = n + 1 /\ due'[n + 1] = d
        /\ \A c \in 1 .. n : due'[c] = due[c]
    BY <1>1, <1>2, <1>6, <2>1, AppendProperties
  <2>3. \A c \in 1 .. n : due[c] # << >>
    BY <1>2, <2>1 DEF ClientInv
  <2>4. \A c \in 1 .. n + 1 : c \in 1 .. n \/ c = n + 1
    OBVIOUS
  <2> QED BY <1>6, <2>2, <2>3, <2>4
<1>15. ClientInv'
  BY <1>1, <1>2, <1>10, <1>12, <1>13, <1>14 DEF ClientInv
<1> QED BY <1>3, <1>15 DEF Inv

\* The first of two joined sequences is where the first element is.
LEMMA HeadOfJoin ==
  ASSUME NEW S, NEW a \in Seq(S), a # << >>, NEW b \in Seq(S)
  PROVE  /\ a \o b # << >> /\ Head(a \o b) = Head(a)
         /\ Tail(a \o b) = Tail(a) \o b
         /\ \A e \in S : [a \o b EXCEPT ![1] = e] = [a EXCEPT ![1] = e] \o b
<1>1. PICK m \in Nat, n \in Nat : m = Len(a) /\ n = Len(b) /\ m > 0
  <2>1. Len(a) \in Nat \ {0} /\ Len(b) \in Nat
    BY EmptySeq, LenProperties
  <2> QED BY <2>1
<1>2. PICK c : c = a \o b
  OBVIOUS
<1>3. /\ c \in Seq(S) /\ Len(c) = m + n
      /\ \A j \in 1 .. m + n : c[j] = IF j <= m THEN a[j] ELSE b[j - m]
  BY <1>1, <1>2, ConcatProperties
<1>4. c # << >> /\ Head(c) = Head(a)
  <2>1. c # << >> /\ 1 \in 1 .. m + n /\ 1 <= m
    BY <1>1, <1>3
  <2>2. c[1] = a[1]
    BY <1>3, <2>1
  <2> QED BY <2>1, <2>2, HeadTailProperties
<1>5. Tail(c) = Tail(a) \o b
  <2>1. PICK u : u = Tail(a)
    OBVIOUS
  <2>2. u \in Seq(S) /\ Len(u) = m - 1 /\ \A j \in 1 .. m - 1 : u[j] = a[j + 1]
    BY <1>1, <2>1, HeadTailProperties
  <2>3. /\ u \o b \in Seq(S) /\ Len(u \o b) = (m - 1) + n
        /\ \A j \in 1 .. (m - 1) + n : (u \o b)[j] = IF j <= m - 1 THEN u[j] ELSE b[j - (m - 1)]
    <3>1. /\ u \o b \in Seq(S) /\ Len(u \o b) = Len(u) + Len(b)
          /\ \A j \in 1 .. Len(u) + Len(b) :
               (u \o b)[j] = IF j <= Len(u) THEN u[j] ELSE b[j - Len(u)]
      BY <2>2, ConcatProperties
    <3>2. Len(u) = m - 1 /\ Len(b) = n
      BY <1>1, <2>2
    <3> QED BY <3>1, <3>2
  <2>4. /\ Tail(c) \in Seq(S) /\ Len(Tail(c)) = m + n - 1
        /\ \A j \in 1 .. m + n - 1 : Tail(c)[j] = c[j + 1]
    BY <1>3, <1>4, HeadTailProperties
  <2>5. ASSUME NEW j \in 1 .. m + n - 1 PROVE Tail(c)[j] = (u \o b)[j]
    <3>1. /\ j + 1 \in 1 .. m + n /\ j \in 1 .. (m - 1) + n
          /\ j + 1 <= m <=> j <= m - 1
          /\ (j + 1) - m = j - (m - 1)
      OBVIOUS
    <3>2. c[j + 1] = IF j + 1 <= m THEN a[j + 1] ELSE b[(j + 1) - m]
      BY <1>3, <3>1
    <3>3. j <= m - 1 => u[j] = a[j + 1]
      BY <2>2
    <3>4. (u \o b)[j] = IF j <= m - 1 THEN u[j] ELSE b[j - (m - 1)]
      BY <2>3, <3>1
    <3>5. Tail(c)[j] = c[j + 1]
      BY <2>4
    <3> QED BY <3>1, <3>2, <3>3, <3>4, <3>5
  <2>6. Len(u \o b) = Len(Tail(c))
    BY <1>1, <2>3, <2>4
  <2>7. Tail(c) = u \o b
    BY <2>3, <2>4, <2>5, <2>6, SeqEqual
  <2> QED BY <2>1, <2>7
<1>6. ASSUME NEW e \in S PROVE [c EXCEPT ![1] = e] = [a EXCEPT ![1] = e] \o b
  <2>1. PICK u, v : u = [a EXCEPT ![1] = e] /\ v = [c EXCEPT ![1] = e]
    OBVIOUS
  <2>2. u \in Seq(S) /\ Len(u) = m /\ \A j \in 1 .. m : u[j] = IF j = 1 THEN e ELSE a[j]
    <3>1. 1 \in 1 .. Len(a)
      BY <1>1
    <3> QED BY <1>1, <2>1, <3>1, ExceptSeq
  <2>3. v \in Seq(S) /\ Len(v) = m + n /\ \A j \in 1 .. m + n : v[j] = IF j = 1 THEN e ELSE c[j]
    <3>1. 1 \in 1 .. Len(c)
      BY <1>1, <1>3
    <3> QED BY <1>3, <2>1, <3>1, ExceptSeq
  <2>4. /\ u \o b \in Seq(S) /\ Len(u \o b) = m + n
        /\ \A j \in 1 .. m + n : (u \o b)[j] = IF j <= m THEN u[j] ELSE b[j - m]
    <3>1. /\ u \o b \in Seq(S) /\ Len(u \o b) = Len(u) + Len(b)
          /\ \A j \in 1 .. Len(u) + Len(b) :
               (u \o b)[j] = IF j <= Len(u) THEN u[j] ELSE b[j - Len(u)]
      BY <2>2, ConcatProperties
    <3>2. Len(u) = m /\ Len(b) = n
      BY <1>1, <2>2
    <3> QED BY <3>1, <3>2
  <2>5. \A j \in 1 .. m + n : v[j] = (u \o b)[j]
    <3> SUFFICES ASSUME NEW j \in 1 .. m + n PROVE v[j] = (u \o b)[j]
      OBVIOUS
    <3>1. j <= m => j \in 1 .. m
      OBVIOUS
    <3>2. j = 1 => j <= m
      BY <1>1
    <3>3. c[j] = IF j <= m THEN a[j] ELSE b[j - m]
      BY <1>3
    <3>4. (u \o b)[j] = IF j <= m THEN u[j] ELSE b[j - m]
      BY <2>4
    <3>5. v[j] = IF j = 1 THEN e ELSE c[j]
      BY <2>3
    <3>6. j <= m => u[j] = IF j = 1 THEN e ELSE a[j]
      BY <2>2, <3>1
    <3> QED BY <3>2, <3>3, <3>4, <3>5, <3>6
  <2>6. v = u \o b
    BY <2>3, <2>4, <2>5, SeqEqual
  <2> QED BY <2>1, <2>6
<1> QED BY <1>2, <1>4, <1>5, <1>6

\* Bytes that were delivered belong to a read that is done.
LEMMA DoneHead ==
  ASSUME Inv, read_rsp_queue # << >>, NEW done, NEW want, Delivering(done, want)
  PROVE  /\ done # << >> /\ due # << >> /\ Head(due) = Head(done)
         /\ Tail(due) = Tail(done) \o want
         /\ Head(done) \in Seq(Byte) /\ Head(done) # << >>
         /\ Head(done) = done[1]
<1>1. /\ done \in Seq(Seq(Byte)) /\ want \in Seq(Seq(Byte)) /\ due = done \o want
      /\ read_rsp_queue \in Seq(Byte)
  BY DEF Delivering, Inv, ConvInv, ConvTypeOK
<1>2. PICK off : Joined(done, read_rsp_queue, off)
  BY DEF Delivering
<1>3. done # << >>
  BY <1>1, <1>2, JoinedNone
<1>4. /\ due # << >> /\ Head(due) = Head(done) /\ Tail(due) = Tail(done) \o want
  <2>1. done \o want # << >> /\ Head(done \o want) = Head(done)
        /\ Tail(done \o want) = Tail(done) \o want
    <3>1. PICK S : S = Seq(Byte)
      OBVIOUS
    <3>2. done \in Seq(S) /\ want \in Seq(S)
      BY <1>1, <3>1
    <3> QED BY <1>3, <3>2, HeadOfJoin
  <2> QED BY <1>1, <2>1
<1>5. Head(due) # << >> /\ Head(due) = due[1]
  <2>1. due \in Seq(Seq(Byte)) /\ \A c \in 1 .. Len(due) : due[c] # << >>
    BY DEF Inv, ClientInv
  <2>2. 1 \in 1 .. Len(due)
    BY <1>4, <2>1, EmptySeq
  <2> QED BY <1>4, <2>1, <2>2, HeadTailProperties
<1> QED BY <1>1, <1>3, <1>4, <1>5, HeadTailProperties

\* The client takes a whole read.
LEMMA PollReadKeeps ==
  ASSUME Inv, PollRead
  PROVE  Inv'
<1>1. /\ read_rsp_queue # << >> /\ wanted' = Head(due) /\ due' = Tail(due)
      /\ rec' = [i \in 1 .. Len(Head(due)) |->
                   IF i <= Len(read_rsp_queue) THEN read_rsp_queue[i] ELSE 0]
      /\ read_rsp_queue' = Behind(read_rsp_queue, Len(Head(due)))
      /\ UNCHANGED <<all_req_list, read_req_list, write_req_list, out_order_rsp_list,
                     write_rsp_queue, inflight_read_cnt, dramVars, pc, sends, acks,
                     amem, owed>>
  BY DEF PollRead, GetReadRsp, dram_has_read_rsp, Drop, Behind
<1>2. ConvInv /\ ClientInv /\ read_rsp_queue \in Seq(Byte)
  BY DEF Inv, ConvInv, ConvTypeOK
<1>3. PICK done, want : Delivering(done, want)
  BY <1>2 DEF ClientInv
<1>4. /\ done \in Seq(Seq(Byte)) /\ want \in Seq(Seq(Byte)) /\ due = done \o want
      /\ Coming(want, amem)
  BY <1>3 DEF Delivering
<1>5. PICK off : Joined(done, read_rsp_queue, off)
  BY <1>3 DEF Delivering
<1>6. PICK d : d = Head(done)
  OBVIOUS
<1>7. /\ done # << >> /\ due # << >> /\ Head(due) = d /\ Tail(due) = Tail(done) \o want
      /\ d \in Seq(Byte) /\ d # << >>
  BY <1>1, <1>3, <1>6, DoneHead
<1>8. /\ Len(d) <= Len(read_rsp_queue) /\ Len(d) \in Nat
      /\ \A y \in 1 .. Len(d) : read_rsp_queue[y] = d[y]
      /\ \E new : Joined(Tail(done), Behind(read_rsp_queue, Len(d)), new)
  BY <1>2, <1>4, <1>5, <1>6, <1>7, JoinedTake, LenProperties
<1>9. rec' = d
  <2>1. \A i \in 1 .. Len(d) : i <= Len(read_rsp_queue)
    BY <1>2, <1>8, LenProperties
  <2>2. rec' = [i \in 1 .. Len(d) |-> d[i]]
    BY <1>1, <1>7, <1>8, <2>1
  <2> QED BY <1>7, <2>2, LenProperties
<1>10. ConvInv'
  <2>1. Len(d) \in 0 .. Len(read_rsp_queue)
    BY <1>2, <1>8, LenProperties
  <2>2. read_rsp_queue' \in Seq(Byte)
    BY <1>1, <1>2, <1>7, <2>1, BehindProperties
  <2>3. write_rsp_queue' \in Seq({1})
    BY <1>1, <1>2 DEF ConvInv, ConvTypeOK
  <2> QED BY <1>1, <1>2, <2>2, <2>3, ConvTaken
<1>11. PICK m : m = amem
  OBVIOUS
<1>12. Coming(want, m)'
  <2>1. UNCHANGED <<read_req_list, out_order_rsp_list, active, beginq, mem>>
    BY <1>1 DEF dramVars
  <2> QED BY <1>4, <1>11, <2>1, ComingSame
<1>13. PICK rest : rest = Tail(done)
  OBVIOUS
<1>14. Delivering(rest, want)'
  <2>1. rest \in Seq(Seq(Byte)) /\ due' = rest \o want /\ amem' = m
    BY <1>1, <1>4, <1>7, <1>11, <1>13, HeadTailProperties
  <2>2. \E new : Joined(rest, read_rsp_queue', new)
    BY <1>1, <1>7, <1>8, <1>13
  <2> QED BY <1>4, <1>12, <2>1, <2>2 DEF Delivering
<1>15. Acked'
  BY <1>1, <1>2 DEF ClientInv, Acked, CountIn, Places
<1>16. due' \in Seq(Seq(Byte)) /\ \A c \in 1 .. Len(due') : due'[c] # << >>
  <2>1. due \in Seq(Seq(Byte)) /\ \A c \in 1 .. Len(due) : due[c] # << >>
    BY <1>2 DEF ClientInv
  <2>2. /\ Tail(due) \in Seq(Seq(Byte)) /\ Len(Tail(due)) = Len(due) - 1
        /\ \A c \in 1 .. Len(Tail(due)) : Tail(due)[c] = due[c + 1]
    BY <1>7, <2>1, HeadTailProperties
  <2>3. \A c \in 1 .. Len(Tail(due)) : c + 1 \in 1 .. Len(due)
    BY <2>1, <2>2, LenProperties
  <2> QED BY <1>1, <2>1, <2>2, <2>3
<1>17. rec' \in Seq(Byte) /\ rec' = wanted'
  BY <1>1, <1>7, <1>9
<1>18. ClientInv'
  BY <1>1, <1>2, <1>14, <1>15, <1>16, <1>17 DEF ClientInv
<1> QED BY <1>10, <1>18 DEF Inv

\* The client takes a byte of a read, the last one or another.
LEMMA PollReadByteKeeps ==
  ASSUME Inv, PollReadByte
  PROVE  Inv'
<1>1. /\ read_rsp_queue # << >> /\ wanted' = <<Head(Head(due))>>
      /\ due' = IF Len(Head(due)) = 1 THEN Tail(due) ELSE [due EXCEPT ![1] = Tail(@)]
      /\ rec' = [i \in 1 .. 1 |->
                   IF i <= Len(read_rsp_queue) THEN read_rsp_queue[i] ELSE 0]
      /\ read_rsp_queue' = Behind(read_rsp_queue, 1)
      /\ UNCHANGED <<all_req_list, read_req_list, write_req_list, out_order_rsp_list,
                     write_rsp_queue, inflight_read_cnt, dramVars, pc, sends, acks,
                     amem, owed>>
  BY DEF PollReadByte, GetReadRsp, dram_has_read_rsp, Drop, Behind
<1>2. ConvInv /\ ClientInv /\ read_rsp_queue \in Seq(Byte)
  BY DEF Inv, ConvInv, ConvTypeOK
<1>3. PICK done, want : Delivering(done, want)
  BY <1>2 DEF ClientInv
<1>4. /\ done \in Seq(Seq(Byte)) /\ want \in Seq(Seq(Byte)) /\ due = done \o want
      /\ Coming(want, amem)
  BY <1>3 DEF Delivering
<1>5. PICK off : Joined(done, read_rsp_queue, off)
  BY <1>3 DEF Delivering
<1>6. PICK d : d = Head(done)
  OBVIOUS
<1>7. /\ done # << >> /\ due # << >> /\ Head(due) = d /\ Tail(due) = Tail(done) \o want
      /\ d \in Seq(Byte) /\ d # << >> /\ d = done[1]
  BY <1>1, <1>3, <1>6, DoneHead
<1>8. /\ Len(d) <= Len(read_rsp_queue) /\ Len(d) \in Nat \ {0}
      /\ \A y \in 1 .. Len(d) : read_rsp_queue[y] = d[y]
      /\ \E new : Joined(Tail(done), Behind(read_rsp_queue, Len(d)), new)
  BY <1>2, <1>4, <1>5, <1>6, <1>7, JoinedTake, EmptySeq
<1>9. Head(d) = d[1] /\ Head(d) \in Byte /\ 1 \in 1 .. Len(d) /\ Len(read_rsp_queue) \in Nat
  BY <1>2, <1>7, <1>8, HeadTailProperties, LenProperties
<1>10. rec' = <<Head(d)>>
  <2>1. 1 <= Len(read_rsp_queue) /\ read_rsp_queue[1] = d[1]
    BY <1>8, <1>9
  <2> QED BY <1>1, <1>9, <2>1
<1>11. ConvInv'
  <2>1. 1 \in 0 .. Len(read_rsp_queue)
    BY <1>8, <1>9
  <2>2. read_rsp_queue' \in Seq(Byte)
    BY <1>1, <1>2, <2>1, BehindProperties
  <2>3. write_rsp_queue' \in Seq({1})
    BY <1>1, <1>2 DEF ConvInv, ConvTypeOK
  <2> QED BY <1>1, <1>2, <2>2, <2>3, ConvTaken
<1>12. PICK m : m = amem
  OBVIOUS
<1>13. Coming(want, m)'
  <2>1. UNCHANGED <<read_req_list, out_order_rsp_list, active, beginq, mem>>
    BY <1>1 DEF dramVars
  <2> QED BY <1>4, <1>12, <2>1, ComingSame
<1>14. \E rest : /\ rest \in Seq(Seq(Byte)) /\ due' = rest \o want
                 /\ \E new : Joined(rest, read_rsp_queue', new)
  <2>1. CASE Len(d) = 1
    <3>1. Tail(done) \in Seq(Seq(Byte)) /\ due' = Tail(done) \o want
      BY <1>1, <1>4, <1>7, <2>1, HeadTailProperties
    <3>2. \E new : Joined(Tail(done), read_rsp_queue', new)
      BY <1>1, <1>8, <2>1
    <3> QED BY <3>1, <3>2
  <2>2. CASE Len(d) # 1
    <3>0. Len(d) \in Nat /\ Len(d) # 0
      BY <1>8
    <3>1. Len(Head(done)) > 1
      <4>1. PICK l \in Nat : l = Len(d) /\ l # 0 /\ l # 1
        BY <2>2, <3>0
      <4>2. l > 1
        BY <4>1
      <4> QED BY <1>6, <4>1, <4>2
    <3>2. \E new : Joined([done EXCEPT ![1] = Tail(@)], read_rsp_queue', new)
      BY <1>1, <1>2, <1>4, <1>5, <1>7, <3>1, JoinedTakeOne
    <3>3. Tail(d) \in Seq(Byte)
      BY <1>7, HeadTailProperties
    <3>4. [due EXCEPT ![1] = Tail(d)] = [done EXCEPT ![1] = Tail(d)] \o want
      <4>1. PICK S : S = Seq(Byte)
        OBVIOUS
      <4>2. done \in Seq(S) /\ want \in Seq(S) /\ Tail(d) \in S
        BY <1>4, <3>3, <4>1
      <4>3. \A e \in S : [done \o want EXCEPT ![1] = e] = [done EXCEPT ![1] = e] \o want
        BY <1>7, <4>2, HeadOfJoin
      <4> QED BY <1>4, <4>2, <4>3
    <3>5. due[1] = d
      <4>1. due \in Seq(Seq(Byte))
        BY <1>2 DEF ClientInv
      <4> QED BY <1>7, <4>1, HeadTailProperties
    <3>6. due' = [done EXCEPT ![1] = Tail(@)] \o want
      BY <1>1, <1>7, <2>2, <3>4, <3>5
    <3>7. [done EXCEPT ![1] = Tail(@)] \in Seq(Seq(Byte))
      <4>1. 1 \in 1 .. Len(done)
        BY <1>4, <1>7, EmptySeq
      <4> QED BY <1>4, <1>7, <3>3, <4>1, ExceptSeq
    <3> QED BY <3>2, <3>6, <3>7
  <2> QED BY <2>1, <2>2
<1>15. PICK rest : /\ rest \in Seq(Seq(Byte)) /\ due' = rest \o want
                   /\ \E new : Joined(rest, read_rsp_queue', new)
  BY <1>14
<1>16. Delivering(rest, want)'
  <2>1. amem' = m
    BY <1>1, <1>12
  <2> QED BY <1>4, <1>13, <1>15, <2>1 DEF Delivering
<1>17. Acked'
  BY <1>1, <1>2 DEF ClientInv, Acked, CountIn, Places
<1>18. due' \in Seq(Seq(Byte)) /\ \A c \in 1 .. Len(due') : due'[c] # << >>
  <2>1. due \in Seq(Seq(Byte)) /\ \A c \in 1 .. Len(due) : due[c] # << >>
    BY <1>2 DEF ClientInv
  <2>2. CASE Len(d) = 1
    <3>1. /\ Tail(due) \in Seq(Seq(Byte)) /\ Len(Tail(due)) = Len(due) - 1
          /\ \A c \in 1 .. Len(Tail(due)) : Tail(due)[c] = due[c + 1]
      BY <1>7, <2>1, HeadTailProperties
    <3>2. \A c \in 1 .. Len(Tail(due)) : c + 1 \in 1 .. Len(due)
      BY <2>1, <3>1, LenProperties
    <3> QED BY <1>1, <1>7, <2>1, <2>2, <3>1, <3>2
  <2>3. CASE Len(d) # 1
    <3>1. 1 \in 1 .. Len(due) /\ due[1] = d
      BY <1>7, <2>1, EmptySeq, HeadTailProperties
    <3>2. Tail(d) \in Seq(Byte) /\ Tail(d) # << >>
      <4>1. Tail(d) \in Seq(Byte) /\ Len(Tail(d)) = Len(d) - 1
        BY <1>7, HeadTailProperties
      <4> QED BY <1>8, <2>3, <4>1
    <3>3. due' = [due EXCEPT ![1] = Tail(d)]
      BY <1>1, <1>7, <2>3, <3>1
    <3>4. /\ due' \in Seq(Seq(Byte)) /\ Len(due') = Len(due)
          /\ \A c \in 1 .. Len(due) : due'[c] = IF c = 1 THEN Tail(d) ELSE due[c]
      BY <2>1, <3>1, <3>2, <3>3, ExceptSeq
    <3> QED BY <2>1, <3>2, <3>4
  <2> QED BY <2>2, <2>3
<1>19. rec' \in Seq(Byte) /\ rec' = wanted'
  BY <1>1, <1>7, <1>9, <1>10
<1>20. ClientInv'
  BY <1>1, <1>2, <1>16, <1>17, <1>18, <1>19 DEF ClientInv
<1> QED BY <1>11, <1>20 DEF Inv

\* The client takes an acknowledgement.
LEMMA PollWriteKeeps ==
  ASSUME Inv, PollWrite
  PROVE  Inv'
<1>1. /\ write_rsp_queue # << >> /\ write_rsp_queue' = Tail(write_rsp_queue)
      /\ acks' = acks + 1
      /\ UNCHANGED <<all_req_list, read_req_list, write_req_list, out_order_rsp_list,
                     read_rsp_queue, inflight_read_cnt, dramVars, pc, rec, sends,
                     amem, due, wanted, owed>>
  BY DEF PollWrite, history
<1>2. ConvInv /\ ClientInv /\ write_rsp_queue \in Seq({1}) /\ read_rsp_queue \in Seq(Byte)
  BY DEF Inv, ConvInv, ConvTypeOK
<1>3. write_rsp_queue' \in Seq({1}) /\ Len(write_rsp_queue') = Len(write_rsp_queue) - 1
  BY <1>1, <1>2, HeadTailProperties
<1>4. ConvInv'
  BY <1>1, <1>2, <1>3, ConvTaken
<1>5. PICK done, want, m : Delivering(done, want) /\ m = amem
  BY <1>2 DEF ClientInv
<1>6. Coming(want, m)'
  <2>1. UNCHANGED <<read_req_list, out_order_rsp_list, active, beginq, mem>>
    BY <1>1 DEF dramVars
  <2> QED BY <1>5, <2>1, ComingSame DEF Delivering
<1>7. Delivering(done, want)'
  BY <1>1, <1>5, <1>6 DEF Delivering
<1>8. Acked'
  <2>1. CountIn(all_req_list, WriteReqs) \in Nat /\ Len(write_rsp_queue) \in Nat
        /\ Len(write_req_list) \in Nat
    BY <1>2, CountType, LenProperties DEF ConvInv, ConvTypeOK
  <2>2. owed = acks + Len(write_rsp_queue) + Len(write_req_list)
                 + CountIn(all_req_list, WriteReqs) /\ acks \in Nat
    BY <1>2 DEF ClientInv, Acked
  <2>3. UNCHANGED <<owed, write_req_list, all_req_list>>
    BY <1>1
  <2> QED BY <1>1, <1>3, <2>1, <2>2, <2>3 DEF Acked
<1>9. ClientInv'
  BY <1>1, <1>2, <1>7, <1>8 DEF ClientInv
<1> QED BY <1>4, <1>9 DEF Inv

-----------------------------------------------------------------------------
(* The converter's handlers                                                *)

\* An END_REQ moves a request from one list to the other.
LEMMA EndReqInv ==
  ASSUME Inv, PeqEndReq
  PROVE  Inv'
<1>1. pc = "idle" /\ EndReq("idle")
      /\ UNCHANGED <<rec, sends, acks, amem, due, wanted, owed>>
  BY DEF PeqEndReq, clientVars, history
<1>2. ConvInv /\ ClientInv
  BY DEF Inv
<1>3. ~ EndReqMismatch /\ pc' = "idle" /\ ConvInv'
  BY <1>1, <1>2, EndReqKeeps
<1>4. PICK done, want, m : Delivering(done, want) /\ m = amem
  BY <1>2 DEF ClientInv
<1>5. Coming(want, m)'
  BY <1>1, <1>2, <1>4, ComingEndReq DEF Delivering
<1>6. /\ all_req_list' = Tail(all_req_list)
      /\ write_req_list' = IF Head(all_req_list).is_write
                           THEN Append(write_req_list, Head(all_req_list))
                           ELSE write_req_list
      /\ UNCHANGED <<read_rsp_queue, write_rsp_queue>>
      /\ beginq # << >>
  BY <1>1, <1>3 DEF EndReq, EndedReq
<1>7. Delivering(done, want)'
  BY <1>1, <1>4, <1>5, <1>6 DEF Delivering
<1>8. Acked'
  <2>1. all_req_list \in Seq(ReqT) /\ write_req_list \in Seq(ReqT) /\ all_req_list # << >>
    <3>1. Len(all_req_list) = Len(beginq) /\ beginq \in Seq(Payload)
          /\ all_req_list \in Seq(ReqT) /\ write_req_list \in Seq(ReqT)
      BY <1>2 DEF ConvInv, ConvTypeOK, Sent
    <3>2. Len(beginq) \in Nat \ {0}
      BY <1>6, <3>1, EmptySeq
    <3> QED BY <3>1, <3>2
  <2>2. /\ Head(all_req_list) = all_req_list[1] /\ Head(all_req_list) \in ReqT
        /\ Tail(all_req_list) \in Seq(ReqT) /\ IsWithout(Tail(all_req_list), all_req_list, 1)
        /\ 1 \in 1 .. Len(all_req_list)
    BY <2>1, HeadTailProperties, TailWithout
  <2>3. CountIn(all_req_list', WriteReqs) =
          CountIn(all_req_list, WriteReqs)
            - (IF all_req_list[1] \in WriteReqs THEN 1 ELSE 0)
    <3>1. CountIn(Tail(all_req_list), WriteReqs) =
            CountIn(all_req_list, WriteReqs)
              - (IF all_req_list[1] \in WriteReqs THEN 1 ELSE 0)
      <4>1. PICK a, b : a = all_req_list /\ b = Tail(all_req_list)
        OBVIOUS
      <4>2. a \in Seq(ReqT) /\ b \in Seq(ReqT) /\ 1 \in 1 .. Len(a) /\ IsWithout(b, a, 1)
        BY <2>1, <2>2, <4>1
      <4>3. CountIn(b, WriteReqs) =
              CountIn(a, WriteReqs) - (IF a[1] \in WriteReqs THEN 1 ELSE 0)
        BY <4>2, CountWithout
      <4> QED BY <4>1, <4>3, Zenon
    <3> QED BY <1>6, <3>1
  <2>4. Len(write_req_list') =
          Len(write_req_list) + (IF all_req_list[1] \in WriteReqs THEN 1 ELSE 0)
    <3>1. all_req_list[1] \in WriteReqs <=> Head(all_req_list).is_write
      BY <2>2 DEF WriteReqs
    <3>2. Len(Append(write_req_list, Head(all_req_list))) = Len(write_req_list) + 1
          /\ Len(write_req_list) \in Nat
      BY <2>1, <2>2, AppendProperties, LenProperties
    <3> QED BY <1>6, <3>1, <3>2
  <2>5. CountIn(all_req_list, WriteReqs) \in Nat /\ Len(write_rsp_queue) \in Nat
        /\ Len(write_req_list) \in Nat
    BY <1>2, CountType, LenProperties DEF ConvInv, ConvTypeOK
  <2>6. owed = acks + Len(write_rsp_queue) + Len(write_req_list)
                 + CountIn(all_req_list, WriteReqs) /\ acks \in Nat
    BY <1>2 DEF ClientInv, Acked
  <2>7. UNCHANGED <<owed, acks, write_rsp_queue>>
    BY <1>1, <1>6
  <2>8. PICK x \in {0, 1}, u \in Nat, v \in Nat :
          /\ x = (IF all_req_list[1] \in WriteReqs THEN 1 ELSE 0)
          /\ u = CountIn(all_req_list, WriteReqs) /\ v = Len(write_req_list)
    BY <2>5
  <2>9. CountIn(all_req_list', WriteReqs) = u - x /\ Len(write_req_list') = v + x
    BY <2>3, <2>4, <2>8
  <2>10. /\ owed' = owed /\ acks' = acks /\ Len(write_rsp_queue') = Len(write_rsp_queue)
         /\ owed = acks + Len(write_rsp_queue) + v + u
         /\ Len(write_rsp_queue) \in Nat /\ acks \in Nat
    BY <2>5, <2>6, <2>7, <2>8
  <2>11. owed' = acks' + Len(write_rsp_queue') + Len(write_req_list')
                  + CountIn(all_req_list', WriteReqs)
    <3>1. PICK k \in Nat, l \in Nat : k = acks /\ l = Len(write_rsp_queue)
      BY <2>10
    <3>2. owed' = k + l + v + u
      BY <2>10, <3>1
    <3>3. k + l + v + u = k + l + (v + x) + (u - x)
      <4>1. x \in Int
        OBVIOUS
      <4> QED BY <4>1
    <3> QED BY <2>9, <2>10, <3>1, <3>2, <3>3
  <2> QED BY <2>11 DEF Acked
<1>9. ClientInv'
  BY <1>1, <1>2, <1>3, <1>7, <1>8 DEF ClientInv
<1> QED BY <1>3, <1>9 DEF Inv

\* A read response is filed.
LEMMA BeginRespReadInv ==
  ASSUME Inv, NEW i, PeqBeginRespRead(i)
  PROVE  Inv'
<1>1. BeginRespRead(i) /\ UNCHANGED <<rec, sends, acks, amem, due, wanted, owed>>
  BY DEF PeqBeginRespRead, clientVars, history
<1>2. ConvInv /\ ClientInv
  BY DEF Inv
<1>3. pc' = "match" /\ ConvInv'
  BY <1>1, <1>2, BeginRespReadKeeps
<1>4. PICK done, want, m : Delivering(done, want) /\ m = amem
  BY <1>2 DEF ClientInv
<1>5. Coming(want, m)'
  BY <1>1, <1>2, <1>4, ComingRead DEF Delivering
<1>6. UNCHANGED <<read_rsp_queue, write_rsp_queue, all_req_list, write_req_list>>
  BY <1>1 DEF BeginRespRead, convVars
<1>7. Delivering(done, want)'
  BY <1>1, <1>4, <1>5, <1>6 DEF Delivering
<1>8. Acked'
  BY <1>1, <1>2, <1>6 DEF ClientInv, Acked, CountIn, Places
<1>9. ClientInv'
  BY <1>1, <1>2, <1>3, <1>7, <1>8 DEF ClientInv
<1> QED BY <1>3, <1>9 DEF Inv

\* A read is delivered, or the loop ends.
LEMMA MatchInv ==
  ASSUME Inv, PeqMatch
  PROVE  Inv'
<1>1. UNCHANGED <<rec, sends, acks, amem, due, wanted, owed>>
  BY DEF PeqMatch, clientVars, history
<1>2. ConvInv /\ ClientInv
  BY DEF Inv
<1>3. PICK done, want, m : Delivering(done, want) /\ m = amem
  BY <1>2 DEF ClientInv
<1>4. CASE MatchStep("match")
  <2>1. pc' = "match" /\ ConvInv'
    BY <1>2, <1>4, MatchStepKeeps
  <2>2. /\ done \in Seq(Seq(Byte)) /\ want \in Seq(Seq(Byte)) /\ due = done \o want
        /\ Coming(want, m) /\ read_rsp_queue \in Seq(Byte)
    BY <1>2, <1>3 DEF Delivering, ConvInv, ConvTypeOK
  <2>3. /\ want # << >> /\ read_rsp_queue' = read_rsp_queue \o Head(want)
        /\ Coming(Tail(want), m)'
    BY <1>2, <1>4, <2>2, ComingMatch
  <2>4. PICK a, b, d : d = Head(want) /\ a = Append(done, d) /\ b = Tail(want)
    OBVIOUS
  <2>5. /\ d \in Seq(Byte) /\ a \in Seq(Seq(Byte)) /\ b \in Seq(Seq(Byte))
        /\ due = a \o b
    <3>1. d \in Seq(Byte) /\ b \in Seq(Seq(Byte))
      BY <2>2, <2>3, <2>4, HeadTailProperties
    <3>2. a \in Seq(Seq(Byte))
      BY <2>2, <2>4, <3>1, AppendProperties
    <3>3. Append(done, Head(want)) \o Tail(want) = done \o want
      BY <2>2, <2>3, MoveJoin
    <3> QED BY <2>2, <2>4, <3>1, <3>2, <3>3
  <2>6. \E new : Joined(a, read_rsp_queue \o d, new)
    <3>1. PICK off : Joined(done, read_rsp_queue, off)
      BY <1>3 DEF Delivering
    <3> QED BY <2>2, <2>4, <2>5, <3>1, JoinedMore
  <2>7. Delivering(a, b)'
    <3>1. due' = a \o b /\ amem' = m /\ read_rsp_queue' = read_rsp_queue \o d
          /\ Coming(b, m)'
      BY <1>1, <1>3, <2>3, <2>4, <2>5
    <3> QED BY <2>5, <2>6, <3>1 DEF Delivering
  <2>8. UNCHANGED <<all_req_list, write_req_list, write_rsp_queue>>
    BY <1>4 DEF MatchStep
  <2>9. Acked'
    BY <1>1, <1>2, <2>8 DEF ClientInv, Acked, CountIn, Places
  <2>10. ClientInv'
    BY <1>1, <1>2, <2>1, <2>7, <2>9 DEF ClientInv
  <2> QED BY <2>1, <2>10 DEF Inv
<1>5. CASE MatchExit
  <2>1. pc' = "idle" /\ UNCHANGED <<convVars, dramVars>>
    BY <1>5 DEF MatchExit
  <2>2. ConvInv'
    BY <1>2, <2>1, ConvUnchanged
  <2>3. /\ UNCHANGED <<read_req_list, out_order_rsp_list, active, beginq, mem>>
        /\ UNCHANGED <<all_req_list, write_req_list, write_rsp_queue, read_rsp_queue>>
    BY <2>1 DEF convVars, dramVars
  <2>4. Coming(want, m)'
    BY <1>3, <2>3, ComingSame DEF Delivering
  <2>5. Delivering(done, want)'
    BY <1>1, <1>3, <2>3, <2>4 DEF Delivering
  <2>6. Acked'
    BY <1>1, <1>2, <2>3 DEF ClientInv, Acked, CountIn, Places
  <2>7. ClientInv'
    BY <1>1, <1>2, <2>1, <2>5, <2>6 DEF ClientInv
  <2> QED BY <2>2, <2>7 DEF Inv
<1> QED BY <1>4, <1>5 DEF PeqMatch

\* A write is answered: its acknowledgement is queued.
LEMMA BeginRespWriteInv ==
  ASSUME Inv, NEW i, PeqBeginRespWrite(i)
  PROVE  Inv'
<1>1. BeginRespWrite(i, "idle") /\ UNCHANGED <<rec, sends, acks, amem, due, wanted, owed>>
  BY DEF PeqBeginRespWrite, clientVars, history
<1>2. ConvInv /\ ClientInv
  BY DEF Inv
<1>3. pc' = "idle" /\ ConvInv'
  BY <1>1, <1>2, BeginRespWriteKeeps
<1>4. PICK done, want, m : Delivering(done, want) /\ m = amem
  BY <1>2 DEF ClientInv
<1>5. Coming(want, m)'
  BY <1>1, <1>2, <1>4, ComingWrite DEF Delivering
<1>6. /\ Answerable(i) /\ active[i].is_write
      /\ UNCHANGED <<read_rsp_queue, all_req_list>>
      /\ write_req_list' = Tail(write_req_list)
      /\ write_rsp_queue' = Append(write_rsp_queue, 1)
  BY <1>1 DEF BeginRespWrite
<1>7. Delivering(done, want)'
  BY <1>1, <1>4, <1>5, <1>6 DEF Delivering
<1>8. Acked'
  <2>1. /\ write_req_list \in Seq(ReqT) /\ write_rsp_queue \in Seq({1})
        /\ active \in Seq(Payload) /\ Len(write_req_list) = CountIn(active, WritePayloads)
    BY <1>2 DEF ConvInv, ConvTypeOK, Totals
  <2>2. write_req_list # << >>
    <3>1. i \in 1 .. Len(active) /\ active[i] \in WritePayloads
      BY <1>6, <2>1, LenProperties, ElementOfSeq DEF Answerable, WritePayloads
    <3>2. CountIn(active, WritePayloads) # 0
      BY <2>1, <3>1, CountType
    <3> QED BY <2>1, <3>2
  <2>3. Len(write_req_list') = Len(write_req_list) - 1
    BY <1>6, <2>1, <2>2, HeadTailProperties
  <2>4. Len(write_rsp_queue') = Len(write_rsp_queue) + 1
    BY <1>6, <2>1, AppendProperties
  <2>5. CountIn(all_req_list, WriteReqs) \in Nat /\ Len(write_rsp_queue) \in Nat
        /\ Len(write_req_list) \in Nat
    BY <1>2, CountType, LenProperties DEF ConvInv, ConvTypeOK
  <2>6. owed = acks + Len(write_rsp_queue) + Len(write_req_list)
                 + CountIn(all_req_list, WriteReqs) /\ acks \in Nat
    BY <1>2 DEF ClientInv, Acked
  <2>7. UNCHANGED <<owed, acks, all_req_list>>
    BY <1>1, <1>6
  <2> QED BY <2>3, <2>4, <2>5, <2>6, <2>7 DEF Acked
<1>9. ClientInv'
  BY <1>1, <1>2, <1>3, <1>7, <1>8 DEF ClientInv
<1> QED BY <1>3, <1>9 DEF Inv

-----------------------------------------------------------------------------
(* The theorems                                                            *)

\* The invariant is inductive.
THEOREM Invariance == Spec => []Inv
<1>1. Inv /\ [Next]_vars => Inv'
  <2> SUFFICES ASSUME Inv, [Next]_vars PROVE Inv'
    OBVIOUS
  <2>1. ASSUME NEW t \in Transfers, Send(t) PROVE Inv'
    <3>1. CASE t.is_write
      BY <2>1, <3>1, SendWriteKeeps
    <3>2. CASE ~ t.is_write
      BY <2>1, <3>2, SendReadKeeps
    <3> QED BY <3>1, <3>2
  <2>2. ASSUME NEW i \in DOMAIN active, BeginResp(i) PROVE Inv'
    BY <2>2, BeginRespReadInv, BeginRespWriteInv DEF BeginResp
  <2>3. CASE UNCHANGED vars
    <3>1. UNCHANGED <<convVars, dramVars, pc, clientVars, history>>
      BY <2>3 DEF vars
    <3>2. ConvInv'
      BY <3>1, ConvUnchanged DEF Inv
    <3>3. ClientInv'
      <4>1. /\ UNCHANGED <<read_req_list, out_order_rsp_list, active, beginq, mem>>
            /\ UNCHANGED <<all_req_list, write_req_list, write_rsp_queue, read_rsp_queue>>
            /\ UNCHANGED <<pc, rec, sends, acks, amem, due, wanted, owed>>
        BY <3>1 DEF convVars, dramVars, clientVars, history
      <4>2. PICK done, want, m : Delivering(done, want) /\ m = amem
        BY DEF Inv, ClientInv
      <4>3. Coming(want, m)'
        BY <4>1, <4>2, ComingSame DEF Delivering
      <4>4. Delivering(done, want)'
        BY <4>1, <4>2, <4>3 DEF Delivering
      <4>5. Acked'
        BY <4>1 DEF Inv, ClientInv, Acked, CountIn, Places
      <4> QED BY <4>1, <4>4, <4>5 DEF Inv, ClientInv
    <3> QED BY <3>2, <3>3 DEF Inv
  <2> QED
    BY <2>1, <2>2, <2>3, PollReadKeeps, PollReadByteKeeps, PollWriteKeeps, EndReqInv,
       MatchInv DEF Next
<1> QED BY <1>1, InitInv, PTL DEF Spec

\* The client's variables have the types of the program, and the converter
\* never ends in one of its fatal reports (TypeOK).
THEOREM ClientTypes == Spec => []TypeOK
<1>1. Inv => TypeOK
  <2> SUFFICES ASSUME Inv PROVE TypeOK
    OBVIOUS
  <2>1. ConvTypeOK /\ ClientInv
    BY DEF Inv, ConvInv
  <2>2. owed \in Nat
    <3>1. CountIn(all_req_list, WriteReqs) \in Nat /\ Len(write_rsp_queue) \in Nat
          /\ Len(write_req_list) \in Nat /\ acks \in Nat
      BY <2>1, CountType, LenProperties DEF ConvTypeOK, ClientInv
    <3> QED BY <2>1, <3>1 DEF ClientInv, Acked
  <2> QED BY <2>1, <2>2 DEF TypeOK, ClientInv, Memory
<1> QED BY <1>1, Invariance, PTL

\* The buffer of the client holds what it asked for, read by read and byte by
\* byte, and nothing filled in (ReceivedWanted).
THEOREM BufferFilled == Spec => []ReceivedWanted
<1>1. Inv => ReceivedWanted
  BY DEF Inv, ClientInv, ReceivedWanted
<1> QED BY <1>1, Invariance, PTL

\* What waits in read_rsp_queue is whole reads in the order they were sent,
\* each as the writes sent before it left memory (PollsMatch).
THEOREM PollsWholeReads == Spec => []PollsMatch
<1>1. Inv => PollsMatch
  <2> SUFFICES ASSUME Inv PROVE \E k \in 0 .. Len(due) :
                                  read_rsp_queue = FlattenSeq(SubSeq(due, 1, k))
    BY DEF PollsMatch
  <2>1. PICK done, want : Delivering(done, want)
    BY DEF Inv, ClientInv
  <2>2. PICK off : Joined(done, read_rsp_queue, off)
    BY <2>1 DEF Delivering
  <2>3. /\ done \in Seq(Seq(Byte)) /\ want \in Seq(Seq(Byte)) /\ due = done \o want
        /\ read_rsp_queue \in Seq(Byte)
    BY <2>1 DEF Delivering, Inv, ConvInv, ConvTypeOK
  <2>4. FlattenSeq(done) = read_rsp_queue
    BY <2>2, <2>3, JoinedFlat
  <2>5. PICK k \in Nat, l \in Nat : k = Len(done) /\ l = Len(want)
    BY <2>3, LenProperties
  <2>6. /\ due \in Seq(Seq(Byte)) /\ Len(due) = k + l
        /\ \A j \in 1 .. k + l : due[j] = IF j <= k THEN done[j] ELSE want[j - k]
    BY <2>3, <2>5, ConcatProperties
  <2>7. k \in 0 .. Len(due)
    BY <2>5, <2>6
  <2>8. SubSeq(due, 1, k) = done
    <3>1. \A j \in 1 .. k : due[j] \in Seq(Byte) /\ due[j] = done[j]
      <4>1. \A j \in 1 .. k : j \in 1 .. k + l /\ j <= k
        BY <2>5
      <4> QED BY <2>3, <2>5, <2>6, <4>1, ElementOfSeq
    <3>2. k - 1 + 1 = k /\ 1 \in Int /\ k \in Int /\ \A j \in 1 .. k : 1 + j - 1 = j
      OBVIOUS
    <3>3. /\ SubSeq(due, 1, k) \in Seq(Seq(Byte))
          /\ Len(SubSeq(due, 1, k)) = IF 1 <= k THEN k - 1 + 1 ELSE 0
          /\ \A j \in 1 .. k - 1 + 1 : SubSeq(due, 1, k)[j] = due[1 + j - 1]
      BY <3>1, <3>2, SubSeqProperties
    <3>4. PICK c : c = SubSeq(due, 1, k)
      OBVIOUS
    <3>5. c \in Seq(Seq(Byte)) /\ Len(c) = Len(done) /\ \A j \in 1 .. Len(c) : c[j] = done[j]
      BY <2>5, <3>1, <3>2, <3>3, <3>4
    <3>6. c = done
      BY <2>3, <3>5, SeqEqual
    <3> QED BY <3>4, <3>6
  <2> QED BY <2>4, <2>7, <2>8
<1> QED BY <1>1, Invariance, PTL

\* A write is acknowledged once per burst it was split in: nothing is
\* acknowledged twice or forgotten (AckPerBurst).
THEOREM OneAckPerBurst == Spec => []AckPerBurst
<1>1. Inv => AckPerBurst
  <2> SUFFICES ASSUME Inv PROVE AckPerBurst
    OBVIOUS
  <2>1. all_req_list \in Seq(ReqT) /\ DOMAIN all_req_list = 1 .. Len(all_req_list)
    BY LenProperties DEF Inv, ConvInv, ConvTypeOK
  <2>2. \A i \in DOMAIN all_req_list : all_req_list[i].is_write <=> all_req_list[i] \in WriteReqs
    BY <2>1, ElementOfSeq DEF WriteReqs
  <2>3. WritesIn(all_req_list) = CountIn(all_req_list, WriteReqs)
    BY <2>2 DEF WritesIn, CountIn, Places
  <2>4. owed = acks + Len(write_rsp_queue) + Len(write_req_list)
                 + CountIn(all_req_list, WriteReqs)
    BY DEF Inv, ClientInv, Acked
  <2> QED BY <2>3, <2>4 DEF AckPerBurst
<1> QED BY <1>1, Invariance, PTL
=============================================================================
