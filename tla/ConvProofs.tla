----------------------------- MODULE ConvProofs -----------------------------
(***************************************************************************)
(* Proofs about dramsys_conv and the memory behind it, for every memory    *)
(* size, burst length and depth: what its handlers keep whichever client   *)
(* calls it, the bridge (DdrProofs) or the polling one (PollingProofs).    *)
(***************************************************************************)
EXTENDS DramsysConv, DataLemmas

-----------------------------------------------------------------------------
(* The invariant of the converter                                          *)

\* A payload has bytes, all in the memory, and a write carries them all.
GoodPayload(p) ==
  /\ p \in Payload /\ p.len > 0
  /\ p.addr + p.len <= MemSize
  /\ p.is_write => Len(p.data) = p.len /\ Len(p.strobe) = p.len

GoodPayloads(q) == \A i \in 1 .. Len(q) : GoodPayload(q[i])

\* The list of sent requests mirrors the payloads on their way.
Sent ==
  /\ Len(all_req_list) = Len(beginq)
  /\ \A i \in 1 .. Len(beginq) : all_req_list[i] = ReqOf(beginq[i])

ReadPayloads == {p \in Payload : ~ p.is_write}
WritePayloads == {p \in Payload : p.is_write}

\* Requests, payloads that read, and responses of one address and length.
KeyReq(a, l) == {e \in ReqT : e.addr = a /\ e.len = l}
KeyRead(a, l) == {p \in Payload : ~ p.is_write /\ p.addr = a /\ p.len = l}
KeyRsp(a, l) == {e \in Response : e.addr = a /\ e.len = l}

\* Of every address and length as many reads are owed as are in the memory
\* or wait out of order: what the search of a response needs.
Accounted ==
  \A a \in Nat, l \in Nat :
    CountIn(read_req_list, KeyReq(a, l)) =
      CountIn(active, KeyRead(a, l)) + CountIn(out_order_rsp_list, KeyRsp(a, l))

Totals ==
  /\ inflight_read_cnt = Len(read_req_list)
  /\ Len(read_req_list) = CountIn(active, ReadPayloads) + Len(out_order_rsp_list)
  /\ Len(write_req_list) = CountIn(active, WritePayloads)

ConvInv ==
  /\ ConvTypeOK
  /\ GoodPayloads(beginq) /\ GoodPayloads(active)
  /\ Sent /\ Accounted /\ Totals

\* The request remembered of a payload has its address, length and direction.
LEMMA ReqOfType ==
  ASSUME NEW p \in Payload
  PROVE  /\ ReqOf(p) \in ReqT
         /\ ReqOf(p).addr = p.addr /\ ReqOf(p).len = p.len
         /\ ReqOf(p).is_write = p.is_write
  BY DEF ReqOf, ReqT, Payload

\* Sending good payloads keeps the invariant and fills all_req_list.
LEMMA SendKeeps ==
  ASSUME ConvInv, NEW ps \in Seq(Payload), Len(ps) \in Nat \ {0}, GoodPayloads(ps),
         dram_send_req(ps)
  PROVE  ConvInv' /\ all_req_list' # << >>
<1> DEFINE rs == [i \in 1 .. Len(ps) |-> ReqOf(ps[i])]
<1>1. /\ all_req_list \in Seq(ReqT) /\ beginq \in Seq(Payload)
      /\ beginq' = beginq \o ps /\ all_req_list' = all_req_list \o rs
  BY DEF ConvInv, ConvTypeOK, dram_send_req
<1>2. rs \in Seq(ReqT) /\ Len(rs) = Len(ps)
      /\ \A i \in 1 .. Len(ps) : rs[i] = ReqOf(ps[i])
  <2>1. \A i \in 1 .. Len(ps) : ReqOf(ps[i]) \in ReqT
    BY ElementOfSeq, ReqOfType
  <2> QED BY <2>1
<1> HIDE DEF rs
<1>3. /\ beginq' \in Seq(Payload) /\ Len(beginq') = Len(beginq) + Len(ps)
      /\ \A i \in 1 .. Len(beginq) + Len(ps) :
           beginq'[i] = IF i <= Len(beginq) THEN beginq[i] ELSE ps[i - Len(beginq)]
  BY <1>1, ConcatProperties
<1>4. /\ all_req_list' \in Seq(ReqT) /\ Len(all_req_list') = Len(all_req_list) + Len(ps)
      /\ \A i \in 1 .. Len(all_req_list) + Len(ps) :
           all_req_list'[i] = IF i <= Len(all_req_list) THEN all_req_list[i]
                              ELSE rs[i - Len(all_req_list)]
  <2> DEFINE q == all_req_list
             t == q \o rs
  <2>1. q \in Seq(ReqT) /\ rs \in Seq(ReqT) /\ all_req_list' = t
    BY <1>1, <1>2
  <2> HIDE DEF q
  <2>2. /\ t \in Seq(ReqT) /\ Len(t) = Len(q) + Len(rs)
        /\ \A i \in 1 .. Len(q) + Len(rs) :
             t[i] = IF i <= Len(q) THEN q[i] ELSE rs[i - Len(q)]
    BY <2>1, ConcatProperties
  <2> HIDE DEF t
  <2> QED BY <1>2, <2>1, <2>2 DEF q
<1>5. Len(all_req_list) \in Nat /\ Len(beginq) \in Nat
  BY <1>1, LenProperties
<1>6. Sent'
  <2>1. Len(all_req_list) = Len(beginq)
        /\ \A i \in 1 .. Len(beginq) : all_req_list[i] = ReqOf(beginq[i])
    BY DEF ConvInv, Sent
  <2>2. ASSUME NEW i \in 1 .. Len(beginq')
        PROVE  all_req_list'[i] = ReqOf(beginq'[i])
    <3>1. CASE i <= Len(beginq)
      BY <1>3, <1>4, <1>5, <2>1, <3>1
    <3>2. CASE ~ (i <= Len(beginq))
      <4>1. i - Len(beginq) \in 1 .. Len(ps)
        BY <1>3, <1>5, <3>2
      <4>2. beginq'[i] = ps[i - Len(beginq)]
        BY <1>3, <3>2
      <4>3. all_req_list'[i] = rs[i - Len(beginq)]
        BY <1>3, <1>4, <2>1, <3>2
      <4> QED BY <4>1, <4>2, <4>3, <1>2
    <3> QED BY <3>1, <3>2
  <2> QED BY <1>3, <1>4, <2>1, <2>2 DEF Sent
<1>7. GoodPayloads(beginq')
  <2> SUFFICES ASSUME NEW i \in 1 .. Len(beginq') PROVE GoodPayload(beginq'[i])
    BY DEF GoodPayloads
  <2>1. CASE i <= Len(beginq)
    BY <1>3, <1>5, <2>1 DEF ConvInv, GoodPayloads
  <2>2. CASE ~ (i <= Len(beginq))
    <3>1. i - Len(beginq) \in 1 .. Len(ps)
      BY <1>3, <1>5, <2>2
    <3> QED BY <1>3, <2>2, <3>1 DEF GoodPayloads
  <2> QED BY <2>1, <2>2
<1>8. ConvTypeOK'
  BY <1>3, <1>4 DEF ConvInv, ConvTypeOK, dram_send_req
<1>9. Accounted' /\ Totals' /\ GoodPayloads(active')
  <2>1. UNCHANGED <<read_req_list, write_req_list, out_order_rsp_list,
                    inflight_read_cnt, active>>
    BY DEF dram_send_req
  <2>2. Accounted /\ Totals /\ GoodPayloads(active)
    BY DEF ConvInv
  <2>3. GoodPayloads(active')
    BY <2>1, <2>2 DEF GoodPayloads
  <2>4. ASSUME NEW K
        PROVE  /\ CountIn(read_req_list', K) = CountIn(read_req_list, K)
               /\ CountIn(active', K) = CountIn(active, K)
               /\ CountIn(out_order_rsp_list', K) = CountIn(out_order_rsp_list, K)
    BY <2>1
  <2>5. Accounted' /\ Totals'
    BY <2>1, <2>2, <2>4 DEF Accounted, Totals
  <2> QED BY <2>3, <2>5
<1>10. all_req_list' # << >>
  BY <1>4, <1>5, EmptySeq
<1> QED BY <1>6, <1>7, <1>8, <1>9, <1>10 DEF ConvInv, GoodPayloads

\* The search returns a place with the address and length looked for, and 0
\* only when there is none.
LEMMA FirstLikeFinds ==
  ASSUME NEW S, NEW list \in Seq(S), NEW x
  PROVE  LET I == {i \in 1 .. Len(list) : list[i].addr = x.addr /\ list[i].len = x.len}
         IN /\ FirstLike(list, x) = 0 <=> I = {}
            /\ FirstLike(list, x) # 0 => FirstLike(list, x) \in I
            /\ \A i \in I : FirstLike(list, x) <= i
<1> DEFINE I == {i \in 1 .. Len(list) : list[i].addr = x.addr /\ list[i].len = x.len}
<1>1. FirstLike(list, x) = IF I # {} THEN Min(I) ELSE 0
  BY DEF FirstLike, SelectInSeq
<1>2. I \in SUBSET Nat /\ 0 \notin I
  BY LenProperties
<1>3. I # {} => Min(I) \in I /\ \A i \in I : Min(I) <= i
  BY <1>2, LeastNat DEF Min
<1> HIDE DEF I
<1>4. /\ FirstLike(list, x) = 0 <=> I = {}
      /\ FirstLike(list, x) # 0 => FirstLike(list, x) \in I
      /\ \A i \in I : FirstLike(list, x) <= i
  BY <1>1, <1>2, <1>3
<1> QED BY <1>4 DEF I

\* An END_REQ is never answered with a request of the other direction, and
\* keeps the invariant.
LEMMA EndReqKeeps ==
  ASSUME ConvInv, NEW after, EndReq(after)
  PROVE  ~ EndReqMismatch /\ pc' = after /\ ConvInv'
<1> DEFINE p == Head(beginq)
           req1 == Head(all_req_list)
<1>1. /\ beginq \in Seq(Payload) /\ beginq # << >> /\ Len(beginq) \in Nat \ {0}
      /\ all_req_list \in Seq(ReqT) /\ active \in Seq(Payload)
      /\ read_req_list \in Seq(ReqT) /\ write_req_list \in Seq(ReqT)
      /\ Len(all_req_list) = Len(beginq)
  BY EmptySeq DEF ConvInv, ConvTypeOK, EndReq, Sent
<1>2. all_req_list # << >>
  BY <1>1
<1>3. p = beginq[1] /\ req1 = all_req_list[1] /\ p \in Payload
  BY <1>1, <1>2, HeadTailProperties
<1>4. req1 = ReqOf(p) /\ GoodPayload(p)
  BY <1>1, <1>3 DEF ConvInv, Sent, GoodPayloads
<1>5. req1 \in ReqT /\ req1.addr = p.addr /\ req1.len = p.len /\ req1.is_write = p.is_write
  BY <1>3, <1>4, ReqOfType
<1>6. ~ EndReqMismatch
  BY <1>5 DEF EndReqMismatch, EndedReq
<1>7. /\ read_req_list' = IF p.is_write THEN read_req_list ELSE Append(read_req_list, req1)
      /\ write_req_list' = IF p.is_write THEN Append(write_req_list, req1) ELSE write_req_list
      /\ inflight_read_cnt' = IF p.is_write THEN inflight_read_cnt ELSE inflight_read_cnt + 1
      /\ all_req_list' = Tail(all_req_list) /\ beginq' = Tail(beginq)
      /\ active' = Append(active, p) /\ pc' = after
      /\ UNCHANGED <<out_order_rsp_list, read_rsp_queue, write_rsp_queue, mem>>
  BY <1>5, <1>6 DEF EndReq, EndedReq
<1> HIDE DEF p, req1
<1>8. p.is_write \in BOOLEAN
  BY <1>3 DEF Payload
<1>9. /\ beginq' \in Seq(Payload) /\ Len(beginq') = Len(beginq) - 1
      /\ \A i \in 1 .. Len(beginq) - 1 : beginq'[i] = beginq[i + 1]
      /\ all_req_list' \in Seq(ReqT) /\ Len(all_req_list') = Len(all_req_list) - 1
      /\ \A i \in 1 .. Len(all_req_list) - 1 : all_req_list'[i] = all_req_list[i + 1]
  BY <1>1, <1>2, <1>7, HeadTailProperties
<1>10. /\ active' \in Seq(Payload) /\ Len(active') = Len(active) + 1
       /\ \A i \in 1 .. Len(active) : active'[i] = active[i]
       /\ active'[Len(active) + 1] = p
  BY <1>1, <1>3, <1>7, AppendProperties
<1>11. /\ Append(read_req_list, req1) \in Seq(ReqT)
       /\ Len(Append(read_req_list, req1)) = Len(read_req_list) + 1
       /\ Append(write_req_list, req1) \in Seq(ReqT)
       /\ Len(Append(write_req_list, req1)) = Len(write_req_list) + 1
  BY <1>1, <1>5, AppendProperties
<1>12. ConvTypeOK'
  <2>1. ConvTypeOK
    BY DEF ConvInv
  <2>2. /\ all_req_list' \in Seq(ReqT) /\ beginq' \in Seq(Payload)
        /\ active' \in Seq(Payload)
    BY <1>9, <1>10
  <2>3. read_req_list' \in Seq(ReqT) /\ write_req_list' \in Seq(ReqT)
    BY <1>1, <1>7, <1>8, <1>11
  <2>4. inflight_read_cnt' \in Int
    BY <1>7, <1>8, <2>1 DEF ConvTypeOK
  <2>5. UNCHANGED <<out_order_rsp_list, read_rsp_queue, write_rsp_queue, mem>>
    BY <1>7
  <2> QED BY <2>1, <2>2, <2>3, <2>4, <2>5 DEF ConvTypeOK
<1>13. Sent'
  <2>1. \A i \in 1 .. Len(beginq) : all_req_list[i] = ReqOf(beginq[i])
    BY DEF ConvInv, Sent
  <2>2. ASSUME NEW i \in 1 .. Len(beginq')
        PROVE  all_req_list'[i] = ReqOf(beginq'[i])
    <3>1. i \in 1 .. Len(beginq) - 1 /\ i + 1 \in 1 .. Len(beginq)
      BY <1>1, <1>9
    <3>2. all_req_list'[i] = all_req_list[i + 1] /\ beginq'[i] = beginq[i + 1]
      BY <1>1, <1>9, <3>1
    <3> QED BY <2>1, <3>1, <3>2
  <2> QED BY <1>1, <1>9, <2>2 DEF Sent
<1>14. GoodPayloads(beginq)'
  BY <1>1, <1>9 DEF ConvInv, GoodPayloads
<1>15. GoodPayloads(active)'
  <2> SUFFICES ASSUME NEW i \in 1 .. Len(active') PROVE GoodPayload(active'[i])
    BY DEF GoodPayloads
  <2>1. Len(active) \in Nat
    BY <1>1, LenProperties
  <2>2. CASE i <= Len(active)
    BY <1>10, <2>1, <2>2 DEF ConvInv, GoodPayloads
  <2>3. CASE i = Len(active) + 1
    BY <1>4, <1>10, <2>3
  <2> QED BY <1>10, <2>1, <2>2, <2>3
<1>16. Accounted'
  <2> SUFFICES ASSUME NEW a \in Nat, NEW l \in Nat
               PROVE  CountIn(read_req_list', KeyReq(a, l)) =
                        CountIn(active', KeyRead(a, l)) + CountIn(out_order_rsp_list', KeyRsp(a, l))
    BY DEF Accounted
  <2>1. CountIn(read_req_list, KeyReq(a, l)) =
          CountIn(active, KeyRead(a, l)) + CountIn(out_order_rsp_list, KeyRsp(a, l))
    BY DEF ConvInv, Accounted
  <2>2. /\ CountIn(read_req_list, KeyReq(a, l)) \in Nat
        /\ CountIn(active, KeyRead(a, l)) \in Nat
        /\ CountIn(out_order_rsp_list, KeyRsp(a, l)) \in Nat
    BY <1>1, CountType DEF ConvInv, ConvTypeOK
  <2>3. CountIn(active', KeyRead(a, l)) =
          CountIn(active, KeyRead(a, l)) + (IF p \in KeyRead(a, l) THEN 1 ELSE 0)
    BY <1>1, <1>3, <1>7, CountAppend
  <2>4. CountIn(Append(read_req_list, req1), KeyReq(a, l)) =
          CountIn(read_req_list, KeyReq(a, l)) + (IF req1 \in KeyReq(a, l) THEN 1 ELSE 0)
    BY <1>1, <1>5, CountAppend
  <2>5. p \in KeyRead(a, l) <=> ~ p.is_write /\ req1 \in KeyReq(a, l)
    BY <1>3, <1>5 DEF KeyRead, KeyReq
  <2>6. out_order_rsp_list' = out_order_rsp_list
    BY <1>7
  <2>7. CASE p.is_write
    <3>1. read_req_list' = read_req_list
      BY <1>7, <2>7
    <3> QED BY <3>1, <2>1, <2>2, <2>3, <2>5, <2>6, <2>7
  <2>8. CASE ~ p.is_write
    <3>1. read_req_list' = Append(read_req_list, req1)
      BY <1>7, <2>8
    <3> QED BY <3>1, <2>1, <2>2, <2>3, <2>4, <2>5, <2>6, <2>8
  <2> QED BY <2>7, <2>8
<1>17. Totals'
  <2>1. /\ inflight_read_cnt = Len(read_req_list)
        /\ Len(read_req_list) = CountIn(active, ReadPayloads) + Len(out_order_rsp_list)
        /\ Len(write_req_list) = CountIn(active, WritePayloads)
    BY DEF ConvInv, Totals
  <2>2. /\ CountIn(active, ReadPayloads) \in Nat /\ CountIn(active, WritePayloads) \in Nat
        /\ Len(out_order_rsp_list) \in Nat
    BY <1>1, CountType, LenProperties DEF ConvInv, ConvTypeOK
  <2>3. /\ CountIn(active', ReadPayloads) =
             CountIn(active, ReadPayloads) + (IF p \in ReadPayloads THEN 1 ELSE 0)
        /\ CountIn(active', WritePayloads) =
             CountIn(active, WritePayloads) + (IF p \in WritePayloads THEN 1 ELSE 0)
    BY <1>1, <1>3, <1>7, CountAppend
  <2>4. (p \in ReadPayloads <=> ~ p.is_write) /\ (p \in WritePayloads <=> p.is_write)
    BY <1>3 DEF ReadPayloads, WritePayloads
  <2>5. out_order_rsp_list' = out_order_rsp_list
    BY <1>7
  <2>6. CASE p.is_write
    <3>1. /\ read_req_list' = read_req_list /\ inflight_read_cnt' = inflight_read_cnt
          /\ write_req_list' = Append(write_req_list, req1)
      BY <1>7, <2>6
    <3> QED BY <3>1, <1>11, <2>1, <2>2, <2>3, <2>4, <2>5, <2>6 DEF Totals
  <2>7. CASE ~ p.is_write
    <3>1. /\ read_req_list' = Append(read_req_list, req1)
          /\ inflight_read_cnt' = inflight_read_cnt + 1
          /\ write_req_list' = write_req_list
      BY <1>7, <2>7
    <3> QED BY <3>1, <1>11, <2>1, <2>2, <2>3, <2>4, <2>5, <2>7 DEF Totals
  <2> QED BY <2>6, <2>7
<1> QED
  BY <1>6, <1>7, <1>12, <1>13, <1>14, <1>15, <1>16, <1>17 DEF ConvInv

\* The bytes of a payload that lies in the memory are bytes.
LEMMA FetchedBytes ==
  ASSUME ConvTypeOK, NEW p, GoodPayload(p)
  PROVE  Fetched(p) \in Seq(Byte)
<1>1. /\ p.addr \in Nat /\ p.len \in Nat /\ p.addr + p.len <= MemSize
      /\ mem \in [Addrs -> Byte] /\ MemSize \in Nat
  BY ConvConstants DEF GoodPayload, Payload, ConvTypeOK
<1>2. \A k \in 1 .. p.len : p.addr + k - 1 \in Addrs
  BY <1>1 DEF Addrs
<1>3. \A k \in 1 .. p.len : mem[p.addr + k - 1] \in Byte
  BY <1>1, <1>2
<1> QED BY <1>1, <1>3 DEF Fetched

\* Removing an entry of active leaves good payloads.
LEMMA RemoveGood ==
  ASSUME NEW q \in Seq(Payload), GoodPayloads(q), NEW i \in 1 .. Len(q)
  PROVE  GoodPayloads(RemoveAt(q, i))
<1>1. IsWithout(RemoveAt(q, i), q, i) /\ Len(q) \in Nat
  BY RemoveAtWithout, LenProperties
<1> QED
  BY <1>1 DEF IsWithout, GoodPayloads

\* A read response always finds the request it answers.
LEMMA ResponseFound ==
  ASSUME ConvInv, NEW i \in DOMAIN active, ~ active[i].is_write
  PROVE  FirstLike(read_req_list, active[i]) # 0
<1> DEFINE p == active[i]
           a == p.addr
           l == p.len
<1>1. /\ active \in Seq(Payload) /\ read_req_list \in Seq(ReqT)
      /\ out_order_rsp_list \in Seq(Response)
  BY DEF ConvInv, ConvTypeOK
<1>2. DOMAIN active = 1 .. Len(active) /\ p \in Payload
  BY <1>1, LenProperties, ElementOfSeq
<1>3. a \in Nat /\ l \in Nat /\ p \in KeyRead(a, l)
  BY <1>2 DEF KeyRead, Payload
<1>4. CountIn(active, KeyRead(a, l)) # 0
  BY <1>1, <1>2, <1>3, CountType
<1>5. CountIn(read_req_list, KeyReq(a, l)) =
        CountIn(active, KeyRead(a, l)) + CountIn(out_order_rsp_list, KeyRsp(a, l))
  BY <1>3 DEF ConvInv, Accounted
<1>6. /\ CountIn(active, KeyRead(a, l)) \in Nat
      /\ CountIn(out_order_rsp_list, KeyRsp(a, l)) \in Nat
  BY <1>1, CountType
<1>7. CountIn(read_req_list, KeyReq(a, l)) # 0
  BY <1>4, <1>5, <1>6
<1>8. PICK k \in 1 .. Len(read_req_list) : read_req_list[k] \in KeyReq(a, l)
  BY <1>1, <1>7, CountType
<1>9. read_req_list[k].addr = p.addr /\ read_req_list[k].len = p.len
  BY <1>8 DEF KeyReq
<1> QED
  BY <1>1, <1>9, FirstLikeFinds

\* A read response is filed, not fatal, and keeps the invariant.
LEMMA BeginRespReadKeeps ==
  ASSUME ConvInv, NEW i, BeginRespRead(i)
  PROVE  pc' = "match" /\ ConvInv'
<1> DEFINE p == active[i]
           rsp == [addr |-> p.addr, len |-> p.len, data |-> Fetched(p)]
<1>1. i \in DOMAIN active /\ ~ p.is_write
  BY DEF BeginRespRead, Answerable
<1>2. /\ active \in Seq(Payload) /\ out_order_rsp_list \in Seq(Response)
      /\ read_req_list \in Seq(ReqT)
  BY DEF ConvInv, ConvTypeOK
<1>3. DOMAIN active = 1 .. Len(active) /\ p \in Payload /\ GoodPayload(p)
  BY <1>1, <1>2, LenProperties, ElementOfSeq DEF ConvInv, GoodPayloads
<1>4. /\ out_order_rsp_list' = Append(out_order_rsp_list, rsp)
      /\ active' = RemoveAt(active, i) /\ pc' = "match"
      /\ UNCHANGED <<all_req_list, read_req_list, write_req_list, read_rsp_queue,
                     write_rsp_queue, inflight_read_cnt, beginq, mem>>
  BY <1>1, ResponseFound DEF BeginRespRead
<1>5. rsp \in Response /\ rsp.addr = p.addr /\ rsp.len = p.len
  <2>1. Fetched(p) \in Seq(Byte)
    BY <1>3, FetchedBytes DEF ConvInv
  <2>2. p.addr \in Nat /\ p.len \in Nat
    BY <1>3 DEF Payload
  <2> QED BY <2>1, <2>2 DEF Response
<1> HIDE DEF p, rsp
<1>6. active' \in Seq(Payload) /\ IsWithout(active', active, i)
  BY <1>1, <1>2, <1>3, <1>4, RemoveAtWithout
<1>7. /\ out_order_rsp_list' \in Seq(Response)
      /\ Len(out_order_rsp_list') = Len(out_order_rsp_list) + 1
  BY <1>2, <1>4, <1>5, AppendProperties
<1>8. ConvTypeOK'
  BY <1>4, <1>6, <1>7 DEF ConvInv, ConvTypeOK
<1>9. Sent' /\ GoodPayloads(beginq)'
  BY <1>4 DEF ConvInv, Sent, GoodPayloads
<1>10. GoodPayloads(active)'
  <2>1. GoodPayloads(RemoveAt(active, i))
    BY <1>1, <1>2, <1>3, RemoveGood DEF ConvInv
  <2> QED BY <1>4, <2>1 DEF GoodPayloads
<1>11. active[i] = p
  BY DEF p
<1>12. Accounted'
  <2> SUFFICES ASSUME NEW a \in Nat, NEW l \in Nat
               PROVE  CountIn(read_req_list', KeyReq(a, l)) =
                        CountIn(active', KeyRead(a, l)) + CountIn(out_order_rsp_list', KeyRsp(a, l))
    BY DEF Accounted
  <2>1. CountIn(read_req_list, KeyReq(a, l)) =
          CountIn(active, KeyRead(a, l)) + CountIn(out_order_rsp_list, KeyRsp(a, l))
    BY DEF ConvInv, Accounted
  <2>2. /\ CountIn(active, KeyRead(a, l)) \in Nat
        /\ CountIn(out_order_rsp_list, KeyRsp(a, l)) \in Nat
    BY <1>2, CountType
  <2>3. CountIn(active', KeyRead(a, l)) =
          CountIn(active, KeyRead(a, l)) - (IF p \in KeyRead(a, l) THEN 1 ELSE 0)
    BY <1>1, <1>2, <1>3, <1>6, <1>11, CountWithout
  <2>4. CountIn(out_order_rsp_list', KeyRsp(a, l)) =
          CountIn(out_order_rsp_list, KeyRsp(a, l)) + (IF rsp \in KeyRsp(a, l) THEN 1 ELSE 0)
    BY <1>2, <1>4, <1>5, CountAppend
  <2>5. p \in KeyRead(a, l) <=> rsp \in KeyRsp(a, l)
    BY <1>1, <1>3, <1>5, <1>11 DEF KeyRead, KeyRsp
  <2>6. read_req_list' = read_req_list
    BY <1>4
  <2> QED BY <2>1, <2>2, <2>3, <2>4, <2>5, <2>6
<1>13. Totals'
  <2>1. /\ inflight_read_cnt = Len(read_req_list)
        /\ Len(read_req_list) = CountIn(active, ReadPayloads) + Len(out_order_rsp_list)
        /\ Len(write_req_list) = CountIn(active, WritePayloads)
    BY DEF ConvInv, Totals
  <2>2. /\ CountIn(active, ReadPayloads) \in Nat /\ CountIn(active, WritePayloads) \in Nat
        /\ Len(out_order_rsp_list) \in Nat
    BY <1>2, CountType, LenProperties
  <2>3. /\ CountIn(active', ReadPayloads) =
             CountIn(active, ReadPayloads) - (IF p \in ReadPayloads THEN 1 ELSE 0)
        /\ CountIn(active', WritePayloads) =
             CountIn(active, WritePayloads) - (IF p \in WritePayloads THEN 1 ELSE 0)
    BY <1>1, <1>2, <1>3, <1>6, <1>11, CountWithout
  <2>4. p \in ReadPayloads /\ p \notin WritePayloads
    BY <1>1, <1>3, <1>11 DEF ReadPayloads, WritePayloads
  <2>5. UNCHANGED <<read_req_list, write_req_list, inflight_read_cnt>>
    BY <1>4
  <2> QED BY <1>7, <2>1, <2>2, <2>3, <2>4, <2>5 DEF Totals
<1> QED
  BY <1>4, <1>8, <1>9, <1>10, <1>12, <1>13 DEF ConvInv, GoodPayloads

\* What Matched finds is a response for the oldest outstanding read.
LEMMA MatchedKey ==
  ASSUME ConvTypeOK, Matched # 0
  PROVE  /\ read_req_list # << >>
         /\ Matched \in 1 .. Len(out_order_rsp_list)
         /\ out_order_rsp_list[Matched].addr = read_req_list[1].addr
         /\ out_order_rsp_list[Matched].len = read_req_list[1].len
<1>1. out_order_rsp_list \in Seq(Response) /\ read_req_list \in Seq(ReqT)
  BY DEF ConvTypeOK
<1>2. read_req_list # << >> /\ Matched = FirstLike(out_order_rsp_list, Head(read_req_list))
  BY DEF Matched
<1>3. Head(read_req_list) = read_req_list[1]
  BY <1>1, <1>2
<1> QED BY <1>1, <1>2, <1>3, FirstLikeFinds

\* Delivering a response in order keeps the invariant.
LEMMA MatchStepKeeps ==
  ASSUME ConvInv, NEW after, MatchStep(after)
  PROVE  pc' = after /\ ConvInv'
<1> DEFINE m == Matched
           rsp == out_order_rsp_list[m]
           req1 == read_req_list[1]
<1>1. /\ m # 0
      /\ read_rsp_queue' = read_rsp_queue \o rsp.data
      /\ out_order_rsp_list' = RemoveAt(out_order_rsp_list, m)
      /\ read_req_list' = Tail(read_req_list)
      /\ inflight_read_cnt' = inflight_read_cnt - 1
      /\ pc' = after
      /\ UNCHANGED <<all_req_list, write_req_list, write_rsp_queue, beginq, active, mem>>
  BY DEF MatchStep, dramVars
<1>2. /\ out_order_rsp_list \in Seq(Response) /\ read_req_list \in Seq(ReqT)
      /\ read_rsp_queue \in Seq(Byte) /\ active \in Seq(Payload)
  BY DEF ConvInv, ConvTypeOK
<1>3. /\ read_req_list # << >> /\ m \in 1 .. Len(out_order_rsp_list)
      /\ rsp.addr = req1.addr /\ rsp.len = req1.len
  BY <1>1, MatchedKey DEF ConvInv
<1> HIDE DEF m
<1>4. rsp \in Response /\ req1 \in ReqT
  BY <1>2, <1>3, ElementOfSeq, TailWithout
<1> HIDE DEF rsp, req1
<1>5. /\ out_order_rsp_list' \in Seq(Response)
      /\ IsWithout(out_order_rsp_list', out_order_rsp_list, m)
  BY <1>1, <1>2, <1>3, RemoveAtWithout
<1>6. /\ read_req_list' \in Seq(ReqT) /\ IsWithout(read_req_list', read_req_list, 1)
      /\ 1 \in 1 .. Len(read_req_list)
  BY <1>1, <1>2, <1>3, TailWithout
<1>7. read_rsp_queue' \in Seq(Byte)
  BY <1>1, <1>2, <1>4 DEF Response
<1>8. ConvTypeOK'
  BY <1>1, <1>5, <1>6, <1>7 DEF ConvInv, ConvTypeOK
<1>9. Sent' /\ GoodPayloads(beginq)' /\ GoodPayloads(active)'
  BY <1>1 DEF ConvInv, Sent, GoodPayloads
<1>10. rsp = out_order_rsp_list[m] /\ req1 = read_req_list[1]
  BY DEF rsp, req1
<1>11. Accounted'
  <2> SUFFICES ASSUME NEW a \in Nat, NEW l \in Nat
               PROVE  CountIn(read_req_list', KeyReq(a, l)) =
                        CountIn(active', KeyRead(a, l)) + CountIn(out_order_rsp_list', KeyRsp(a, l))
    BY DEF Accounted
  <2>1. CountIn(read_req_list, KeyReq(a, l)) =
          CountIn(active, KeyRead(a, l)) + CountIn(out_order_rsp_list, KeyRsp(a, l))
    BY DEF ConvInv, Accounted
  <2>2. /\ CountIn(active, KeyRead(a, l)) \in Nat
        /\ CountIn(out_order_rsp_list, KeyRsp(a, l)) \in Nat
    BY <1>2, CountType
  <2>3. CountIn(read_req_list', KeyReq(a, l)) =
          CountIn(read_req_list, KeyReq(a, l)) - (IF req1 \in KeyReq(a, l) THEN 1 ELSE 0)
    BY <1>2, <1>6, <1>10, CountWithout
  <2>4. CountIn(out_order_rsp_list', KeyRsp(a, l)) =
          CountIn(out_order_rsp_list, KeyRsp(a, l)) - (IF rsp \in KeyRsp(a, l) THEN 1 ELSE 0)
    BY <1>2, <1>3, <1>5, <1>10, CountWithout
  <2>5. req1 \in KeyReq(a, l) <=> rsp \in KeyRsp(a, l)
    BY <1>3, <1>4 DEF KeyReq, KeyRsp
  <2>6. active' = active
    BY <1>1
  <2> QED BY <2>1, <2>2, <2>3, <2>4, <2>5, <2>6
<1>12. Totals'
  <2>1. /\ inflight_read_cnt = Len(read_req_list)
        /\ Len(read_req_list) = CountIn(active, ReadPayloads) + Len(out_order_rsp_list)
        /\ Len(write_req_list) = CountIn(active, WritePayloads)
    BY DEF ConvInv, Totals
  <2>2. CountIn(active, ReadPayloads) \in Nat /\ Len(out_order_rsp_list) \in Nat
    BY <1>2, CountType, LenProperties
  <2>3. active' = active /\ write_req_list' = write_req_list
    BY <1>1
  <2>4. /\ Len(read_req_list') = Len(read_req_list) - 1
        /\ Len(out_order_rsp_list') = Len(out_order_rsp_list) - 1
    BY <1>5, <1>6 DEF IsWithout
  <2> QED BY <1>1, <2>1, <2>2, <2>3, <2>4 DEF Totals
<1> QED
  BY <1>1, <1>8, <1>9, <1>11, <1>12 DEF ConvInv

\* A write response finds a request to drop and keeps the invariant.
LEMMA BeginRespWriteKeeps ==
  ASSUME ConvInv, NEW i, NEW after, BeginRespWrite(i, after)
  PROVE  pc' = after /\ ConvInv'
<1> DEFINE p == active[i]
<1>1. /\ i \in DOMAIN active /\ p.is_write
      /\ mem' = Written(mem, p) /\ active' = RemoveAt(active, i)
      /\ write_req_list' = Tail(write_req_list)
      /\ write_rsp_queue' = Append(write_rsp_queue, 1) /\ pc' = after
      /\ UNCHANGED <<all_req_list, read_req_list, out_order_rsp_list,
                     read_rsp_queue, inflight_read_cnt, beginq>>
  BY DEF BeginRespWrite, Answerable
<1>2. /\ active \in Seq(Payload) /\ write_req_list \in Seq(ReqT)
      /\ write_rsp_queue \in Seq({1}) /\ mem \in [Addrs -> Byte]
      /\ out_order_rsp_list \in Seq(Response)
  BY DEF ConvInv, ConvTypeOK
<1>3. DOMAIN active = 1 .. Len(active) /\ p \in Payload /\ GoodPayload(p)
  BY <1>1, <1>2, LenProperties, ElementOfSeq DEF ConvInv, GoodPayloads
<1> HIDE DEF p
<1>4. /\ p.addr \in Nat /\ p.len \in Nat /\ p.is_write \in BOOLEAN
      /\ p.data \in Seq(Byte) /\ Len(p.data) = p.len
  BY <1>1, <1>3 DEF GoodPayload, Payload, p
<1>5. mem' \in [Addrs -> Byte]
  <2>1. Written(mem, p) =
          [a \in Addrs |-> IF a \in Bytes(p) /\ p.strobe[a - p.addr + 1]
                           THEN p.data[a - p.addr + 1] ELSE mem[a]]
    BY <1>2 DEF Written
  <2>2. ASSUME NEW a \in Addrs, a \in Bytes(p)
        PROVE  p.data[a - p.addr + 1] \in Byte
    <3>1. a - p.addr + 1 \in 1 .. Len(p.data)
      BY <1>4, <2>2, ConvConstants DEF Addrs, Bytes
    <3> QED BY <1>4, <3>1, ElementOfSeq
  <2>3. \A a \in Addrs : mem[a] \in Byte
    BY <1>2
  <2> QED BY <1>1, <2>1, <2>2, <2>3
<1>6. active' \in Seq(Payload) /\ IsWithout(active', active, i)
  BY <1>1, <1>2, <1>3, RemoveAtWithout
<1>7. active[i] = p
  BY DEF p
<1>8. /\ CountIn(active', ReadPayloads) =
           CountIn(active, ReadPayloads) - (IF p \in ReadPayloads THEN 1 ELSE 0)
      /\ CountIn(active', WritePayloads) =
           CountIn(active, WritePayloads) - (IF p \in WritePayloads THEN 1 ELSE 0)
  BY <1>1, <1>2, <1>3, <1>6, <1>7, CountWithout
<1>9. p \notin ReadPayloads /\ p \in WritePayloads
  BY <1>1, <1>3, <1>7 DEF ReadPayloads, WritePayloads
<1>10. CountIn(active, WritePayloads) \in Nat /\ CountIn(active, ReadPayloads) \in Nat
  BY <1>2, CountType
<1>11. CountIn(active, WritePayloads) # 0
  BY <1>1, <1>2, <1>3, <1>7, <1>9, CountType
<1>12. Len(write_req_list) = CountIn(active, WritePayloads)
  BY DEF ConvInv, Totals
<1>13. write_req_list # << >>
  BY <1>11, <1>12
<1>14. write_req_list' \in Seq(ReqT) /\ Len(write_req_list') = Len(write_req_list) - 1
  BY <1>1, <1>2, <1>13, HeadTailProperties
<1>15. write_rsp_queue' \in Seq({1})
  BY <1>1, <1>2, AppendProperties
<1>16. ConvTypeOK'
  BY <1>1, <1>5, <1>6, <1>14, <1>15 DEF ConvInv, ConvTypeOK
<1>17. Sent' /\ GoodPayloads(beginq)'
  BY <1>1 DEF ConvInv, Sent, GoodPayloads
<1>18. GoodPayloads(active)'
  <2>1. GoodPayloads(RemoveAt(active, i))
    BY <1>1, <1>2, <1>3, RemoveGood DEF ConvInv
  <2> QED BY <1>1, <2>1 DEF GoodPayloads
<1>19. Accounted'
  <2> SUFFICES ASSUME NEW a \in Nat, NEW l \in Nat
               PROVE  CountIn(read_req_list', KeyReq(a, l)) =
                        CountIn(active', KeyRead(a, l)) + CountIn(out_order_rsp_list', KeyRsp(a, l))
    BY DEF Accounted
  <2>1. CountIn(read_req_list, KeyReq(a, l)) =
          CountIn(active, KeyRead(a, l)) + CountIn(out_order_rsp_list, KeyRsp(a, l))
    BY DEF ConvInv, Accounted
  <2>2. CountIn(active, KeyRead(a, l)) \in Nat
    BY <1>2, CountType
  <2>3. CountIn(active', KeyRead(a, l)) =
          CountIn(active, KeyRead(a, l)) - (IF p \in KeyRead(a, l) THEN 1 ELSE 0)
    BY <1>1, <1>2, <1>3, <1>6, <1>7, CountWithout
  <2>4. p \notin KeyRead(a, l)
    BY <1>1, <1>7 DEF KeyRead
  <2>5. UNCHANGED <<read_req_list, out_order_rsp_list>>
    BY <1>1
  <2> QED BY <2>1, <2>2, <2>3, <2>4, <2>5
<1>20. Totals'
  <2>1. /\ inflight_read_cnt = Len(read_req_list)
        /\ Len(read_req_list) = CountIn(active, ReadPayloads) + Len(out_order_rsp_list)
    BY DEF ConvInv, Totals
  <2>2. UNCHANGED <<read_req_list, out_order_rsp_list, inflight_read_cnt>>
    BY <1>1
  <2> QED BY <1>8, <1>9, <1>10, <1>12, <1>14, <2>1, <2>2 DEF Totals
<1> QED
  BY <1>1, <1>16, <1>17, <1>18, <1>19, <1>20 DEF ConvInv

\* The invariant speaks of the converter only.
LEMMA ConvUnchanged ==
  ASSUME ConvInv, UNCHANGED <<convVars, dramVars>>
  PROVE  ConvInv'
  BY DEF ConvInv, ConvTypeOK, Sent, Accounted, Totals, GoodPayloads, CountIn, Places,
         convVars, dramVars

\* It does not depend on the bytes and acknowledgements the client takes.
LEMMA ConvTaken ==
  ASSUME ConvInv,
         UNCHANGED <<all_req_list, read_req_list, write_req_list, out_order_rsp_list,
                     inflight_read_cnt, dramVars>>,
         read_rsp_queue' \in Seq(Byte), write_rsp_queue' \in Seq({1})
  PROVE  ConvInv'
  BY DEF ConvInv, ConvTypeOK, Sent, Accounted, Totals, GoodPayloads, CountIn, Places,
         dramVars

-----------------------------------------------------------------------------
(* What the reads on their way will return                                 *)

Memory == [Addrs -> Byte]

\* The bytes of payload p in memory m, and m once p is served.
Bits(m, p) == [k \in 1 .. p.len |-> m[p.addr + k - 1]]
After(m, p) == IF p.is_write THEN Written(m, p) ELSE m

\* ms[j] is the memory that the j-th payload on its way will find when it is
\* served in its turn; fin is the one the last of them leaves.
Trace(U, m, fin, ms) ==
  /\ \A j \in 1 .. Len(U) + 1 : ms[j] \in Memory
  /\ ms[1] = m /\ ms[Len(U) + 1] = fin
  /\ \A j \in 1 .. Len(U) : ms[j + 1] = After(ms[j], U[j])

\* Serving a write stores bytes.
LEMMA AfterType ==
  ASSUME NEW m \in Memory, NEW p, GoodPayload(p)
  PROVE  After(m, p) \in Memory /\ (p.is_write => Written(m, p) \in Memory)
<1>1. /\ p.addr \in Nat /\ p.len \in Nat /\ MemSize \in Nat
      /\ p.data \in Seq(Byte) /\ p.is_write \in BOOLEAN
      /\ p.is_write => Len(p.data) = p.len
      /\ m \in [Addrs -> Byte]
  BY ConvConstants DEF GoodPayload, Payload, Memory
<1>2. ASSUME p.is_write, NEW a \in Addrs, a \in Bytes(p)
      PROVE  p.data[a - p.addr + 1] \in Byte
  <2>1. a - p.addr + 1 \in 1 .. Len(p.data)
    BY <1>1, <1>2 DEF Bytes, Addrs
  <2> QED BY <1>1, <2>1, ElementOfSeq
<1>3. p.is_write => Written(m, p) \in Memory
  BY <1>1, <1>2 DEF Written, Memory
<1> QED BY <1>1, <1>3 DEF After

\* A payload does not see the writes that do not overlap it.
LEMMA WriteElsewhere ==
  ASSUME NEW m \in Memory, NEW p \in Payload, NEW q, GoodPayload(q), ~ Overlaps(p, q)
  PROVE  Bits(Written(m, p), q) = Bits(m, q) /\ Bits(After(m, p), q) = Bits(m, q)
<1>1. /\ q.addr \in Nat /\ q.len \in Nat /\ q.addr + q.len <= MemSize /\ MemSize \in Nat
      /\ m \in [Addrs -> Byte]
  BY ConvConstants DEF GoodPayload, Payload, Memory
<1>2. ASSUME NEW k \in 1 .. q.len
      PROVE  Written(m, p)[q.addr + k - 1] = m[q.addr + k - 1]
  <2>1. q.addr + k - 1 \in Bytes(q) /\ q.addr + k - 1 \in Addrs
    BY <1>1 DEF Bytes, Addrs
  <2>2. q.addr + k - 1 \notin Bytes(p)
    BY <2>1 DEF Overlaps
  <2> QED BY <1>1, <2>1, <2>2 DEF Written
<1>3. Bits(Written(m, p), q) = Bits(m, q)
  BY <1>2 DEF Bits
<1> QED BY <1>3 DEF After

\* Payloads that do not overlap may be served in either order.
LEMMA ServedSwap ==
  ASSUME NEW m \in Memory, NEW p, GoodPayload(p), NEW q, GoodPayload(q), ~ Overlaps(p, q)
  PROVE  After(After(m, p), q) = After(After(m, q), p)
<1>1. DOMAIN m = Addrs
  BY DEF Memory
<1>2. CASE p.is_write /\ q.is_write
  <2>1. \A a \in Addrs : a \notin Bytes(p) \/ a \notin Bytes(q)
    BY DEF Overlaps
  <2>2. DOMAIN Written(m, p) = Addrs /\ DOMAIN Written(m, q) = Addrs
    BY <1>1 DEF Written
  <2>3. ASSUME NEW a \in Addrs
        PROVE  Written(Written(m, p), q)[a] = Written(Written(m, q), p)[a]
    <3>1. CASE a \in Bytes(p)
      BY <1>1, <2>1, <2>2, <3>1 DEF Written
    <3>2. CASE a \notin Bytes(p)
      BY <1>1, <2>1, <2>2, <3>2 DEF Written
    <3> QED BY <3>1, <3>2
  <2>4. Written(Written(m, p), q) = Written(Written(m, q), p)
    <3>1. /\ Written(Written(m, p), q) = [a \in Addrs |-> Written(Written(m, p), q)[a]]
          /\ Written(Written(m, q), p) = [a \in Addrs |-> Written(Written(m, q), p)[a]]
      BY <2>2 DEF Written
    <3> QED BY <2>3, <3>1
  <2> QED BY <1>2, <2>4 DEF After
<1>3. CASE ~ p.is_write \/ ~ q.is_write
  BY <1>3 DEF After
<1> QED BY <1>2, <1>3

\* A payload that may be answered now finds its bytes in the memory as it is.
LEMMA SameBits ==
  ASSUME NEW U \in Seq(Payload), GoodPayloads(U), NEW m, NEW fin, NEW ms,
         Trace(U, m, fin, ms), NEW i \in 1 .. Len(U),
         \A j \in 1 .. i - 1 : ~ Overlaps(U[j], U[i])
  PROVE  Bits(ms[i], U[i]) = Bits(m, U[i])
<1> DEFINE T == {x \in 1 .. i : Bits(ms[x], U[i]) = Bits(m, U[i])}
<1>1. Len(U) \in Nat /\ GoodPayload(U[i])
  BY LenProperties DEF GoodPayloads
<1>2. T \in SUBSET (0 .. i) /\ 1 \in T /\ i \in Nat
  BY <1>1 DEF Trace
<1> HIDE DEF T
<1>3. PICK x \in T : \A y \in T : y <= x
  BY <1>2, GreatestNat
<1>4. x \in 1 .. i /\ Bits(ms[x], U[i]) = Bits(m, U[i])
  BY <1>3 DEF T
<1>5. CASE x < i
  <2>1. x \in 1 .. Len(U) /\ x \in 1 .. i - 1 /\ x \in 1 .. Len(U) + 1 /\ x + 1 \in 1 .. i
    BY <1>1, <1>4, <1>5
  <2>2. ms[x] \in Memory /\ ms[x + 1] = After(ms[x], U[x]) /\ U[x] \in Payload
    BY <2>1, ElementOfSeq DEF Trace
  <2>3. Bits(ms[x + 1], U[i]) = Bits(m, U[i])
    BY <1>1, <1>4, <2>1, <2>2, WriteElsewhere
  <2>4. x + 1 \in T
    BY <2>1, <2>3 DEF T
  <2> QED BY <1>3, <1>4, <2>4
<1>6. CASE x = i
  BY <1>4, <1>6
<1> QED BY <1>4, <1>5, <1>6

\* The trace of the payloads sent goes on where the one on its way ends.
LEMMA TraceSend ==
  ASSUME NEW U \in Seq(Payload), NEW m, NEW fin, NEW ms, Trace(U, m, fin, ms),
         NEW ps \in Seq(Payload), NEW to, NEW es, Trace(ps, fin, to, es),
         NEW ns, ns = [j \in 1 .. Len(U) + Len(ps) + 1 |->
                         IF j <= Len(U) THEN ms[j] ELSE es[j - Len(U)]]
  PROVE  /\ Trace(U \o ps, m, to, ns)
         /\ \A j \in 1 .. Len(U) + 1 : ns[j] = ms[j]
<1>1. PICK u \in Nat, v \in Nat : u = Len(U) /\ v = Len(ps)
  BY LenProperties
<1>2. /\ Len(U \o ps) = u + v
      /\ \A j \in 1 .. u : (U \o ps)[j] = U[j]
      /\ \A j \in u + 1 .. u + v : (U \o ps)[j] = ps[j - u]
  BY <1>1, ConcatProperties
<1>3. /\ \A j \in 1 .. u + 1 : ms[j] \in Memory
      /\ ms[1] = m /\ ms[u + 1] = fin
      /\ \A j \in 1 .. u : ms[j + 1] = After(ms[j], U[j])
  BY <1>1 DEF Trace
<1>4. /\ \A j \in 1 .. v + 1 : es[j] \in Memory
      /\ es[1] = fin /\ es[v + 1] = to
      /\ \A j \in 1 .. v : es[j + 1] = After(es[j], ps[j])
  BY <1>1 DEF Trace
<1>5. /\ \A j \in 1 .. u : ns[j] = ms[j]
      /\ \A j \in u + 1 .. u + v + 1 : ns[j] = es[j - u]
  BY <1>1
<1>6. ns[u + 1] = fin
  <2>1. (u + 1) - u = 1 /\ u + 1 \in u + 1 .. u + v + 1
    OBVIOUS
  <2> QED BY <1>4, <1>5, <2>1
<1>7. ASSUME NEW j \in 1 .. u + 1 PROVE ns[j] = ms[j]
  <2>1. j \in 1 .. u \/ j = u + 1
    OBVIOUS
  <2> QED BY <1>3, <1>5, <1>6, <2>1
<1>8. ASSUME NEW j \in 1 .. u + v + 1 PROVE ns[j] \in Memory
  <2>1. CASE j \in 1 .. u
    <3>1. j \in 1 .. u + 1
      BY <2>1
    <3> QED BY <1>3, <1>5, <2>1, <3>1
  <2>2. CASE j \in u + 1 .. u + v + 1
    <3>1. j - u \in 1 .. v + 1
      BY <2>2
    <3> QED BY <1>4, <1>5, <2>2, <3>1
  <2>3. j \in 1 .. u \/ j \in u + 1 .. u + v + 1
    OBVIOUS
  <2> QED BY <2>1, <2>2, <2>3
<1>9. ns[1] = m
  <2>1. 1 \in 1 .. u + 1
    OBVIOUS
  <2> QED BY <1>3, <1>7, <2>1
<1>10. ns[u + v + 1] = to
  <2>1. (u + v + 1) - u = v + 1 /\ u + v + 1 \in u + 1 .. u + v + 1
    OBVIOUS
  <2> QED BY <1>4, <1>5, <2>1
<1>11. ASSUME NEW j \in 1 .. u + v PROVE ns[j + 1] = After(ns[j], (U \o ps)[j])
  <2>1. CASE j \in 1 .. u
    <3>1. j + 1 \in 1 .. u + 1 /\ j \in 1 .. u + 1
      BY <2>1
    <3> QED BY <1>2, <1>3, <1>7, <2>1, <3>1
  <2>2. CASE j \in u + 1 .. u + v
    <3>1. PICK k \in 1 .. v : j = k + u
      <4>1. j - u \in 1 .. v /\ j = (j - u) + u
        BY <2>2
      <4> QED BY <4>1
    <3>2. j + 1 \in u + 1 .. u + v + 1 /\ j \in u + 1 .. u + v + 1
          /\ j - u = k /\ (j + 1) - u = k + 1
      BY <3>1
    <3>3. ns[j + 1] = es[k + 1] /\ ns[j] = es[k] /\ (U \o ps)[j] = ps[k]
      BY <1>2, <1>5, <2>2, <3>2
    <3> QED BY <1>4, <3>1, <3>3
  <2>3. j \in 1 .. u \/ j \in u + 1 .. u + v
    OBVIOUS
  <2> QED BY <2>1, <2>2, <2>3
<1> QED
  BY <1>1, <1>2, <1>7, <1>8, <1>9, <1>10, <1>11 DEF Trace

\* Where the j-th payload was before the i-th one left.
Before(i, j) == IF j < i THEN j ELSE j + 1

\* The payloads V that stay find the same bytes as before.
SameFound(V, ns, U, ms, i) ==
  \A j \in 1 .. Len(V) : Bits(ns[j], V[j]) = Bits(ms[Before(i, j)], U[Before(i, j)])

\* When payload i is served early, as no older one overlaps it, the others
\* still find the same bytes and the last one leaves the same memory.
LEMMA TraceServe ==
  ASSUME NEW U \in Seq(Payload), GoodPayloads(U), NEW m, NEW fin, NEW ms,
         Trace(U, m, fin, ms), NEW i \in 1 .. Len(U),
         \A j \in 1 .. i - 1 : ~ Overlaps(U[j], U[i]),
         NEW V, IsWithout(V, U, i)
  PROVE  \E ns : /\ Trace(V, After(m, U[i]), fin, ns)
                 /\ SameFound(V, ns, U, ms, i)
<1> DEFINE p == U[i]
           ns == [j \in 1 .. Len(U) |-> IF j <= i THEN After(ms[j], p) ELSE ms[j + 1]]
<1>1. PICK u \in Nat : u = Len(U)
  BY LenProperties
<1>2. /\ i \in 1 .. u /\ i \in Nat /\ Len(V) = u - 1
      /\ \A j \in 1 .. u - 1 : V[j] = IF j < i THEN U[j] ELSE U[j + 1]
  BY <1>1 DEF IsWithout
<1>3. /\ \A j \in 1 .. u + 1 : ms[j] \in Memory
      /\ ms[1] = m /\ ms[u + 1] = fin
      /\ \A j \in 1 .. u : ms[j + 1] = After(ms[j], U[j])
  BY <1>1 DEF Trace
<1>4. /\ \A j \in 1 .. u : GoodPayload(U[j]) /\ U[j] \in Payload
      /\ GoodPayload(p) /\ p \in Payload
  BY <1>1 DEF GoodPayloads, GoodPayload
<1>5. /\ \A j \in 1 .. u : j <= i => ns[j] = After(ms[j], p)
      /\ \A j \in 1 .. u : j > i => ns[j] = ms[j + 1]
  BY <1>1, <1>2
<1>6. ns[i] = ms[i + 1]
  BY <1>2, <1>3, <1>5 DEF p
<1> HIDE DEF p, ns
<1>7. ASSUME NEW j \in 1 .. u, j >= i PROVE ns[j] = ms[j + 1]
  BY <1>2, <1>5, <1>6, <1>7
<1>8. ASSUME NEW j \in 1 .. u PROVE ns[j] \in Memory
  <2>1. j \in 1 .. u + 1 /\ j + 1 \in 1 .. u + 1
    OBVIOUS
  <2>2. CASE j <= i
    BY <1>3, <1>4, <1>5, <2>1, <2>2, AfterType
  <2>3. CASE j > i
    BY <1>3, <1>5, <2>1, <2>3
  <2> QED BY <1>2, <2>2, <2>3
<1>9. ns[1] = After(m, p)
  <2>1. 1 \in 1 .. u /\ 1 <= i
    BY <1>2
  <2> QED BY <1>3, <1>5, <2>1
<1>10. ns[u] = fin
  <2>1. u \in 1 .. u /\ u >= i
    BY <1>2
  <2> QED BY <1>3, <1>7, <2>1
<1>11. ASSUME NEW j \in 1 .. u - 1 PROVE ns[j + 1] = After(ns[j], V[j])
  <2>1. j \in 1 .. u /\ j + 1 \in 1 .. u /\ j \in 1 .. u + 1 /\ (j + 1) + 1 = j + 2
    OBVIOUS
  <2>2. CASE j < i
    <3>1. j \in 1 .. i - 1 /\ j + 1 <= i /\ j <= i
      BY <1>2, <2>2
    <3>2. ~ Overlaps(U[j], p)
      BY <3>1 DEF p
    <3>3. After(After(ms[j], U[j]), p) = After(After(ms[j], p), U[j])
      BY <1>3, <1>4, <2>1, <3>2, ServedSwap
    <3>4. ns[j + 1] = After(ms[j + 1], p) /\ ns[j] = After(ms[j], p)
      BY <1>5, <2>1, <3>1
    <3>5. ms[j + 1] = After(ms[j], U[j]) /\ V[j] = U[j]
      BY <1>2, <1>3, <2>1, <2>2
    <3> QED BY <3>3, <3>4, <3>5
  <2>3. CASE j >= i
    <3>1. j + 1 >= i
      BY <1>2, <2>3
    <3>2. ns[j + 1] = ms[(j + 1) + 1] /\ ns[j] = ms[j + 1]
      BY <1>7, <2>1, <2>3, <3>1
    <3>3. V[j] = U[j + 1]
      BY <1>2, <2>3
    <3> QED BY <1>3, <2>1, <3>2, <3>3
  <2> QED BY <1>2, <2>2, <2>3
<1>12. ASSUME NEW j \in 1 .. u - 1
       PROVE  Bits(ns[j], V[j]) = Bits(ms[Before(i, j)], U[Before(i, j)])
  <2>1. j \in 1 .. u /\ j \in 1 .. u + 1
    OBVIOUS
  <2>2. CASE j < i
    <3>1. j \in 1 .. i - 1 /\ j <= i
      BY <1>2, <2>2
    <3>2. ~ Overlaps(p, U[j])
      BY <3>1 DEF p, Overlaps
    <3>3. Bits(After(ms[j], p), U[j]) = Bits(ms[j], U[j])
      BY <1>3, <1>4, <2>1, <3>2, WriteElsewhere
    <3> QED BY <1>2, <1>5, <2>1, <2>2, <3>1, <3>3 DEF Before
  <2>3. CASE j >= i
    BY <1>2, <1>7, <2>1, <2>3 DEF Before
  <2> QED BY <1>2, <2>2, <2>3
<1>13. Trace(V, After(m, p), fin, ns)
  <2>1. Len(V) + 1 = u
    BY <1>2
  <2> QED BY <1>2, <1>8, <1>9, <1>10, <1>11, <2>1 DEF Trace
<1> QED BY <1>2, <1>12, <1>13 DEF p, SameFound

SameKey(x, y) == x.addr = y.addr /\ x.len = y.len
ReadPlaces(U) == {i \in 1 .. Len(U) : ~ U[i].is_write}

\* The reads not delivered are numbered 1 to total in the order they were
\* sent.  Number k is at the k-th place of read_req_list (rrl) once it is
\* accepted; oid and uid give the numbers of the responses that wait
\* (oorl) and of the payloads on their way (U, the first n accepted).
Waiting(rrl, oorl, oid) ==
  /\ \A k \in 1 .. Len(oorl) : /\ oid[k] \in 1 .. Len(rrl)
                               /\ SameKey(rrl[oid[k]], oorl[k])
  /\ \A k \in 1 .. Len(oorl), l \in 1 .. Len(oorl) :
       k < l => /\ oid[k] # oid[l]
                /\ SameKey(oorl[k], oorl[l]) => oid[k] < oid[l]

OnTheWay(rrl, n, U, total, uid) ==
  /\ Len(rrl) <= total
  /\ \A i \in ReadPlaces(U) :
       /\ uid[i] \in 1 .. total
       /\ i <= n => uid[i] <= Len(rrl) /\ SameKey(rrl[uid[i]], U[i])
       /\ i > n => uid[i] > Len(rrl)
  /\ \A i \in ReadPlaces(U), j \in ReadPlaces(U) :
       i < j => /\ uid[i] # uid[j]
                /\ SameKey(U[i], U[j]) \/ j > n => uid[i] < uid[j]

\* A response overtook no read of the same bytes, and no number is missing.
Numbered(oorl, U, total, oid, uid) ==
  /\ \A k \in 1 .. Len(oorl), i \in ReadPlaces(U) :
       /\ oid[k] # uid[i]
       /\ SameKey(oorl[k], U[i]) => oid[k] < uid[i]
  /\ \A x \in 1 .. total : \/ \E k \in 1 .. Len(oorl) : oid[k] = x
                           \/ \E i \in ReadPlaces(U) : uid[i] = x

Order(rrl, oorl, n, U, total, oid, uid) ==
  /\ Waiting(rrl, oorl, oid)
  /\ OnTheWay(rrl, n, U, total, uid)
  /\ Numbered(oorl, U, total, oid, uid)

\* Sent writes have no number.
LEMMA OrderSendWrites ==
  ASSUME NEW U \in Seq(Payload), NEW ps \in Seq(Payload),
         \A j \in 1 .. Len(ps) : ps[j].is_write,
         NEW rrl, NEW oorl, NEW n, NEW total, NEW oid, NEW uid,
         Order(rrl, oorl, n, U, total, oid, uid)
  PROVE  Order(rrl, oorl, n, U \o ps, total, oid, uid)
<1>1. PICK u \in Nat, v \in Nat : u = Len(U) /\ v = Len(ps)
  BY LenProperties
<1>2. /\ Len(U \o ps) = u + v
      /\ \A j \in 1 .. u : (U \o ps)[j] = U[j]
      /\ \A j \in u + 1 .. u + v : (U \o ps)[j] = ps[j - u]
  BY <1>1, ConcatProperties
<1>3. ASSUME NEW j \in u + 1 .. u + v PROVE (U \o ps)[j].is_write
  <2>1. j - u \in 1 .. v
    OBVIOUS
  <2> QED BY <1>1, <1>2, <2>1
<1>4. ReadPlaces(U \o ps) = ReadPlaces(U) /\ \A i \in ReadPlaces(U) : (U \o ps)[i] = U[i]
  <2>1. \A j \in 1 .. u + v : j \in 1 .. u \/ j \in u + 1 .. u + v
    OBVIOUS
  <2>2. \A j \in 1 .. u : j \in 1 .. u + v
    OBVIOUS
  <2> QED BY <1>1, <1>2, <1>3, <2>1, <2>2 DEF ReadPlaces
<1> QED
  BY <1>4 DEF Order, OnTheWay, Numbered

\* Sent reads get the next numbers.
LEMMA OrderSendReads ==
  ASSUME NEW U \in Seq(Payload), NEW ps \in Seq(Payload),
         \A j \in 1 .. Len(ps) : ~ ps[j].is_write,
         NEW rrl, Len(rrl) \in Nat, NEW oorl, NEW n \in 0 .. Len(U), NEW total \in Nat,
         NEW oid, NEW uid, Order(rrl, oorl, n, U, total, oid, uid),
         NEW vid, vid = [j \in 1 .. Len(U) + Len(ps) |->
                           IF j <= Len(U) THEN uid[j] ELSE total + (j - Len(U))]
  PROVE  Order(rrl, oorl, n, U \o ps, total + Len(ps), oid, vid)
<1>1. PICK u \in Nat, v \in Nat : u = Len(U) /\ v = Len(ps)
  BY LenProperties
<1> DEFINE W == U \o ps
<1>2. /\ Len(W) = u + v
      /\ \A j \in 1 .. u : W[j] = U[j]
      /\ \A j \in u + 1 .. u + v : W[j] = ps[j - u]
  BY <1>1, ConcatProperties
<1> HIDE DEF W
<1>3. ASSUME NEW j \in u + 1 .. u + v PROVE ~ W[j].is_write /\ j \in 1 .. u + v
  <2>1. j - u \in 1 .. v /\ j \in 1 .. u + v
    OBVIOUS
  <2>2. W[j] = ps[j - u] /\ ~ ps[j - u].is_write
    BY <1>1, <1>2, <2>1
  <2> QED BY <2>1, <2>2
<1>4. ASSUME NEW i PROVE i \in ReadPlaces(W) <=> i \in ReadPlaces(U) \/ i \in u + 1 .. u + v
  <2>1. i \in 1 .. u + v <=> i \in 1 .. u \/ i \in u + 1 .. u + v
    OBVIOUS
  <2> QED BY <1>1, <1>2, <1>3, <2>1 DEF ReadPlaces
<1>5. ASSUME NEW i \in ReadPlaces(U) PROVE i \in 1 .. u /\ W[i] = U[i] /\ vid[i] = uid[i]
  <2>1. i \in 1 .. u /\ i \in 1 .. u + v /\ i <= u
    BY <1>1 DEF ReadPlaces
  <2> QED BY <1>1, <1>2, <2>1
<1>6. ASSUME NEW i \in u + 1 .. u + v
      PROVE  vid[i] = total + (i - u) /\ vid[i] \in total + 1 .. total + v
  <2>1. i \in 1 .. u + v /\ ~ (i <= u)
    OBVIOUS
  <2> QED BY <1>1, <2>1
<1>0. /\ Len(rrl) <= total
      /\ \A i \in ReadPlaces(U) :
           /\ uid[i] \in 1 .. total
           /\ i <= n => uid[i] <= Len(rrl) /\ SameKey(rrl[uid[i]], U[i])
           /\ i > n => uid[i] > Len(rrl)
      /\ \A i \in ReadPlaces(U), j \in ReadPlaces(U) :
           i < j => /\ uid[i] # uid[j]
                    /\ SameKey(U[i], U[j]) \/ j > n => uid[i] < uid[j]
  BY DEF Order, OnTheWay
<1>7. ASSUME NEW i \in ReadPlaces(U) PROVE uid[i] \in 1 .. total /\ uid[i] \in Int
  BY <1>0
<1>8. OnTheWay(rrl, n, W, total + v, vid)
  <2>1. ASSUME NEW i \in ReadPlaces(W)
        PROVE  /\ vid[i] \in 1 .. total + v
               /\ i <= n => vid[i] <= Len(rrl) /\ SameKey(rrl[vid[i]], W[i])
               /\ i > n => vid[i] > Len(rrl)
    <3>1. CASE i \in ReadPlaces(U)
      <4>1. /\ i <= n => uid[i] <= Len(rrl) /\ SameKey(rrl[uid[i]], U[i])
            /\ i > n => uid[i] > Len(rrl)
        BY <1>0, <3>1
      <4>2. W[i] = U[i] /\ vid[i] = uid[i] /\ uid[i] \in 1 .. total
        BY <1>5, <1>7, <3>1
      <4>3. \A x \in 1 .. total : x \in 1 .. total + v
        OBVIOUS
      <4> QED BY <4>1, <4>2, <4>3
    <3>2. CASE i \in u + 1 .. u + v
      <4>1. i > n /\ ~ (i <= n)
        BY <1>1, <3>2
      <4>2. vid[i] \in total + 1 .. total + v
        BY <1>6, <3>2
      <4>3. vid[i] \in 1 .. total + v /\ vid[i] > Len(rrl)
        BY <1>0, <4>2
      <4> QED BY <4>1, <4>3
    <3> QED BY <1>4, <3>1, <3>2
  <2>2. ASSUME NEW i \in ReadPlaces(W), NEW j \in ReadPlaces(W), i < j
        PROVE  /\ vid[i] # vid[j]
               /\ SameKey(W[i], W[j]) \/ j > n => vid[i] < vid[j]
    <3>1. CASE i \in ReadPlaces(U) /\ j \in ReadPlaces(U)
      <4>1. uid[i] # uid[j] /\ (SameKey(U[i], U[j]) \/ j > n => uid[i] < uid[j])
        BY <1>0, <2>2, <3>1
      <4>2. W[i] = U[i] /\ vid[i] = uid[i] /\ W[j] = U[j] /\ vid[j] = uid[j]
        BY <1>5, <3>1
      <4> QED BY <4>1, <4>2
    <3>2. CASE i \in ReadPlaces(U) /\ j \in u + 1 .. u + v
      <4>1. vid[i] \in 1 .. total /\ vid[j] \in total + 1 .. total + v
        BY <1>5, <1>6, <1>7, <3>2
      <4> QED BY <4>1
    <3>3. CASE i \in u + 1 .. u + v /\ j \in u + 1 .. u + v
      <4>1. vid[i] = total + (i - u) /\ vid[j] = total + (j - u)
        BY <1>6, <3>3
      <4> QED BY <2>2, <3>3, <4>1
    <3>4. CASE i \in u + 1 .. u + v /\ j \in ReadPlaces(U)
      <4>1. j \in 1 .. u
        BY <1>5, <3>4
      <4> QED BY <2>2, <3>4, <4>1
    <3> QED BY <1>4, <3>1, <3>2, <3>3, <3>4
  <2>3. Len(rrl) <= total + v
    BY <1>0
  <2> QED BY <2>1, <2>2, <2>3 DEF OnTheWay
<1>9. Numbered(oorl, W, total + v, oid, vid)
  <2>1. ASSUME NEW k \in 1 .. Len(oorl), NEW i \in ReadPlaces(W)
        PROVE  /\ oid[k] # vid[i]
               /\ SameKey(oorl[k], W[i]) => oid[k] < vid[i]
    <3>1. CASE i \in ReadPlaces(U)
      <4>1. oid[k] # uid[i] /\ (SameKey(oorl[k], U[i]) => oid[k] < uid[i])
        BY <3>1 DEF Order, Numbered
      <4>2. W[i] = U[i] /\ vid[i] = uid[i]
        BY <1>5, <3>1
      <4> QED BY <4>1, <4>2
    <3>2. CASE i \in u + 1 .. u + v
      <4>1. oid[k] \in 1 .. Len(rrl)
        BY DEF Order, Waiting
      <4>2. vid[i] \in total + 1 .. total + v
        BY <1>6, <3>2
      <4>3. oid[k] < vid[i] /\ oid[k] # vid[i]
        BY <1>0, <4>1, <4>2
      <4> QED BY <4>3, Zenon
    <3> QED BY <1>4, <3>1, <3>2
  <2>2. ASSUME NEW x \in 1 .. total + v
        PROVE  \/ \E k \in 1 .. Len(oorl) : oid[k] = x
               \/ \E i \in ReadPlaces(W) : vid[i] = x
    <3>1. CASE x <= total
      <4>1. x \in 1 .. total
        BY <3>1
      <4>2. \/ \E k \in 1 .. Len(oorl) : oid[k] = x
            \/ \E i \in ReadPlaces(U) : uid[i] = x
        BY <4>1 DEF Order, Numbered
      <4> QED BY <1>4, <1>5, <4>2
    <3>2. CASE x > total
      <4>1. PICK i \in u + 1 .. u + v : x = total + (i - u)
        <5>1. PICK i \in Nat : i = u + (x - total)
          BY <3>2
        <5>2. i \in u + 1 .. u + v /\ x = total + (i - u)
          BY <3>2, <5>1
        <5> QED BY <5>2
      <4> QED BY <1>4, <1>6, <4>1
    <3>3. x <= total \/ x > total
      OBVIOUS
    <3> QED BY <3>1, <3>2, <3>3
  <2> QED BY <2>1, <2>2 DEF Numbered
<1> QED
  BY <1>1, <1>8, <1>9 DEF Order, W

\* The oldest payload not accepted yet gets the next place of read_req_list.
LEMMA OrderAccept ==
  ASSUME NEW U \in Seq(Payload), NEW n \in Nat, n + 1 \in 1 .. Len(U),
         NEW rrl \in Seq(ReqT), NEW oorl, NEW total \in Nat, NEW oid, NEW uid,
         Order(rrl, oorl, n, U, total, oid, uid),
         NEW e \in ReqT, SameKey(e, U[n + 1])
  PROVE  Order(IF U[n + 1].is_write THEN rrl ELSE Append(rrl, e), oorl, n + 1, U,
               total, oid, uid)
<1>1. PICK r \in Nat : r = Len(rrl)
  BY LenProperties
<1>2. /\ r <= total
      /\ \A k \in 1 .. Len(oorl) : oid[k] \in 1 .. r /\ SameKey(rrl[oid[k]], oorl[k])
      /\ \A i \in ReadPlaces(U) :
           /\ uid[i] \in 1 .. total
           /\ i <= n => uid[i] <= r /\ SameKey(rrl[uid[i]], U[i])
           /\ i > n => uid[i] > r
      /\ \A i \in ReadPlaces(U), j \in ReadPlaces(U) :
           i < j => /\ uid[i] # uid[j]
                    /\ SameKey(U[i], U[j]) \/ j > n => uid[i] < uid[j]
  BY <1>1 DEF Order, Waiting, OnTheWay
<1>3. \A i \in ReadPlaces(U) : i \in Nat /\ (i <= n \/ i = n + 1 \/ i > n + 1)
  BY LenProperties DEF ReadPlaces
<1>4. CASE U[n + 1].is_write
  <2>1. n + 1 \notin ReadPlaces(U)
    BY <1>4 DEF ReadPlaces
  <2>2. ASSUME NEW i \in ReadPlaces(U)
        PROVE  /\ uid[i] \in 1 .. total
               /\ i <= n + 1 => uid[i] <= r /\ SameKey(rrl[uid[i]], U[i])
               /\ i > n + 1 => uid[i] > r
    <3>1. i <= n + 1 => i <= n
      BY <1>3, <2>1
    <3>2. i > n + 1 => i > n
      BY <1>3
    <3> QED BY <1>2, <3>1, <3>2
  <2>3. ASSUME NEW i \in ReadPlaces(U), NEW j \in ReadPlaces(U), i < j
        PROVE  /\ uid[i] # uid[j]
               /\ SameKey(U[i], U[j]) \/ j > n + 1 => uid[i] < uid[j]
    <3>1. j > n + 1 => j > n
      BY <1>3
    <3> QED BY <1>2, <2>3, <3>1
  <2>4. OnTheWay(rrl, n + 1, U, total, uid)
    BY <1>1, <1>2, <2>2, <2>3 DEF OnTheWay
  <2> QED BY <1>4, <2>4 DEF Order
<1>5. CASE ~ U[n + 1].is_write
  <2> DEFINE t == Append(rrl, e)
  <2>1. Len(t) = r + 1 /\ t[r + 1] = e /\ \A x \in 1 .. r : t[x] = rrl[x]
    BY <1>1, AppendProperties
  <2> HIDE DEF t
  <2>2. n + 1 \in ReadPlaces(U)
    BY <1>5 DEF ReadPlaces
  <2>3. uid[n + 1] \in 1 .. total /\ uid[n + 1] > r
    BY <1>2, <2>2
  <2>4. r + 1 \in 1 .. total
    BY <2>3
  <2>5. uid[n + 1] = r + 1
    <3>1. \/ \E k \in 1 .. Len(oorl) : oid[k] = r + 1
          \/ \E i \in ReadPlaces(U) : uid[i] = r + 1
      BY <2>4 DEF Order, Numbered
    <3>2. PICK i \in ReadPlaces(U) : uid[i] = r + 1
      <4>1. \A k \in 1 .. Len(oorl) : oid[k] # r + 1
        BY <1>2
      <4> QED BY <3>1, <4>1
    <3>3. ~ (i <= n)
      BY <1>2, <3>2
    <3>4. CASE i > n + 1
      <4>1. i > n /\ n + 1 < i
        BY <1>3, <3>4
      <4>2. uid[n + 1] < uid[i]
        BY <1>2, <2>2, <4>1
      <4> QED BY <2>3, <3>2, <4>2
    <3> QED BY <1>3, <3>2, <3>3, <3>4
  <2>6. Waiting(t, oorl, oid)
    <3>1. ASSUME NEW k \in 1 .. Len(oorl)
          PROVE  oid[k] \in 1 .. Len(t) /\ SameKey(t[oid[k]], oorl[k])
      <4>1. oid[k] \in 1 .. r /\ SameKey(rrl[oid[k]], oorl[k])
        BY <1>2
      <4>2. oid[k] \in 1 .. r + 1 /\ t[oid[k]] = rrl[oid[k]]
        BY <2>1, <4>1
      <4> QED BY <2>1, <4>1, <4>2
    <3> QED BY <3>1 DEF Order, Waiting
  <2>7. ASSUME NEW i \in ReadPlaces(U)
        PROVE  /\ uid[i] \in 1 .. total
               /\ i <= n + 1 => uid[i] <= r + 1 /\ SameKey(t[uid[i]], U[i])
               /\ i > n + 1 => uid[i] > r + 1
    <3>1. uid[i] \in 1 .. total
      BY <1>2
    <3>2. CASE i <= n
      <4>1. uid[i] <= r /\ SameKey(rrl[uid[i]], U[i])
        BY <1>2, <3>2
      <4>2. uid[i] <= r + 1 /\ t[uid[i]] = rrl[uid[i]]
        BY <2>1, <3>1, <4>1
      <4> QED BY <1>3, <3>1, <3>2, <4>1, <4>2
    <3>3. CASE i = n + 1
      BY <2>1, <2>5, <3>1, <3>3
    <3>4. CASE i > n + 1
      <4>1. i > n /\ n + 1 < i
        BY <1>3, <3>4
      <4>2. uid[n + 1] < uid[i]
        BY <1>2, <2>2, <4>1
      <4> QED BY <1>3, <2>5, <3>1, <3>4, <4>2
    <3> QED BY <1>3, <3>2, <3>3, <3>4
  <2>8. ASSUME NEW i \in ReadPlaces(U), NEW j \in ReadPlaces(U), i < j
        PROVE  /\ uid[i] # uid[j]
               /\ SameKey(U[i], U[j]) \/ j > n + 1 => uid[i] < uid[j]
    <3>1. j > n + 1 => j > n
      BY <1>3
    <3> QED BY <1>2, <2>8, <3>1
  <2>9. r + 1 <= total
    BY <2>4
  <2>10. OnTheWay(t, n + 1, U, total, uid)
    BY <2>1, <2>7, <2>8, <2>9 DEF OnTheWay
  <2> QED BY <1>5, <2>6, <2>10 DEF Order, t
<1> QED BY <1>4, <1>5

\* The payloads that stay keep their order, and all but the i-th do.
LEMMA BeforePlaces ==
  ASSUME NEW U \in Seq(Payload), NEW i \in 1 .. Len(U), NEW V, IsWithout(V, U, i)
  PROVE  /\ \A j \in 1 .. Len(V) : /\ Before(i, j) \in 1 .. Len(U) /\ Before(i, j) # i
                                   /\ V[j] = U[Before(i, j)]
         /\ \A x \in 1 .. Len(U) : x # i => \E j \in 1 .. Len(V) : Before(i, j) = x
         /\ \A j \in ReadPlaces(V) : Before(i, j) \in ReadPlaces(U)
         /\ \A x \in ReadPlaces(U) : x # i => \E j \in ReadPlaces(V) : Before(i, j) = x
<1>1. PICK u \in Nat : u = Len(U)
  BY LenProperties
<1>2. /\ i \in 1 .. u /\ i \in Nat /\ Len(V) = u - 1
      /\ \A j \in 1 .. u - 1 : V[j] = IF j < i THEN U[j] ELSE U[j + 1]
  BY <1>1 DEF IsWithout
<1>3. ASSUME NEW j \in 1 .. Len(V)
      PROVE  Before(i, j) \in 1 .. Len(U) /\ Before(i, j) # i /\ V[j] = U[Before(i, j)]
  BY <1>1, <1>2 DEF Before
<1>4. ASSUME NEW x \in 1 .. Len(U), x # i
      PROVE  \E j \in 1 .. Len(V) : Before(i, j) = x
  <2>1. CASE x < i
    <3>1. x \in 1 .. Len(V) /\ Before(i, x) = x
      BY <1>1, <1>2, <2>1 DEF Before
    <3> QED BY <3>1
  <2>2. CASE x > i
    <3>1. x - 1 \in 1 .. Len(V) /\ Before(i, x - 1) = x
      BY <1>1, <1>2, <2>2 DEF Before
    <3> QED BY <3>1
  <2> QED BY <1>1, <1>2, <1>4, <2>1, <2>2
<1>5. ASSUME NEW j \in ReadPlaces(V) PROVE Before(i, j) \in ReadPlaces(U)
  BY <1>3 DEF ReadPlaces
<1>6. ASSUME NEW x \in ReadPlaces(U), x # i
      PROVE  \E j \in ReadPlaces(V) : Before(i, j) = x
  <2>1. x \in 1 .. Len(U) /\ ~ U[x].is_write
    BY DEF ReadPlaces
  <2>2. PICK j \in 1 .. Len(V) : Before(i, j) = x
    BY <1>4, <1>6, <2>1
  <2> QED BY <1>3, <2>1, <2>2 DEF ReadPlaces
<1> QED BY <1>3, <1>4, <1>5, <1>6

\* The numbers of the payloads that stay when one accepted payload leaves.
LEMMA OnTheWayServe ==
  ASSUME NEW U \in Seq(Payload), NEW n \in 1 .. Len(U), NEW i \in 1 .. n,
         NEW V, IsWithout(V, U, i), NEW rrl, NEW total, NEW uid,
         OnTheWay(rrl, n, U, total, uid),
         NEW vid, \A j \in 1 .. Len(V) : vid[j] = uid[Before(i, j)]
  PROVE  OnTheWay(rrl, n - 1, V, total, vid)
<1>1. Len(U) \in Nat /\ i \in 1 .. Len(U) /\ i \in Nat /\ n \in Nat
  BY LenProperties
<1>2. \A j \in ReadPlaces(V) :
        /\ j \in 1 .. Len(V) /\ j \in Nat
        /\ Before(i, j) \in ReadPlaces(U)
        /\ V[j] = U[Before(i, j)] /\ vid[j] = uid[Before(i, j)]
  <2>1. Len(V) = Len(U) - 1
    BY DEF IsWithout
  <2> QED BY <1>1, <2>1, BeforePlaces DEF ReadPlaces
<1>3. ASSUME NEW j \in Nat
      PROVE  /\ j <= n - 1 => Before(i, j) <= n
             /\ j > n - 1 => Before(i, j) > n
  BY <1>1 DEF Before
<1>4. ASSUME NEW j \in Nat, NEW l \in Nat, j < l PROVE Before(i, j) < Before(i, l)
  BY <1>1, <1>4 DEF Before
<1>5. ASSUME NEW j \in ReadPlaces(V)
      PROVE  /\ vid[j] \in 1 .. total
             /\ j <= n - 1 => vid[j] <= Len(rrl) /\ SameKey(rrl[vid[j]], V[j])
             /\ j > n - 1 => vid[j] > Len(rrl)
  <2>1. PICK b \in ReadPlaces(U) : b = Before(i, j)
    BY <1>2
  <2>2. /\ uid[b] \in 1 .. total
        /\ b <= n => uid[b] <= Len(rrl) /\ SameKey(rrl[uid[b]], U[b])
        /\ b > n => uid[b] > Len(rrl)
    BY DEF OnTheWay
  <2>3. j \in Nat /\ V[j] = U[b] /\ vid[j] = uid[b]
    BY <1>2, <2>1
  <2>4. (j <= n - 1 => b <= n) /\ (j > n - 1 => b > n)
    BY <1>3, <2>1, <2>3
  <2> QED BY <2>2, <2>3, <2>4
<1>6. ASSUME NEW j \in ReadPlaces(V), NEW l \in ReadPlaces(V), j < l
      PROVE  /\ vid[j] # vid[l]
             /\ SameKey(V[j], V[l]) \/ l > n - 1 => vid[j] < vid[l]
  <2>1. PICK b \in ReadPlaces(U), c \in ReadPlaces(U) : b = Before(i, j) /\ c = Before(i, l)
    BY <1>2
  <2>2. b < c /\ (l > n - 1 => c > n)
    BY <1>2, <1>3, <1>4, <1>6, <2>1
  <2>3. /\ uid[b] # uid[c]
        /\ SameKey(U[b], U[c]) \/ c > n => uid[b] < uid[c]
    BY <2>2 DEF OnTheWay
  <2>4. V[j] = U[b] /\ vid[j] = uid[b] /\ V[l] = U[c] /\ vid[l] = uid[c]
    BY <1>2, <2>1
  <2> QED BY <2>2, <2>3, <2>4
<1> QED BY <1>5, <1>6 DEF OnTheWay

\* A write that is served leaves the numbers as they are.
LEMMA OrderServeWrite ==
  ASSUME NEW U \in Seq(Payload), NEW n \in 1 .. Len(U), NEW i \in 1 .. n,
         U[i].is_write, NEW V, IsWithout(V, U, i),
         NEW rrl, NEW oorl, NEW total, NEW oid, NEW uid,
         Order(rrl, oorl, n, U, total, oid, uid),
         NEW vid, \A j \in 1 .. Len(V) : vid[j] = uid[Before(i, j)]
  PROVE  Order(rrl, oorl, n - 1, V, total, oid, vid)
<1>1. Len(U) \in Nat /\ i \in 1 .. Len(U) /\ i \notin ReadPlaces(U)
  BY LenProperties DEF ReadPlaces
<1>2. OnTheWay(rrl, n - 1, V, total, vid)
  BY OnTheWayServe DEF Order
<1>3. Len(V) = Len(U) - 1
  BY DEF IsWithout
<1>4. \A j \in ReadPlaces(V) :
        /\ Before(i, j) \in ReadPlaces(U)
        /\ V[j] = U[Before(i, j)] /\ vid[j] = uid[Before(i, j)]
  BY <1>1, <1>3, BeforePlaces DEF ReadPlaces
<1>5. \A x \in ReadPlaces(U) : \E j \in ReadPlaces(V) : Before(i, j) = x
  BY <1>1, BeforePlaces
<1>6. ASSUME NEW k \in 1 .. Len(oorl), NEW j \in ReadPlaces(V)
      PROVE  oid[k] # vid[j] /\ (SameKey(oorl[k], V[j]) => oid[k] < vid[j])
  BY <1>4 DEF Order, Numbered
<1>7. ASSUME NEW x \in 1 .. total
      PROVE  (\E k \in 1 .. Len(oorl) : oid[k] = x) \/ (\E j \in ReadPlaces(V) : vid[j] = x)
  <2>1. \/ \E k \in 1 .. Len(oorl) : oid[k] = x
        \/ \E j \in ReadPlaces(U) : uid[j] = x
    BY DEF Order, Numbered
  <2>2. ASSUME NEW b \in ReadPlaces(U), uid[b] = x PROVE \E j \in ReadPlaces(V) : vid[j] = x
    BY <1>4, <1>5, <2>2
  <2> QED BY <2>1, <2>2
<1> QED BY <1>2, <1>6, <1>7 DEF Order, Numbered

\* A read that is served, older than all others of the same bytes, hands its
\* number to its response.
LEMMA OrderServeRead ==
  ASSUME NEW U \in Seq(Payload), NEW n \in 1 .. Len(U), NEW i \in 1 .. n,
         ~ U[i].is_write, NEW V, IsWithout(V, U, i),
         \A j \in ReadPlaces(U) : j < i => ~ SameKey(U[j], U[i]),
         NEW rrl, NEW oorl \in Seq(Response), NEW total \in Nat, NEW oid, NEW uid,
         Order(rrl, oorl, n, U, total, oid, uid),
         NEW vid, \A j \in 1 .. Len(V) : vid[j] = uid[Before(i, j)],
         NEW e \in Response, SameKey(e, U[i]),
         NEW pid, \A k \in 1 .. Len(oorl) : pid[k] = oid[k], pid[Len(oorl) + 1] = uid[i]
  PROVE  Order(rrl, Append(oorl, e), n - 1, V, total, pid, vid)
<1> DEFINE t == Append(oorl, e)
<1>1. PICK o \in Nat : o = Len(oorl)
  BY LenProperties
<1>2. Len(t) = o + 1 /\ t[o + 1] = e /\ \A k \in 1 .. o : t[k] = oorl[k]
  BY <1>1, AppendProperties
<1> HIDE DEF t
<1>3. Len(U) \in Nat /\ i \in 1 .. Len(U) /\ i \in ReadPlaces(U) /\ i <= n /\ i \in Nat
  BY LenProperties DEF ReadPlaces
<1>4. OnTheWay(rrl, n - 1, V, total, vid)
  BY OnTheWayServe DEF Order
<1>5. Len(V) = Len(U) - 1
  BY DEF IsWithout
<1>6. \A j \in ReadPlaces(V) :
        /\ Before(i, j) \in ReadPlaces(U) /\ Before(i, j) # i
        /\ V[j] = U[Before(i, j)] /\ vid[j] = uid[Before(i, j)]
  BY <1>3, <1>5, BeforePlaces DEF ReadPlaces
<1>7. \A x \in ReadPlaces(U) : x # i => \E j \in ReadPlaces(V) : Before(i, j) = x
  <2>1. i \in 1 .. Len(U) /\ IsWithout(V, U, i)
    BY <1>3
  <2> QED BY <2>1, BeforePlaces
<1>8. /\ uid[i] \in 1 .. total /\ uid[i] <= Len(rrl) /\ SameKey(rrl[uid[i]], U[i])
      /\ Len(rrl) <= total
  BY <1>3 DEF Order, OnTheWay
<1>9. \A k \in 1 .. o : /\ oid[k] \in 1 .. Len(rrl) /\ SameKey(rrl[oid[k]], oorl[k])
                        /\ pid[k] = oid[k] /\ t[k] = oorl[k]
  BY <1>1, <1>2 DEF Order, Waiting
<1>10. \A k \in 1 .. o, j \in ReadPlaces(U) :
         oid[k] # uid[j] /\ (SameKey(oorl[k], U[j]) => oid[k] < uid[j])
  BY <1>1 DEF Order, Numbered
<1>11. pid[o + 1] = uid[i] /\ \A k \in 1 .. o + 1 : k \in 1 .. o \/ k = o + 1
  BY <1>1
<1>12. Waiting(rrl, t, pid)
  <2>1. ASSUME NEW k \in 1 .. o + 1
        PROVE  pid[k] \in 1 .. Len(rrl) /\ SameKey(rrl[pid[k]], t[k])
    <3>1. CASE k \in 1 .. o
      BY <1>9, <3>1
    <3>2. CASE k = o + 1
      <4>1. uid[i] \in 1 .. Len(rrl)
        BY <1>8
      <4> QED BY <1>2, <1>8, <1>11, <3>2, <4>1 DEF SameKey
    <3> QED BY <1>11, <3>1, <3>2
  <2>2. ASSUME NEW k \in 1 .. o + 1, NEW l \in 1 .. o + 1, k < l
        PROVE  pid[k] # pid[l] /\ (SameKey(t[k], t[l]) => pid[k] < pid[l])
    <3>1. k \in 1 .. o
      BY <2>2
    <3>2. CASE l \in 1 .. o
      <4>1. oid[k] # oid[l] /\ (SameKey(oorl[k], oorl[l]) => oid[k] < oid[l])
        BY <1>1, <2>2, <3>1, <3>2 DEF Order, Waiting
      <4> QED BY <1>9, <3>1, <3>2, <4>1
    <3>3. CASE l = o + 1
      <4>1. oid[k] # uid[i] /\ (SameKey(oorl[k], U[i]) => oid[k] < uid[i])
        BY <1>3, <1>10, <3>1
      <4> QED BY <1>2, <1>9, <1>11, <3>1, <3>3, <4>1 DEF SameKey
    <3> QED BY <1>11, <3>2, <3>3
  <2> QED BY <1>2, <2>1, <2>2 DEF Waiting
<1>13. ASSUME NEW k \in 1 .. o + 1, NEW j \in ReadPlaces(V)
       PROVE  pid[k] # vid[j] /\ (SameKey(t[k], V[j]) => pid[k] < vid[j])
  <2>1. PICK b \in ReadPlaces(U) : b # i /\ V[j] = U[b] /\ vid[j] = uid[b]
    BY <1>6
  <2>2. CASE k \in 1 .. o
    BY <1>9, <1>10, <2>1, <2>2
  <2>3. CASE k = o + 1
    <3>1. b \in Nat
      BY <1>3 DEF ReadPlaces
    <3>2. CASE b < i
      <4>1. uid[b] # uid[i] /\ ~ SameKey(U[b], U[i])
        BY <1>3, <3>2 DEF Order, OnTheWay
      <4> QED BY <1>2, <1>11, <2>1, <2>3, <4>1 DEF SameKey
    <3>3. CASE b > i
      <4>1. uid[i] # uid[b] /\ (SameKey(U[i], U[b]) => uid[i] < uid[b])
        BY <1>3, <3>3 DEF Order, OnTheWay
      <4> QED BY <1>2, <1>11, <2>1, <2>3, <4>1 DEF SameKey
    <3> QED BY <1>3, <2>1, <3>1, <3>2, <3>3
  <2> QED BY <1>11, <2>2, <2>3
<1>14. ASSUME NEW x \in 1 .. total
       PROVE  (\E k \in 1 .. o + 1 : pid[k] = x) \/ (\E j \in ReadPlaces(V) : vid[j] = x)
  <2>1. \/ \E k \in 1 .. o : oid[k] = x
        \/ \E j \in ReadPlaces(U) : uid[j] = x
    BY <1>1 DEF Order, Numbered
  <2>2. ASSUME NEW k \in 1 .. o, oid[k] = x PROVE \E l \in 1 .. o + 1 : pid[l] = x
    <3>1. k \in 1 .. o + 1
      OBVIOUS
    <3> QED BY <1>9, <2>2, <3>1
  <2>3. ASSUME NEW b \in ReadPlaces(U), uid[b] = x
        PROVE (\E k \in 1 .. o + 1 : pid[k] = x) \/ (\E j \in ReadPlaces(V) : vid[j] = x)
    <3>1. CASE b = i
      <4>1. o + 1 \in 1 .. o + 1
        OBVIOUS
      <4> QED BY <1>11, <2>3, <3>1, <4>1
    <3>2. CASE b # i
      BY <1>6, <1>7, <2>3, <3>2
    <3> QED BY <3>1, <3>2
  <2> QED BY <2>1, <2>2, <2>3
<1>15. Numbered(t, V, total, pid, vid)
  BY <1>2, <1>13, <1>14 DEF Numbered
<1> QED BY <1>4, <1>12, <1>15 DEF Order, t

\* The response that is delivered is the one of the oldest read.
LEMMA OldestMatched ==
  ASSUME NEW rrl \in Seq(ReqT), rrl # << >>, NEW oorl \in Seq(Response),
         NEW n, NEW U \in Seq(Payload), NEW total \in Nat, NEW oid, NEW uid,
         Order(rrl, oorl, n, U, total, oid, uid), n \in Nat,
         NEW M, M = FirstLike(oorl, Head(rrl)), M # 0
  PROVE  M \in 1 .. Len(oorl) /\ oid[M] = 1
<1>1. PICK o \in Nat : o = Len(oorl)
  BY LenProperties
<1>2. Len(rrl) \in Nat \ {0} /\ Head(rrl) = rrl[1]
  BY EmptySeq, HeadTailProperties
<1> DEFINE h == Head(rrl)
           I == {k \in 1 .. Len(oorl) : oorl[k].addr = h.addr /\ oorl[k].len = h.len}
<1>3. M \in I /\ \A k \in I : M <= k
  BY FirstLikeFinds
<1>4. M \in 1 .. o /\ SameKey(oorl[M], rrl[1])
  BY <1>1, <1>2, <1>3 DEF SameKey
<1>5. \A k \in 1 .. o : SameKey(oorl[k], rrl[1]) => M <= k
  BY <1>1, <1>2, <1>3 DEF SameKey
<1> HIDE DEF h, I
<1>6. /\ \A k \in 1 .. o : oid[k] \in 1 .. Len(rrl) /\ SameKey(rrl[oid[k]], oorl[k])
      /\ \A k \in 1 .. o, l \in 1 .. o :
           k < l => /\ oid[k] # oid[l]
                    /\ SameKey(oorl[k], oorl[l]) => oid[k] < oid[l]
  BY <1>1 DEF Order, Waiting
<1>7. 1 \in 1 .. total
  BY <1>2 DEF Order, OnTheWay
<1>8. \/ \E k \in 1 .. o : oid[k] = 1
      \/ \E i \in ReadPlaces(U) : uid[i] = 1
  BY <1>1, <1>7 DEF Order, Numbered
<1>9. ASSUME NEW k \in 1 .. o, oid[k] = 1 PROVE oid[M] = 1
  <2>1. SameKey(rrl[1], oorl[k])
    BY <1>6, <1>9
  <2>2. M <= k
    BY <1>5, <2>1 DEF SameKey
  <2>3. CASE M < k
    <3>1. SameKey(oorl[M], oorl[k])
      BY <1>4, <2>1 DEF SameKey
    <3>2. oid[M] < 1
      BY <1>4, <1>6, <1>9, <2>3, <3>1
    <3> QED BY <1>4, <1>6, <3>2
  <2> QED BY <1>4, <1>9, <2>2, <2>3
<1>10. ASSUME NEW i \in ReadPlaces(U), uid[i] = 1 PROVE FALSE
  <2>1. i \in Nat /\ (i > n \/ i <= n)
    BY LenProperties DEF ReadPlaces
  <2>2. i <= n /\ SameKey(rrl[1], U[i])
    <3>1. /\ i <= n => SameKey(rrl[uid[i]], U[i])
          /\ i > n => uid[i] > Len(rrl)
      BY DEF Order, OnTheWay
    <3> QED BY <1>2, <1>10, <2>1, <3>1
  <2>3. SameKey(oorl[M], U[i])
    BY <1>4, <2>2 DEF SameKey
  <2>4. oid[M] < 1
    BY <1>1, <1>4, <1>10, <2>3 DEF Order, Numbered
  <2> QED BY <1>4, <1>6, <2>4
<1> QED BY <1>1, <1>4, <1>8, <1>9, <1>10

\* When read 1 is delivered the numbers of the others go down by one.
Lowered(t, U, M, oid, uid, pid, vid) ==
  /\ \A k \in 1 .. Len(t) : pid[k] = oid[Before(M, k)] - 1
  /\ \A i \in 1 .. Len(U) : vid[i] = uid[i] - 1

LEMMA OrderDeliver ==
  ASSUME NEW rrl \in Seq(ReqT), rrl # << >>, NEW oorl \in Seq(Response),
         NEW n \in Nat, NEW U \in Seq(Payload), NEW total \in Nat, NEW oid, NEW uid,
         Order(rrl, oorl, n, U, total, oid, uid),
         NEW M \in 1 .. Len(oorl), oid[M] = 1, NEW t, IsWithout(t, oorl, M),
         NEW pid, NEW vid, Lowered(t, U, M, oid, uid, pid, vid)
  PROVE  Order(Tail(rrl), t, n, U, total - 1, pid, vid)
<1>1. PICK o \in Nat, r \in Nat : o = Len(oorl) /\ r = Len(rrl)
  BY LenProperties
<1>2. /\ r > 0 /\ Len(Tail(rrl)) = r - 1 /\ M \in 1 .. o /\ M \in Nat
      /\ \A x \in 1 .. r - 1 : Tail(rrl)[x] = rrl[x + 1]
  BY <1>1, EmptySeq, HeadTailProperties
<1>3. Len(t) = o - 1 /\ \A k \in 1 .. o - 1 : t[k] = oorl[Before(M, k)]
  BY <1>1, <1>2 DEF IsWithout, Before
<1>4. ASSUME NEW k \in 1 .. o - 1
      PROVE  Before(M, k) \in 1 .. o /\ Before(M, k) # M
  BY <1>2 DEF Before
<1>5. ASSUME NEW k \in 1 .. o, k # M PROVE \E l \in 1 .. o - 1 : Before(M, l) = k
  <2>1. CASE k < M
    <3>1. k \in 1 .. o - 1 /\ Before(M, k) = k
      BY <1>2, <2>1 DEF Before
    <3> QED BY <3>1
  <2>2. CASE k > M
    <3>1. k - 1 \in 1 .. o - 1 /\ Before(M, k - 1) = k
      BY <1>2, <2>2 DEF Before
    <3> QED BY <3>1
  <2> QED BY <1>2, <1>5, <2>1, <2>2
<1>6. /\ r <= total
      /\ \A k \in 1 .. o : oid[k] \in 1 .. r /\ SameKey(rrl[oid[k]], oorl[k])
      /\ \A k \in 1 .. o, l \in 1 .. o :
           k < l => /\ oid[k] # oid[l]
                    /\ SameKey(oorl[k], oorl[l]) => oid[k] < oid[l]
      /\ \A i \in ReadPlaces(U) :
           /\ uid[i] \in 1 .. total
           /\ i <= n => uid[i] <= r /\ SameKey(rrl[uid[i]], U[i])
           /\ i > n => uid[i] > r
      /\ \A i \in ReadPlaces(U), j \in ReadPlaces(U) :
           i < j => /\ uid[i] # uid[j]
                    /\ SameKey(U[i], U[j]) \/ j > n => uid[i] < uid[j]
      /\ \A k \in 1 .. o, i \in ReadPlaces(U) :
           /\ oid[k] # uid[i]
           /\ SameKey(oorl[k], U[i]) => oid[k] < uid[i]
      /\ \A x \in 1 .. total : \/ \E k \in 1 .. o : oid[k] = x
                               \/ \E i \in ReadPlaces(U) : uid[i] = x
  BY <1>1 DEF Order, Waiting, OnTheWay, Numbered
<1>7. \A i \in ReadPlaces(U) : vid[i] = uid[i] - 1
  BY DEF ReadPlaces, Lowered
<1>8. \A k \in 1 .. o - 1 : pid[k] = oid[Before(M, k)] - 1
  BY <1>3 DEF Lowered
<1>9. \A k \in 1 .. o : k # M => oid[k] \in 2 .. r
  <2> SUFFICES ASSUME NEW k \in 1 .. o, k # M PROVE oid[k] \in 2 .. r
    OBVIOUS
  <2>1. oid[k] # 1
    <3>1. k < M \/ M < k
      BY <1>2
    <3> QED BY <1>2, <1>6, <3>1
  <2>2. oid[k] \in 1 .. r
    BY <1>6
  <2> QED BY <2>1, <2>2
<1>10. \A i \in ReadPlaces(U) : uid[i] \in 2 .. total
  <2> SUFFICES ASSUME NEW i \in ReadPlaces(U) PROVE uid[i] \in 2 .. total
    OBVIOUS
  <2>1. uid[i] \in 1 .. total /\ oid[M] # uid[i]
    BY <1>2, <1>6
  <2> QED BY <2>1
<1>11. \A k \in 1 .. o - 1, l \in 1 .. o - 1 : k < l => Before(M, k) < Before(M, l)
  BY <1>2 DEF Before
<1>12. Waiting(Tail(rrl), t, pid)
  <2>1. ASSUME NEW k \in 1 .. o - 1
        PROVE  pid[k] \in 1 .. r - 1 /\ SameKey(Tail(rrl)[pid[k]], t[k])
    <3>1. PICK b \in 1 .. o : b = Before(M, k) /\ b # M
      BY <1>4
    <3>2. oid[b] \in 2 .. r /\ SameKey(rrl[oid[b]], oorl[b])
      BY <1>6, <1>9, <3>1
    <3>3. pid[k] = oid[b] - 1 /\ t[k] = oorl[b]
      BY <1>3, <1>8, <3>1
    <3>4. pid[k] \in 1 .. r - 1 /\ pid[k] + 1 = oid[b]
      <4>1. PICK x \in 2 .. r : x = oid[b]
        BY <3>2
      <4>2. x - 1 \in 1 .. r - 1 /\ (x - 1) + 1 = x
        OBVIOUS
      <4> QED BY <3>3, <4>1, <4>2
    <3> QED BY <1>2, <3>2, <3>3, <3>4
  <2>2. ASSUME NEW k \in 1 .. o - 1, NEW l \in 1 .. o - 1, k < l
        PROVE  pid[k] # pid[l] /\ (SameKey(t[k], t[l]) => pid[k] < pid[l])
    <3>1. PICK b \in 1 .. o, c \in 1 .. o : /\ b = Before(M, k) /\ b # M
                                            /\ c = Before(M, l) /\ c # M
      BY <1>4
    <3>2. b < c
      BY <1>11, <2>2, <3>1
    <3>3. oid[b] # oid[c] /\ (SameKey(oorl[b], oorl[c]) => oid[b] < oid[c])
      BY <1>6, <3>2
    <3>4. oid[b] \in 2 .. r /\ oid[c] \in 2 .. r
      BY <1>9, <3>1
    <3>5. pid[k] = oid[b] - 1 /\ t[k] = oorl[b] /\ pid[l] = oid[c] - 1 /\ t[l] = oorl[c]
      BY <1>3, <1>8, <3>1
    <3>6. (oid[b] # oid[c] => pid[k] # pid[l]) /\ (oid[b] < oid[c] => pid[k] < pid[l])
      <4>1. PICK x \in 2 .. r, y \in 2 .. r : x = oid[b] /\ y = oid[c]
        BY <3>4
      <4>2. (x # y => x - 1 # y - 1) /\ (x < y => x - 1 < y - 1)
        OBVIOUS
      <4> QED BY <3>5, <4>1, <4>2
    <3>7. SameKey(t[k], t[l]) => SameKey(oorl[b], oorl[c])
      BY <3>5
    <3> QED BY <3>3, <3>6, <3>7
  <2> QED BY <1>2, <1>3, <2>1, <2>2 DEF Waiting
<1>13. OnTheWay(Tail(rrl), n, U, total - 1, vid)
  <2>1. ASSUME NEW i \in ReadPlaces(U)
        PROVE  /\ vid[i] \in 1 .. total - 1
               /\ i <= n => vid[i] <= r - 1 /\ SameKey(Tail(rrl)[vid[i]], U[i])
               /\ i > n => vid[i] > r - 1
    <3>1. /\ uid[i] \in 2 .. total /\ vid[i] = uid[i] - 1
          /\ i <= n => uid[i] <= r /\ SameKey(rrl[uid[i]], U[i])
          /\ i > n => uid[i] > r
      BY <1>6, <1>7, <1>10
    <3>2. vid[i] \in 1 .. total - 1 /\ vid[i] + 1 = uid[i]
      <4>1. PICK x \in 2 .. total : x = uid[i]
        BY <3>1
      <4>2. x - 1 \in 1 .. total - 1 /\ (x - 1) + 1 = x
        OBVIOUS
      <4> QED BY <3>1, <4>1, <4>2
    <3>3. uid[i] <= r => vid[i] \in 1 .. r - 1
      BY <3>1
    <3> QED BY <1>2, <3>1, <3>2, <3>3
  <2>2. ASSUME NEW i \in ReadPlaces(U), NEW j \in ReadPlaces(U), i < j
        PROVE  /\ vid[i] # vid[j]
               /\ SameKey(U[i], U[j]) \/ j > n => vid[i] < vid[j]
    <3>1. uid[i] # uid[j] /\ (SameKey(U[i], U[j]) \/ j > n => uid[i] < uid[j])
      BY <1>6, <2>2
    <3>2. /\ uid[i] \in 2 .. total /\ vid[i] = uid[i] - 1
          /\ uid[j] \in 2 .. total /\ vid[j] = uid[j] - 1
      BY <1>7, <1>10
    <3>3. (uid[i] # uid[j] => vid[i] # vid[j]) /\ (uid[i] < uid[j] => vid[i] < vid[j])
      <4>1. PICK x \in 2 .. total, y \in 2 .. total : x = uid[i] /\ y = uid[j]
        BY <3>2
      <4>2. (x # y => x - 1 # y - 1) /\ (x < y => x - 1 < y - 1)
        OBVIOUS
      <4> QED BY <3>2, <4>1, <4>2
    <3> QED BY <3>1, <3>3
  <2>3. r - 1 <= total - 1
    BY <1>6
  <2> QED BY <1>2, <2>1, <2>2, <2>3 DEF OnTheWay
<1>14. ASSUME NEW k \in 1 .. o - 1, NEW i \in ReadPlaces(U)
       PROVE  pid[k] # vid[i] /\ (SameKey(t[k], U[i]) => pid[k] < vid[i])
  <2>1. PICK b \in 1 .. o : b = Before(M, k) /\ b # M
    BY <1>4
  <2>2. oid[b] \in 2 .. r /\ uid[i] \in 2 .. total
    BY <1>9, <1>10, <2>1
  <2>3. pid[k] = oid[b] - 1 /\ t[k] = oorl[b] /\ vid[i] = uid[i] - 1
    BY <1>3, <1>7, <1>8, <2>1
  <2>4. oid[b] # uid[i] /\ (SameKey(oorl[b], U[i]) => oid[b] < uid[i])
    BY <1>6
  <2>5. (oid[b] # uid[i] => pid[k] # vid[i]) /\ (oid[b] < uid[i] => pid[k] < vid[i])
    <3>1. PICK x \in 2 .. r, y \in 2 .. total : x = oid[b] /\ y = uid[i]
      BY <2>2
    <3>2. (x # y => x - 1 # y - 1) /\ (x < y => x - 1 < y - 1)
      OBVIOUS
    <3> QED BY <2>3, <3>1, <3>2
  <2>6. SameKey(t[k], U[i]) => SameKey(oorl[b], U[i])
    BY <2>3
  <2> QED BY <2>4, <2>5, <2>6
<1>15. ASSUME NEW x \in 1 .. total - 1
       PROVE  (\E k \in 1 .. o - 1 : pid[k] = x) \/ (\E i \in ReadPlaces(U) : vid[i] = x)
  <2>1. x + 1 \in 1 .. total /\ x + 1 # 1 /\ (x + 1) - 1 = x
    OBVIOUS
  <2>2. \/ \E k \in 1 .. o : oid[k] = x + 1
        \/ \E i \in ReadPlaces(U) : uid[i] = x + 1
    BY <1>6, <2>1
  <2>3. ASSUME NEW b \in 1 .. o, oid[b] = x + 1 PROVE \E k \in 1 .. o - 1 : pid[k] = x
    <3>1. PICK k \in 1 .. o - 1 : Before(M, k) = b
      BY <1>5, <2>1, <2>3
    <3> QED BY <1>8, <2>1, <2>3, <3>1
  <2>4. ASSUME NEW i \in ReadPlaces(U), uid[i] = x + 1
        PROVE  \E j \in ReadPlaces(U) : vid[j] = x
    BY <1>7, <2>1, <2>4
  <2> QED BY <2>2, <2>3, <2>4
<1>16. Numbered(t, U, total - 1, pid, vid)
  BY <1>3, <1>14, <1>15 DEF Numbered
<1> QED BY <1>12, <1>13, <1>16 DEF Order

\* want[x] is what read number x will deliver.
Values(oorl, U, want, ms, oid, uid) ==
  /\ \A k \in 1 .. Len(oorl) : want[oid[k]] = oorl[k].data
  /\ \A i \in ReadPlaces(U) : want[uid[i]] = Bits(ms[i], U[i])

\* The reads on their way will deliver want, in the order they were sent, and
\* the memory will be fin when all that was sent is served, whatever order
\* the memory system serves and answers in.
Stream(rrl, oorl, n, U, m, want, fin) ==
  \E ms, oid, uid : /\ Trace(U, m, fin, ms)
                    /\ Order(rrl, oorl, n, U, Len(want), oid, uid)
                    /\ Values(oorl, U, want, ms, oid, uid)

\* Sent writes come last.
LEMMA StreamSendWrites ==
  ASSUME NEW U \in Seq(Payload), NEW ps \in Seq(Payload),
         \A j \in 1 .. Len(ps) : ps[j].is_write,
         NEW rrl, NEW oorl, NEW n, NEW m, NEW want, NEW fin,
         Stream(rrl, oorl, n, U, m, want, fin), NEW to, NEW es, Trace(ps, fin, to, es)
  PROVE  Stream(rrl, oorl, n, U \o ps, m, want, to)
<1>1. PICK ms, oid, uid : /\ Trace(U, m, fin, ms)
                          /\ Order(rrl, oorl, n, U, Len(want), oid, uid)
                          /\ Values(oorl, U, want, ms, oid, uid)
  BY DEF Stream
<1>2. PICK ns : ns = [j \in 1 .. Len(U) + Len(ps) + 1 |->
                        IF j <= Len(U) THEN ms[j] ELSE es[j - Len(U)]]
  OBVIOUS
<1>3. /\ Trace(U \o ps, m, to, ns)
      /\ \A j \in 1 .. Len(U) + 1 : ns[j] = ms[j]
  BY <1>1, <1>2, TraceSend
<1>4. Order(rrl, oorl, n, U \o ps, Len(want), oid, uid)
  BY <1>1, OrderSendWrites
<1>5. PICK u \in Nat, v \in Nat : u = Len(U) /\ v = Len(ps)
  BY LenProperties
<1>6. /\ Len(U \o ps) = u + v
      /\ \A j \in 1 .. u : (U \o ps)[j] = U[j]
      /\ \A j \in u + 1 .. u + v : (U \o ps)[j] = ps[j - u]
  BY <1>5, ConcatProperties
<1>7. ASSUME NEW i \in ReadPlaces(U \o ps)
      PROVE  i \in ReadPlaces(U) /\ (U \o ps)[i] = U[i] /\ ns[i] = ms[i]
  <2>1. i \in 1 .. u + v /\ ~ (U \o ps)[i].is_write
    BY <1>6 DEF ReadPlaces
  <2>2. i \in 1 .. u \/ i \in u + 1 .. u + v
    BY <2>1
  <2>3. ~ (i \in u + 1 .. u + v)
    <3>1. ASSUME i \in u + 1 .. u + v PROVE i - u \in 1 .. v
      BY <3>1
    <3> QED BY <1>5, <1>6, <2>1, <3>1
  <2>4. i \in 1 .. u /\ i \in 1 .. u + 1
    BY <2>2, <2>3
  <2> QED BY <1>3, <1>5, <1>6, <2>1, <2>4 DEF ReadPlaces
<1>8. Values(oorl, U \o ps, want, ns, oid, uid)
  BY <1>1, <1>7 DEF Values
<1> QED BY <1>3, <1>4, <1>8 DEF Stream

\* Sent reads will deliver what the memory holds after all that was sent before.
LEMMA StreamSendReads ==
  ASSUME NEW U \in Seq(Payload), NEW ps \in Seq(Payload),
         \A j \in 1 .. Len(ps) : ~ ps[j].is_write,
         NEW rrl \in Seq(ReqT), NEW oorl, NEW n \in 0 .. Len(U), NEW m,
         NEW S, NEW want \in Seq(S), NEW fin, Stream(rrl, oorl, n, U, m, want, fin),
         NEW more \in Seq(S), Len(more) = Len(ps),
         \A j \in 1 .. Len(ps) : more[j] = Bits(fin, ps[j])
  PROVE  Stream(rrl, oorl, n, U \o ps, m, want \o more, fin)
<1>1. PICK ms, oid, uid : /\ Trace(U, m, fin, ms)
                          /\ Order(rrl, oorl, n, U, Len(want), oid, uid)
                          /\ Values(oorl, U, want, ms, oid, uid)
  BY DEF Stream
<1>2. PICK u \in Nat, v \in Nat, w \in Nat : u = Len(U) /\ v = Len(ps) /\ w = Len(want)
  BY LenProperties
<1>3. PICK es : es = [j \in 1 .. v + 1 |-> fin]
  OBVIOUS
<1>4. Trace(ps, fin, fin, es)
  <2>1. u + 1 \in 1 .. u + 1 /\ 1 \in 1 .. v + 1 /\ v + 1 \in 1 .. v + 1
    OBVIOUS
  <2>2. fin \in Memory
    BY <1>1, <1>2, <2>1 DEF Trace
  <2>3. \A j \in 1 .. v : j \in 1 .. v + 1 /\ j + 1 \in 1 .. v + 1
    OBVIOUS
  <2> QED BY <1>2, <1>3, <2>1, <2>2, <2>3 DEF Trace, After
<1>5. PICK ns : ns = [j \in 1 .. Len(U) + Len(ps) + 1 |->
                        IF j <= Len(U) THEN ms[j] ELSE es[j - Len(U)]]
  OBVIOUS
<1>6. /\ Trace(U \o ps, m, fin, ns)
      /\ \A j \in 1 .. u + 1 : ns[j] = ms[j]
  BY <1>1, <1>2, <1>4, <1>5, TraceSend
<1>7. PICK vid : vid = [j \in 1 .. Len(U) + Len(ps) |->
                          IF j <= Len(U) THEN uid[j] ELSE Len(want) + (j - Len(U))]
  OBVIOUS
<1>8. Order(rrl, oorl, n, U \o ps, w + v, oid, vid)
  <2>1. Len(rrl) \in Nat /\ Len(want) \in Nat
    BY LenProperties
  <2> QED BY <1>1, <1>2, <1>7, <2>1, OrderSendReads
<1>9. /\ Len(U \o ps) = u + v
      /\ \A j \in 1 .. u : (U \o ps)[j] = U[j]
      /\ \A j \in u + 1 .. u + v : (U \o ps)[j] = ps[j - u]
  BY <1>2, ConcatProperties
<1>10. /\ Len(want \o more) = w + v
       /\ \A x \in 1 .. w : (want \o more)[x] = want[x]
       /\ \A x \in w + 1 .. w + v : (want \o more)[x] = more[x - w]
  BY <1>2, ConcatProperties
<1>11. ASSUME NEW k \in 1 .. Len(oorl) PROVE (want \o more)[oid[k]] = oorl[k].data
  <2>1. oid[k] \in 1 .. w /\ want[oid[k]] = oorl[k].data
    BY <1>1, <1>2, LenProperties DEF Order, Waiting, OnTheWay, Values
  <2> QED BY <1>10, <2>1
<1>12. ASSUME NEW i \in ReadPlaces(U \o ps)
       PROVE  (want \o more)[vid[i]] = Bits(ns[i], (U \o ps)[i])
  <2>1. i \in 1 .. u + v /\ ~ (U \o ps)[i].is_write
    BY <1>9 DEF ReadPlaces
  <2>2. CASE i \in 1 .. u
    <3>1. (U \o ps)[i] = U[i] /\ ns[i] = ms[i] /\ vid[i] = uid[i] /\ i \in ReadPlaces(U)
      <4>1. i \in 1 .. u + 1 /\ i <= u
        BY <2>2
      <4> QED BY <1>2, <1>6, <1>7, <1>9, <2>1, <2>2, <4>1 DEF ReadPlaces
    <3>2. uid[i] \in 1 .. w /\ want[uid[i]] = Bits(ms[i], U[i])
      BY <1>1, <1>2, <3>1 DEF Order, OnTheWay, Values
    <3> QED BY <1>10, <3>1, <3>2
  <2>3. CASE i \in u + 1 .. u + v
    <3>1. PICK j \in 1 .. v : i - u = j
      BY <2>3
    <3>2. ~ (i <= u) /\ i \in 1 .. u + v + 1 /\ w + j \in w + 1 .. w + v /\ (w + j) - w = j
          /\ j \in 1 .. v + 1
      BY <2>3, <3>1
    <3>3. vid[i] = w + j /\ ns[i] = fin
      BY <1>2, <1>3, <1>5, <1>7, <2>1, <3>1, <3>2
    <3>4. (want \o more)[w + j] = more[j] /\ (U \o ps)[i] = ps[j]
      BY <1>9, <1>10, <2>3, <3>1, <3>2
    <3> QED BY <1>2, <3>3, <3>4
  <2>4. i \in 1 .. u \/ i \in u + 1 .. u + v
    BY <2>1
  <2> QED BY <2>2, <2>3, <2>4
<1>13. Values(oorl, U \o ps, want \o more, ns, oid, vid)
  BY <1>11, <1>12 DEF Values
<1> QED BY <1>6, <1>8, <1>10, <1>13 DEF Stream

\* A payload is accepted.
LEMMA StreamAccept ==
  ASSUME NEW U \in Seq(Payload), NEW n \in Nat, n + 1 \in 1 .. Len(U),
         NEW rrl \in Seq(ReqT), NEW oorl, NEW m, NEW want, Len(want) \in Nat, NEW fin,
         Stream(rrl, oorl, n, U, m, want, fin),
         NEW e \in ReqT, SameKey(e, U[n + 1])
  PROVE  Stream(IF U[n + 1].is_write THEN rrl ELSE Append(rrl, e), oorl, n + 1, U,
                m, want, fin)
<1>1. PICK ms, oid, uid : /\ Trace(U, m, fin, ms)
                          /\ Order(rrl, oorl, n, U, Len(want), oid, uid)
                          /\ Values(oorl, U, want, ms, oid, uid)
  BY DEF Stream
<1>2. Order(IF U[n + 1].is_write THEN rrl ELSE Append(rrl, e), oorl, n + 1, U,
            Len(want), oid, uid)
  BY <1>1, OrderAccept
<1> QED BY <1>1, <1>2 DEF Stream

\* The payloads that stay will find the same bytes.
LEMMA ValuesServe ==
  ASSUME NEW U \in Seq(Payload), NEW i \in 1 .. Len(U), NEW V, IsWithout(V, U, i),
         NEW oorl, NEW want, NEW ms, NEW oid, NEW uid,
         Values(oorl, U, want, ms, oid, uid),
         NEW ns, SameFound(V, ns, U, ms, i),
         NEW vid, \A j \in 1 .. Len(V) : vid[j] = uid[Before(i, j)]
  PROVE  Values(oorl, V, want, ns, oid, vid)
<1>1. \A j \in ReadPlaces(V) : j \in 1 .. Len(V) /\ Before(i, j) \in ReadPlaces(U)
  BY BeforePlaces DEF ReadPlaces
<1> QED BY <1>1 DEF Values, SameFound

\* A write is served.
LEMMA StreamServeWrite ==
  ASSUME NEW U \in Seq(Payload), GoodPayloads(U), NEW n \in 1 .. Len(U), NEW i \in 1 .. n,
         U[i].is_write, \A j \in 1 .. i - 1 : ~ Overlaps(U[j], U[i]),
         NEW V, IsWithout(V, U, i), NEW rrl, NEW oorl, NEW m, NEW want, NEW fin,
         Stream(rrl, oorl, n, U, m, want, fin)
  PROVE  Stream(rrl, oorl, n - 1, V, Written(m, U[i]), want, fin)
<1>1. PICK ms, oid, uid : /\ Trace(U, m, fin, ms)
                          /\ Order(rrl, oorl, n, U, Len(want), oid, uid)
                          /\ Values(oorl, U, want, ms, oid, uid)
  BY DEF Stream
<1>2. i \in 1 .. Len(U)
  BY LenProperties
<1>3. PICK ns : /\ Trace(V, After(m, U[i]), fin, ns)
                /\ SameFound(V, ns, U, ms, i)
  BY <1>1, <1>2, TraceServe
<1>4. PICK vid : vid = [j \in 1 .. Len(V) |-> uid[Before(i, j)]]
  OBVIOUS
<1>5. \A j \in 1 .. Len(V) : vid[j] = uid[Before(i, j)]
  BY <1>4
<1>6. Order(rrl, oorl, n - 1, V, Len(want), oid, vid)
  BY <1>1, <1>5, OrderServeWrite
<1>7. Values(oorl, V, want, ns, oid, vid)
  BY <1>1, <1>2, <1>3, <1>5, ValuesServe
<1>8. After(m, U[i]) = Written(m, U[i])
  BY DEF After
<1> QED BY <1>3, <1>6, <1>7, <1>8 DEF Stream

\* A read is served and its response waits.
LEMMA StreamServeRead ==
  ASSUME NEW U \in Seq(Payload), GoodPayloads(U), NEW n \in 1 .. Len(U), NEW i \in 1 .. n,
         ~ U[i].is_write, \A j \in 1 .. i - 1 : ~ Overlaps(U[j], U[i]),
         NEW V, IsWithout(V, U, i), NEW rrl, NEW oorl \in Seq(Response), NEW m,
         NEW want, Len(want) \in Nat, NEW fin, Stream(rrl, oorl, n, U, m, want, fin),
         NEW e \in Response, SameKey(e, U[i]), e.data = Bits(m, U[i])
  PROVE  Stream(rrl, Append(oorl, e), n - 1, V, m, want, fin)
<1>1. PICK ms, oid, uid : /\ Trace(U, m, fin, ms)
                          /\ Order(rrl, oorl, n, U, Len(want), oid, uid)
                          /\ Values(oorl, U, want, ms, oid, uid)
  BY DEF Stream
<1>2. i \in 1 .. Len(U) /\ i \in Nat /\ i \in ReadPlaces(U)
  BY LenProperties DEF ReadPlaces
<1>3. PICK ns : /\ Trace(V, After(m, U[i]), fin, ns)
                /\ SameFound(V, ns, U, ms, i)
  BY <1>1, <1>2, TraceServe
<1>4. PICK vid : vid = [j \in 1 .. Len(V) |-> uid[Before(i, j)]]
  OBVIOUS
<1>5. \A j \in 1 .. Len(V) : vid[j] = uid[Before(i, j)]
  BY <1>4
<1>6. PICK o \in Nat : o = Len(oorl)
  BY LenProperties
<1>7. PICK pid : pid = [k \in 1 .. o + 1 |-> IF k <= o THEN oid[k] ELSE uid[i]]
  OBVIOUS
<1>8. (\A k \in 1 .. o : pid[k] = oid[k]) /\ pid[o + 1] = uid[i]
  BY <1>7
<1>9. ASSUME NEW j \in ReadPlaces(U), j < i PROVE ~ SameKey(U[j], U[i])
  <2>1. j \in 1 .. i - 1 /\ j \in 1 .. Len(U)
    BY <1>2, <1>9 DEF ReadPlaces
  <2>2. ~ Overlaps(U[j], U[i])
    BY <2>1
  <2>3. GoodPayload(U[j])
    BY <2>1 DEF GoodPayloads
  <2>4. U[j].addr \in Nat /\ U[j].len \in Nat /\ U[j].len > 0
    BY <2>3 DEF GoodPayload, Payload
  <2>5. U[j].addr \in Bytes(U[j])
    <3>1. PICK a \in Nat, l \in Nat : a = U[j].addr /\ l = U[j].len /\ l > 0
      BY <2>4
    <3>2. a \in a .. a + l - 1
      BY <3>1
    <3> QED BY <3>1, <3>2 DEF Bytes
  <2>6. SameKey(U[j], U[i]) => Bytes(U[i]) = Bytes(U[j])
    BY DEF SameKey, Bytes
  <2>7. Bytes(U[i]) = Bytes(U[j]) => Overlaps(U[j], U[i])
    BY <2>5 DEF Overlaps
  <2> QED BY <2>2, <2>6, <2>7
<1>10. Order(rrl, Append(oorl, e), n - 1, V, Len(want), pid, vid)
  <2>1. \A j \in ReadPlaces(U) : j < i => ~ SameKey(U[j], U[i])
    BY <1>9
  <2>2. (\A k \in 1 .. Len(oorl) : pid[k] = oid[k]) /\ pid[Len(oorl) + 1] = uid[i]
    BY <1>6, <1>8
  <2>3. Order(rrl, oorl, n, U, Len(want), oid, uid)
    BY <1>1
  <2> QED BY <1>5, <2>1, <2>2, <2>3, OrderServeRead
<1>11. Values(oorl, V, want, ns, oid, vid)
  BY <1>1, <1>2, <1>3, <1>5, ValuesServe
<1>12. want[uid[i]] = e.data
  <2>1. Bits(ms[i], U[i]) = Bits(m, U[i])
    BY <1>1, <1>2, SameBits
  <2> QED BY <1>1, <1>2, <2>1 DEF Values
<1>13. /\ Len(Append(oorl, e)) = o + 1 /\ Append(oorl, e)[o + 1] = e
       /\ \A k \in 1 .. o : Append(oorl, e)[k] = oorl[k]
  BY <1>6, AppendProperties
<1>14. Values(Append(oorl, e), V, want, ns, pid, vid)
  <2>1. ASSUME NEW k \in 1 .. o + 1 PROVE want[pid[k]] = Append(oorl, e)[k].data
    <3>1. CASE k \in 1 .. o
      BY <1>6, <1>8, <1>11, <1>13, <3>1 DEF Values
    <3>2. CASE k = o + 1
      BY <1>8, <1>12, <1>13, <3>2
    <3>3. k \in 1 .. o \/ k = o + 1
      OBVIOUS
    <3> QED BY <3>1, <3>2, <3>3
  <2> QED BY <1>11, <1>13, <2>1 DEF Values
<1>15. After(m, U[i]) = m
  BY DEF After
<1> QED BY <1>3, <1>10, <1>14, <1>15 DEF Stream

\* The response that is delivered carries the bytes of the oldest read.
LEMMA StreamDeliver ==
  ASSUME NEW rrl \in Seq(ReqT), rrl # << >>, NEW oorl \in Seq(Response), NEW n \in Nat,
         NEW U \in Seq(Payload), NEW m, NEW S, NEW want \in Seq(S), NEW fin,
         Stream(rrl, oorl, n, U, m, want, fin),
         NEW M, M = FirstLike(oorl, Head(rrl)), M # 0, NEW t, IsWithout(t, oorl, M)
  PROVE  /\ want # << >> /\ M \in 1 .. Len(oorl) /\ oorl[M].data = Head(want)
         /\ Stream(Tail(rrl), t, n, U, m, Tail(want), fin)
<1>1. PICK ms, oid, uid : /\ Trace(U, m, fin, ms)
                          /\ Order(rrl, oorl, n, U, Len(want), oid, uid)
                          /\ Values(oorl, U, want, ms, oid, uid)
  BY DEF Stream
<1>2. PICK w \in Nat : w = Len(want)
  BY LenProperties
<1>3. M \in 1 .. Len(oorl) /\ oid[M] = 1
  BY <1>1, <1>2, OldestMatched
<1>4. w > 0
  <2>1. Len(rrl) \in Nat \ {0} /\ Len(rrl) <= w
    BY <1>1, <1>2, EmptySeq DEF Order, OnTheWay
  <2> QED BY <2>1
<1>5. /\ want # << >> /\ Head(want) = want[1]
      /\ Len(Tail(want)) = w - 1 /\ \A x \in 1 .. w - 1 : Tail(want)[x] = want[x + 1]
  BY <1>2, <1>4, EmptySeq, HeadTailProperties
<1>6. PICK o \in Nat : o = Len(oorl)
  BY LenProperties
<1>7. Len(t) = o - 1 /\ \A k \in 1 .. o - 1 : /\ t[k] = oorl[Before(M, k)]
                                              /\ Before(M, k) \in 1 .. o
                                              /\ Before(M, k) # M
  BY <1>3, <1>6 DEF IsWithout, Before
<1>8. PICK pid, vid : /\ pid = [k \in 1 .. Len(t) |-> oid[Before(M, k)] - 1]
                      /\ vid = [i \in 1 .. Len(U) |-> uid[i] - 1]
  OBVIOUS
<1>9. /\ \A k \in 1 .. o - 1 : pid[k] = oid[Before(M, k)] - 1
      /\ \A i \in 1 .. Len(U) : vid[i] = uid[i] - 1
  BY <1>7, <1>8
<1>10. Order(Tail(rrl), t, n, U, w - 1, pid, vid)
  <2>1. Order(rrl, oorl, n, U, w, oid, uid)
    BY <1>1, <1>2
  <2>2. Lowered(t, U, M, oid, uid, pid, vid)
    BY <1>7, <1>9 DEF Lowered
  <2> QED BY <1>3, <2>1, <2>2, OrderDeliver
<1>11. ASSUME NEW k \in 1 .. o - 1 PROVE Tail(want)[pid[k]] = t[k].data
  <2>1. PICK b \in 1 .. o : b = Before(M, k)
    BY <1>7
  <2>2. PICK x \in Nat : x = Len(Tail(rrl))
    BY HeadTailProperties, LenProperties
  <2>3. pid[k] \in 1 .. x /\ x <= w - 1
    BY <1>7, <1>10, <2>2 DEF Order, Waiting, OnTheWay
  <2>4. PICK r \in Nat : r = Len(rrl)
    BY LenProperties
  <2>a. PICK y \in 1 .. r : y = oid[b]
    BY <1>1, <1>6, <2>4 DEF Order, Waiting
  <2>b. PICK z \in 1 .. x : z = pid[k] /\ z = y - 1
    BY <1>9, <2>1, <2>3, <2>a
  <2>c. z \in 1 .. w - 1 /\ z + 1 = y
    BY <2>3, <2>b
  <2>5. pid[k] \in 1 .. w - 1 /\ pid[k] + 1 = oid[b]
    BY <2>a, <2>b, <2>c
  <2>6. want[oid[b]] = oorl[b].data
    BY <1>1, <1>6 DEF Values
  <2> QED BY <1>5, <1>7, <2>1, <2>5, <2>6
<1>12. ASSUME NEW i \in ReadPlaces(U) PROVE Tail(want)[vid[i]] = Bits(ms[i], U[i])
  <2>1. vid[i] \in 1 .. w - 1
    BY <1>10 DEF Order, OnTheWay
  <2>2. uid[i] \in 1 .. w /\ want[uid[i]] = Bits(ms[i], U[i])
    BY <1>1, <1>2 DEF Order, OnTheWay, Values
  <2>3. vid[i] = uid[i] - 1
    BY <1>9 DEF ReadPlaces
  <2>4. vid[i] + 1 = uid[i]
    BY <2>2, <2>3
  <2> QED BY <1>5, <2>1, <2>2, <2>4
<1>13. Values(t, U, Tail(want), ms, pid, vid)
  BY <1>7, <1>11, <1>12 DEF Values
<1>14. oorl[M].data = Head(want)
  BY <1>1, <1>3, <1>5 DEF Values
<1> QED BY <1>1, <1>3, <1>5, <1>10, <1>13, <1>14 DEF Stream

\* The first of b moves to the end of a.
LEMMA MoveJoin ==
  ASSUME NEW S, NEW a \in Seq(S), NEW b \in Seq(S), b # << >>
  PROVE  Append(a, Head(b)) \o Tail(b) = a \o b
<1>1. PICK m \in Nat, n \in Nat : m = Len(a) /\ n = Len(b)
  BY LenProperties
<1>2. /\ n > 0 /\ Head(b) \in S /\ Head(b) = b[1] /\ Tail(b) \in Seq(S)
      /\ Len(Tail(b)) = n - 1 /\ \A j \in 1 .. n - 1 : Tail(b)[j] = b[j + 1]
  BY <1>1, EmptySeq, HeadTailProperties
<1> DEFINE c == Append(a, Head(b))
           s == c \o Tail(b)
           t == a \o b
<1>3. c \in Seq(S) /\ Len(c) = m + 1 /\ c[m + 1] = b[1] /\ \A j \in 1 .. m : c[j] = a[j]
  BY <1>1, <1>2, AppendProperties
<1>4. /\ t \in Seq(S) /\ Len(t) = m + n
      /\ \A j \in 1 .. m + n : t[j] = IF j <= m THEN a[j] ELSE b[j - m]
  BY <1>1, ConcatProperties
<1> HIDE DEF c, t
<1>5. /\ s \in Seq(S) /\ Len(s) = (m + 1) + (n - 1)
      /\ \A j \in 1 .. (m + 1) + (n - 1) :
           s[j] = IF j <= m + 1 THEN c[j] ELSE Tail(b)[j - (m + 1)]
  <2> DEFINE d == Tail(b)
  <2>1. d \in Seq(S) /\ Len(d) = n - 1 /\ s = c \o d
    BY <1>2
  <2> HIDE DEF d, s
  <2>2. /\ s \in Seq(S) /\ Len(s) = Len(c) + Len(d)
        /\ \A j \in 1 .. Len(c) + Len(d) : s[j] = IF j <= Len(c) THEN c[j] ELSE d[j - Len(c)]
    BY <1>3, <2>1, ConcatProperties
  <2> QED BY <1>3, <2>1, <2>2 DEF d
<1>6. (m + 1) + (n - 1) = m + n
  OBVIOUS
<1> HIDE DEF s
<1>7. ASSUME NEW j \in 1 .. m + n PROVE s[j] = t[j]
  <2>1. CASE j <= m
    BY <1>3, <1>4, <1>5, <1>6, <2>1
  <2>2. CASE j = m + 1
    <3>1. j <= m + 1 /\ ~ (j <= m) /\ j - m = 1
      BY <2>2
    <3> QED BY <1>3, <1>4, <1>5, <1>6, <2>2, <3>1
  <2>3. CASE j > m + 1
    <3>1. PICK k \in 1 .. n - 1 : j - (m + 1) = k /\ j - m = k + 1
      BY <2>3
    <3>2. ~ (j <= m) /\ ~ (j <= m + 1)
      BY <2>3
    <3> QED BY <1>2, <1>4, <1>5, <1>6, <3>1, <3>2
  <2>4. j <= m \/ j = m + 1 \/ j > m + 1
    OBVIOUS
  <2> QED BY <2>1, <2>2, <2>3, <2>4
<1> QED
  <2>1. s = t
    BY <1>4, <1>5, <1>6, <1>7, SeqEqual
  <2> QED BY <2>1 DEF s, t, c

\* What leaves a leaves the concatenation.
LEMMA WithoutJoin ==
  ASSUME NEW S, NEW a \in Seq(S), NEW b \in Seq(S), NEW i \in 1 .. Len(a),
         NEW t \in Seq(S), IsWithout(t, a, i)
  PROVE  IsWithout(t \o b, a \o b, i)
<1>1. PICK m \in Nat, n \in Nat : m = Len(a) /\ n = Len(b)
  BY LenProperties
<1>2. /\ i \in 1 .. m /\ Len(t) = m - 1
      /\ \A j \in 1 .. m - 1 : t[j] = IF j < i THEN a[j] ELSE a[j + 1]
  BY <1>1 DEF IsWithout
<1> DEFINE s == t \o b
           u == a \o b
<1>3. /\ Len(u) = m + n
      /\ \A j \in 1 .. m + n : u[j] = IF j <= m THEN a[j] ELSE b[j - m]
  BY <1>1, ConcatProperties
<1>4. /\ Len(s) = (m - 1) + n
      /\ \A j \in 1 .. (m - 1) + n : s[j] = IF j <= m - 1 THEN t[j] ELSE b[j - (m - 1)]
  <2> HIDE DEF s
  <2>1. /\ Len(s) = Len(t) + Len(b)
        /\ \A j \in 1 .. Len(t) + Len(b) : s[j] = IF j <= Len(t) THEN t[j] ELSE b[j - Len(t)]
    BY ConcatProperties DEF s
  <2> QED BY <1>1, <1>2, <2>1
<1> HIDE DEF s, u
<1>5. (m - 1) + n = (m + n) - 1
  OBVIOUS
<1>6. ASSUME NEW j \in 1 .. (m + n) - 1
      PROVE  s[j] = IF j < i THEN u[j] ELSE u[j + 1]
  <2>1. CASE j <= m - 1
    <3>1. j \in 1 .. m - 1 /\ j <= m /\ j + 1 <= m /\ j \in 1 .. m + n /\ j + 1 \in 1 .. m + n
      BY <2>1
    <3> QED BY <1>2, <1>3, <1>4, <1>5, <2>1, <3>1
  <2>2. CASE ~ (j <= m - 1)
    <3>1. ~ (j < i) /\ ~ (j + 1 <= m) /\ j + 1 \in 1 .. m + n
          /\ j - (m - 1) = (j + 1) - m
      BY <1>2, <2>2
    <3> QED BY <1>3, <1>4, <1>5, <2>2, <3>1
  <2> QED BY <2>1, <2>2
<1>7. IsWithout(s, u, i)
  BY <1>3, <1>4, <1>5, <1>6 DEF IsWithout
<1> QED BY <1>7 DEF s, u

-----------------------------------------------------------------------------
(* The reads on their way, in the state of the converter                   *)

OnTheirWay == active \o beginq

\* want and fin as in Stream, for what the memory system was sent.
Coming(want, fin) ==
  /\ want \in Seq(Seq(Byte))
  /\ Stream(read_req_list, out_order_rsp_list, Len(active), OnTheirWay, mem, want, fin)

\* All payloads on their way are good.
LEMMA OnTheirWayGood ==
  ASSUME ConvInv
  PROVE  /\ OnTheirWay \in Seq(Payload) /\ GoodPayloads(OnTheirWay)
         /\ Len(active) \in Nat /\ Len(OnTheirWay) = Len(active) + Len(beginq)
         /\ \A i \in 1 .. Len(active) : OnTheirWay[i] = active[i]
         /\ \A i \in 1 .. Len(beginq) : OnTheirWay[Len(active) + i] = beginq[i]
<1>1. active \in Seq(Payload) /\ beginq \in Seq(Payload)
  BY DEF ConvInv, ConvTypeOK
<1>2. PICK m \in Nat, n \in Nat : m = Len(active) /\ n = Len(beginq)
  BY <1>1, LenProperties
<1>3. /\ OnTheirWay \in Seq(Payload) /\ Len(OnTheirWay) = m + n
      /\ \A j \in 1 .. m + n :
           OnTheirWay[j] = IF j <= m THEN active[j] ELSE beginq[j - m]
  BY <1>1, <1>2, ConcatProperties DEF OnTheirWay
<1>4. \A i \in 1 .. m : OnTheirWay[i] = active[i]
  BY <1>3
<1>5. ASSUME NEW i \in 1 .. n PROVE OnTheirWay[m + i] = beginq[i]
  <2>1. m + i \in 1 .. m + n /\ ~ (m + i <= m) /\ (m + i) - m = i
    OBVIOUS
  <2> QED BY <1>3, <2>1
<1>6. ASSUME NEW j \in 1 .. m + n PROVE GoodPayload(OnTheirWay[j])
  <2>1. CASE j <= m
    BY <1>2, <1>3, <2>1 DEF ConvInv, GoodPayloads
  <2>2. CASE ~ (j <= m)
    <3>1. j - m \in 1 .. n
      BY <2>2
    <3> QED BY <1>2, <1>3, <2>2, <3>1 DEF ConvInv, GoodPayloads
  <2> QED BY <2>1, <2>2
<1> QED
  BY <1>2, <1>3, <1>4, <1>5, <1>6 DEF GoodPayloads

\* Nothing is on its way at the start.
LEMMA ComingInit ==
  ASSUME ConvInit, mem \in Memory
  PROVE  Coming(<< >>, mem)
<1>1. /\ OnTheirWay = << >> /\ Len(OnTheirWay) = 0 /\ ReadPlaces(OnTheirWay) = {}
  BY DEF ConvInit, OnTheirWay, ReadPlaces
<1>2. PICK ms : ms = [j \in 1 .. 1 |-> mem]
  OBVIOUS
<1>3. Trace(OnTheirWay, mem, mem, ms)
  <2>1. ms[1] = mem /\ 0 + 1 = 1 /\ 1 .. 0 = {} /\ \A j \in 1 .. 1 : ms[j] = mem
    BY <1>2
  <2> QED BY <1>1, <2>1 DEF Trace
<1>4. Len(<< >>) = 0 /\ 1 .. 0 = {}
  OBVIOUS
<1>5. Order(read_req_list, out_order_rsp_list, Len(active), OnTheirWay, Len(<< >>), ms, ms)
  BY <1>1, <1>4 DEF ConvInit, Order, Waiting, OnTheWay, Numbered
<1>6. Values(out_order_rsp_list, OnTheirWay, << >>, ms, ms, ms)
  BY <1>1, <1>4 DEF ConvInit, Values
<1> QED BY <1>3, <1>5, <1>6 DEF Coming, Stream

\* Payloads sent are behind those on their way.
LEMMA SentBehind ==
  ASSUME NEW a \in Seq(Payload), NEW b \in Seq(Payload), NEW c \in Seq(Payload)
  PROVE  (a \o b) \o c = a \o (b \o c)
<1>1. PICK S : S = Payload
  OBVIOUS
<1>2. a \in Seq(S) /\ b \in Seq(S) /\ c \in Seq(S)
  BY <1>1
<1> QED BY <1>2, ConcatAssociative

\* dram_send_req of writes.
LEMMA ComingWrites ==
  ASSUME ConvInv, NEW ps \in Seq(Payload), \A j \in 1 .. Len(ps) : ps[j].is_write,
         dram_send_req(ps), NEW want, NEW fin, Coming(want, fin),
         NEW to, NEW es, Trace(ps, fin, to, es)
  PROVE  Coming(want, to)'
<1>1. /\ active' = active /\ read_req_list' = read_req_list /\ mem' = mem
      /\ out_order_rsp_list' = out_order_rsp_list /\ beginq' = beginq \o ps
  BY DEF dram_send_req
<1>2. OnTheirWay' = OnTheirWay \o ps
  <2>1. active \in Seq(Payload) /\ beginq \in Seq(Payload)
    BY DEF ConvInv, ConvTypeOK
  <2>2. (active \o beginq) \o ps = active \o (beginq \o ps)
    BY <2>1, SentBehind
  <2> QED BY <1>1, <2>2 DEF OnTheirWay
<1>3. Stream(read_req_list, out_order_rsp_list, Len(active), OnTheirWay \o ps, mem, want, to)
  BY OnTheirWayGood, StreamSendWrites DEF Coming
<1> QED BY <1>1, <1>2, <1>3 DEF Coming

\* dram_send_req of reads.
LEMMA ComingReads ==
  ASSUME ConvInv, NEW ps \in Seq(Payload), \A j \in 1 .. Len(ps) : ~ ps[j].is_write,
         dram_send_req(ps), NEW want, NEW fin, Coming(want, fin),
         NEW more \in Seq(Seq(Byte)), Len(more) = Len(ps),
         \A j \in 1 .. Len(ps) : more[j] = Bits(fin, ps[j])
  PROVE  Coming(want \o more, fin)'
<1>1. /\ active' = active /\ read_req_list' = read_req_list /\ mem' = mem
      /\ out_order_rsp_list' = out_order_rsp_list /\ beginq' = beginq \o ps
  BY Zenon DEF dram_send_req
<1>2. OnTheirWay' = OnTheirWay \o ps
  <2>1. active \in Seq(Payload) /\ beginq \in Seq(Payload)
    BY DEF ConvInv, ConvTypeOK
  <2>2. (active \o beginq) \o ps = active \o (beginq \o ps)
    BY <2>1, SentBehind
  <2> QED BY <1>1, <2>2 DEF OnTheirWay
<1>3. Stream(read_req_list, out_order_rsp_list, Len(active), OnTheirWay \o ps, mem,
             want \o more, fin)
  <2>1. /\ Stream(read_req_list, out_order_rsp_list, Len(active), OnTheirWay, mem, want, fin)
        /\ want \in Seq(Seq(Byte)) /\ read_req_list \in Seq(ReqT)
    BY DEF Coming, ConvInv, ConvTypeOK
  <2>2. Len(active) \in 0 .. Len(OnTheirWay)
    <3>1. Len(beginq) \in Nat
      BY LenProperties DEF ConvInv, ConvTypeOK
    <3> QED BY <3>1, OnTheirWayGood
  <2> QED BY <2>1, <2>2, OnTheirWayGood, StreamSendReads
<1>4. want \o more \in Seq(Seq(Byte))
  BY ConcatProperties DEF Coming
<1> QED BY <1>1, <1>2, <1>3, <1>4 DEF Coming

\* END_REQ.
LEMMA ComingEndReq ==
  ASSUME ConvInv, NEW after, EndReq(after), NEW want, NEW fin, Coming(want, fin)
  PROVE  Coming(want, fin)'
<1>1. /\ beginq \in Seq(Payload) /\ beginq # << >> /\ active \in Seq(Payload)
      /\ all_req_list \in Seq(ReqT) /\ Len(all_req_list) = Len(beginq)
      /\ read_req_list \in Seq(ReqT) /\ Len(beginq) \in Nat \ {0}
  BY EmptySeq DEF ConvInv, ConvTypeOK, EndReq, Sent
<1>2. all_req_list # << >>
  BY <1>1
<1>3. /\ Head(beginq) = beginq[1] /\ Head(beginq) \in Payload
      /\ Head(all_req_list) = ReqOf(beginq[1]) /\ Head(all_req_list) \in ReqT
  BY <1>1, <1>2, HeadTailProperties DEF ConvInv, Sent
<1>4. SameKey(Head(all_req_list), beginq[1])
      /\ Head(all_req_list).is_write = beginq[1].is_write
  BY <1>3, ReqOfType DEF SameKey
<1>5. ~ EndReqMismatch
  BY EndReqKeeps
<1>6. /\ read_req_list' = IF beginq[1].is_write THEN read_req_list
                          ELSE Append(read_req_list, Head(all_req_list))
      /\ beginq' = Tail(beginq) /\ active' = Append(active, Head(beginq))
      /\ UNCHANGED <<out_order_rsp_list, mem>>
  BY <1>4, <1>5 DEF EndReq, EndedReq
<1>7. OnTheirWay' = OnTheirWay
  BY <1>1, <1>6, MoveJoin DEF OnTheirWay
<1> DEFINE n == Len(active)
<1>8. n \in Nat /\ Len(active') = n + 1
  BY <1>1, <1>3, <1>6, AppendProperties, LenProperties
<1>9. n + 1 \in 1 .. Len(OnTheirWay) /\ OnTheirWay[n + 1] = beginq[1]
  BY <1>1, OnTheirWayGood
<1>10. Len(want) \in Nat
       /\ Stream(read_req_list, out_order_rsp_list, n, OnTheirWay, mem, want, fin)
  BY LenProperties DEF Coming
<1>11. Stream(IF OnTheirWay[n + 1].is_write THEN read_req_list
              ELSE Append(read_req_list, Head(all_req_list)),
              out_order_rsp_list, n + 1, OnTheirWay, mem, want, fin)
  BY <1>1, <1>3, <1>4, <1>8, <1>9, <1>10, OnTheirWayGood, StreamAccept
<1> QED BY <1>6, <1>7, <1>8, <1>9, <1>11 DEF Coming

\* What an answered payload finds: no older one overlaps it.
LEMMA Served ==
  ASSUME ConvInv, NEW i, Answerable(i), active' = RemoveAt(active, i), beginq' = beginq
  PROVE  /\ i \in 1 .. Len(active) /\ OnTheirWay[i] = active[i]
         /\ Len(active) \in 1 .. Len(OnTheirWay) /\ Len(active') = Len(active) - 1
         /\ \A j \in 1 .. i - 1 : ~ Overlaps(OnTheirWay[j], OnTheirWay[i])
         /\ IsWithout(OnTheirWay', OnTheirWay, i)
<1>1. active \in Seq(Payload) /\ beginq \in Seq(Payload) /\ Len(active) \in Nat
      /\ Len(beginq) \in Nat
  BY LenProperties DEF ConvInv, ConvTypeOK
<1>2. i \in 1 .. Len(active) /\ \A j \in 1 .. i - 1 : ~ Overlaps(active[j], active[i])
  BY <1>1, LenProperties DEF Answerable
<1>3. active' \in Seq(Payload) /\ IsWithout(active', active, i)
  BY <1>1, <1>2, RemoveAtWithout
<1>4. IsWithout(OnTheirWay', OnTheirWay, i)
  BY <1>1, <1>2, <1>3, WithoutJoin DEF OnTheirWay
<1>5. \A j \in 1 .. i - 1 : j \in 1 .. Len(active)
  BY <1>1, <1>2
<1> QED BY <1>1, <1>2, <1>3, <1>4, <1>5, OnTheirWayGood DEF IsWithout

\* BEGIN_RESP of a read.
LEMMA ComingRead ==
  ASSUME ConvInv, NEW i, BeginRespRead(i), NEW want, NEW fin, Coming(want, fin)
  PROVE  Coming(want, fin)'
<1> DEFINE e == [addr |-> active[i].addr, len |-> active[i].len, data |-> Fetched(active[i])]
<1>1. Answerable(i) /\ ~ active[i].is_write
  BY DEF BeginRespRead
<1>2. FirstLike(read_req_list, active[i]) # 0
  BY <1>1, ResponseFound DEF Answerable
<1>3. /\ out_order_rsp_list' = Append(out_order_rsp_list, e)
      /\ active' = RemoveAt(active, i)
      /\ UNCHANGED <<read_req_list, beginq, mem>>
  BY <1>2 DEF BeginRespRead
<1>4. /\ i \in 1 .. Len(active) /\ OnTheirWay[i] = active[i]
      /\ Len(active) \in 1 .. Len(OnTheirWay) /\ Len(active') = Len(active) - 1
      /\ \A j \in 1 .. i - 1 : ~ Overlaps(OnTheirWay[j], OnTheirWay[i])
      /\ IsWithout(OnTheirWay', OnTheirWay, i)
  BY <1>1, <1>3, Served
<1>5. GoodPayload(active[i]) /\ active[i] \in Payload
  BY <1>4 DEF ConvInv, GoodPayloads, GoodPayload
<1>6. e \in Response /\ SameKey(e, active[i]) /\ e.data = Bits(mem, active[i])
  <2>1. Fetched(active[i]) \in Seq(Byte)
    BY <1>5, FetchedBytes DEF ConvInv
  <2>2. Fetched(active[i]) = Bits(mem, active[i])
    BY DEF Fetched, Bits
  <2> QED BY <1>5, <2>1, <2>2 DEF Response, SameKey, Payload
<1> HIDE DEF e
<1>7. Len(want) \in Nat /\ out_order_rsp_list \in Seq(Response)
      /\ Stream(read_req_list, out_order_rsp_list, Len(active), OnTheirWay, mem, want, fin)
  BY LenProperties DEF Coming, ConvInv, ConvTypeOK
<1>8. Stream(read_req_list, Append(out_order_rsp_list, e), Len(active) - 1, OnTheirWay',
             mem, want, fin)
  BY <1>1, <1>4, <1>6, <1>7, OnTheirWayGood, StreamServeRead
<1> QED BY <1>3, <1>4, <1>8 DEF Coming

\* BEGIN_RESP of a write.
LEMMA ComingWrite ==
  ASSUME ConvInv, NEW i, NEW after, BeginRespWrite(i, after),
         NEW want, NEW fin, Coming(want, fin)
  PROVE  Coming(want, fin)'
<1>1. /\ Answerable(i) /\ active[i].is_write /\ mem' = Written(mem, active[i])
      /\ active' = RemoveAt(active, i)
      /\ UNCHANGED <<read_req_list, out_order_rsp_list, beginq>>
  BY DEF BeginRespWrite
<1>2. /\ i \in 1 .. Len(active) /\ OnTheirWay[i] = active[i]
      /\ Len(active) \in 1 .. Len(OnTheirWay) /\ Len(active') = Len(active) - 1
      /\ \A j \in 1 .. i - 1 : ~ Overlaps(OnTheirWay[j], OnTheirWay[i])
      /\ IsWithout(OnTheirWay', OnTheirWay, i)
  BY <1>1, Served
<1>3. Stream(read_req_list, out_order_rsp_list, Len(active), OnTheirWay, mem, want, fin)
  BY DEF Coming
<1>4. Stream(read_req_list, out_order_rsp_list, Len(active) - 1, OnTheirWay',
             Written(mem, active[i]), want, fin)
  BY <1>1, <1>2, <1>3, OnTheirWayGood, StreamServeWrite
<1> QED BY <1>1, <1>2, <1>4 DEF Coming

\* A response is delivered: it is what the oldest read wants.
LEMMA ComingMatch ==
  ASSUME ConvInv, NEW after, MatchStep(after), NEW want, NEW fin, Coming(want, fin)
  PROVE  /\ want # << >> /\ read_rsp_queue' = read_rsp_queue \o Head(want)
         /\ Coming(Tail(want), fin)'
<1> DEFINE M == FirstLike(out_order_rsp_list, Head(read_req_list))
<1>1. /\ Matched # 0 /\ read_req_list # << >> /\ M = Matched /\ M # 0
      /\ read_rsp_queue' = read_rsp_queue \o out_order_rsp_list[M].data
      /\ out_order_rsp_list' = RemoveAt(out_order_rsp_list, M)
      /\ read_req_list' = Tail(read_req_list)
      /\ UNCHANGED <<active, beginq, mem>>
  BY DEF MatchStep, Matched, dramVars
<1>2. /\ read_req_list \in Seq(ReqT) /\ out_order_rsp_list \in Seq(Response)
      /\ want \in Seq(Seq(Byte))
      /\ Stream(read_req_list, out_order_rsp_list, Len(active), OnTheirWay, mem, want, fin)
  BY DEF Coming, ConvInv, ConvTypeOK
<1>3. M \in 1 .. Len(out_order_rsp_list)
  BY <1>1, <1>2, FirstLikeFinds
<1> HIDE DEF M
<1>4. IsWithout(out_order_rsp_list', out_order_rsp_list, M)
  BY <1>1, <1>2, <1>3, RemoveAtWithout
<1>5. M = FirstLike(out_order_rsp_list, Head(read_req_list))
  BY DEF M
<1>6. /\ want # << >> /\ out_order_rsp_list[M].data = Head(want)
      /\ Stream(Tail(read_req_list), out_order_rsp_list', Len(active), OnTheirWay, mem,
                Tail(want), fin)
  <2>1. Len(active) \in Nat /\ OnTheirWay \in Seq(Payload)
    BY OnTheirWayGood
  <2> QED BY <1>1, <1>2, <1>4, <1>5, <2>1, StreamDeliver
<1>7. Tail(want) \in Seq(Seq(Byte)) /\ OnTheirWay' = OnTheirWay
  BY <1>1, <1>2, <1>6, HeadTailProperties DEF OnTheirWay
<1> QED BY <1>1, <1>6, <1>7 DEF Coming

\* Other steps bring nothing.
LEMMA ComingSame ==
  ASSUME UNCHANGED <<read_req_list, out_order_rsp_list, active, beginq, mem>>,
         NEW want, NEW fin, Coming(want, fin)
  PROVE  Coming(want, fin)'
  BY DEF Coming, OnTheirWay

-----------------------------------------------------------------------------
(* The sub-requests of the library                                         *)

\* The sub-requests of a transfer cut it into equal pieces.
LEMMA EqualPieces ==
  ASSUME NEW length \in Nat \ {0}, NEW w \in BOOLEAN, ~ MisalignedStrobe(length, w)
  PROVE  /\ num_subreq(length, w) \in Nat \ {0}
         /\ sub_len(length, w) \in Nat \ {0}
         /\ sub_len(length, w) * num_subreq(length, w) = length
<1>1. DRAMburst \in Nat \ {0}
  BY ConvConstants
<1>2. CASE Splits(length, w)
  <2>1. length > DRAMburst /\ length % DRAMburst = 0
    BY <1>2 DEF Splits, MisalignedStrobe
  <2>2. PICK n \in Nat : n = length \div DRAMburst
    BY <1>1, DivMod
  <2>3. length = DRAMburst * n
    BY <1>1, <2>1, <2>2, DivMod
  <2>4. n # 0
    BY <1>1, <2>3
  <2> QED
    BY <1>1, <1>2, <2>2, <2>3, <2>4 DEF num_subreq, sub_len
<1>3. CASE ~ Splits(length, w)
  BY <1>3 DEF num_subreq, sub_len
<1> QED BY <1>2, <1>3

\* A sub-request of a transfer that lies in the memory is a good payload.
LEMMA SubPayloadGood ==
  ASSUME NEW length \in Nat \ {0}, NEW w \in BOOLEAN, ~ MisalignedStrobe(length, w),
         NEW a \in Nat, a + length <= MemSize,
         NEW i \in 0 .. num_subreq(length, w) - 1,
         NEW wb, NEW ws,
         w => wb \in [1 .. length -> Byte] /\ ws \in [1 .. length -> BOOLEAN]
  PROVE  /\ GoodPayload(SubPayload(i, a, length, w, wb, ws))
         /\ SubPayload(i, a, length, w, wb, ws).is_write = w
<1> DEFINE l == sub_len(length, w)
           n == num_subreq(length, w)
           p == SubPayload(i, a, length, w, wb, ws)
<1>1. MemSize \in Nat
  BY ConvConstants
<1>2. l \in Nat \ {0} /\ n \in Nat \ {0} /\ l * n = length
  BY EqualPieces
<1>3. i * l \in Nat /\ i * l + l <= length
  BY <1>2, PieceInside
<1> DEFINE dd == IF w THEN [k \in 1 .. l |-> wb[i * l + k]] ELSE << >>
           ss == IF w THEN [k \in 1 .. l |-> ws[i * l + k]] ELSE << >>
<1>4. p = [addr |-> a + i * l, len |-> l, is_write |-> w, data |-> dd, strobe |-> ss]
  BY DEF SubPayload
<1> HIDE DEF l, n, p
<1>5. PICK d \in Nat : d = i * l
  BY <1>3
<1>6. \A k \in 1 .. l : d + k \in 1 .. length
  BY <1>1, <1>2, <1>3, <1>5
<1>7. dd \in Seq(Byte) /\ (w => Len(dd) = l)
  <2>1. w => /\ [k \in 1 .. l |-> wb[d + k]] \in Seq(Byte)
             /\ Len([k \in 1 .. l |-> wb[d + k]]) = l
    <3>1. w => \A k \in 1 .. l : wb[d + k] \in Byte
      BY <1>6
    <3> QED BY <1>2, <3>1
  <2>2. [k \in 1 .. l |-> wb[i * l + k]] = [k \in 1 .. l |-> wb[d + k]]
    BY <1>5
  <2> HIDE DEF l
  <2>3. CASE w
    BY <2>1, <2>2, <2>3, Zenon
  <2>4. CASE ~ w
    BY <2>4
  <2> QED BY <2>3, <2>4
<1>8. ss \in Seq(BOOLEAN) /\ (w => Len(ss) = l)
  <2>1. w => /\ [k \in 1 .. l |-> ws[d + k]] \in Seq(BOOLEAN)
             /\ Len([k \in 1 .. l |-> ws[d + k]]) = l
    <3>1. w => \A k \in 1 .. l : ws[d + k] \in BOOLEAN
      BY <1>6
    <3> QED BY <1>2, <3>1
  <2>2. [k \in 1 .. l |-> ws[i * l + k]] = [k \in 1 .. l |-> ws[d + k]]
    BY <1>5
  <2> HIDE DEF l
  <2>3. CASE w
    BY <2>1, <2>2, <2>3, Zenon
  <2>4. CASE ~ w
    BY <2>4
  <2> QED BY <2>3, <2>4
<1> HIDE DEF dd, ss
<1>9. a + i * l \in Nat
  BY <1>3
<1>10. /\ p.addr = a + d /\ p.len = l /\ p.is_write = w
       /\ p.data = dd /\ p.strobe = ss
  BY <1>4, <1>5
<1>11. p \in Payload
  BY <1>2, <1>4, <1>7, <1>8, <1>9 DEF Payload
<1>12. p.addr + p.len <= MemSize
  BY <1>1, <1>2, <1>3, <1>5, <1>10
<1>13. p.is_write => Len(p.data) = p.len /\ Len(p.strobe) = p.len
  BY <1>7, <1>8, <1>10
<1>14. p.len > 0
  BY <1>2, <1>10
<1> QED BY <1>10, <1>11, <1>12, <1>13, <1>14 DEF GoodPayload, p

\* ps writes the N * l bytes of data from address a on, l bytes in each
\* payload, where strobe says so.
Pieces(ps, a, N, l, data, strobe) ==
  /\ Len(ps) = N
  /\ \A j \in 1 .. N :
       /\ ps[j].is_write /\ ps[j].addr = a + (j - 1) * l /\ ps[j].len = l
       /\ \A k \in 1 .. l : /\ ps[j].data[k] = data[(j - 1) * l + k]
                            /\ ps[j].strobe[k] = strobe[(j - 1) * l + k]

\* Memory m with n strobed bytes stored from address a on.
StoreAt(m, a, n, data, strobe) ==
  [x \in Addrs |-> IF x >= a /\ x < a + n /\ strobe[x - a + 1] THEN data[x - a + 1]
                   ELSE m[x]]

\* The pieces of a write store it, one after the other.
LEMMA PiecesStore ==
  ASSUME NEW m \in Memory, NEW ps, NEW a \in Nat, NEW N \in Nat, NEW l \in Nat \ {0},
         NEW data, NEW strobe, Pieces(ps, a, N, l, data, strobe),
         \A i \in 1 .. l * N : data[i] \in Byte
  PROVE  \E es : Trace(ps, m, StoreAt(m, a, l * N, data, strobe), es)
<1> DEFINE S(n) == StoreAt(m, a, n, data, strobe)
           es == [j \in 1 .. N + 1 |-> S((j - 1) * l)]
<1>1. \A j \in 1 .. N + 1 : es[j] = S((j - 1) * l)
  OBVIOUS
<1>2. MemSize \in Nat /\ l * N \in Nat /\ m \in [Addrs -> Byte]
  BY ConvConstants DEF Memory
<1>3. ASSUME NEW n \in Nat, n <= l * N PROVE S(n) \in Memory
  <2>1. ASSUME NEW x \in Addrs, x >= a, x < a + n PROVE data[x - a + 1] \in Byte
    <3>1. x - a + 1 \in 1 .. l * N
      BY <1>2, <1>3, <2>1 DEF Addrs
    <3> QED BY <3>1
  <2> QED BY <1>2, <2>1 DEF StoreAt, Memory
<1>4. \A j \in 1 .. N + 1 : (j - 1) * l \in Nat /\ (j - 1) * l <= l * N
  <2> SUFFICES ASSUME NEW j \in 1 .. N + 1 PROVE (j - 1) * l \in Nat /\ (j - 1) * l <= l * N
    OBVIOUS
  <2>1. PICK i \in Nat : i = j - 1 /\ i <= N
    OBVIOUS
  <2>2. l * i <= l * N /\ i * l = l * i /\ l * i \in Nat
    BY <2>1, MulMono
  <2> QED BY <2>1, <2>2
<1>5. S(0) = m
  BY <1>2 DEF StoreAt, Addrs
<1>6. ASSUME NEW j \in 1 .. N PROVE S((j + 1 - 1) * l) = After(S((j - 1) * l), ps[j])
  <2>1. PICK d \in Nat : d = (j - 1) * l
    <3>1. j \in 1 .. N + 1
      OBVIOUS
    <3> QED BY <1>4, <3>1
  <2>2. (j + 1 - 1) * l = d + l
    <3>1. (j + 1 - 1) * l = (j - 1) * l + l
      OBVIOUS
    <3> QED BY <2>1, <3>1
  <2> DEFINE p == ps[j]
  <2>3. /\ p.is_write /\ p.addr = a + d /\ p.len = l
        /\ \A k \in 1 .. l : p.data[k] = data[d + k] /\ p.strobe[k] = strobe[d + k]
    BY <2>1 DEF Pieces
  <2> HIDE DEF p
  <2>4. ASSUME NEW x \in Addrs
        PROVE  S(d + l)[x] = Written(S(d), p)[x]
    <3>1. x \in Nat
      BY <1>2 DEF Addrs
    <3>2. /\ S(d + l)[x] = IF x >= a /\ x < a + (d + l) /\ strobe[x - a + 1]
                           THEN data[x - a + 1] ELSE m[x]
          /\ S(d)[x] = IF x >= a /\ x < a + d /\ strobe[x - a + 1]
                       THEN data[x - a + 1] ELSE m[x]
          /\ DOMAIN S(d) = Addrs
      BY DEF StoreAt
    <3> HIDE DEF S
    <3>3. Written(S(d), p)[x] = IF x \in Bytes(p) /\ p.strobe[x - p.addr + 1]
                                THEN p.data[x - p.addr + 1] ELSE S(d)[x]
      BY <3>2 DEF Written
    <3>4. x \in Bytes(p) <=> x >= a + d /\ x < a + d + l
      BY <2>3, <3>1 DEF Bytes
    <3>5. CASE x \in Bytes(p)
      <4>1. PICK k \in 1 .. l : x - (a + d) + 1 = k /\ x - a + 1 = d + k
        BY <3>1, <3>4, <3>5
      <4>2. p.data[x - p.addr + 1] = data[x - a + 1] /\ p.strobe[x - p.addr + 1] = strobe[x - a + 1]
        BY <2>3, <4>1
      <4>3. x >= a /\ x < a + (d + l) /\ ~ (x < a + d)
        BY <3>1, <3>4, <3>5
      <4> QED BY <3>2, <3>3, <3>5, <4>2, <4>3
    <3>6. CASE x \notin Bytes(p)
      <4>1. x < a + (d + l) <=> x < a + d
        BY <3>1, <3>4, <3>6
      <4> QED BY <3>2, <3>3, <3>6, <4>1
    <3> QED BY <3>5, <3>6
  <2>5. S(d + l) = [x \in Addrs |-> S(d + l)[x]] /\ DOMAIN S(d) = Addrs
    BY DEF StoreAt
  <2> HIDE DEF S
  <2>6. Written(S(d), p) = [x \in Addrs |-> Written(S(d), p)[x]]
    BY <2>5 DEF Written
  <2>7. S(d + l) = Written(S(d), p)
    BY <2>4, <2>5, <2>6
  <2> QED BY <2>1, <2>2, <2>3, <2>7 DEF After, p
<1> HIDE DEF S, es
<1>7. /\ \A j \in 1 .. N + 1 : es[j] \in Memory
      /\ es[1] = m
  <2>1. 1 \in 1 .. N + 1 /\ (1 - 1) * l = 0
    OBVIOUS
  <2> QED BY <1>1, <1>3, <1>4, <1>5, <2>1
<1>8. es[N + 1] = S(l * N)
  <2>1. N + 1 \in 1 .. N + 1 /\ (N + 1 - 1) * l = l * N
    OBVIOUS
  <2> QED BY <1>1, <2>1
<1>9. \A j \in 1 .. N : es[j + 1] = After(es[j], ps[j])
  <2> SUFFICES ASSUME NEW j \in 1 .. N PROVE es[j + 1] = After(es[j], ps[j])
    OBVIOUS
  <2>1. j \in 1 .. N + 1 /\ j + 1 \in 1 .. N + 1
    OBVIOUS
  <2> QED BY <1>1, <1>6, <2>1
<1>10. Trace(ps, m, S(l * N), es)
  BY <1>7, <1>8, <1>9 DEF Trace, Pieces
<1> QED BY <1>10 DEF S
=============================================================================
