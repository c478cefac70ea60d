----------------------------- MODULE DdrProofs -----------------------------
(***************************************************************************)
(* Proofs about the ddr bridge, for every memory size, burst length, chunk *)
(* size, set of requests and set of commands that the assumptions allow:   *)
(* first its invariants, then that it implements AtomicDram.               *)
(***************************************************************************)
EXTENDS DdrHistory, ConvProofs

-----------------------------------------------------------------------------
(* The payloads of a request                                               *)

GoodCommand(cmd) ==
  /\ cmd \in Command
  /\ cmd.data # << >>
  /\ cmd.offset + Len(cmd.data) <= MemSize

\* The aligned range of a request covers it and lies in the memory.
LEMMA ChunkRange ==
  ASSUME NEW cmd, GoodCommand(cmd)
  PROVE  /\ req_start_addr(cmd) \in Nat /\ num_req(cmd) \in Nat \ {0}
         /\ req_start_addr(cmd) <= cmd.offset
         /\ cmd.offset < req_start_addr(cmd) + GRANULARITY
         /\ cmd.offset + size(cmd) <= req_start_addr(cmd) + GRANULARITY * num_req(cmd)
         /\ req_start_addr(cmd) + GRANULARITY * num_req(cmd) <= MemSize
<1>1. /\ GRANULARITY \in Nat \ {0} /\ MemSize \in Nat /\ MemSize % GRANULARITY = 0
      /\ cmd.offset \in Nat /\ size(cmd) \in Nat \ {0}
      /\ cmd.offset + size(cmd) <= MemSize
  BY DdrConstants, ConvConstants, EmptySeq DEF GoodCommand, Command, size
<1>2. PICK G \in Nat \ {0} : G = GRANULARITY
  BY <1>1
<1>3. PICK o \in Nat, z \in Nat \ {0} : o = cmd.offset /\ z = size(cmd)
  BY <1>1
<1>4. PICK u \in Nat : u = o \div G
  BY DivMod
<1>5. G * u <= o /\ o < G * u + G
  BY <1>4, DivMod
<1>6. PICK e \in Nat : e = (o + z - 1) - G * u
  BY <1>5
<1>7. PICK v \in Nat : v = e \div G
  BY DivMod
<1>8. G * v <= e /\ e < G * v + G
  BY <1>7, DivMod
<1>9. PICK w \in Nat : w = MemSize \div G
  BY <1>1, DivMod
<1>10. MemSize = G * w
  BY <1>1, <1>2, <1>9, DivMod
<1>11. /\ G * (u + v) = G * u + G * v
       /\ G * (1 + v) = G + G * v
       /\ u * G = G * u /\ G * u \in Nat /\ G * v \in Nat
  OBVIOUS
<1>12. G * (u + v) + G <= G * w
  <2>1. G * (u + v) < G * w
    BY <1>1, <1>3, <1>5, <1>6, <1>8, <1>10, <1>11
  <2> QED BY <2>1, MulStep
<1>13. req_start_addr(cmd) = G * u
  BY <1>2, <1>3, <1>4, <1>11 DEF req_start_addr
<1>14. num_req(cmd) = 1 + v
  BY <1>2, <1>3, <1>6, <1>7, <1>13 DEF num_req
<1>15. G * u + G * (1 + v) <= MemSize
  BY <1>10, <1>11, <1>12
<1>16. o + z <= G * u + G * (1 + v)
  BY <1>6, <1>8, <1>11
<1> QED
  BY <1>2, <1>3, <1>5, <1>11, <1>13, <1>14, <1>15, <1>16

\* No chunk is fatal; its sub-requests cut it into equal pieces.
LEMMA SubRange ==
  ASSUME NEW w \in BOOLEAN
  PROVE  /\ ~ MisalignedStrobe(GRANULARITY, w)
         /\ num_subreq(GRANULARITY, w) \in Nat \ {0}
         /\ sub_len(GRANULARITY, w) \in Nat \ {0}
         /\ sub_len(GRANULARITY, w) * num_subreq(GRANULARITY, w) = GRANULARITY
<1>1. GRANULARITY \in Nat \ {0} /\ ~ MisalignedStrobe(GRANULARITY, w)
  BY DdrConstants DEF MisalignedStrobe, Splits
<1> QED BY <1>1, EqualPieces

\* A good command makes at least one payload, all of them good and of its
\* direction.
LEMMA PayloadsGood ==
  ASSUME NEW cmd, GoodCommand(cmd)
  PROVE  /\ Payloads(cmd) \in Seq(Payload)
         /\ Len(Payloads(cmd)) \in Nat \ {0}
         /\ \A j \in 1 .. Len(Payloads(cmd)) :
              GoodPayload(Payloads(cmd)[j]) /\ Payloads(cmd)[j].is_write = cmd.is_write
<1> DEFINE w == cmd.is_write
           n == num_subreq(GRANULARITY, w)
           c == num_req(cmd)
           s == req_start_addr(cmd)
           wb(k) == [i \in 1 .. GRANULARITY |-> data_q(cmd)[k * GRANULARITY + i]]
           ws(k) == [i \in 1 .. GRANULARITY |-> mask_d(cmd)[k * GRANULARITY + i] = 1]
           p(j) == SubPayload((j - 1) % n, s + ((j - 1) \div n) * GRANULARITY,
                              GRANULARITY, w, wb((j - 1) \div n), ws((j - 1) \div n))
<1>1. /\ GRANULARITY \in Nat \ {0} /\ MemSize \in Nat /\ 0 \in Byte
      /\ w \in BOOLEAN /\ cmd.offset \in Nat
      /\ cmd.data \in Seq(Byte) /\ Len(cmd.data) \in Nat \ {0}
  BY DdrConstants, ConvConstants, EmptySeq DEF GoodCommand, Command
<1>2. n \in Nat \ {0}
  BY <1>1, SubRange
<1>3. /\ c \in Nat \ {0} /\ s \in Nat /\ s <= cmd.offset
      /\ s + GRANULARITY * c <= MemSize
  BY ChunkRange
<1>4. Payloads(cmd) = [j \in 1 .. c * n |-> p(j)]
  BY DEF Payloads
<1>5. \A i \in 1 .. GRANULARITY * c : data_q(cmd)[i] \in Byte
  <2> SUFFICES ASSUME NEW i \in 1 .. GRANULARITY * c PROVE data_q(cmd)[i] \in Byte
    OBVIOUS
  <2>1. data_q(cmd)[i] = IF InRange(cmd, i - 1) THEN cmd.data[i - start_ptr(cmd)] ELSE 0
    BY DEF data_q
  <2>2. CASE InRange(cmd, i - 1)
    <3>1. start_ptr(cmd) \in Nat /\ end_ptr(cmd) = start_ptr(cmd) + Len(cmd.data)
      BY <1>1, <1>3 DEF start_ptr, end_ptr, size
    <3>2. i \in Int /\ i - 1 >= start_ptr(cmd) /\ i - 1 < end_ptr(cmd)
      BY <1>1, <1>3, <2>2 DEF InRange
    <3>3. i - start_ptr(cmd) \in 1 .. Len(cmd.data)
      BY <1>1, <3>1, <3>2
    <3> QED BY <1>1, <2>1, <2>2, <3>3, ElementOfSeq
  <2>3. CASE ~ InRange(cmd, i - 1)
    BY <1>1, <2>1, <2>3
  <2> QED BY <2>2, <2>3
<1>6. \A k \in 0 .. c - 1, i \in 1 .. GRANULARITY :
        k * GRANULARITY + i \in 1 .. GRANULARITY * c
  <2> SUFFICES ASSUME NEW k \in 0 .. c - 1, NEW i \in 1 .. GRANULARITY
               PROVE  k * GRANULARITY + i \in 1 .. GRANULARITY * c
    OBVIOUS
  <2>1. k * GRANULARITY \in Nat /\ k * GRANULARITY + GRANULARITY <= GRANULARITY * c
    BY <1>1, <1>3, PieceInside
  <2>2. GRANULARITY * c \in Nat /\ GRANULARITY \in Nat
    BY <1>1, <1>3
  <2> DEFINE a == k * GRANULARITY
             t == GRANULARITY * c
  <2>3. a \in Nat /\ a + GRANULARITY <= t /\ t \in Nat
    BY <2>1, <2>2
  <2> HIDE DEF a, t
  <2>4. a + i \in 1 .. t
    BY <2>2, <2>3
  <2> QED BY <2>4 DEF a, t
<1>7. \A k \in 0 .. c - 1 : /\ wb(k) \in [1 .. GRANULARITY -> Byte]
                            /\ ws(k) \in [1 .. GRANULARITY -> BOOLEAN]
  BY <1>5, <1>6
<1> HIDE DEF wb, ws, w, s, c, n
<1>8. ASSUME NEW j \in 1 .. c * n
      PROVE  GoodPayload(p(j)) /\ p(j).is_write = w
  <2>1. c * n \in Nat
    BY <1>2, <1>3
  <2>2. j - 1 \in Nat /\ j - 1 < c * n
    BY <2>1
  <2>3. PICK k \in 0 .. c - 1, i \in 0 .. n - 1 : k = (j - 1) \div n /\ i = (j - 1) % n
    BY <1>2, <1>3, <2>2, QuotientBelow
  <2>4. k * GRANULARITY \in Nat /\ k * GRANULARITY + GRANULARITY <= GRANULARITY * c
    BY <1>1, <1>3, PieceInside
  <2>5. s + k * GRANULARITY \in Nat /\ s + k * GRANULARITY + GRANULARITY <= MemSize
    BY <1>1, <1>3, <2>4
  <2>6. p(j) = SubPayload(i, s + k * GRANULARITY, GRANULARITY, w, wb(k), ws(k))
    BY <2>3
  <2>7. wb(k) \in [1 .. GRANULARITY -> Byte] /\ ws(k) \in [1 .. GRANULARITY -> BOOLEAN]
    BY <1>7
  <2>8. i \in 0 .. num_subreq(GRANULARITY, w) - 1
    BY DEF n
  <2>9. /\ GoodPayload(SubPayload(i, s + k * GRANULARITY, GRANULARITY, w, wb(k), ws(k)))
        /\ SubPayload(i, s + k * GRANULARITY, GRANULARITY, w, wb(k), ws(k)).is_write = w
    <3>1. ~ MisalignedStrobe(GRANULARITY, w)
      BY <1>1, SubRange
    <3> QED BY <1>1, <2>5, <2>7, <2>8, <3>1, SubPayloadGood
  <2> QED BY <2>6, <2>9
<1> HIDE DEF p
<1>9. c * n \in Nat \ {0}
  BY <1>2, <1>3
<1>10. \A j \in 1 .. c * n : p(j) \in Payload
  BY <1>8 DEF GoodPayload
<1>11. Payloads(cmd) \in Seq(Payload) /\ Len(Payloads(cmd)) = c * n
  BY <1>4, <1>9, <1>10
<1>12. \A j \in 1 .. c * n : Payloads(cmd)[j] = p(j)
  BY <1>4
<1> QED
  BY <1>8, <1>9, <1>11, <1>12 DEF w

-----------------------------------------------------------------------------
(* The invariant of the bridge                                             *)

Pending == [req : Requests, mask : Seq({0, 1})]

\* A read waits for at least one byte, except while its last byte is being
\* answered; a denied request waits behind one the memory has not accepted.
ClientInv ==
  /\ pc \in Pcs \ {"fatal"}
  /\ io \in [Requests -> IoReq]
  /\ \A r \in Requests : GoodCommand(io[r].cmd)
  /\ denied_req_queue \in Seq(Requests)
  /\ pending_read_req_queue \in Seq(Pending)
  /\ \A i \in 1 .. Len(pending_read_req_queue) :
       pending_read_req_queue[i].mask = << >> => i = 1 /\ pc = "rresp"
  /\ pc = "rresp" => pending_read_req_queue # << >>
  /\ pc \in {"granted", "wresp"} => denied_req_queue # << >>
  /\ denied_req_queue # << >> /\ pc # "req_cb" => all_req_list # << >>

Inv == ConvInv /\ ClientInv

\* The mask of a good command has a bit per byte of its aligned range.
LEMMA MaskGood ==
  ASSUME NEW cmd, GoodCommand(cmd)
  PROVE  mask_d(cmd) \in Seq({0, 1}) /\ mask_d(cmd) # << >>
<1>1. num_req(cmd) \in Nat \ {0} /\ GRANULARITY \in Nat \ {0}
  BY ChunkRange, DdrConstants
<1>2. PICK n \in Nat \ {0} : n = GRANULARITY * num_req(cmd)
  BY <1>1
<1>3. mask_d(cmd) = [i \in 1 .. n |-> IF InRange(cmd, i - 1) THEN 1 ELSE 0]
  BY <1>2 DEF mask_d
<1>4. \A i \in 1 .. n : (IF InRange(cmd, i - 1) THEN 1 ELSE 0) \in {0, 1}
  OBVIOUS
<1>5. mask_d(cmd) \in Seq({0, 1}) /\ Len(mask_d(cmd)) = n
  BY <1>2, <1>3, <1>4
<1> QED BY <1>2, <1>5, EmptySeq

\* paraSendRequest of a good command is not fatal, keeps the invariant of the
\* converter and puts a read at the end of the pending ones.
LEMMA SendStep ==
  ASSUME Inv, NEW r \in Requests, NEW cmd, GoodCommand(cmd), NEW next,
         paraSendRequest(r, cmd, next)
  PROVE  /\ ConvInv' /\ pc' = next /\ all_req_list' # << >>
         /\ pending_read_req_queue' \in Seq(Pending)
         /\ \A i \in 1 .. Len(pending_read_req_queue') :
              pending_read_req_queue'[i].mask = << >> => i = 1 /\ pc = "rresp"
         /\ pending_read_req_queue # << >> => pending_read_req_queue' # << >>
<1> DEFINE q == pending_read_req_queue
           e == [req |-> r, mask |-> mask_d(cmd)]
<1>1. cmd.is_write \in BOOLEAN
  BY DEF GoodCommand, Command
<1>2. ~ MisalignedStrobe(GRANULARITY, cmd.is_write)
  BY <1>1, SubRange
<1>3. /\ pc' = next /\ dram_send_req(Payloads(cmd))
      /\ q' = IF cmd.is_write THEN q ELSE Append(q, e)
  BY <1>2 DEF paraSendRequest
<1>4. ConvInv' /\ all_req_list' # << >>
  BY <1>3, PayloadsGood, SendKeeps DEF GoodPayloads, Inv
<1>5. e \in Pending /\ e.mask # << >>
  BY MaskGood DEF Pending
<1>6. /\ q \in Seq(Pending) /\ Len(q) \in Nat
      /\ \A i \in 1 .. Len(q) : q[i].mask = << >> => i = 1 /\ pc = "rresp"
  BY LenProperties DEF Inv, ClientInv
<1> HIDE DEF e, q
<1>7. CASE cmd.is_write
  BY <1>3, <1>4, <1>6, <1>7 DEF q
<1>8. CASE ~ cmd.is_write
  <2>1. q' = Append(q, e)
    BY <1>3, <1>8
  <2>2. /\ q' \in Seq(Pending) /\ q' # << >> /\ Len(q') = Len(q) + 1
        /\ \A i \in 1 .. Len(q) : q'[i] = q[i]
        /\ q'[Len(q) + 1] = e
    BY <1>5, <1>6, <2>1, AppendProperties
  <2>3. ASSUME NEW i \in 1 .. Len(q'), q'[i].mask = << >>
        PROVE  i = 1 /\ pc = "rresp"
    <3>1. CASE i \in 1 .. Len(q)
      BY <1>6, <2>2, <2>3, <3>1
    <3>2. CASE i = Len(q) + 1
      BY <1>5, <2>2, <2>3, <3>2
    <3> QED BY <1>6, <2>2, <3>1, <3>2
  <2> QED BY <1>3, <1>4, <2>2, <2>3 DEF q
<1> QED BY <1>1, <1>7, <1>8

\* Every command an initiator may use is good.
LEMMA CommandsGood == \A cmd \in Commands : GoodCommand(cmd)
  BY DdrConstants DEF GoodCommand

\* Initially nothing is queued anywhere.
LEMMA InitInv == ASSUME Init PROVE Inv
<1>1. ConvTypeOK
  BY DdrConstants DEF Init, ConvInit, ConvTypeOK
<1>2. Sent /\ GoodPayloads(beginq) /\ GoodPayloads(active)
  BY DEF Init, ConvInit, Sent, GoodPayloads
<1>3. Accounted /\ Totals
  BY CountEmpty DEF Init, ConvInit, Accounted, Totals
<1>4. PICK cmd \in Commands : io = [r \in Requests |-> [st |-> "idle", cmd |-> cmd]]
  BY DEF Init
<1>5. io \in [Requests -> IoReq] /\ \A r \in Requests : GoodCommand(io[r].cmd)
  BY <1>4, CommandsGood DEF GoodCommand, IoReq, IoState
<1>6. ClientInv
  BY <1>5 DEF Init, ClientInv, Pcs
<1> QED BY <1>1, <1>2, <1>3, <1>6 DEF Inv, ConvInv

\* A call of ddr::req keeps the invariant.
LEMMA ReqKeeps ==
  ASSUME Inv, NEW r \in Requests, NEW cmd \in Commands, req(r, cmd)
  PROVE  Inv'
<1>1. GoodCommand(cmd) /\ cmd \in Command
  BY CommandsGood DEF GoodCommand
<1>2. pc \in Pcs \ {"fatal", "req_cb"}
  BY DEF req, Reentrant, Pcs
<1>3. ASSUME NEW s \in IoState, io' = [io EXCEPT ![r] = [st |-> s, cmd |-> cmd]]
      PROVE  io' \in [Requests -> IoReq] /\ \A x \in Requests : GoodCommand(io'[x].cmd)
  <2>1. io \in [Requests -> IoReq] /\ \A x \in Requests : GoodCommand(io[x].cmd)
    BY DEF Inv, ClientInv
  <2>2. [st |-> s, cmd |-> cmd] \in IoReq
    BY <1>1 DEF IoReq
  <2>3. \A x \in Requests : io'[x] = IF x = r THEN [st |-> s, cmd |-> cmd] ELSE io[x]
    BY <1>3, <2>1
  <2>4. io' \in [Requests -> IoReq]
    BY <1>3, <2>1, <2>2
  <2> QED BY <1>1, <2>1, <2>3, <2>4
<1>4. CASE ReqTaken(r, cmd)
  <2>1. /\ paraSendRequest(r, cmd, pc) /\ denied_req_queue' = denied_req_queue
        /\ io' = [io EXCEPT ![r] = [st |-> IF cmd.is_write THEN "idle" ELSE "pending",
                                    cmd |-> cmd]]
    BY <1>4 DEF ReqTaken
  <2>2. (IF cmd.is_write THEN "idle" ELSE "pending") \in IoState
    BY DEF IoState
  <2>3. /\ ConvInv' /\ pc' = pc /\ all_req_list' # << >>
        /\ pending_read_req_queue' \in Seq(Pending)
        /\ \A i \in 1 .. Len(pending_read_req_queue') :
             pending_read_req_queue'[i].mask = << >> => i = 1 /\ pc = "rresp"
        /\ pending_read_req_queue # << >> => pending_read_req_queue' # << >>
    BY <1>1, <2>1, SendStep
  <2> QED BY <1>2, <1>3, <2>1, <2>2, <2>3 DEF Inv, ClientInv
<1>5. CASE ReqDenied(r, cmd)
  <2>1. /\ denied_req_queue' = Append(denied_req_queue, r)
        /\ io' = [io EXCEPT ![r] = [st |-> "denied", cmd |-> cmd]]
        /\ UNCHANGED <<convVars, dramVars, pc, pending_read_req_queue>>
    BY <1>5 DEF ReqDenied
  <2>2. all_req_list \in Seq(ReqT)
    BY DEF Inv, ConvInv, ConvTypeOK
  <2>3. all_req_list # << >>
    BY <1>5, <2>2 DEF ReqDenied, dram_can_accept_req, max_pending_req
  <2>4. ConvInv' /\ all_req_list' = all_req_list
    BY <2>1, ConvUnchanged DEF Inv, convVars
  <2>5. denied_req_queue' \in Seq(Requests) /\ denied_req_queue' # << >>
    BY <2>1, AppendProperties DEF Inv, ClientInv
  <2>6. "denied" \in IoState
    BY DEF IoState
  <2> QED BY <1>3, <2>1, <2>3, <2>4, <2>5, <2>6 DEF Inv, ClientInv
<1> QED BY <1>4, <1>5 DEF req

\* The steps of ddr::reqCallback keep the invariant.
LEMMA ReqCallbackKeeps ==
  ASSUME Inv,
         PeqEndReq \/ ReqCbSend \/ GrantReturnWrite \/ GrantReturnRead
           \/ WriteRespReturn \/ ReqCbExit
  PROVE  Inv'
<1>1. CASE PeqEndReq
  <2>1. pc = "idle" /\ EndReq("req_cb") /\ UNCHANGED ddrVars
    BY <1>1 DEF PeqEndReq
  <2>2. pc' = "req_cb" /\ ConvInv'
    BY <2>1, EndReqKeeps DEF Inv
  <2> QED BY <2>1, <2>2 DEF Inv, ClientInv, ddrVars, Pcs
<1>2. CASE ReqCbSend
  <2> DEFINE r == Head(denied_req_queue)
  <2>1. /\ pc = "req_cb" /\ denied_req_queue # << >>
        /\ paraSendRequest(r, io[r].cmd, "granted")
        /\ io' = [io EXCEPT ![r].st = "pending"]
        /\ denied_req_queue' = denied_req_queue
    BY <1>2 DEF ReqCbSend
  <2>2. r \in Requests
    BY <2>1, HeadTailProperties DEF Inv, ClientInv
  <2>3. /\ io \in [Requests -> IoReq] /\ \A x \in Requests : GoodCommand(io[x].cmd)
    BY DEF Inv, ClientInv
  <2> HIDE DEF r
  <2>4. /\ ConvInv' /\ pc' = "granted" /\ all_req_list' # << >>
        /\ pending_read_req_queue' \in Seq(Pending)
        /\ \A i \in 1 .. Len(pending_read_req_queue') :
             pending_read_req_queue'[i].mask = << >> => i = 1 /\ pc = "rresp"
    BY <2>1, <2>2, <2>3, SendStep
  <2>5. io' \in [Requests -> IoReq] /\ \A x \in Requests : io'[x].cmd = io[x].cmd
    BY <2>1, <2>2, <2>3 DEF IoReq, IoState
  <2> QED BY <2>1, <2>3, <2>4, <2>5 DEF Inv, ClientInv, Pcs
<1>3. CASE GrantReturnWrite
  <2> DEFINE r == Head(denied_req_queue)
  <2>1. /\ pc = "granted" /\ pc' = "wresp" /\ io' = [io EXCEPT ![r].st = "idle"]
        /\ UNCHANGED <<convVars, dramVars, denied_req_queue, pending_read_req_queue>>
    BY <1>3 DEF GrantReturnWrite
  <2>2. r \in Requests
    BY <2>1, HeadTailProperties DEF Inv, ClientInv
  <2>3. io \in [Requests -> IoReq] /\ \A x \in Requests : GoodCommand(io[x].cmd)
    BY DEF Inv, ClientInv
  <2> HIDE DEF r
  <2>4. io' \in [Requests -> IoReq] /\ \A x \in Requests : io'[x].cmd = io[x].cmd
    BY <2>1, <2>2, <2>3 DEF IoReq, IoState
  <2>5. ConvInv' /\ all_req_list' = all_req_list
    BY <2>1, ConvUnchanged DEF Inv, convVars
  <2> QED BY <2>1, <2>3, <2>4, <2>5 DEF Inv, ClientInv, Pcs
<1>4. CASE GrantReturnRead \/ WriteRespReturn
  <2>1. /\ pc \in {"granted", "wresp"} /\ pc' = "req_cb"
        /\ denied_req_queue' = Tail(denied_req_queue)
        /\ UNCHANGED <<convVars, dramVars, io, pending_read_req_queue>>
    BY <1>4 DEF GrantReturnRead, WriteRespReturn
  <2>2. ConvInv'
    BY <2>1, ConvUnchanged DEF Inv
  <2>3. denied_req_queue' \in Seq(Requests)
    BY <2>1, HeadTailProperties DEF Inv, ClientInv
  <2> QED BY <2>1, <2>2, <2>3 DEF Inv, ClientInv, Pcs
<1>5. CASE ReqCbExit
  <2>1. /\ pc = "req_cb" /\ pc' = "idle" /\ UNCHANGED <<convVars, dramVars, ddrVars>>
        /\ ~ (dram_can_accept_req /\ denied_req_queue # << >>)
    BY <1>5 DEF ReqCbExit
  <2>2. ConvInv' /\ all_req_list' = all_req_list
    BY <2>1, ConvUnchanged DEF Inv, convVars
  <2>3. denied_req_queue # << >> => all_req_list # << >>
    BY <2>1 DEF dram_can_accept_req, max_pending_req
  <2> QED BY <2>1, <2>2, <2>3 DEF Inv, ClientInv, Pcs, ddrVars
<1> QED BY <1>1, <1>2, <1>3, <1>4, <1>5

\* The steps of the response callbacks keep the invariant: those in which
\* the converter changes its own state,
LEMMA ConvResponseKeeps ==
  ASSUME Inv,
         NEW i, PeqBeginRespRead(i) \/ PeqBeginRespWrite(i) \/ PeqMatch
  PROVE  Inv'
<1>1. UNCHANGED ddrVars /\ pc \in {"idle", "match"}
  BY DEF PeqBeginRespRead, PeqBeginRespWrite, PeqMatch
<1>2. ConvInv' /\ pc' \in {"match", "wrsp_cb", "rsp_cb", "idle"}
      /\ all_req_list' = all_req_list
  <2>1. CASE PeqBeginRespRead(i)
    <3>1. pc' = "match" /\ ConvInv'
      BY <2>1, BeginRespReadKeeps DEF PeqBeginRespRead, Inv
    <3> QED BY <2>1, <3>1 DEF PeqBeginRespRead, BeginRespRead, convVars
  <2>2. CASE PeqBeginRespWrite(i)
    <3>1. pc' = "wrsp_cb" /\ ConvInv'
      BY <2>2, BeginRespWriteKeeps DEF PeqBeginRespWrite, Inv
    <3> QED BY <2>2, <3>1 DEF PeqBeginRespWrite, BeginRespWrite
  <2>3. CASE PeqMatch /\ MatchStep("rsp_cb")
    <3>1. pc' = "rsp_cb" /\ ConvInv'
      BY <2>3, MatchStepKeeps DEF Inv
    <3> QED BY <2>3, <3>1 DEF MatchStep
  <2>4. CASE PeqMatch /\ MatchExit
    BY <2>4, ConvUnchanged DEF MatchExit, Inv, convVars
  <2> QED BY <2>1, <2>2, <2>3, <2>4 DEF PeqMatch
<1> QED
  BY <1>1, <1>2 DEF Inv, ClientInv, ddrVars, Pcs

\* the one that stores a byte of a read,
LEMMA RspCbByteKeeps ==
  ASSUME Inv, RspCbByte
  PROVE  Inv'
<1> DEFINE q == pending_read_req_queue
           r == Head(q).req
           mask == Head(q).mask
           cmd == io[r].cmd
           read_ptr == num_req(cmd) * GRANULARITY - Len(mask)
           byte == IF Head(mask) = 1 THEN Head(read_rsp_queue) ELSE 0
           k == read_ptr - start_ptr(cmd) + 1
           filled == IF InRange(cmd, read_ptr) THEN [cmd.data EXCEPT ![k] = byte]
                     ELSE cmd.data
           last == Len(mask) = 1
<1>1. /\ pc = "rsp_cb" /\ read_rsp_queue # << >> /\ q # << >>
      /\ io' = [io EXCEPT ![r] = [st |-> IF last THEN "idle" ELSE @.st,
                                  cmd |-> [cmd EXCEPT !.data = filled]]]
      /\ q' = [q EXCEPT ![1].mask = Tail(mask)]
      /\ pc' = IF last THEN "rresp" ELSE "rsp_cb"
      /\ read_rsp_queue' = Tail(read_rsp_queue)
      /\ UNCHANGED <<all_req_list, read_req_list, write_req_list,
                     out_order_rsp_list, write_rsp_queue, inflight_read_cnt,
                     dramVars, denied_req_queue>>
  BY DEF RspCbByte
<1>2. /\ q \in Seq(Pending) /\ Len(q) \in Nat \ {0} /\ q[1] = Head(q)
      /\ q[1] \in Pending /\ q[1].mask # << >>
  <2>1. q \in Seq(Pending) /\ \A i \in 1 .. Len(q) : q[i].mask = << >> => pc = "rresp"
    BY DEF Inv, ClientInv
  <2> HIDE DEF q
  <2>2. Len(q) \in Nat \ {0} /\ q[1] = Head(q)
    BY <1>1, <2>1, EmptySeq, LenProperties, HeadTailProperties
  <2>3. 1 \in 1 .. Len(q)
    BY <2>2
  <2> QED BY <1>1, <2>1, <2>2, <2>3, ElementOfSeq
<1>3. /\ r \in Requests /\ mask \in Seq({0, 1}) /\ mask # << >>
      /\ Tail(mask) \in Seq({0, 1}) /\ Len(mask) \in Nat \ {0}
      /\ Len(Tail(mask)) = Len(mask) - 1
  BY <1>2, HeadTailProperties, EmptySeq, LenProperties DEF Pending
<1>4. /\ io \in [Requests -> IoReq] /\ \A x \in Requests : GoodCommand(io[x].cmd)
  BY DEF Inv, ClientInv
<1>5. GoodCommand(cmd) /\ cmd \in Command /\ io[r].st \in IoState
  BY <1>3, <1>4 DEF IoReq, GoodCommand
<1>6. read_rsp_queue \in Seq(Byte) /\ write_rsp_queue \in Seq({1})
  BY DEF Inv, ConvInv, ConvTypeOK
<1>7. byte \in Byte /\ read_rsp_queue' \in Seq(Byte)
  BY <1>1, <1>6, HeadTailProperties, ConvConstants
<1>8. ConvInv'
  BY <1>1, <1>6, <1>7, ConvTaken DEF Inv
<1> HIDE DEF q, mask, cmd, read_ptr, byte, last
<1>9. filled \in Seq(Byte) /\ Len(filled) = Len(cmd.data)
  <2>1. cmd.data \in Seq(Byte)
    BY <1>5 DEF Command
  <2>2. CASE InRange(cmd, read_ptr)
    <3>1. /\ cmd.offset \in Nat /\ req_start_addr(cmd) \in Nat /\ num_req(cmd) \in Nat
          /\ GRANULARITY \in Nat /\ Len(cmd.data) \in Nat
      BY <1>5, <2>1, ChunkRange, DdrConstants, LenProperties DEF Command
    <3>2. start_ptr(cmd) \in Int /\ read_ptr \in Int
      BY <1>3, <3>1 DEF start_ptr, read_ptr
    <3>3. read_ptr >= start_ptr(cmd) /\ read_ptr < start_ptr(cmd) + Len(cmd.data)
      BY <2>2, <3>1, <3>2 DEF InRange, end_ptr, start_ptr, size
    <3>4. k \in 1 .. Len(cmd.data)
      BY <3>1, <3>2, <3>3
    <3> HIDE DEF k
    <3>5. filled = [cmd.data EXCEPT ![k] = byte]
      BY <2>2
    <3> QED BY <1>7, <2>1, <3>4, <3>5, ExceptSeq
  <2>3. CASE ~ InRange(cmd, read_ptr)
    BY <2>1, <2>3
  <2> QED BY <2>2, <2>3
<1> HIDE DEF filled, k
<1> DEFINE newcmd == [cmd EXCEPT !.data = filled]
           newst == IF last THEN "idle" ELSE io[r].st
<1>10. /\ newcmd \in Command /\ newcmd.data = filled /\ newcmd.offset = cmd.offset
  BY <1>5, <1>9 DEF Command
<1>11. GoodCommand(newcmd)
  <2>1. cmd.data # << >> /\ cmd.offset + Len(cmd.data) <= MemSize
    BY <1>5 DEF GoodCommand
  <2>2. cmd.data \in Seq(Byte)
    BY <1>5 DEF Command
  <2>3. filled # << >>
    BY <1>9, <2>1, <2>2, EmptySeq
  <2> QED BY <1>9, <1>10, <2>1, <2>3 DEF GoodCommand
<1>12. newst \in IoState
  BY <1>5 DEF IoState
<1>13. io' = [io EXCEPT ![r] = [st |-> newst, cmd |-> newcmd]]
  BY <1>1 DEF cmd
<1> HIDE DEF newcmd, newst, r
<1>14. io' \in [Requests -> IoReq] /\ \A x \in Requests : GoodCommand(io'[x].cmd)
  <2>1. [st |-> newst, cmd |-> newcmd] \in IoReq
    BY <1>10, <1>12 DEF IoReq
  <2>2. \A x \in Requests : io'[x] = IF x = r THEN [st |-> newst, cmd |-> newcmd] ELSE io[x]
    BY <1>4, <1>13
  <2> QED BY <1>3, <1>4, <1>11, <1>13, <2>1, <2>2
<1>15. /\ q' \in Seq(Pending) /\ Len(q') = Len(q)
       /\ q'[1].mask = Tail(mask)
       /\ \A j \in 2 .. Len(q) : q'[j] = q[j]
  <2> DEFINE e == [q[1] EXCEPT !.mask = Tail(mask)]
  <2>1. q' = [q EXCEPT ![1] = e]
    BY <1>1
  <2>2. e \in Pending /\ e.mask = Tail(mask)
    BY <1>2, <1>3 DEF Pending
  <2> HIDE DEF e
  <2>3. 1 \in 1 .. Len(q)
    BY <1>2
  <2> QED BY <1>2, <2>1, <2>2, <2>3, ExceptSeq
<1>16. ASSUME NEW j \in 1 .. Len(q'), q'[j].mask = << >>
       PROVE  j = 1 /\ pc' = "rresp"
  <2>1. CASE j = 1
    <3>1. Len(mask) = 1
      BY <1>3, <1>15, <1>16, <2>1, EmptySeq
    <3> QED BY <1>1, <2>1, <3>1 DEF last
  <2>2. CASE j # 1
    <3>1. j \in 2 .. Len(q) /\ q[j].mask = << >>
      BY <1>2, <1>15, <1>16, <2>2
    <3> QED BY <1>1, <1>2, <3>1 DEF Inv, ClientInv, q
  <2> QED BY <2>1, <2>2
<1>17. q' # << >>
  BY <1>2, <1>15, EmptySeq
<1>18. pc' \in {"rresp", "rsp_cb"}
  BY <1>1
<1>19. ClientInv'
  BY <1>1, <1>14, <1>15, <1>16, <1>17, <1>18 DEF Inv, ClientInv, Pcs, q
<1> QED BY <1>8, <1>19 DEF Inv

\* and those that only pass control on or empty a queue.
LEMMA RspCallbackKeeps ==
  ASSUME Inv, ReadRespReturn \/ RspCbExit \/ RspCbWrite
  PROVE  Inv'
<1>1. CASE ReadRespReturn
  <2> DEFINE q == pending_read_req_queue
  <2>1. /\ pc = "rresp" /\ pc' = "rsp_cb" /\ q' = Tail(q)
        /\ UNCHANGED <<convVars, dramVars, io, denied_req_queue>>
    BY <1>1 DEF ReadRespReturn
  <2>2. ConvInv' /\ all_req_list' = all_req_list
    BY <2>1, ConvUnchanged DEF Inv, convVars
  <2>3. q \in Seq(Pending) /\ q # << >> /\ Len(q) \in Nat
        /\ \A i \in 1 .. Len(q) : q[i].mask = << >> => i = 1
    BY <2>1, LenProperties DEF Inv, ClientInv
  <2> HIDE DEF q
  <2>4. /\ q' \in Seq(Pending) /\ Len(q') = Len(q) - 1
        /\ \A i \in 1 .. Len(q') : q'[i] = q[i + 1]
    BY <2>1, <2>3, HeadTailProperties
  <2>5. \A i \in 1 .. Len(q') : q'[i].mask # << >>
    <3> SUFFICES ASSUME NEW i \in 1 .. Len(q') PROVE q'[i].mask # << >>
      OBVIOUS
    <3>1. i + 1 \in 1 .. Len(q) /\ i + 1 # 1
      BY <2>3, <2>4
    <3> QED BY <2>3, <2>4, <3>1
  <2> QED BY <2>1, <2>2, <2>4, <2>5 DEF Inv, ClientInv, Pcs, q
<1>2. CASE RspCbExit
  <2>1. pc = "rsp_cb" /\ pc' = "match" /\ UNCHANGED <<convVars, dramVars, ddrVars>>
    BY <1>2 DEF RspCbExit
  <2>2. ConvInv' /\ all_req_list' = all_req_list
    BY <2>1, ConvUnchanged DEF Inv, convVars
  <2> QED BY <2>1, <2>2 DEF Inv, ClientInv, Pcs, ddrVars
<1>3. CASE RspCbWrite
  <2>1. /\ pc = "wrsp_cb" /\ pc' = "idle" /\ write_rsp_queue' = << >>
        /\ UNCHANGED <<all_req_list, read_req_list, write_req_list,
                       out_order_rsp_list, read_rsp_queue, inflight_read_cnt,
                       dramVars, ddrVars>>
    BY <1>3 DEF RspCbWrite
  <2>2. read_rsp_queue \in Seq(Byte)
    BY DEF Inv, ConvInv, ConvTypeOK
  <2>3. ConvInv'
    BY <2>1, <2>2, EmptySeq, ConvTaken DEF Inv
  <2> QED BY <2>1, <2>3 DEF Inv, ClientInv, Pcs, ddrVars
<1> QED BY <1>1, <1>2, <1>3

-----------------------------------------------------------------------------
(* The theorems                                                            *)

\* Inv is inductive: every step of the bridge, of the converter and of the
\* memory system behind it keeps it.
LEMMA NextInv == ASSUME Inv, [Next]_vars PROVE Inv'
<1>1. CASE \E r \in Requests, cmd \in Commands : req(r, cmd)
  BY <1>1, ReqKeeps
<1>2. CASE \E i \in DOMAIN active : BeginResp(i)
  BY <1>2, ConvResponseKeeps DEF BeginResp
<1>3. CASE PeqEndReq \/ ReqCbSend \/ GrantReturnWrite \/ GrantReturnRead
             \/ WriteRespReturn \/ ReqCbExit
  BY <1>3, ReqCallbackKeeps
<1>4. CASE PeqMatch
  BY <1>4, ConvResponseKeeps
<1>5. CASE RspCbByte
  BY <1>5, RspCbByteKeeps
<1>6. CASE ReadRespReturn \/ RspCbExit \/ RspCbWrite
  BY <1>6, RspCallbackKeeps
<1>7. CASE UNCHANGED vars
  <2>1. UNCHANGED <<convVars, dramVars>> /\ UNCHANGED <<pc, ddrVars, all_req_list>>
    BY <1>7 DEF vars, convVars
  <2>2. ConvInv'
    BY <2>1, ConvUnchanged DEF Inv
  <2> QED BY <2>1, <2>2 DEF Inv, ClientInv, ddrVars
<1> QED
  BY <1>1, <1>2, <1>3, <1>4, <1>5, <1>6, <1>7 DEF Next, Handler

\* The invariant holds in every reachable state.
THEOREM Invariance == Spec => []Inv
<1>1. Init => Inv
  BY InitInv
<1>2. Inv /\ [Next]_vars => Inv'
  BY NextInv
<1> QED BY <1>1, <1>2, PTL DEF Spec

\* Every list of the converter and every queue of the bridge holds what its
\* C++ type and its handlers promise.
THEOREM TypeCorrect == Spec => []TypeOK
<1>1. Inv => TypeOK
  <2> SUFFICES ASSUME Inv PROVE TypeOK
    OBVIOUS
  <2>1. pc \in Pcs
    BY DEF Inv, ClientInv
  <2> QED BY <2>1 DEF Inv, ConvInv, ClientInv, TypeOK, Pending
<1> QED BY <1>1, Invariance, PTL

\* No END_REQ of another direction, no response without a request and no
\* misaligned burst: peqCallback and dram_send_req never report a fatal
\* error, although one call may send many payloads before the first END_REQ.
THEOREM Safe == Spec => []NoFatal
<1>1. Inv => NoFatal
  BY DEF Inv, ClientInv, NoFatal
<1> QED BY <1>1, Invariance, PTL

\* Whenever an initiator can call ddr::req and a request is denied, the call
\* is denied as well.
THEOREM NoOvertaking == Spec => []NeverOvertaken
<1>1. Inv => NeverOvertaken
  <2> SUFFICES ASSUME Inv, pc \in Reentrant, denied_req_queue # << >>,
                      dram_can_accept_req
               PROVE  FALSE
    BY DEF NeverOvertaken
  <2>1. all_req_list # << >> /\ all_req_list \in Seq(ReqT)
    BY DEF Inv, ClientInv, ConvInv, ConvTypeOK, Reentrant
  <2>2. Len(all_req_list) \in Nat \ {0}
    BY <2>1, EmptySeq, LenProperties
  <2> QED BY <2>2 DEF dram_can_accept_req, max_pending_req
<1> QED BY <1>1, Invariance, PTL

\* inflight_read_cnt, read_req_list and write_req_list agree with what the
\* memory system holds, so that popping write_req_list without a look at the
\* response never meets an empty list.
THEOREM Books == Spec => []Bookkeeping
<1>1. Inv => Bookkeeping
  <2> SUFFICES ASSUME Inv PROVE Bookkeeping
    OBVIOUS
  <2>1. active \in Seq(Payload)
    BY DEF Inv, ConvInv, ConvTypeOK
  <2>2. \A i \in DOMAIN active : active[i] \in Payload
    BY <2>1
  <2>3. ReadsIn(active) = Places(active, ReadPayloads)
    BY <2>2 DEF ReadsIn, Places, ReadPayloads
  <2>4. WritesIn(active) = Places(active, WritePayloads)
    BY <2>2 DEF WritesIn, Places, WritePayloads
  <2> QED BY <2>3, <2>4 DEF Inv, ConvInv, Totals, Bookkeeping, CountIn
<1> QED BY <1>1, Invariance, PTL
-----------------------------------------------------------------------------
(* The requests in the queues                                              *)

Denied == {r \in Requests : io[r].st = "denied"}
Reads == {r \in Requests : io[r].st = "pending" /\ ~ io[r].cmd.is_write}
Writes == {r \in Requests : io[r].st = "pending" /\ io[r].cmd.is_write}

\* While the head of a queue is being answered its request may already be
\* used again, so that it counts only from the second place on.
DeniedFrom == IF pc \in {"granted", "wresp"} THEN 2 ELSE 1
PendingFrom == IF pc = "rresp" THEN 2 ELSE 1

\* QueueOwnership, in the terms of places: inductive with Inv.
Owned ==
  /\ Each(denied_req_queue, DeniedFrom, Len(denied_req_queue), Denied)
  /\ Each(PendingReqs, PendingFrom, Len(pending_read_req_queue), Reads)
  /\ pc = "granted" => io[denied_req_queue[1]].st = "pending"
  /\ \A r \in Writes : pc = "granted" /\ r = denied_req_queue[1]

\* What a change of one request does to the sets.
LEMMA StatesAfter ==
  ASSUME Inv, NEW r \in Requests, NEW e, io' = [io EXCEPT ![r] = e]
  PROVE  /\ Denied' = IF e.st = "denied" THEN Denied \cup {r} ELSE Denied \ {r}
         /\ Reads' = IF e.st = "pending" /\ ~ e.cmd.is_write
                     THEN Reads \cup {r} ELSE Reads \ {r}
         /\ Writes' = IF e.st = "pending" /\ e.cmd.is_write
                      THEN Writes \cup {r} ELSE Writes \ {r}
<1>1. \A x \in Requests : io'[x] = IF x = r THEN e ELSE io[x]
  BY DEF Inv, ClientInv
<1>2. Denied' = IF e.st = "denied" THEN Denied \cup {r} ELSE Denied \ {r}
  BY <1>1 DEF Denied
<1>3. Reads' = IF e.st = "pending" /\ ~ e.cmd.is_write
               THEN Reads \cup {r} ELSE Reads \ {r}
  BY <1>1 DEF Reads
<1>4. Writes' = IF e.st = "pending" /\ e.cmd.is_write
                THEN Writes \cup {r} ELSE Writes \ {r}
  BY <1>1 DEF Writes
<1> QED BY <1>2, <1>3, <1>4

\* The queues and where they start.
LEMMA QueueTypes ==
  ASSUME Inv
  PROVE  /\ Len(denied_req_queue) \in Nat /\ Len(pending_read_req_queue) \in Nat
         /\ DeniedFrom \in {1, 2} /\ DeniedFrom <= Len(denied_req_queue) + 1
         /\ PendingFrom \in {1, 2} /\ PendingFrom <= Len(pending_read_req_queue) + 1
         /\ DOMAIN PendingReqs = 1 .. Len(pending_read_req_queue)
         /\ \A i \in 1 .. Len(pending_read_req_queue) :
              PendingReqs[i] = pending_read_req_queue[i].req
         /\ PendingReqs \in Seq(Requests)
<1> DEFINE d == denied_req_queue
           p == pending_read_req_queue
<1>1. d \in Seq(Requests) /\ p \in Seq(Pending)
  BY DEF Inv, ClientInv
<1>2. /\ pc \in {"granted", "wresp"} => d # << >>
      /\ pc = "rresp" => p # << >>
  BY DEF Inv, ClientInv
<1>3. PendingReqs = [i \in DOMAIN p |-> p[i].req]
  BY DEF PendingReqs
<1> HIDE DEF d, p
<1>4. /\ Len(d) \in Nat /\ Len(p) \in Nat /\ DOMAIN p = 1 .. Len(p)
      /\ \A i \in 1 .. Len(p) : p[i].req \in Requests
  <2>1. Len(d) \in Nat /\ Len(p) \in Nat /\ DOMAIN p = 1 .. Len(p)
    BY <1>1, LenProperties
  <2>2. \A i \in 1 .. Len(p) : p[i] \in Pending
    BY <1>1, ElementOfSeq
  <2> QED BY <2>1, <2>2 DEF Pending
<1>5. /\ d # << >> => Len(d) >= 1
      /\ p # << >> => Len(p) >= 1
  BY <1>1, <1>4, EmptySeq
<1>6. DeniedFrom \in {1, 2} /\ DeniedFrom <= Len(d) + 1
  BY <1>2, <1>4, <1>5 DEF DeniedFrom
<1>7. PendingFrom \in {1, 2} /\ PendingFrom <= Len(p) + 1
  BY <1>2, <1>4, <1>5 DEF PendingFrom
<1>8. /\ DOMAIN PendingReqs = 1 .. Len(p) /\ PendingReqs \in Seq(Requests)
      /\ \A i \in 1 .. Len(p) : PendingReqs[i] = p[i].req
  BY <1>3, <1>4
<1> QED BY <1>4, <1>6, <1>7, <1>8 DEF d, p

\* The queues stay, at the same stage of the callbacks.
LEMMA OwnedSame ==
  ASSUME Inv, Owned, UNCHANGED ddrVars,
         pc \notin {"granted", "wresp", "rresp"},
         pc' \notin {"granted", "wresp", "rresp"}
  PROVE  Owned'
<1>1. /\ denied_req_queue' = denied_req_queue /\ PendingReqs' = PendingReqs
      /\ pending_read_req_queue' = pending_read_req_queue
      /\ Denied' = Denied /\ Reads' = Reads /\ Writes' = Writes
  BY DEF ddrVars, PendingReqs, Denied, Reads, Writes
<1>2. DeniedFrom' = DeniedFrom /\ PendingFrom' = PendingFrom
  BY DEF DeniedFrom, PendingFrom
<1>3. Writes = {}
  BY DEF Owned
<1> QED BY <1>1, <1>2, <1>3 DEF Owned

\* A read that is sent is put at the end of the pending ones.
LEMMA PendingSent ==
  ASSUME Inv, NEW r \in Requests, NEW cmd, GoodCommand(cmd), NEW next,
         paraSendRequest(r, cmd, next), ~ cmd.is_write,
         NEW S, Each(PendingReqs, PendingFrom, Len(pending_read_req_queue), S),
         r \notin S
  PROVE  Each(PendingReqs', PendingFrom, Len(pending_read_req_queue'), S \cup {r})
<1> DEFINE p == pending_read_req_queue
           e == [req |-> r, mask |-> mask_d(cmd)]
           m == Len(p)
           f == PendingReqs
           n == PendingFrom
<1>1. ~ MisalignedStrobe(GRANULARITY, cmd.is_write)
  BY SubRange DEF GoodCommand, Command
<1>2. p' = Append(p, e)
  BY <1>1 DEF paraSendRequest
<1>3. p \in Seq(Pending) /\ e \in Pending
  BY MaskGood DEF Inv, ClientInv, Pending
<1>4. /\ m \in Nat /\ n \in {1, 2} /\ n <= m + 1
      /\ \A i \in 1 .. m : f[i] = p[i].req
  BY QueueTypes
<1>5. f' = [i \in DOMAIN p' |-> p'[i].req]
  BY DEF PendingReqs
<1>6. e.req = r
  OBVIOUS
<1>7. Each(f, n, m, S)
  OBVIOUS
<1> HIDE DEF e, f, n, p
<1>8. /\ Len(p') = m + 1 /\ DOMAIN p' = 1 .. m + 1
      /\ \A i \in 1 .. m : p'[i] = p[i]
      /\ p'[m + 1] = e
  BY <1>2, <1>3, AppendProperties, LenProperties
<1> HIDE DEF m
<1>9. m + 1 \in 1 .. m + 1 /\ \A i \in 1 .. m : i \in 1 .. m + 1
  BY <1>4
<1>10. f'[m + 1] = r /\ \A i \in 1 .. m : f'[i] = f[i]
  BY <1>4, <1>5, <1>6, <1>8, <1>9
<1>11. n \in Nat /\ \A i \in n .. m : f'[i] = f[i]
  BY <1>4, <1>10
<1>12. Each(f', n, m + 1, S \cup {r})
  BY <1>4, <1>7, <1>10, <1>11, EachAppend
<1> QED BY <1>8, <1>12 DEF f, n, p
\* A call of ddr::req puts its request in the queue that its new state says.
LEMMA OwnedReq ==
  ASSUME Inv, Owned, NEW r \in Requests, NEW cmd \in Commands, req(r, cmd)
  PROVE  Owned'
<1> DEFINE d == denied_req_queue
           p == pending_read_req_queue
<1>1. pc' = pc /\ io[r].st = "idle" /\ pc # "fatal"
  <2>1. ~ MisalignedStrobe(GRANULARITY, cmd.is_write)
    BY SubRange, CommandsGood DEF GoodCommand, Command
  <2> QED BY <2>1 DEF req, ReqTaken, ReqDenied, paraSendRequest, Inv, ClientInv
<1>2. DeniedFrom' = DeniedFrom /\ PendingFrom' = PendingFrom
  BY <1>1 DEF DeniedFrom, PendingFrom
<1>3. r \notin Denied /\ r \notin Reads /\ r \notin Writes
  BY <1>1 DEF Denied, Reads, Writes
<1>4. GoodCommand(cmd) /\ cmd.is_write \in BOOLEAN
  BY CommandsGood DEF GoodCommand, Command
<1>5. pc = "granted" => io[d[1]].st = "pending" /\ d # << >>
  BY DEF Owned, Inv, ClientInv
<1>6. \A x \in Requests : x # r => io'[x] = io[x]
  BY DEF Inv, ClientInv, req, ReqTaken, ReqDenied
<1>7. d \in Seq(Requests) /\ Len(d) \in Nat
  BY LenProperties DEF Inv, ClientInv
<1>8. pc = "granted" => d[1] \in Requests /\ d[1] # r
  <2> SUFFICES ASSUME pc = "granted" PROVE d[1] \in Requests /\ d[1] # r
    OBVIOUS
  <2>1. d # << >>
    BY <1>5
  <2> HIDE DEF d
  <2>2. d[1] \in Requests
    BY <1>7, <2>1, EmptySeq, ElementOfSeq
  <2> QED BY <1>1, <1>5, <2>2
<1>9. CASE ReqTaken(r, cmd)
  <2> DEFINE e == [st |-> IF cmd.is_write THEN "idle" ELSE "pending", cmd |-> cmd]
  <2>1. /\ paraSendRequest(r, cmd, pc) /\ d' = d
        /\ io' = [io EXCEPT ![r] = e]
    BY <1>9 DEF ReqTaken
  <2>6. /\ e.st = (IF cmd.is_write THEN "idle" ELSE "pending") /\ e.cmd = cmd
    OBVIOUS
  <2> HIDE DEF e
  <2>7. /\ Denied' = Denied \ {r}
        /\ Reads' = IF cmd.is_write THEN Reads \ {r} ELSE Reads \cup {r}
        /\ Writes' = Writes \ {r}
    <3>1. /\ Denied' = IF e.st = "denied" THEN Denied \cup {r} ELSE Denied \ {r}
          /\ Reads' = IF e.st = "pending" /\ ~ e.cmd.is_write
                      THEN Reads \cup {r} ELSE Reads \ {r}
          /\ Writes' = IF e.st = "pending" /\ e.cmd.is_write
                       THEN Writes \cup {r} ELSE Writes \ {r}
      BY <2>1, StatesAfter
    <3>2. e.st # "denied" /\ (e.st = "pending" <=> ~ cmd.is_write) /\ e.cmd = cmd
      BY <1>4, <2>6
    <3> QED BY <1>4, <3>1, <3>2
  <2>2. Each(d', DeniedFrom', Len(d'), Denied')
    <3>1. Denied' = Denied
      BY <1>3, <2>7
    <3> QED BY <1>2, <2>1, <3>1 DEF Owned
  <2>3. Each(PendingReqs', PendingFrom', Len(p'), Reads')
    <3>1. CASE cmd.is_write
      <4>1. Reads' = Reads
        BY <1>3, <2>7, <3>1
      <4>2. p' = p
        BY <2>1, <3>1, <1>4, SubRange DEF paraSendRequest
      <4>3. PendingReqs' = PendingReqs
        BY <4>2 DEF PendingReqs
      <4> QED BY <1>2, <4>1, <4>2, <4>3 DEF Owned
    <3>2. CASE ~ cmd.is_write
      <4>1. Reads' = Reads \cup {r}
        BY <2>7, <3>2
      <4>2. Each(PendingReqs, PendingFrom, Len(p), Reads)
        BY DEF Owned
      <4>3. Each(PendingReqs', PendingFrom, Len(p'), Reads \cup {r})
        BY <1>3, <1>4, <2>1, <3>2, <4>2, PendingSent
      <4> QED BY <1>2, <4>1, <4>3
    <3> QED BY <3>1, <3>2
  <2>4. Writes' = Writes
    BY <1>3, <2>7
  <2>5. pc' = "granted" => io'[d'[1]].st = "pending"
    BY <1>1, <1>5, <1>6, <1>8, <2>1
  <2> QED BY <1>1, <2>1, <2>2, <2>3, <2>4, <2>5 DEF Owned
<1>10. CASE ReqDenied(r, cmd)
  <2> DEFINE e == [st |-> "denied", cmd |-> cmd]
  <2>1. /\ d' = Append(d, r) /\ p' = p
        /\ io' = [io EXCEPT ![r] = e]
    BY <1>10 DEF ReqDenied
  <2>2. /\ Denied' = Denied \cup {r} /\ Reads' = Reads /\ Writes' = Writes
    <3>1. /\ Denied' = IF e.st = "denied" THEN Denied \cup {r} ELSE Denied \ {r}
          /\ Reads' = IF e.st = "pending" /\ ~ e.cmd.is_write
                      THEN Reads \cup {r} ELSE Reads \ {r}
          /\ Writes' = IF e.st = "pending" /\ e.cmd.is_write
                       THEN Writes \cup {r} ELSE Writes \ {r}
      BY <2>1, StatesAfter
    <3>2. e.st = "denied"
      OBVIOUS
    <3> HIDE DEF e
    <3> QED BY <1>3, <3>1, <3>2
  <2>3. /\ Len(d') = Len(d) + 1 /\ d'[Len(d) + 1] = r
        /\ \A i \in 1 .. Len(d) : d'[i] = d[i]
    BY <1>7, <2>1, AppendProperties
  <2>4. Each(d', DeniedFrom', Len(d'), Denied')
    <3> DEFINE m == Len(d)
               n == DeniedFrom
               f == d
               g == d'
    <3>1. Each(f, n, m, Denied)
      BY DEF Owned
    <3>2. n \in {1, 2} /\ n <= m + 1 /\ m \in Nat
      BY QueueTypes
    <3>3. g[m + 1] = r /\ \A i \in 1 .. m : g[i] = f[i]
      BY <2>3
    <3> HIDE DEF m, n, f, g
    <3>4. n \in Nat /\ \A i \in n .. m : g[i] = f[i]
      BY <3>2, <3>3
    <3>5. Each(g, n, m + 1, Denied \cup {r})
      BY <1>3, <3>1, <3>2, <3>3, <3>4, EachAppend
    <3> QED BY <1>2, <2>2, <2>3, <3>5 DEF m, n, g
  <2>5. Each(PendingReqs', PendingFrom', Len(p'), Reads')
    <3>1. PendingReqs' = PendingReqs
      BY <2>1 DEF PendingReqs
    <3> QED BY <1>2, <2>1, <2>2, <3>1 DEF Owned
  <2>6. pc = "granted" => d'[1] = d[1]
    <3> SUFFICES ASSUME pc = "granted" PROVE d'[1] = d[1]
      OBVIOUS
    <3>1. d # << >>
      BY <1>5
    <3>2. Len(d) # 0
      BY <1>7, <3>1, EmptySeq
    <3> QED BY <1>7, <2>3, <3>2
  <2>7. pc' = "granted" => io'[d'[1]].st = "pending"
    BY <1>1, <1>5, <1>6, <1>8, <2>6
  <2>8. \A x \in Writes' : pc' = "granted" /\ x = d'[1]
    BY <1>1, <2>2, <2>6 DEF Owned
  <2> QED BY <2>4, <2>5, <2>7, <2>8 DEF Owned
<1> QED BY <1>9, <1>10 DEF req
\* The oldest denied request is passed on while it is being granted.
LEMMA OwnedSend ==
  ASSUME Inv, Owned, ReqCbSend
  PROVE  Owned'
<1> DEFINE d == denied_req_queue
           p == pending_read_req_queue
           r == Head(d)
           cmd == io[r].cmd
           e == [io[r] EXCEPT !.st = "pending"]
<1>1. /\ pc = "req_cb" /\ d # << >> /\ paraSendRequest(r, cmd, "granted")
      /\ io' = [io EXCEPT ![r].st = "pending"] /\ d' = d
  BY DEF ReqCbSend
<1>2. /\ d \in Seq(Requests) /\ Len(d) \in Nat \ {0} /\ r = d[1] /\ r \in Requests
  <2>1. d \in Seq(Requests)
    BY DEF Inv, ClientInv
  <2> HIDE DEF d
  <2> QED BY <1>1, <2>1, EmptySeq, LenProperties, HeadTailProperties
<1>3. /\ io \in [Requests -> IoReq] /\ GoodCommand(cmd)
  BY <1>2 DEF Inv, ClientInv
<1>4. ~ MisalignedStrobe(GRANULARITY, cmd.is_write) /\ cmd.is_write \in BOOLEAN
  BY <1>3, SubRange DEF GoodCommand, Command
<1>5. pc' = "granted"
  BY <1>1, <1>4 DEF paraSendRequest
<1>6. DeniedFrom = 1 /\ DeniedFrom' = 2 /\ PendingFrom = 1 /\ PendingFrom' = 1
  BY <1>1, <1>5 DEF DeniedFrom, PendingFrom
<1>7. io[r] \in IoReq
  BY <1>2, <1>3
<1>8. e.st = "pending" /\ e.cmd = cmd /\ io' = [io EXCEPT ![r] = e]
  BY <1>1, <1>7 DEF IoReq
<1> HIDE DEF e
<1>9. /\ Denied' = Denied \ {r}
      /\ Reads' = IF cmd.is_write THEN Reads \ {r} ELSE Reads \cup {r}
      /\ Writes' = IF cmd.is_write THEN Writes \cup {r} ELSE Writes \ {r}
  <2>1. /\ Denied' = IF e.st = "denied" THEN Denied \cup {r} ELSE Denied \ {r}
        /\ Reads' = IF e.st = "pending" /\ ~ e.cmd.is_write
                    THEN Reads \cup {r} ELSE Reads \ {r}
        /\ Writes' = IF e.st = "pending" /\ e.cmd.is_write
                     THEN Writes \cup {r} ELSE Writes \ {r}
    BY <1>2, <1>8, StatesAfter
  <2> HIDE DEF r, cmd
  <2> QED BY <1>4, <1>8, <2>1
<1>10. /\ Each(d, 1, Len(d), Denied) /\ Each(PendingReqs, PendingFrom, Len(p), Reads)
       /\ Writes = {}
  BY <1>1, <1>6 DEF Owned
<1>11. r \in Denied
  BY <1>2, <1>10 DEF Each
<1>12. r \notin Reads
  BY <1>11 DEF Denied, Reads
<1>13. Each(d', 2, Len(d'), Denied')
  <2> DEFINE m == Len(d)
             f == d
  <2>1. m \in Nat /\ 1 <= m /\ Each(f, 1, m, Denied) /\ r = f[1]
    BY <1>2, <1>10
  <2> HIDE DEF m, f, r
  <2>2. Each(f, 1 + 1, m, Denied \ {f[1]})
    BY <2>1, EachDrop
  <2> QED BY <1>1, <1>9, <2>1, <2>2 DEF m, f
<1>14. Each(PendingReqs', 1, Len(p'), Reads')
  <2>1. CASE cmd.is_write
    <3>1. p' = p
      BY <1>1, <1>4, <2>1 DEF paraSendRequest
    <3>2. PendingReqs' = PendingReqs
      BY <3>1 DEF PendingReqs
    <3>3. Reads' = Reads
      BY <1>9, <1>12, <2>1
    <3> QED BY <1>6, <1>10, <3>1, <3>2, <3>3
  <2>2. CASE ~ cmd.is_write
    <3>1. Reads' = Reads \cup {r}
      BY <1>9, <2>2
    <3> HIDE DEF r, cmd, p
    <3>2. Each(PendingReqs', PendingFrom, Len(p'), Reads \cup {r})
      BY <1>1, <1>2, <1>3, <1>10, <1>12, <2>2, PendingSent DEF p
    <3> QED BY <1>6, <3>1, <3>2
  <2> QED BY <2>1, <2>2
<1>15. io'[d'[1]].st = "pending"
  BY <1>1, <1>2, <1>3, <1>8
<1>16. \A x \in Writes' : x = d'[1]
  BY <1>1, <1>2, <1>9, <1>10
<1> QED BY <1>5, <1>6, <1>13, <1>14, <1>15, <1>16 DEF Owned

\* A write that was granted is answered, and is its initiator's again.
LEMMA OwnedGrantWrite ==
  ASSUME Inv, Owned, GrantReturnWrite
  PROVE  Owned'
<1> DEFINE d == denied_req_queue
           p == pending_read_req_queue
           r == Head(d)
           e == [io[r] EXCEPT !.st = "idle"]
<1>1. /\ pc = "granted" /\ pc' = "wresp" /\ d' = d /\ p' = p
      /\ io[r].cmd.is_write /\ io' = [io EXCEPT ![r].st = "idle"]
  BY DEF GrantReturnWrite
<1>2. /\ r = d[1] /\ r \in Requests
  <2>1. d \in Seq(Requests) /\ d # << >>
    BY <1>1 DEF Inv, ClientInv
  <2> HIDE DEF d
  <2> QED BY <2>1, EmptySeq, LenProperties, HeadTailProperties
<1>3. io \in [Requests -> IoReq]
  BY DEF Inv, ClientInv
<1>4. e.st = "idle" /\ io' = [io EXCEPT ![r] = e]
  BY <1>1, <1>2, <1>3 DEF IoReq
<1>5. /\ DeniedFrom' = DeniedFrom /\ PendingFrom' = PendingFrom
      /\ PendingReqs' = PendingReqs
  BY <1>1 DEF DeniedFrom, PendingFrom, PendingReqs
<1>6. io[r].st = "pending"
  BY <1>1, <1>2 DEF Owned
<1> HIDE DEF e
<1>7. /\ Denied' = Denied \ {r} /\ Reads' = Reads \ {r} /\ Writes' = Writes \ {r}
  <2>1. /\ Denied' = IF e.st = "denied" THEN Denied \cup {r} ELSE Denied \ {r}
        /\ Reads' = IF e.st = "pending" /\ ~ e.cmd.is_write
                    THEN Reads \cup {r} ELSE Reads \ {r}
        /\ Writes' = IF e.st = "pending" /\ e.cmd.is_write
                     THEN Writes \cup {r} ELSE Writes \ {r}
    BY <1>2, <1>4, StatesAfter
  <2> HIDE DEF r
  <2> QED BY <1>4, <2>1
<1>8. r \notin Denied /\ r \notin Reads
  BY <1>1, <1>6 DEF Denied, Reads
<1>9. Denied' = Denied /\ Reads' = Reads
  BY <1>7, <1>8
<1>10. Writes' = {}
  BY <1>2, <1>7 DEF Owned
<1> QED BY <1>1, <1>5, <1>9, <1>10 DEF Owned

\* The request that was granted leaves the denied ones.
LEMMA OwnedGranted ==
  ASSUME Inv, Owned, GrantReturnRead \/ WriteRespReturn
  PROVE  Owned'
<1> DEFINE d == denied_req_queue
           p == pending_read_req_queue
<1>1. /\ pc \in {"granted", "wresp"} /\ pc' = "req_cb" /\ d' = Tail(d)
      /\ io' = io /\ p' = p
      /\ pc = "granted" => ~ io[Head(d)].cmd.is_write
  BY DEF GrantReturnRead, WriteRespReturn
<1>2. /\ Len(d) \in Nat \ {0} /\ Head(d) = d[1] /\ Len(d') = Len(d) - 1
      /\ \A i \in 1 .. Len(d) - 1 : d'[i] = d[i + 1]
  <2>1. d \in Seq(Requests) /\ d # << >>
    BY <1>1 DEF Inv, ClientInv
  <2> HIDE DEF d
  <2> QED BY <1>1, <2>1, EmptySeq, LenProperties, HeadTailProperties
<1>3. /\ Denied' = Denied /\ Reads' = Reads /\ Writes' = Writes
      /\ PendingReqs' = PendingReqs
  BY <1>1 DEF Denied, Reads, Writes, PendingReqs
<1>4. DeniedFrom = 2 /\ DeniedFrom' = 1 /\ PendingFrom' = PendingFrom
  BY <1>1 DEF DeniedFrom, PendingFrom
<1>5. Each(d', 1, Len(d'), Denied')
  <2> DEFINE m == Len(d)
             f == d
             g == d'
  <2>1. /\ m \in Nat /\ m > 0 /\ Each(f, 2, m, Denied)
        /\ \A i \in 1 .. m - 1 : g[i] = f[i + 1]
    BY <1>2, <1>4 DEF Owned
  <2> HIDE DEF m, f, g
  <2>2. Each(g, 1, m - 1, Denied)
    BY <2>1, EachShift
  <2> QED BY <1>2, <1>3, <2>2 DEF m, g
<1>6. Writes' = {}
  <2>1. ASSUME NEW x \in Writes PROVE FALSE
    <3>1. pc = "granted" /\ x = d[1]
      BY DEF Owned
    <3> QED BY <1>1, <1>2, <3>1 DEF Writes
  <2> QED BY <1>3, <2>1
<1>7. Each(PendingReqs', PendingFrom', Len(p'), Reads')
  BY <1>1, <1>3, <1>4 DEF Owned
<1> QED BY <1>1, <1>4, <1>5, <1>6, <1>7 DEF Owned
\* With its last byte a read is its initiator's again.
LEMMA OwnedByte ==
  ASSUME Inv, Owned, RspCbByte
  PROVE  Owned'
<1> DEFINE d == denied_req_queue
           p == pending_read_req_queue
           r == Head(p).req
           last == Len(Head(p).mask) = 1
           S == Reads
<1>1. PICK data :
        /\ pc = "rsp_cb" /\ p # << >> /\ d' = d
        /\ io' = [io EXCEPT ![r] = [st |-> IF last THEN "idle" ELSE io[r].st,
                                    cmd |-> [io[r].cmd EXCEPT !.data = data]]]
        /\ p' = [p EXCEPT ![1].mask = Tail(Head(p).mask)]
        /\ pc' = IF last THEN "rresp" ELSE "rsp_cb"
  BY DEF RspCbByte
<1> DEFINE e == [st |-> IF last THEN "idle" ELSE io[r].st,
                 cmd |-> [io[r].cmd EXCEPT !.data = data]]
<1>2. /\ p \in Seq(Pending) /\ Len(p) \in Nat \ {0} /\ Head(p) = p[1] /\ p[1] \in Pending
  <2>1. p \in Seq(Pending)
    BY DEF Inv, ClientInv
  <2> HIDE DEF p
  <2>2. Len(p) \in Nat \ {0} /\ Head(p) = p[1]
    BY <1>1, <2>1, EmptySeq, LenProperties, HeadTailProperties
  <2>3. 1 \in 1 .. Len(p)
    BY <2>2
  <2> QED BY <2>1, <2>2, <2>3, ElementOfSeq
<1>3. r \in Requests
  BY <1>2 DEF Pending
<1>4. /\ Len(p') = Len(p) /\ \A i \in 1 .. Len(p) : PendingReqs'[i] = PendingReqs[i]
  <2> DEFINE x == [p[1] EXCEPT !.mask = Tail(Head(p).mask)]
             y == Tail(Head(p).mask)
  <2>1. p' = [p EXCEPT ![1] = x]
    BY <1>1
  <2>2. x.req = p[1].req
    BY <1>2 DEF Pending
  <2>3. DOMAIN p = 1 .. Len(p)
    BY <1>2, LenProperties
  <2>4. /\ PendingReqs = [i \in DOMAIN p |-> p[i].req]
        /\ PendingReqs' = [i \in DOMAIN p' |-> p'[i].req]
    BY DEF PendingReqs
  <2>5. Len(p') = Len(p)
    <3>1. p' \in Seq(Pending)
      BY RspCbByteKeeps DEF Inv, ClientInv
    <3> HIDE DEF x, p
    <3>2. DOMAIN p' = DOMAIN p
      BY <2>1
    <3>3. DOMAIN p' = 1 .. Len(p') /\ Len(p') \in Nat
      BY <3>1, LenProperties
    <3> QED BY <1>2, <2>3, <3>2, <3>3
  <2> HIDE DEF x, p
  <2>6. \A i \in 1 .. Len(p) : p'[i].req = p[i].req /\ i \in DOMAIN p'
    BY <2>1, <2>2, <2>3
  <2>7. \A i \in 1 .. Len(p) : PendingReqs'[i] = PendingReqs[i]
    BY <2>3, <2>4, <2>6
  <2> QED BY <2>5, <2>7
<1>5. /\ Each(PendingReqs, 1, Len(p), Reads) /\ Writes = {}
      /\ Each(d, 1, Len(d), Denied)
  BY <1>1 DEF Owned, PendingFrom, DeniedFrom
<1>6. PendingReqs[1] = r
  <2>1. 1 \in 1 .. Len(p)
    BY <1>2
  <2> QED BY <1>2, <2>1, QueueTypes
<1>7. r \in Reads
  <2>1. 1 \in 1 .. Len(p)
    BY <1>2
  <2> QED BY <1>5, <1>6, <2>1 DEF Each
<1>8. io[r].st = "pending" /\ ~ io[r].cmd.is_write /\ r \notin Denied
  BY <1>7 DEF Reads, Denied
<1>9. io[r].cmd \in Command
  BY <1>3 DEF Inv, ClientInv, IoReq
<1>10. /\ e.st = (IF last THEN "idle" ELSE "pending") /\ ~ e.cmd.is_write
       /\ io' = [io EXCEPT ![r] = e]
  BY <1>1, <1>8, <1>9 DEF Command
<1> HIDE DEF e, last
<1>11. /\ Denied' = Denied \ {r}
       /\ Reads' = IF last THEN Reads \ {r} ELSE Reads \cup {r}
       /\ Writes' = Writes \ {r}
  <2>1. /\ Denied' = IF e.st = "denied" THEN Denied \cup {r} ELSE Denied \ {r}
        /\ Reads' = IF e.st = "pending" /\ ~ e.cmd.is_write
                    THEN Reads \cup {r} ELSE Reads \ {r}
        /\ Writes' = IF e.st = "pending" /\ e.cmd.is_write
                     THEN Writes \cup {r} ELSE Writes \ {r}
    BY <1>3, <1>10, StatesAfter
  <2> HIDE DEF r
  <2>2. e.st # "denied" /\ (e.st = "pending" <=> ~ last)
    BY <1>10
  <2> QED BY <1>10, <2>1, <2>2
<1>12. Denied' = Denied /\ Writes' = {}
  BY <1>5, <1>8, <1>11
<1>13. /\ DeniedFrom' = 1 /\ pc' \notin {"granted", "wresp"}
       /\ PendingFrom' = IF last THEN 2 ELSE 1
  <2>1. pc' = IF last THEN "rresp" ELSE "rsp_cb"
    BY <1>1 DEF last
  <2> QED BY <2>1 DEF DeniedFrom, PendingFrom
<1>14. Each(PendingReqs', PendingFrom', Len(p'), Reads')
  <2> DEFINE m == Len(p)
             f == PendingReqs
             g == PendingReqs'
  <2>1. /\ m \in Nat /\ 1 <= m /\ Each(f, 1, m, Reads) /\ f[1] = r
        /\ \A i \in 1 .. m : g[i] = f[i]
    BY <1>2, <1>4, <1>5, <1>6
  <2> HIDE DEF m, f, g, r, p
  <2>2. CASE last
    <3>1. Each(f, 1 + 1, m, Reads \ {f[1]})
      BY <2>1, EachDrop
    <3>2. \A i \in 2 .. m : g[i] = f[i]
      BY <2>1
    <3>3. Each(g, 2, m, Reads \ {r})
      BY <2>1, <3>1, <3>2 DEF Each
    <3> QED BY <1>4, <1>11, <1>13, <2>2, <3>3 DEF m, g
  <2>3. CASE ~ last
    <3>1. Each(g, 1, m, Reads)
      BY <2>1 DEF Each
    <3>2. Reads' = Reads
      BY <1>7, <1>11, <2>3
    <3> QED BY <1>4, <1>13, <2>3, <3>1, <3>2 DEF m, g
  <2> QED BY <2>2, <2>3
<1>15. Each(d', DeniedFrom', Len(d'), Denied')
  BY <1>1, <1>5, <1>12, <1>13
<1> QED BY <1>12, <1>13, <1>14, <1>15 DEF Owned

\* The read that was answered leaves the pending ones.
LEMMA OwnedAnswered ==
  ASSUME Inv, Owned, ReadRespReturn
  PROVE  Owned'
<1> DEFINE d == denied_req_queue
           p == pending_read_req_queue
<1>1. /\ pc = "rresp" /\ pc' = "rsp_cb" /\ p' = Tail(p)
      /\ io' = io /\ d' = d
  BY DEF ReadRespReturn
<1>2. /\ Len(p) \in Nat \ {0} /\ Len(p') = Len(p) - 1
      /\ DOMAIN p = 1 .. Len(p) /\ DOMAIN p' = 1 .. Len(p) - 1
      /\ \A i \in 1 .. Len(p) - 1 : p'[i] = p[i + 1]
  <2>1. p \in Seq(Pending) /\ p # << >>
    BY <1>1 DEF Inv, ClientInv
  <2> HIDE DEF p
  <2>2. /\ Len(p) \in Nat \ {0} /\ Len(p') = Len(p) - 1 /\ p' \in Seq(Pending)
        /\ \A i \in 1 .. Len(p) - 1 : p'[i] = p[i + 1]
    BY <1>1, <2>1, EmptySeq, LenProperties, HeadTailProperties
  <2>3. DOMAIN p = 1 .. Len(p) /\ DOMAIN p' = 1 .. Len(p')
    BY <2>1, <2>2, LenProperties
  <2> QED BY <2>2, <2>3
<1>3. /\ Denied' = Denied /\ Reads' = Reads /\ Writes' = Writes
  BY <1>1 DEF Denied, Reads, Writes
<1>4. PendingFrom = 2 /\ PendingFrom' = 1 /\ DeniedFrom' = DeniedFrom
  BY <1>1 DEF DeniedFrom, PendingFrom
<1>5. Each(PendingReqs', 1, Len(p'), Reads')
  <2> DEFINE m == Len(p)
             f == PendingReqs
             g == PendingReqs'
  <2>1. m \in Nat /\ m > 0 /\ Each(f, 2, m, Reads)
    BY <1>2, <1>4 DEF Owned
  <2>2. \A i \in 1 .. m - 1 : g[i] = f[i + 1]
    <3>1. /\ f = [i \in DOMAIN p |-> p[i].req]
          /\ g = [i \in DOMAIN p' |-> p'[i].req]
      BY DEF PendingReqs
    <3>2. \A i \in 1 .. m - 1 : i + 1 \in 1 .. m
      BY <2>1
    <3> HIDE DEF f, g, p
    <3> QED BY <1>2, <3>1, <3>2
  <2> HIDE DEF m, f, g
  <2>3. Each(g, 1, m - 1, Reads)
    BY <2>1, <2>2, EachShift
  <2> QED BY <1>2, <1>3, <2>3 DEF m, g
<1>6. Each(d', DeniedFrom', Len(d'), Denied') /\ Writes' = {}
  BY <1>1, <1>3, <1>4 DEF Owned
<1> QED BY <1>1, <1>4, <1>5, <1>6 DEF Owned

\* Every step keeps each request in the queue that its state says.
LEMMA NextOwned == ASSUME Inv, Owned, [Next]_vars PROVE Owned'
<1>1. CASE \E r \in Requests, cmd \in Commands : req(r, cmd)
  BY <1>1, OwnedReq
<1>2. CASE ReqCbSend
  BY <1>2, OwnedSend
<1>3. CASE GrantReturnWrite
  BY <1>3, OwnedGrantWrite
<1>4. CASE GrantReturnRead \/ WriteRespReturn
  BY <1>4, OwnedGranted
<1>5. CASE RspCbByte
  BY <1>5, OwnedByte
<1>6. CASE ReadRespReturn
  BY <1>6, OwnedAnswered
<1>7. CASE PeqEndReq
  <2>1. UNCHANGED ddrVars /\ pc = "idle" /\ pc' \in {"req_cb", "fatal"}
    BY <1>7 DEF PeqEndReq, EndReq
  <2> QED BY <2>1, OwnedSame
<1>8. CASE \E i \in DOMAIN active : BeginResp(i)
  <2>1. /\ UNCHANGED ddrVars /\ pc = "idle"
        /\ pc' \in {"match", "wrsp_cb", "fatal"}
    BY <1>8 DEF BeginResp, PeqBeginRespRead, PeqBeginRespWrite, BeginRespRead,
                BeginRespWrite
  <2> QED BY <2>1, OwnedSame
<1>9. CASE PeqMatch
  <2>1. /\ UNCHANGED ddrVars /\ pc = "match"
        /\ pc' \in {"rsp_cb", "idle"}
    BY <1>9 DEF PeqMatch, MatchStep, MatchExit
  <2> QED BY <2>1, OwnedSame
<1>10. CASE ReqCbExit \/ RspCbExit \/ RspCbWrite
  <2>1. /\ UNCHANGED ddrVars /\ pc \in {"req_cb", "rsp_cb", "wrsp_cb"}
        /\ pc' \in {"idle", "match"}
    BY <1>10 DEF ReqCbExit, RspCbExit, RspCbWrite
  <2> QED BY <2>1, OwnedSame
<1>11. CASE UNCHANGED vars
  <2>1. UNCHANGED ddrVars /\ pc' = pc
    BY <1>11 DEF vars
  <2>2. /\ denied_req_queue' = denied_req_queue /\ PendingReqs' = PendingReqs
        /\ pending_read_req_queue' = pending_read_req_queue /\ io' = io
        /\ Denied' = Denied /\ Reads' = Reads /\ Writes' = Writes
        /\ DeniedFrom' = DeniedFrom /\ PendingFrom' = PendingFrom
    BY <2>1 DEF ddrVars, PendingReqs, Denied, Reads, Writes, DeniedFrom, PendingFrom
  <2> QED BY <2>1, <2>2 DEF Owned
<1> QED
  BY <1>1, <1>2, <1>3, <1>4, <1>5, <1>6, <1>7, <1>8, <1>9, <1>10, <1>11
  DEF Next, Handler

LEMMA InitOwned == ASSUME Init PROVE Owned
<1>1. denied_req_queue = << >> /\ pending_read_req_queue = << >> /\ pc = "idle"
  BY DEF Init
<1>2. \A r \in Requests : io[r].st = "idle"
  BY DEF Init
<1>3. Denied = {} /\ Reads = {} /\ Writes = {}
  BY <1>2 DEF Denied, Reads, Writes
<1>4. \A f : Each(f, 1, 0, {})
  BY DEF Each
<1>5. Len(denied_req_queue) = 0 /\ Len(pending_read_req_queue) = 0
  BY <1>1, EmptySeq
<1>6. DeniedFrom = 1 /\ PendingFrom = 1
  BY <1>1 DEF DeniedFrom, PendingFrom
<1> QED BY <1>1, <1>3, <1>4, <1>5, <1>6 DEF Owned

\* Owned says what QueueOwnership says.
LEMMA OwnedOnce == ASSUME Inv, Owned PROVE QueueOwnership
<1> DEFINE deniedQ == IF pc \in {"granted", "wresp"} THEN Tail(denied_req_queue)
                      ELSE denied_req_queue
           pendingQ == IF pc = "rresp" THEN Tail(PendingReqs) ELSE PendingReqs
<1>1. ASSUME NEW q \in Seq(Requests), NEW n \in {1, 2}, n <= Len(q) + 1,
             NEW S, Each(q, n, Len(q), S), n = 2 => q # << >>, NEW r
      PROVE  Occurrences(IF n = 2 THEN Tail(q) ELSE q, r) = IF r \in S THEN 1 ELSE 0
  <2>1. Len(q) \in Nat /\ DOMAIN q = 1 .. Len(q)
    BY <1>1, LenProperties
  <2>2. CASE n = 1
    BY <1>1, <2>1, <2>2, EachOnce DEF Occurrences
  <2>3. CASE n = 2
    <3> DEFINE t == Tail(q)
    <3>1. q # << >>
      BY <1>1, <2>3
    <3>2. /\ t \in Seq(Requests) /\ Len(t) = Len(q) - 1 /\ Len(q) # 0
          /\ \A i \in 1 .. Len(t) : t[i] = q[i + 1]
      BY <3>1, EmptySeq, HeadTailProperties
    <3> HIDE DEF t
    <3>3. DOMAIN t = 1 .. Len(q) - 1 /\ Len(q) - 1 \in Nat
      BY <2>1, <3>2, LenProperties
    <3>4. Each(t, 1, Len(q) - 1, S)
      <4> DEFINE m == Len(q)
                 f == q
      <4>1. m \in Nat /\ m > 0 /\ Each(f, 2, m, S)
        BY <1>1, <2>1, <2>3, <3>2
      <4>2. \A i \in 1 .. m - 1 : t[i] = f[i + 1]
        BY <3>2
      <4> HIDE DEF m, f
      <4>3. Each(t, 1, m - 1, S)
        BY <4>1, <4>2, EachShift
      <4> QED BY <4>3 DEF m
    <3>5. Occurrences(t, r) = IF r \in S THEN 1 ELSE 0
      BY <3>3, <3>4, EachOnce DEF Occurrences
    <3> QED BY <2>3, <3>5 DEF t
  <2> QED BY <2>2, <2>3
<1>2. ASSUME NEW r \in Requests
      PROVE  Occurrences(deniedQ, r) = IF io[r].st = "denied" THEN 1 ELSE 0
  <2>1. /\ denied_req_queue \in Seq(Requests)
        /\ pc \in {"granted", "wresp"} => denied_req_queue # << >>
    BY DEF Inv, ClientInv
  <2>2. deniedQ = IF DeniedFrom = 2 THEN Tail(denied_req_queue) ELSE denied_req_queue
    BY DEF DeniedFrom
  <2>3. /\ DeniedFrom \in {1, 2} /\ DeniedFrom <= Len(denied_req_queue) + 1
        /\ DeniedFrom = 2 => denied_req_queue # << >>
    BY <2>1, QueueTypes DEF DeniedFrom
  <2>4. Each(denied_req_queue, DeniedFrom, Len(denied_req_queue), Denied)
    BY DEF Owned
  <2>5. r \in Denied <=> io[r].st = "denied"
    BY DEF Denied
  <2> HIDE DEF deniedQ
  <2>6. Occurrences(deniedQ, r) = IF r \in Denied THEN 1 ELSE 0
    BY <1>1, <2>1, <2>2, <2>3, <2>4
  <2> QED BY <2>5, <2>6
<1>3. ASSUME NEW r \in Requests
      PROVE  Occurrences(pendingQ, r) =
               IF io[r].st = "pending" /\ ~ io[r].cmd.is_write THEN 1 ELSE 0
  <2>1. /\ PendingReqs \in Seq(Requests)
        /\ PendingFrom \in {1, 2} /\ PendingFrom <= Len(pending_read_req_queue) + 1
        /\ Len(pending_read_req_queue) \in Nat
        /\ DOMAIN PendingReqs = 1 .. Len(pending_read_req_queue)
    BY QueueTypes
  <2>2. Len(PendingReqs) = Len(pending_read_req_queue)
    BY <2>1, LenProperties
  <2>3. PendingFrom = 2 => PendingReqs # << >>
    <3>1. PendingFrom = 2 => Len(PendingReqs) # 0
      BY <2>1, <2>2
    <3> QED BY <2>1, <3>1, EmptySeq
  <2>4. pendingQ = IF PendingFrom = 2 THEN Tail(PendingReqs) ELSE PendingReqs
    BY DEF PendingFrom
  <2>5. Each(PendingReqs, PendingFrom, Len(PendingReqs), Reads)
    BY <2>2 DEF Owned
  <2>6. r \in Reads <=> io[r].st = "pending" /\ ~ io[r].cmd.is_write
    BY DEF Reads
  <2> HIDE DEF pendingQ
  <2>7. Occurrences(pendingQ, r) = IF r \in Reads THEN 1 ELSE 0
    BY <1>1, <2>1, <2>2, <2>3, <2>4, <2>5
  <2> QED BY <2>6, <2>7
<1>4. ASSUME NEW r \in Requests, io[r].st = "pending", io[r].cmd.is_write
      PROVE  pc = "granted" /\ r = Head(denied_req_queue)
  <2>1. pc = "granted" /\ r = denied_req_queue[1]
    BY <1>4 DEF Owned, Writes
  <2>2. denied_req_queue \in Seq(Requests) /\ denied_req_queue # << >>
    BY <2>1 DEF Inv, ClientInv
  <2> QED BY <2>1, <2>2, EmptySeq, LenProperties, HeadTailProperties
<1> QED BY <1>2, <1>3, <1>4 DEF QueueOwnership

\* The bridge owes an answer to exactly the requests in its queues, each of
\* them once: none is forgotten, granted or answered twice, also when an
\* initiator uses a request again inside resp(), before it is popped.
THEOREM QueuesOwn == Spec => []QueueOwnership
<1>1. Init => Inv /\ Owned
  BY InitInv, InitOwned
<1>2. Inv /\ Owned /\ [Next]_vars => (Inv /\ Owned)'
  BY NextInv, NextOwned
<1>3. Inv /\ Owned => QueueOwnership
  BY OwnedOnce
<1> QED BY <1>1, <1>2, <1>3, PTL DEF Spec

-----------------------------------------------------------------------------
(* The bytes the pending reads expect                                      *)

\* The numbers MaskDue adds up.
LEMMA MaskLensOf ==
  ASSUME NEW q \in Seq(Pending)
  PROVE  /\ Len(q) \in Nat
         /\ \A i \in 1 .. Len(q) :
              /\ q[i] \in Pending /\ MaskLens(q)[i] = Len(q[i].mask)
              /\ MaskLens(q)[i] \in Nat
<1>1. Len(q) \in Nat /\ DOMAIN q = 1 .. Len(q)
  BY LenProperties
<1>2. ASSUME NEW i \in 1 .. Len(q)
      PROVE  /\ q[i] \in Pending /\ MaskLens(q)[i] = Len(q[i].mask)
             /\ MaskLens(q)[i] \in Nat
  <2>1. q[i] \in Pending
    BY ElementOfSeq
  <2>2. Len(q[i].mask) \in Nat
    BY <2>1, LenProperties DEF Pending
  <2> QED BY <1>1, <2>1, <2>2 DEF MaskLens
<1> QED BY <1>1, <1>2

\* A read that is sent is due as many bytes as its mask is long.
LEMMA DueAppend ==
  ASSUME NEW q \in Seq(Pending), NEW e \in Pending, NEW t,
         Sums(MaskLens(q), Len(q), t)
  PROVE  Sums(MaskLens(Append(q, e)), Len(Append(q, e)), t + Len(e.mask))
<1>1. PICK p : p = Append(q, e)
  OBVIOUS
<1>2. /\ p \in Seq(Pending) /\ Len(p) = Len(q) + 1 /\ p[Len(q) + 1] = e
      /\ \A i \in 1 .. Len(q) : p[i] = q[i]
  BY <1>1, AppendProperties
<1>3. PICK n \in Nat : n = Len(q)
  BY LenProperties
<1>4. \A i \in 1 .. n : MaskLens(p)[i] = MaskLens(q)[i]
  <2>1. ASSUME NEW i \in 1 .. n PROVE MaskLens(p)[i] = MaskLens(q)[i]
    <3>1. i \in 1 .. Len(p) /\ i \in 1 .. Len(q)
      BY <1>2, <1>3
    <3> QED BY <1>2, <3>1, MaskLensOf
  <2> QED BY <2>1
<1>5. MaskLens(p)[n + 1] = Len(e.mask) /\ Len(e.mask) \in Nat
  <2>1. n + 1 \in 1 .. Len(p)
    BY <1>2, <1>3
  <2> QED BY <1>2, <1>3, <2>1, MaskLensOf
<1>6. Sums(MaskLens(p), n + 1, t + Len(e.mask))
  BY <1>3, <1>4, <1>5, SumsMore
<1> QED BY <1>1, <1>2, <1>3, <1>6

\* A read that has all its bytes is due none.
LEMMA DueTail ==
  ASSUME NEW q \in Seq(Pending), q # << >>, q[1].mask = << >>, NEW t,
         Sums(MaskLens(q), Len(q), t)
  PROVE  Sums(MaskLens(Tail(q)), Len(Tail(q)), t)
<1>1. PICK p : p = Tail(q)
  OBVIOUS
<1>2. PICK n \in Nat \ {0} : n = Len(q)
  BY EmptySeq, LenProperties
<1>3. p \in Seq(Pending) /\ Len(p) = n - 1 /\ \A i \in 1 .. n - 1 : p[i] = q[i + 1]
  BY <1>1, <1>2, HeadTailProperties
<1>4. MaskLens(q)[1] = 0
  <2>1. 1 \in 1 .. Len(q)
    BY <1>2
  <2> QED BY <2>1, MaskLensOf
<1>5. ASSUME NEW i \in 1 .. n - 1 PROVE MaskLens(p)[i] = MaskLens(q)[i + 1]
  <2>1. i \in 1 .. Len(p) /\ i + 1 \in 1 .. Len(q)
    BY <1>2, <1>3
  <2>2. MaskLens(p)[i] = Len(p[i].mask) /\ MaskLens(q)[i + 1] = Len(q[i + 1].mask)
    BY <1>3, <2>1, MaskLensOf
  <2> QED BY <1>3, <2>2
<1>6. Sums(MaskLens(p), n - 1, t)
  BY <1>2, <1>4, <1>5, SumsTail
<1> QED BY <1>1, <1>3, <1>6

\* A byte for the oldest read makes it one less.
LEMMA DueFirst ==
  ASSUME NEW q \in Seq(Pending), q # << >>, q[1].mask # << >>,
         NEW p \in Seq(Pending), Len(p) = Len(q), p[1].mask = Tail(q[1].mask),
         \A i \in 2 .. Len(q) : p[i] = q[i],
         NEW t, Sums(MaskLens(q), Len(q), t)
  PROVE  Sums(MaskLens(p), Len(p), t - 1)
<1>1. PICK n \in Nat \ {0} : n = Len(q)
  BY EmptySeq, LenProperties
<1>2. MaskLens(p)[1] = MaskLens(q)[1] - 1
  <2>1. 1 \in 1 .. Len(q) /\ 1 \in 1 .. Len(p)
    BY <1>1
  <2>2. MaskLens(q)[1] = Len(q[1].mask) /\ MaskLens(p)[1] = Len(p[1].mask)
    BY <2>1, MaskLensOf
  <2>3. q[1].mask \in Seq({0, 1})
    BY <2>1, MaskLensOf DEF Pending
  <2> QED BY <2>2, <2>3, HeadTailProperties
<1>3. ASSUME NEW i \in 2 .. n PROVE MaskLens(p)[i] = MaskLens(q)[i]
  <2>1. i \in 1 .. Len(p) /\ i \in 1 .. Len(q)
    BY <1>1
  <2> QED BY <1>1, <2>1, MaskLensOf
<1>4. \A i \in 1 .. n : MaskLens(q)[i] \in Nat
  BY <1>1, MaskLensOf
<1>5. Sums(MaskLens(p), n, t - 1)
  BY <1>1, <1>2, <1>3, <1>4, SumsFirst
<1> QED BY <1>1, <1>5

\* A command is expected as many bytes as its chunks have; all of its
\* payloads, if it reads, and none, if it writes, return a chunk.
LEMMA ExpectedBytes ==
  ASSUME NEW cmd, GoodCommand(cmd), NEW q \in Seq(Payload)
  PROVE  /\ Len(mask_d(cmd)) = GRANULARITY * num_req(cmd)
         /\ num_req(cmd) \in Nat
         /\ CountIn(q \o Payloads(cmd), ReadPayloads) =
              CountIn(q, ReadPayloads) + (IF cmd.is_write THEN 0 ELSE num_req(cmd))
         /\ \A j \in 1 .. Len(Payloads(cmd)) :
              ~ Payloads(cmd)[j].is_write => Payloads(cmd)[j].len = GRANULARITY
<1> DEFINE ps == Payloads(cmd)
<1>1. /\ num_req(cmd) \in Nat \ {0} /\ GRANULARITY \in Nat \ {0}
      /\ cmd.is_write \in BOOLEAN
  BY ChunkRange, DdrConstants DEF GoodCommand, Command
<1>2. PICK n \in Nat \ {0} : n = GRANULARITY * num_req(cmd)
  BY <1>1
<1>3. Len(mask_d(cmd)) = n
  BY <1>2 DEF mask_d
<1>4. /\ ps \in Seq(Payload)
      /\ \A j \in 1 .. Len(ps) : ps[j] \in Payload /\ ps[j].is_write = cmd.is_write
  BY PayloadsGood DEF GoodPayload
<1>5. CASE cmd.is_write
  <2>1. \A j \in 1 .. Len(ps) : ps[j] \notin ReadPayloads
    BY <1>4, <1>5 DEF ReadPayloads
  <2>2. CountIn(q \o ps, ReadPayloads) = CountIn(q, ReadPayloads)
    BY <1>4, <2>1, CountJoin
  <2>3. CountIn(q, ReadPayloads) \in Nat
    BY CountType
  <2>4. CountIn(q \o ps, ReadPayloads) =
          CountIn(q, ReadPayloads) + (IF cmd.is_write THEN 0 ELSE num_req(cmd))
    BY <1>5, <2>2, <2>3
  <2>5. \A j \in 1 .. Len(ps) : ~ ps[j].is_write => ps[j].len = GRANULARITY
    BY <1>4, <1>5
  <2> QED BY <1>1, <1>2, <1>3, <2>4, <2>5
<1>6. CASE ~ cmd.is_write
  <2>1. \A j \in 1 .. Len(ps) : ps[j] \in ReadPayloads
    BY <1>4, <1>6 DEF ReadPayloads
  <2>2. /\ num_subreq(GRANULARITY, cmd.is_write) = 1
        /\ sub_len(GRANULARITY, cmd.is_write) = GRANULARITY
    BY <1>6 DEF num_subreq, sub_len, Splits
  <2>3. PICK c \in Nat \ {0} : c = num_req(cmd)
    BY <1>1
  <2>4. Len(ps) = c
    BY <2>2, <2>3 DEF Payloads
  <2>5. \A j \in 1 .. Len(ps) : ps[j].len = GRANULARITY
    BY <2>2, <2>3, <2>4 DEF Payloads, SubPayload
  <2>6. CountIn(q \o ps, ReadPayloads) = CountIn(q, ReadPayloads) + Len(ps)
    BY <1>4, <2>1, CountJoin
  <2> QED BY <1>1, <1>2, <1>3, <1>6, <2>3, <2>4, <2>5, <2>6
<1> QED BY <1>5, <1>6

\* A read is a chunk long in the memory, and so is what it returns.
WholeChunks ==
  /\ \A i \in 1 .. Len(beginq) : ~ beginq[i].is_write => beginq[i].len = GRANULARITY
  /\ \A i \in 1 .. Len(active) : ~ active[i].is_write => active[i].len = GRANULARITY
  /\ \A i \in 1 .. Len(out_order_rsp_list) :
       Len(out_order_rsp_list[i].data) = GRANULARITY

\* The bytes on their way to the pending reads.
ReadsOwed == Len(read_req_list) + CountIn(beginq, ReadPayloads)
OnTheirWayBytes == Len(read_rsp_queue) + GRANULARITY * ReadsOwed

\* ByteConservation with what it needs to be inductive with Inv.
Conserved ==
  /\ WholeChunks
  /\ Sums(MaskLens(pending_read_req_queue), Len(pending_read_req_queue),
          OnTheirWayBytes)
  /\ read_rsp_queue # << >> => pc \in {"rsp_cb", "rresp"}
  /\ pc = "rresp" => pending_read_req_queue[1].mask = << >>

\* The counts are numbers.
LEMMA OwedType ==
  ASSUME Inv
  PROVE  /\ beginq \in Seq(Payload) /\ active \in Seq(Payload)
         /\ read_req_list \in Seq(ReqT) /\ read_rsp_queue \in Seq(Byte)
         /\ out_order_rsp_list \in Seq(Response)
         /\ pending_read_req_queue \in Seq(Pending)
         /\ CountIn(beginq, ReadPayloads) \in Nat /\ Len(read_req_list) \in Nat
         /\ ReadsOwed \in Nat /\ Len(read_rsp_queue) \in Nat
<1>1. /\ beginq \in Seq(Payload) /\ active \in Seq(Payload)
      /\ read_req_list \in Seq(ReqT) /\ read_rsp_queue \in Seq(Byte)
      /\ out_order_rsp_list \in Seq(Response)
      /\ pending_read_req_queue \in Seq(Pending)
  BY DEF Inv, ConvInv, ConvTypeOK, ClientInv
<1>2. /\ CountIn(beginq, ReadPayloads) \in Nat /\ Len(read_req_list) \in Nat
      /\ Len(read_rsp_queue) \in Nat
  BY <1>1, CountType, LenProperties
<1>3. ReadsOwed \in Nat
  BY <1>2 DEF ReadsOwed
<1> QED BY <1>1, <1>2, <1>3

\* Sending a request makes it expect the bytes of its chunks.
LEMMA ConservedSend ==
  ASSUME Inv, Conserved, NEW r \in Requests, NEW cmd, GoodCommand(cmd), NEW next,
         paraSendRequest(r, cmd, next), next = pc \/ (pc = "req_cb" /\ next = "granted")
  PROVE  Conserved'
<1> DEFINE q == pending_read_req_queue
           ps == Payloads(cmd)
           e == [req |-> r, mask |-> mask_d(cmd)]
<1>1. cmd.is_write \in BOOLEAN
  BY DEF GoodCommand, Command
<1>2. ~ MisalignedStrobe(GRANULARITY, cmd.is_write)
  BY <1>1, SubRange
<1>3. /\ pc' = next /\ dram_send_req(ps)
      /\ q' = IF cmd.is_write THEN q ELSE Append(q, e)
  BY <1>2 DEF paraSendRequest
<1>4. /\ beginq' = beginq \o ps
      /\ UNCHANGED <<read_req_list, out_order_rsp_list, read_rsp_queue, active>>
  BY <1>3 DEF dram_send_req
<1>5. /\ Len(mask_d(cmd)) = GRANULARITY * num_req(cmd) /\ num_req(cmd) \in Nat
      /\ CountIn(beginq \o ps, ReadPayloads) =
           CountIn(beginq, ReadPayloads) + (IF cmd.is_write THEN 0 ELSE num_req(cmd))
      /\ \A j \in 1 .. Len(ps) : ~ ps[j].is_write => ps[j].len = GRANULARITY
  BY ExpectedBytes, OwedType
<1>6. WholeChunks'
  <2>1. ps \in Seq(Payload)
    BY PayloadsGood
  <2>2. PICK a \in Nat, b \in Nat : a = Len(beginq) /\ b = Len(ps)
    BY <2>1, OwedType, LenProperties
  <2>3. /\ Len(beginq \o ps) = a + b
        /\ \A i \in 1 .. a + b :
             (beginq \o ps)[i] = IF i <= a THEN beginq[i] ELSE ps[i - a]
    BY <2>1, <2>2, OwedType, ConcatProperties
  <2>4. ASSUME NEW i \in 1 .. a + b, ~ (beginq \o ps)[i].is_write
        PROVE  (beginq \o ps)[i].len = GRANULARITY
    <3>1. CASE i <= a
      <4>1. i \in 1 .. Len(beginq) /\ (beginq \o ps)[i] = beginq[i]
        BY <2>2, <2>3, <3>1
      <4> QED BY <2>4, <4>1 DEF Conserved, WholeChunks
    <3>2. CASE ~ (i <= a)
      <4>1. i - a \in 1 .. Len(ps) /\ (beginq \o ps)[i] = ps[i - a]
        BY <2>2, <2>3, <3>2
      <4> QED BY <1>5, <2>4, <4>1
    <3> QED BY <3>1, <3>2
  <2> QED BY <1>4, <2>3, <2>4 DEF Conserved, WholeChunks
<1>7. q \in Seq(Pending) /\ Sums(MaskLens(q), Len(q), OnTheirWayBytes)
  BY OwedType DEF Conserved
<1>8. PICK g \in Nat, c \in Nat, u \in Nat, x \in Nat :
        g = GRANULARITY /\ c = num_req(cmd) /\ u = ReadsOwed /\ x = Len(read_rsp_queue)
  BY <1>5, DdrConstants, OwedType
<1>9. OnTheirWayBytes = x + g * u
  BY <1>8 DEF OnTheirWayBytes
<1>10. CASE cmd.is_write
  <2>1. ReadsOwed' = u
    BY <1>4, <1>5, <1>8, <1>10, OwedType DEF ReadsOwed
  <2>2. OnTheirWayBytes' = x + g * u
    BY <1>4, <1>8, <2>1 DEF OnTheirWayBytes
  <2>3. q' = q
    BY <1>3, <1>10
  <2>4. Sums(MaskLens(q'), Len(q'), OnTheirWayBytes')
    BY <1>7, <1>9, <2>2, <2>3
  <2>5. MaskLens(q)' = MaskLens(q')
    BY DEF MaskLens
  <2> QED BY <1>3, <1>4, <1>6, <2>3, <2>4, <2>5 DEF Conserved
<1>11. CASE ~ cmd.is_write
  <2>1. ReadsOwed' = u + c
    BY <1>4, <1>5, <1>8, <1>11, OwedType DEF ReadsOwed
  <2>2. OnTheirWayBytes' = x + g * (u + c)
    BY <1>4, <1>8, <2>1 DEF OnTheirWayBytes
  <2>3. x + g * (u + c) = (x + g * u) + g * c
    OBVIOUS
  <2>4. e \in Pending /\ Len(e.mask) = g * c
    BY <1>5, <1>8, MaskGood DEF Pending
  <2>5. q' = Append(q, e)
    BY <1>3, <1>11
  <2>6. Sums(MaskLens(Append(q, e)), Len(Append(q, e)), OnTheirWayBytes + Len(e.mask))
    BY <1>7, <2>4, DueAppend
  <2>7. Sums(MaskLens(q'), Len(q'), OnTheirWayBytes')
    BY <1>9, <2>2, <2>3, <2>4, <2>5, <2>6
  <2>8. MaskLens(q)' = MaskLens(q')
    BY DEF MaskLens
  <2>9. pc = "rresp" => q # << >> /\ q[1].mask = << >>
    BY DEF Conserved, Inv, ClientInv
  <2>10. q # << >> => q'[1] = q[1]
    <3>1. q # << >> => 1 \in 1 .. Len(q)
      BY <1>7, EmptySeq, LenProperties
    <3> QED BY <1>7, <2>4, <2>5, <3>1, AppendProperties
  <2> QED BY <1>3, <1>4, <1>6, <2>7, <2>8, <2>9, <2>10 DEF Conserved
<1> QED BY <1>1, <1>10, <1>11

\* A step that moves neither reads nor their bytes.
LEMMA ConservedSame ==
  ASSUME Conserved,
         UNCHANGED <<beginq, active, read_req_list, out_order_rsp_list,
                     read_rsp_queue, pending_read_req_queue>>,
         read_rsp_queue # << >> => pc' \in {"rsp_cb", "rresp"},
         pc' = "rresp" => pc = "rresp"
  PROVE  Conserved'
<1>1. OnTheirWayBytes' = OnTheirWayBytes
  BY DEF OnTheirWayBytes, ReadsOwed
<1>2. MaskLens(pending_read_req_queue)' = MaskLens(pending_read_req_queue)
  BY DEF MaskLens
<1>3. WholeChunks'
  BY DEF Conserved, WholeChunks
<1> QED BY <1>1, <1>2, <1>3 DEF Conserved

\* The callback of a read returns when no byte is left: with no read pending
\* none can be.
LEMMA ConservedExit ==
  ASSUME Inv, Conserved, RspCbExit
  PROVE  read_rsp_queue = << >>
<1>1. read_rsp_queue = << >> \/ pending_read_req_queue = << >>
  BY DEF RspCbExit
<1>2. CASE pending_read_req_queue = << >>
  <2>1. Len(pending_read_req_queue) = 0
    BY <1>2
  <2>2. OnTheirWayBytes = 0
    BY <2>1, SumsType DEF Conserved
  <2>3. PICK g \in Nat, u \in Nat, x \in Nat :
          g = GRANULARITY /\ u = ReadsOwed /\ x = Len(read_rsp_queue)
    BY DdrConstants, OwedType
  <2>4. x + g * u = 0 /\ g * u \in Nat
    BY <2>2, <2>3 DEF OnTheirWayBytes
  <2>5. x = 0
    BY <2>4
  <2> QED BY <2>3, <2>5, OwedType, EmptySeq
<1> QED BY <1>1, <1>2

\* A read the memory accepts is still owed its chunk.
LEMMA ConservedEndReq ==
  ASSUME Inv, Conserved, PeqEndReq
  PROVE  Conserved'
<1> DEFINE p == Head(beginq)
           req1 == Head(all_req_list)
<1>1. /\ EndReq("req_cb") /\ ~ EndReqMismatch /\ pc' = "req_cb"
      /\ pending_read_req_queue' = pending_read_req_queue /\ pc = "idle"
  BY EndReqKeeps DEF PeqEndReq, Inv, ddrVars
<1>2. /\ beginq # << >> /\ p.is_write = req1.is_write
      /\ read_req_list' = IF req1.is_write THEN read_req_list
                          ELSE Append(read_req_list, req1)
      /\ beginq' = Tail(beginq) /\ active' = Append(active, p)
      /\ UNCHANGED <<out_order_rsp_list, read_rsp_queue>>
  BY <1>1 DEF EndReq, EndReqMismatch, EndedReq
<1>3. /\ Tail(beginq) \in Seq(Payload) /\ IsWithout(Tail(beginq), beginq, 1)
      /\ 1 \in 1 .. Len(beginq) /\ p = beginq[1] /\ p \in Payload
  BY <1>2, OwedType, TailWithout, ElementOfSeq, HeadTailProperties
<1>4. CountIn(Tail(beginq), ReadPayloads) =
        CountIn(beginq, ReadPayloads) - (IF p \in ReadPayloads THEN 1 ELSE 0)
  <2>1. CountIn(Tail(beginq), ReadPayloads) =
          CountIn(beginq, ReadPayloads) - (IF beginq[1] \in ReadPayloads THEN 1 ELSE 0)
    <3>1. PICK s, t, K : s = beginq /\ t = Tail(beginq) /\ K = ReadPayloads
      OBVIOUS
    <3>2. s \in Seq(Payload) /\ t \in Seq(Payload) /\ IsWithout(t, s, 1) /\ 1 \in 1 .. Len(s)
      BY <1>3, <3>1, OwedType
    <3>3. CountIn(t, K) = CountIn(s, K) - (IF s[1] \in K THEN 1 ELSE 0)
      BY <3>2, CountWithout
    <3> QED BY <3>1, <3>3, Zenon
  <2> QED BY <1>3, <2>1
<1>5. p \in ReadPayloads <=> ~ req1.is_write
  BY <1>2, <1>3 DEF ReadPayloads
<1>6. ReadsOwed' = ReadsOwed
  <2>1. CASE req1.is_write
    BY <1>2, <1>4, <1>5, <2>1, OwedType DEF ReadsOwed
  <2>2. CASE ~ req1.is_write
    <3>1. PICK l \in Nat, c \in Nat :
            l = Len(read_req_list) /\ c = CountIn(beginq, ReadPayloads)
      BY OwedType
    <3>2. req1 \in ReqT
      <4>1. /\ all_req_list \in Seq(ReqT) /\ beginq \in Seq(Payload)
            /\ Len(all_req_list) = Len(beginq)
        BY DEF Inv, ConvInv, ConvTypeOK, Sent
      <4>2. 1 \in 1 .. Len(all_req_list)
        BY <1>3, <4>1
      <4>3. all_req_list # << >>
        BY <4>1, <4>2
      <4> QED BY <4>1, <4>3, HeadTailProperties
    <3>3. Len(read_req_list') = l + 1
      BY <1>2, <2>2, <3>1, <3>2, OwedType, AppendProperties
    <3>4. CountIn(beginq', ReadPayloads) = c - 1
      BY <1>2, <1>4, <1>5, <2>2, <3>1
    <3>5. ReadsOwed' = (l + 1) + (c - 1) /\ ReadsOwed = l + c
      BY <3>1, <3>3, <3>4 DEF ReadsOwed
    <3> QED BY <3>5
  <2> QED BY <1>2, <2>1, <2>2
<1>7. OnTheirWayBytes' = OnTheirWayBytes
  BY <1>2, <1>6 DEF OnTheirWayBytes
<1>8. MaskLens(pending_read_req_queue)' = MaskLens(pending_read_req_queue)
  BY <1>1 DEF MaskLens
<1>9. WholeChunks'
  <2>1. ASSUME NEW i \in 1 .. Len(Tail(beginq)), ~ Tail(beginq)[i].is_write
        PROVE  Tail(beginq)[i].len = GRANULARITY
    <3>1. i + 1 \in 1 .. Len(beginq) /\ Tail(beginq)[i] = beginq[i + 1]
      BY <1>2, <2>1, OwedType, HeadTailProperties
    <3> QED BY <2>1, <3>1 DEF Conserved, WholeChunks
  <2>2. ~ p.is_write => p.len = GRANULARITY
    BY <1>3 DEF Conserved, WholeChunks
  <2>3. /\ Len(Append(active, p)) = Len(active) + 1
        /\ Append(active, p)[Len(active) + 1] = p
        /\ \A i \in 1 .. Len(active) : Append(active, p)[i] = active[i]
    BY <1>3, OwedType, AppendProperties
  <2>4. ASSUME NEW i \in 1 .. Len(Append(active, p)), ~ Append(active, p)[i].is_write
        PROVE  Append(active, p)[i].len = GRANULARITY
    <3>1. i \in 1 .. Len(active) \/ i = Len(active) + 1
      BY <2>3, OwedType, LenProperties
    <3> QED BY <2>2, <2>3, <2>4, <3>1 DEF Conserved, WholeChunks
  <2> QED BY <1>2, <2>1, <2>4 DEF Conserved, WholeChunks
<1> QED BY <1>1, <1>2, <1>7, <1>8, <1>9 DEF Conserved

\* Whole chunks stay whole when the memory answers one.
LEMMA ActiveWhole ==
  ASSUME Inv, Conserved, NEW i \in DOMAIN active, active' = RemoveAt(active, i)
  PROVE  \A j \in 1 .. Len(active') : ~ active'[j].is_write => active'[j].len = GRANULARITY
<1>1. DOMAIN active = 1 .. Len(active) /\ Len(active) \in Nat
  BY OwedType, LenProperties
<1>2. IsWithout(RemoveAt(active, i), active, i)
  BY <1>1, OwedType, RemoveAtWithout
<1>3. ASSUME NEW j \in 1 .. Len(active'), ~ active'[j].is_write
      PROVE  active'[j].len = GRANULARITY
  <2>1. PICK k \in 1 .. Len(active) : active'[j] = active[k]
    BY <1>1, <1>2 DEF IsWithout
  <2> QED BY <1>3, <2>1 DEF Conserved, WholeChunks
<1> QED BY <1>3

\* An answer of the memory, to a write or to a read, moves no byte yet.
LEMMA ConservedAnswer ==
  ASSUME Inv, Conserved, NEW i \in DOMAIN active, BeginResp(i)
  PROVE  Conserved'
<1> DEFINE p == active[i]
           rsp == [addr |-> p.addr, len |-> p.len, data |-> Fetched(p)]
<1>1. /\ pc = "idle" /\ pending_read_req_queue' = pending_read_req_queue
      /\ BeginRespRead(i) \/ BeginRespWrite(i, "wrsp_cb")
  BY DEF BeginResp, PeqBeginRespRead, PeqBeginRespWrite, ddrVars
<1>2. /\ active' = RemoveAt(active, i) /\ pc' \in {"match", "wrsp_cb"}
      /\ UNCHANGED <<read_req_list, read_rsp_queue, beginq>>
      /\ \/ out_order_rsp_list' = out_order_rsp_list
         \/ ~ p.is_write /\ out_order_rsp_list' = Append(out_order_rsp_list, rsp)
  <2>1. CASE BeginRespRead(i)
    <3>1. pc' = "match" /\ ~ p.is_write
      BY <2>1, BeginRespReadKeeps DEF Inv, BeginRespRead
    <3>2. FirstLike(read_req_list, p) # 0
      BY <3>1, ResponseFound DEF Inv
    <3> QED BY <2>1, <3>1, <3>2 DEF BeginRespRead
  <2>2. CASE BeginRespWrite(i, "wrsp_cb")
    BY <2>2 DEF BeginRespWrite
  <2> QED BY <1>1, <2>1, <2>2
<1>3. OnTheirWayBytes' = OnTheirWayBytes
  BY <1>2 DEF OnTheirWayBytes, ReadsOwed
<1>4. MaskLens(pending_read_req_queue)' = MaskLens(pending_read_req_queue)
  BY <1>1 DEF MaskLens
<1>5. \A j \in 1 .. Len(out_order_rsp_list') :
        Len(out_order_rsp_list'[j].data) = GRANULARITY
  <2>1. CASE out_order_rsp_list' = out_order_rsp_list
    BY <2>1 DEF Conserved, WholeChunks
  <2>2. CASE ~ p.is_write /\ out_order_rsp_list' = Append(out_order_rsp_list, rsp)
    <3>1. DOMAIN active = 1 .. Len(active) /\ p \in Payload /\ GoodPayload(p)
      BY OwedType, LenProperties, ElementOfSeq DEF Inv, ConvInv, GoodPayloads
    <3>2. p.len = GRANULARITY /\ p.len \in Nat /\ p.addr \in Nat
      BY <2>2, <3>1 DEF Conserved, WholeChunks, Payload
    <3>3. Fetched(p) \in Seq(Byte) /\ Len(Fetched(p)) = p.len
      <4>1. Fetched(p) \in Seq(Byte)
        BY <3>1, FetchedBytes DEF Inv, ConvInv
      <4>2. Len(Fetched(p)) = p.len
        BY <3>2 DEF Fetched
      <4> QED BY <4>1, <4>2
    <3>4. rsp \in Response /\ Len(rsp.data) = GRANULARITY
      BY <3>2, <3>3 DEF Response
    <3>5. /\ Len(out_order_rsp_list') = Len(out_order_rsp_list) + 1
          /\ out_order_rsp_list'[Len(out_order_rsp_list) + 1] = rsp
          /\ \A j \in 1 .. Len(out_order_rsp_list) :
               out_order_rsp_list'[j] = out_order_rsp_list[j]
      BY <2>2, <3>4, OwedType, AppendProperties
    <3>6. ASSUME NEW j \in 1 .. Len(out_order_rsp_list')
          PROVE  Len(out_order_rsp_list'[j].data) = GRANULARITY
      <4>1. j \in 1 .. Len(out_order_rsp_list) \/ j = Len(out_order_rsp_list) + 1
        BY <3>5, OwedType, LenProperties
      <4> QED BY <3>4, <3>5, <4>1 DEF Conserved, WholeChunks
    <3> QED BY <3>6
  <2> QED BY <1>2, <2>1, <2>2
<1>6. WholeChunks'
  <2>1. \A j \in 1 .. Len(active') : ~ active'[j].is_write => active'[j].len = GRANULARITY
    BY <1>2, ActiveWhole
  <2> QED BY <1>2, <1>5, <2>1 DEF Conserved, WholeChunks
<1> QED BY <1>1, <1>2, <1>3, <1>4, <1>6 DEF Conserved

\* Delivering a response turns a read that is owed into its bytes.
LEMMA ConservedMatch ==
  ASSUME Inv, Conserved, PeqMatch
  PROVE  Conserved'
<1>1. pc = "match" /\ pending_read_req_queue' = pending_read_req_queue
  BY DEF PeqMatch, ddrVars
<1>2. CASE MatchExit
  <2>1. UNCHANGED <<beginq, active, read_req_list, out_order_rsp_list,
                    read_rsp_queue, pending_read_req_queue>>
    BY <1>1, <1>2 DEF MatchExit, convVars, dramVars
  <2>2. pc' = "idle" /\ read_rsp_queue = << >>
    BY <1>1, <1>2 DEF MatchExit, Conserved
  <2> QED BY <2>1, <2>2, ConservedSame
<1>3. CASE MatchStep("rsp_cb")
  <2>1. PICK m, d : m = Matched /\ d = out_order_rsp_list[m].data
    OBVIOUS
  <2>2. /\ read_rsp_queue' = read_rsp_queue \o d
        /\ out_order_rsp_list' = RemoveAt(out_order_rsp_list, m)
        /\ read_req_list' = Tail(read_req_list) /\ pc' = "rsp_cb"
        /\ UNCHANGED <<beginq, active>>
    BY <1>3, <2>1 DEF MatchStep, dramVars
  <2>3. read_req_list # << >> /\ m \in 1 .. Len(out_order_rsp_list)
    BY <1>3, <2>1, MatchedKey DEF MatchStep, Inv, ConvInv
  <2>4. d \in Seq(Byte) /\ Len(d) = GRANULARITY
    <3>1. out_order_rsp_list[m] \in Response
      BY <2>3, OwedType, ElementOfSeq
    <3> QED BY <2>1, <2>3, <3>1 DEF Response, Conserved, WholeChunks
  <2>5. PICK g \in Nat, l \in Nat \ {0}, c \in Nat, x \in Nat :
          /\ g = GRANULARITY /\ l = Len(read_req_list)
          /\ c = CountIn(beginq, ReadPayloads) /\ x = Len(read_rsp_queue)
    BY <2>3, DdrConstants, OwedType, EmptySeq
  <2>6. Len(read_req_list') = l - 1 /\ Len(read_rsp_queue') = x + g
    BY <2>2, <2>3, <2>4, <2>5, OwedType, HeadTailProperties, ConcatProperties
  <2>7. OnTheirWayBytes = x + g * (l + c)
    BY <2>5 DEF OnTheirWayBytes, ReadsOwed
  <2>8. OnTheirWayBytes' = (x + g) + g * ((l - 1) + c)
    BY <2>2, <2>5, <2>6 DEF OnTheirWayBytes, ReadsOwed
  <2>9. (x + g) + g * ((l - 1) + c) = x + g * (l + c)
    OBVIOUS
  <2>10. OnTheirWayBytes' = OnTheirWayBytes
    BY <2>7, <2>8, <2>9
  <2>11. \A j \in 1 .. Len(out_order_rsp_list') :
           Len(out_order_rsp_list'[j].data) = GRANULARITY
    <3>1. IsWithout(RemoveAt(out_order_rsp_list, m), out_order_rsp_list, m)
      BY <2>3, OwedType, RemoveAtWithout
    <3>2. Len(out_order_rsp_list) \in Nat
      BY OwedType, LenProperties
    <3>3. ASSUME NEW j \in 1 .. Len(out_order_rsp_list')
          PROVE  Len(out_order_rsp_list'[j].data) = GRANULARITY
      <4>1. PICK w \in Nat : w = Len(out_order_rsp_list)
        BY <3>2
      <4>a. PICK t : t = RemoveAt(out_order_rsp_list, m)
        OBVIOUS
      <4>2. /\ j \in 1 .. w - 1 /\ m \in 1 .. w
            /\ t[j] = IF j < m THEN out_order_rsp_list[j] ELSE out_order_rsp_list[j + 1]
        BY <2>2, <2>3, <3>1, <4>1, <4>a DEF IsWithout
      <4>3. PICK k \in 1 .. w : t[j] = out_order_rsp_list[k]
        BY <4>2
      <4>4. out_order_rsp_list'[j] = out_order_rsp_list[k]
        BY <2>2, <4>a, <4>3
      <4> QED BY <4>1, <4>4 DEF Conserved, WholeChunks
    <3> QED BY <3>3
  <2>12. MaskLens(pending_read_req_queue)' = MaskLens(pending_read_req_queue)
    BY <1>1 DEF MaskLens
  <2>13. WholeChunks'
    BY <2>2, <2>11 DEF Conserved, WholeChunks
  <2> QED BY <1>1, <2>2, <2>10, <2>12, <2>13 DEF Conserved
<1> QED BY <1>2, <1>3 DEF PeqMatch

\* A byte stored is neither on its way nor expected any more.
LEMMA ConservedByte ==
  ASSUME Inv, Conserved, RspCbByte
  PROVE  Conserved'
<1>1. PICK q, p, mask : q = pending_read_req_queue /\ p = pending_read_req_queue'
                        /\ mask = Head(pending_read_req_queue).mask
  OBVIOUS
<1>2. /\ pc = "rsp_cb" /\ read_rsp_queue # << >> /\ q # << >>
      /\ p = [q EXCEPT ![1].mask = Tail(mask)]
      /\ pc' = IF Len(mask) = 1 THEN "rresp" ELSE "rsp_cb"
      /\ read_rsp_queue' = Tail(read_rsp_queue)
      /\ UNCHANGED <<read_req_list, out_order_rsp_list, beginq, active>>
  BY <1>1 DEF RspCbByte, dramVars
<1>3. q \in Seq(Pending) /\ p \in Seq(Pending)
  BY <1>1, RspCbByteKeeps DEF Inv, ClientInv
<1>4. /\ 1 \in 1 .. Len(q) /\ q[1] = Head(q) /\ mask = q[1].mask
      /\ mask \in Seq({0, 1}) /\ mask # << >>
  <2>1. Len(q) \in Nat \ {0} /\ q[1] = Head(q)
    BY <1>2, <1>3, EmptySeq, LenProperties, HeadTailProperties
  <2>2. q[1] \in Pending
    BY <1>3, <2>1, ElementOfSeq
  <2>3. q[1].mask # << >>
    BY <1>1, <1>2, <2>1 DEF Inv, ClientInv
  <2> QED BY <1>1, <2>1, <2>2, <2>3 DEF Pending
<1>5. Len(p) = Len(q) /\ p[1].mask = Tail(mask) /\ \A i \in 2 .. Len(q) : p[i] = q[i]
  <2>1. Len(q) \in Nat /\ DOMAIN q = 1 .. Len(q)
    BY <1>3, LenProperties
  <2>2. DOMAIN p = 1 .. Len(q)
    BY <1>2, <2>1
  <2>3. q[1] \in Pending
    BY <1>3, <1>4, ElementOfSeq
  <2>4. p[1] = [q[1] EXCEPT !.mask = Tail(mask)] /\ \A i \in 2 .. Len(q) : p[i] = q[i]
    BY <1>2, <1>4, <2>1
  <2>5. p[1].mask = Tail(mask)
    BY <2>3, <2>4 DEF Pending
  <2> QED BY <1>3, <2>1, <2>2, <2>4, <2>5, LenProperties
<1>6. Sums(MaskLens(p), Len(p), OnTheirWayBytes - 1)
  BY <1>1, <1>2, <1>3, <1>4, <1>5, DueFirst DEF Conserved
<1>7. OnTheirWayBytes' = OnTheirWayBytes - 1
  <2>1. PICK g \in Nat, u \in Nat, x \in Nat :
          g = GRANULARITY /\ u = ReadsOwed /\ x = Len(read_rsp_queue)
    BY DdrConstants, OwedType
  <2>2. Len(read_rsp_queue') = x - 1
    BY <1>2, <2>1, OwedType, HeadTailProperties
  <2>3. ReadsOwed' = u
    BY <1>2, <2>1 DEF ReadsOwed
  <2>4. OnTheirWayBytes = x + g * u /\ OnTheirWayBytes' = (x - 1) + g * u
    BY <2>1, <2>2, <2>3 DEF OnTheirWayBytes
  <2>5. g * u \in Nat
    OBVIOUS
  <2> QED BY <2>4, <2>5
<1>8. pc' = "rresp" => p[1].mask = << >>
  <2>1. Len(mask) = 1 => Len(Tail(mask)) = 0 /\ Tail(mask) \in Seq({0, 1})
    BY <1>4, HeadTailProperties
  <2>2. Len(mask) = 1 => Tail(mask) = << >>
    BY <2>1, EmptySeq
  <2> QED BY <1>2, <1>5, <2>2
<1>9. WholeChunks' /\ MaskLens(pending_read_req_queue)' = MaskLens(p)
  BY <1>1, <1>2 DEF Conserved, WholeChunks, MaskLens
<1>10. pc' \in {"rsp_cb", "rresp"}
  BY <1>2
<1> QED BY <1>1, <1>6, <1>7, <1>8, <1>9, <1>10 DEF Conserved

\* A read that is answered and popped expected nothing any more.
LEMMA ConservedAnswered ==
  ASSUME Inv, Conserved, ReadRespReturn
  PROVE  Conserved'
<1>1. PICK q : q = pending_read_req_queue
  OBVIOUS
<1>2. /\ pc = "rresp" /\ pending_read_req_queue' = Tail(q) /\ pc' = "rsp_cb"
      /\ UNCHANGED <<beginq, active, read_req_list, out_order_rsp_list, read_rsp_queue>>
  BY <1>1 DEF ReadRespReturn, convVars, dramVars
<1>3. q \in Seq(Pending) /\ q # << >> /\ q[1].mask = << >>
  BY <1>1, <1>2 DEF Inv, ClientInv, Conserved
<1>4. Sums(MaskLens(Tail(q)), Len(Tail(q)), OnTheirWayBytes)
  BY <1>1, <1>3, DueTail DEF Conserved
<1>5. /\ OnTheirWayBytes' = OnTheirWayBytes /\ WholeChunks'
      /\ MaskLens(pending_read_req_queue)' = MaskLens(Tail(q))
  BY <1>2 DEF Conserved, OnTheirWayBytes, ReadsOwed, WholeChunks, MaskLens
<1> QED BY <1>2, <1>4, <1>5 DEF Conserved

\* Every step keeps the books of the bytes.
LEMMA NextConserved == ASSUME Inv, Conserved, [Next]_vars PROVE Conserved'
<1> DEFINE Still == UNCHANGED <<beginq, active, read_req_list, out_order_rsp_list,
                                read_rsp_queue, pending_read_req_queue>>
<1>1. ASSUME NEW r \in Requests, NEW cmd \in Commands, req(r, cmd) PROVE Conserved'
  <2>1. GoodCommand(cmd)
    BY CommandsGood
  <2>2. CASE ReqTaken(r, cmd)
    <3>1. paraSendRequest(r, cmd, pc)
      BY <2>2 DEF ReqTaken
    <3> QED BY <2>1, <3>1, ConservedSend
  <2>3. CASE ReqDenied(r, cmd)
    <3>1. Still /\ pc' = pc
      BY <2>3 DEF ReqDenied, convVars, dramVars
    <3> QED BY <3>1, ConservedSame DEF Conserved
  <2> QED BY <1>1, <2>2, <2>3 DEF req
<1>2. CASE ReqCbSend
  <2>1. PICK r \in Requests : paraSendRequest(r, io[r].cmd, "granted")
    <3>1. /\ denied_req_queue # << >> /\ denied_req_queue \in Seq(Requests)
      BY <1>2 DEF ReqCbSend, Inv, ClientInv
    <3>2. Head(denied_req_queue) \in Requests
      BY <3>1, HeadTailProperties
    <3> QED BY <1>2, <3>2 DEF ReqCbSend
  <2>2. GoodCommand(io[r].cmd) /\ pc = "req_cb"
    BY <1>2 DEF Inv, ClientInv, ReqCbSend
  <2> QED BY <2>1, <2>2, ConservedSend
<1>3. CASE GrantReturnWrite \/ GrantReturnRead \/ WriteRespReturn \/ ReqCbExit
  <2>1. Still /\ pc \in {"granted", "wresp", "req_cb"} /\ pc' \in {"wresp", "req_cb", "idle"}
    BY <1>3 DEF GrantReturnWrite, GrantReturnRead, WriteRespReturn, ReqCbExit,
                convVars, dramVars, ddrVars
  <2>2. read_rsp_queue = << >>
    BY <2>1 DEF Conserved
  <2> QED BY <2>1, <2>2, ConservedSame
<1>4. CASE RspCbExit
  <2>1. Still /\ pc' = "match"
    BY <1>4 DEF RspCbExit, convVars, dramVars, ddrVars
  <2> QED BY <1>4, <2>1, ConservedExit, ConservedSame
<1>5. CASE RspCbWrite
  <2>1. Still /\ pc = "wrsp_cb" /\ pc' = "idle"
    BY <1>5 DEF RspCbWrite, dramVars, ddrVars
  <2>2. read_rsp_queue = << >>
    BY <2>1 DEF Conserved
  <2> QED BY <2>1, <2>2, ConservedSame
<1>6. CASE UNCHANGED vars
  <2>1. Still /\ pc' = pc
    BY <1>6 DEF vars, convVars, dramVars, ddrVars
  <2> QED BY <2>1, ConservedSame DEF Conserved
<1>7. CASE \E i \in DOMAIN active : BeginResp(i)
  BY <1>7, ConservedAnswer
<1> QED
  BY <1>1, <1>2, <1>3, <1>4, <1>5, <1>6, <1>7, ConservedEndReq, ConservedMatch,
     ConservedByte, ConservedAnswered
  DEF Next, Handler

\* At first no read is pending and no byte on its way.
LEMMA InitConserved == ASSUME Init PROVE Conserved
<1>1. /\ beginq = << >> /\ active = << >> /\ read_req_list = << >>
      /\ out_order_rsp_list = << >> /\ read_rsp_queue = << >>
      /\ pending_read_req_queue = << >> /\ pc = "idle"
  BY DEF Init, ConvInit
<1>2. ReadsOwed = 0
  BY <1>1, CountEmpty DEF ReadsOwed
<1>3. OnTheirWayBytes = 0
  BY <1>1, <1>2, DdrConstants DEF OnTheirWayBytes
<1>4. Sums(MaskLens(pending_read_req_queue), Len(pending_read_req_queue), OnTheirWayBytes)
  <2>1. Len(pending_read_req_queue) = 0
    BY <1>1
  <2>2. Sums(MaskLens(pending_read_req_queue), 0, 0)
    BY SumsNone
  <2> QED BY <1>3, <2>1, <2>2
<1> QED BY <1>1, <1>4 DEF Conserved, WholeChunks

\* The bytes the pending reads still expect are exactly the ones on their way,
\* in the queue of bytes, the memory or behind it, and when the callback has
\* returned no byte is left over: none is lost, stored twice or taken by
\* another read.
THEOREM BytesConserved == Spec => []ByteConservation
<1>1. Init => Inv /\ Conserved
  BY InitInv, InitConserved
<1>2. Inv /\ Conserved /\ [Next]_vars => (Inv /\ Conserved)'
  BY NextInv, NextConserved
<1>3. ASSUME Inv, Conserved PROVE ByteConservation
  <2>1. PICK q : q = pending_read_req_queue
    OBVIOUS
  <2>2. q \in Seq(Pending) /\ Sums(MaskLens(q), Len(q), OnTheirWayBytes)
    BY <1>3, <2>1, OwedType DEF Conserved
  <2>3. Len(q) \in Nat
    BY <2>2, LenProperties
  <2>4. LET run == CHOOSE f : f = [i \in 0 .. Len(q) |-> IF i = 0 THEN 0
                                                     ELSE f[i - 1] + MaskLens(q)[i]]
        IN run[Len(q)] = OnTheirWayBytes
    BY <2>2, <2>3, SumsRun
  <2>5. MaskDue = OnTheirWayBytes
    BY <2>1, <2>4, Zenon DEF MaskDue
  <2>6. ReadsIn(beginq) = Places(beginq, ReadPayloads)
    <3>1. \A i \in DOMAIN beginq : beginq[i] \in Payload
      BY <1>3, OwedType
    <3> QED BY <3>1 DEF ReadsIn, Places, ReadPayloads
  <2>7. pc \in {"idle", "match"} => read_rsp_queue = << >>
    BY <1>3 DEF Conserved
  <2> QED BY <2>5, <2>6, <2>7 DEF ByteConservation, OnTheirWayBytes, ReadsOwed, CountIn
<1> QED BY <1>1, <1>2, <1>3, PTL DEF Spec

-----------------------------------------------------------------------------
(* The bridge implements AtomicDram.  The argument: the converter will     *)
(* deliver what is Coming; laid end to end behind read_rsp_queue, these    *)
(* are the bytes the pending reads wait for, whose results areads has; and *)
(* replaying the denied requests on the memory that everything sent leaves *)
(* gives amem and the other results.                                       *)

-----------------------------------------------------------------------------
(* A read that is being filled                                             *)

\* A read with this command and mask waits for the bytes v, and will have
\* returned data then.
Fills(cmd, mask, data, v) ==
  LET n == GRANULARITY * num_req(cmd)
      ptr == n - Len(mask)
  IN /\ ~ cmd.is_write /\ data \in Seq(Byte) /\ Len(data) = Len(cmd.data)
     /\ Len(mask) <= n /\ v \in Seq(Byte) /\ Len(v) = Len(mask)
     /\ \A k \in 1 .. Len(mask) : mask[k] = mask_d(cmd)[ptr + k]
     /\ \A b \in 1 .. Len(data) :
          /\ start_ptr(cmd) + b <= ptr => cmd.data[b] = data[b]
          /\ start_ptr(cmd) + b > ptr => v[(start_ptr(cmd) + b) - ptr] = data[b]

\* The numbers of a command: where its bytes start in the aligned range,
\* how many they are and how long the range is.
LEMMA CommandNumbers ==
  ASSUME NEW cmd, GoodCommand(cmd)
  PROVE  /\ start_ptr(cmd) \in Nat /\ Len(cmd.data) \in Nat \ {0}
         /\ num_req(cmd) \in Nat \ {0} /\ GRANULARITY \in Nat \ {0}
         /\ GRANULARITY * num_req(cmd) \in Nat \ {0}
         /\ start_ptr(cmd) + Len(cmd.data) <= GRANULARITY * num_req(cmd)
         /\ end_ptr(cmd) = start_ptr(cmd) + Len(cmd.data)
         /\ req_start_addr(cmd) \in Nat /\ cmd.offset = req_start_addr(cmd) + start_ptr(cmd)
         /\ req_start_addr(cmd) + GRANULARITY * num_req(cmd) <= MemSize
         /\ cmd.data \in Seq(Byte) /\ MemSize \in Nat
<1>1. /\ GRANULARITY \in Nat \ {0} /\ MemSize \in Nat
      /\ cmd.offset \in Nat /\ cmd.data \in Seq(Byte) /\ Len(cmd.data) \in Nat \ {0}
  BY DdrConstants, ConvConstants, EmptySeq DEF GoodCommand, Command
<1>2. /\ req_start_addr(cmd) \in Nat /\ num_req(cmd) \in Nat \ {0}
      /\ req_start_addr(cmd) <= cmd.offset
      /\ cmd.offset + Len(cmd.data) <= req_start_addr(cmd) + GRANULARITY * num_req(cmd)
      /\ req_start_addr(cmd) + GRANULARITY * num_req(cmd) <= MemSize
  BY ChunkRange DEF size
<1>3. PICK n \in Nat \ {0} : n = GRANULARITY * num_req(cmd)
  BY <1>1, <1>2
<1>4. PICK o \in Nat, a \in Nat, l \in Nat \ {0} :
        /\ o = cmd.offset /\ a = req_start_addr(cmd) /\ l = Len(cmd.data)
        /\ a <= o /\ o + l <= a + n
  BY <1>1, <1>2, <1>3
<1>5. PICK s \in Nat : s = o - a
  BY <1>4
<1>6. start_ptr(cmd) = s /\ end_ptr(cmd) = s + l
  BY <1>4, <1>5 DEF start_ptr, end_ptr, size
<1>7. s + l <= n /\ o = a + s
  <2>1. a <= o /\ o + l <= a + n
    BY <1>4
  <2> QED BY <1>5, <2>1
<1> QED BY <1>1, <1>2, <1>3, <1>4, <1>6, <1>7

\* The bytes of memory m in the aligned range of a command.
Aligned(m, cmd) ==
  [k \in 1 .. GRANULARITY * num_req(cmd) |-> m[req_start_addr(cmd) + k - 1]]

\* A new read waits for the aligned range as the memory has it.
LEMMA FillsNew ==
  ASSUME NEW cmd, GoodCommand(cmd), ~ cmd.is_write, NEW m \in Memory, NEW w,
         w = Aligned(m, cmd)
  PROVE  Fills(cmd, mask_d(cmd), Atomic!Load(m, cmd), w) /\ w \in Seq(Byte)
<1>w. w = [k \in 1 .. GRANULARITY * num_req(cmd) |-> m[req_start_addr(cmd) + k - 1]]
  BY DEF Aligned
<1>1. PICK n \in Nat \ {0}, s \in Nat, a \in Nat, l \in Nat \ {0} :
        /\ n = GRANULARITY * num_req(cmd) /\ s = start_ptr(cmd)
        /\ a = req_start_addr(cmd) /\ l = Len(cmd.data)
        /\ s + l <= n /\ cmd.offset = a + s /\ a + n <= MemSize
  BY CommandNumbers
<1>2. MemSize \in Nat /\ Addrs = 0 .. MemSize - 1
  BY ConvConstants DEF Addrs
<1>a. s + l <= n /\ a + n <= MemSize
  BY <1>1
<1>3. \A k \in 1 .. n : w[k] = m[a + k - 1] /\ w[k] \in Byte
  <2> SUFFICES ASSUME NEW k \in 1 .. n PROVE w[k] = m[a + k - 1] /\ w[k] \in Byte
    OBVIOUS
  <2>1. a + k - 1 \in Addrs
    BY <1>a, <1>2
  <2>2. w[k] = m[a + k - 1]
    BY <1>1, <1>w
  <2> QED BY <2>1, <2>2 DEF Memory
<1>4. w \in Seq(Byte) /\ Len(w) = n
  <2>1. w = [k \in 1 .. n |-> m[a + k - 1]]
    BY <1>1, <1>w
  <2>2. \A k \in 1 .. n : m[a + k - 1] \in Byte
    BY <1>3
  <2>3. w \in [1 .. n -> Byte]
    BY <2>1, <2>2, Zenon
  <2>4. ASSUME NEW f \in [1 .. n -> Byte] PROVE f \in Seq(Byte) /\ Len(f) = n
    OBVIOUS
  <2> QED BY <2>3, <2>4
<1>5. PICK d : d = Atomic!Load(m, cmd)
  OBVIOUS
<1>6. d = [i \in 1 .. l |-> m[(a + s) + i - 1]]
  BY <1>1, <1>5 DEF Atomic!Load
<1>7. ASSUME NEW b \in 1 .. l
      PROVE  d[b] = w[s + b] /\ s + b \in 1 .. n /\ d[b] \in Byte
  <2>1. s + b \in 1 .. n /\ (a + s) + b - 1 = a + (s + b) - 1
    BY <1>a
  <2>2. w[s + b] = m[a + (s + b) - 1] /\ w[s + b] \in Byte
    BY <1>3, <2>1
  <2>3. d[b] = m[(a + s) + b - 1]
    BY <1>6
  <2> QED BY <2>1, <2>2, <2>3
<1>8. d \in Seq(Byte) /\ Len(d) = l
  <2>1. \A i \in 1 .. l : m[(a + s) + i - 1] \in Byte
    BY <1>6, <1>7
  <2> QED BY <1>6, <2>1
<1>9. Len(mask_d(cmd)) = n
  BY <1>1 DEF mask_d
<1>10. ASSUME NEW b \in 1 .. l
       PROVE  ~ (s + b <= n - n) /\ w[(s + b) - (n - n)] = d[b]
  <2>1. (s + b) - (n - n) = s + b /\ ~ (s + b <= n - n)
    OBVIOUS
  <2> QED BY <1>7, <2>1
<1>11. \A k \in 1 .. n : (n - n) + k = k
  OBVIOUS
<1>12. PICK mask : mask = mask_d(cmd)
  OBVIOUS
<1>13. /\ Len(mask) = n /\ n <= n /\ Len(d) = Len(cmd.data)
       /\ \A k \in 1 .. n : mask[k] = mask_d(cmd)[(n - n) + k]
  <2>1. \A k \in 1 .. n : mask[k] = mask_d(cmd)[(n - n) + k]
    BY <1>11, <1>12, Zenon
  <2>2. n <= n
    OBVIOUS
  <2> QED BY <1>1, <1>8, <1>9, <1>12, <2>1, <2>2, Zenon
<1>14. /\ \A b \in 1 .. l : start_ptr(cmd) + b <= n - n => cmd.data[b] = d[b]
       /\ \A b \in 1 .. l : start_ptr(cmd) + b > n - n =>
                              w[(start_ptr(cmd) + b) - (n - n)] = d[b]
  BY <1>1, <1>10
<1>15. n = GRANULARITY * num_req(cmd)
  BY <1>1
<1>16. Fills(cmd, mask, d, w)
  BY <1>4, <1>8, <1>13, <1>14, <1>15, Zenon DEF Fills
<1> QED
  BY <1>4, <1>5, <1>12, <1>16

\* A read that waits for no byte is filled.
LEMMA Filled ==
  ASSUME NEW cmd, GoodCommand(cmd), NEW data, NEW v, Fills(cmd, << >>, data, v)
  PROVE  cmd.data = data
<1>1. PICK n \in Nat \ {0}, s \in Nat, l \in Nat \ {0} :
        /\ n = GRANULARITY * num_req(cmd) /\ s = start_ptr(cmd)
        /\ l = Len(cmd.data) /\ s + l <= n
  BY CommandNumbers
<1>2. Len(<< >>) = 0 /\ n - 0 = n
  OBVIOUS
<1>3. /\ data \in Seq(Byte) /\ Len(data) = l
      /\ \A b \in 1 .. l : s + b <= n => cmd.data[b] = data[b]
  BY <1>1, <1>2 DEF Fills
<1>4. \A b \in 1 .. l : cmd.data[b] = data[b]
  BY <1>1, <1>3
<1>5. cmd.data \in Seq(Byte)
  BY CommandNumbers
<1> QED BY <1>1, <1>3, <1>4, <1>5, SeqEqual

\* The shape of a command does not depend on its bytes.
LEMMA SameShape ==
  ASSUME NEW cmd, NEW new, new.offset = cmd.offset, Len(new.data) = Len(cmd.data)
  PROVE  /\ req_start_addr(new) = req_start_addr(cmd) /\ num_req(new) = num_req(cmd)
         /\ start_ptr(new) = start_ptr(cmd) /\ mask_d(new) = mask_d(cmd)
<1>1. size(new) = size(cmd)
  BY DEF size
<1>2. req_start_addr(new) = req_start_addr(cmd)
  BY DEF req_start_addr
<1>3. num_req(new) = num_req(cmd)
  BY <1>1, <1>2 DEF num_req
<1>4. start_ptr(new) = start_ptr(cmd) /\ end_ptr(new) = end_ptr(cmd)
  BY <1>1, <1>2 DEF start_ptr, end_ptr
<1>5. \A i : InRange(new, i) <=> InRange(cmd, i)
  BY <1>4 DEF InRange
<1>6. mask_d(new) = mask_d(cmd)
  BY <1>3, <1>5, Zenon DEF mask_d
<1> QED BY <1>2, <1>3, <1>4, <1>6

\* A place behind p + 1, of m places behind p.
LEMMA PlaceBehind ==
  ASSUME NEW p \in Nat, NEW m \in Nat \ {0}, NEW x \in Nat, x > p + 1, x <= p + m,
         NEW k \in Int, k = x - (p + 1)
  PROVE  k \in 1 .. m - 1 /\ k + 1 = x - p
  OBVIOUS

\* The command of a read after it took byte b, as RspCbByte has it.
WithByte(cmd, mask, b) ==
  LET read_ptr == num_req(cmd) * GRANULARITY - Len(mask)
      byte == IF Head(mask) = 1 THEN b ELSE 0
      filled == IF InRange(cmd, read_ptr)
                THEN [cmd.data EXCEPT ![read_ptr - start_ptr(cmd) + 1] = byte]
                ELSE cmd.data
  IN [cmd EXCEPT !.data = filled]

\* A byte arrives.
LEMMA FillByte ==
  ASSUME NEW cmd, GoodCommand(cmd), NEW mask \in Seq({0, 1}), mask # << >>,
         NEW data, NEW v, Fills(cmd, mask, data, v),
         NEW new, new = WithByte(cmd, mask, Head(v))
  PROVE  /\ Fills(new, Tail(mask), data, Tail(v))
         /\ new.offset = cmd.offset /\ Len(new.data) = Len(cmd.data)
<1>1. PICK n \in Nat \ {0}, s \in Nat, l \in Nat \ {0} :
        /\ n = GRANULARITY * num_req(cmd) /\ s = start_ptr(cmd)
        /\ l = Len(cmd.data) /\ s + l <= n /\ end_ptr(cmd) = s + l
        /\ num_req(cmd) * GRANULARITY = n
  <2>1. GRANULARITY * num_req(cmd) = num_req(cmd) * GRANULARITY
    BY CommandNumbers
  <2> QED BY <2>1, CommandNumbers
<1>a. s + l <= n
  BY <1>1
<1>2. PICK m \in Nat \ {0} : m = Len(mask)
  BY EmptySeq, LenProperties
<1>3. /\ ~ cmd.is_write /\ data \in Seq(Byte) /\ Len(data) = l
      /\ m <= n /\ v \in Seq(Byte) /\ Len(v) = m
      /\ \A k \in 1 .. m : mask[k] = mask_d(cmd)[(n - m) + k]
      /\ \A b \in 1 .. l : /\ s + b <= n - m => cmd.data[b] = data[b]
                           /\ s + b > n - m => v[(s + b) - (n - m)] = data[b]
  BY <1>1, <1>2, Zenon DEF Fills
<1>4. PICK p \in Nat : p = n - m /\ p < n /\ n - (m - 1) = p + 1 /\ n = p + m
  BY <1>3
<1>5. PICK byte, filled :
        /\ byte = IF Head(mask) = 1 THEN Head(v) ELSE 0
        /\ filled = IF InRange(cmd, p)
                    THEN [cmd.data EXCEPT ![p - s + 1] = byte] ELSE cmd.data
        /\ new = [cmd EXCEPT !.data = filled]
  <2>1. num_req(cmd) * GRANULARITY - Len(mask) = p
    BY <1>1, <1>2, <1>4
  <2> QED BY <1>1, <2>1, Zenon DEF WithByte
<1>6. /\ Len(Tail(mask)) = m - 1 /\ \A k \in 1 .. m - 1 : Tail(mask)[k] = mask[k + 1]
      /\ Head(mask) = mask[1]
  BY <1>2, HeadTailProperties
<1>7. /\ Tail(v) \in Seq(Byte) /\ Len(Tail(v)) = m - 1
      /\ \A k \in 1 .. m - 1 : Tail(v)[k] = v[k + 1]
      /\ Head(v) = v[1]
  <2>1. v # << >>
    BY <1>3, EmptySeq
  <2> QED BY <1>3, <2>1, HeadTailProperties
<1>8. cmd.data \in Seq(Byte) /\ cmd \in Command
  BY DEF GoodCommand, Command
<1>9. InRange(cmd, p) <=> s <= p /\ p < s + l
  BY <1>1 DEF InRange
<1>10. /\ Len(filled) = l
       /\ \A b \in 1 .. l : filled[b] = IF s + b = p + 1 THEN byte ELSE cmd.data[b]
  <2>1. cmd.data \in [1 .. l -> Byte] /\ DOMAIN cmd.data = 1 .. l
    BY <1>1, <1>8
  <2>2. CASE InRange(cmd, p)
    <3>1. PICK c \in 1 .. l : c = p - s + 1 /\ s + c = p + 1
      BY <1>9, <2>2
    <3>2. filled = [cmd.data EXCEPT ![c] = byte]
      BY <1>5, <2>2, <3>1, Zenon
    <3>3. filled = [b \in 1 .. l |-> IF b = c THEN byte ELSE cmd.data[b]]
      BY <2>1, <3>2
    <3>4. Len(filled) = l
      BY <3>3
    <3>5. \A b \in 1 .. l : b = c <=> s + b = p + 1
      BY <3>1
    <3> QED BY <3>3, <3>4, <3>5
  <2>3. CASE ~ InRange(cmd, p)
    <3>1. filled = cmd.data
      BY <1>5, <2>3
    <3>2. \A b \in 1 .. l : ~ (s + b = p + 1)
      BY <1>9, <2>3
    <3> QED BY <1>1, <3>1, <3>2
  <2> QED BY <2>2, <2>3
<1>11. /\ new.offset = cmd.offset /\ new.data = filled /\ new.is_write = cmd.is_write
  BY <1>5, <1>8 DEF Command
<1>12. /\ num_req(new) = num_req(cmd) /\ start_ptr(new) = s /\ mask_d(new) = mask_d(cmd)
  BY <1>1, <1>10, <1>11, SameShape
<1>13. ASSUME NEW k \in 1 .. m - 1
       PROVE  Tail(mask)[k] = mask_d(new)[(p + 1) + k]
  <2>a. k + 1 \in 1 .. m /\ p + (k + 1) = (p + 1) + k
    OBVIOUS
  <2>1. k + 1 \in 1 .. m /\ (n - m) + (k + 1) = (p + 1) + k
    BY <1>4, <2>a
  <2> QED BY <1>3, <1>6, <1>12, <2>1
<1>14. ASSUME NEW b \in 1 .. l, s + b <= p + 1
       PROVE  new.data[b] = data[b]
  <2>1. CASE s + b = p + 1
    <3>1. InRange(cmd, p)
      BY <1>9, <2>1
    <3>2. 1 \in 1 .. m /\ (n - m) + 1 = p + 1
      BY <1>4
    <3>3. mask[1] = mask_d(cmd)[p + 1]
      BY <1>3, <3>2
    <3>4. p + 1 \in 1 .. n /\ (p + 1) - 1 = p
      BY <1>4
    <3>a. mask_d(cmd) = [i \in 1 .. n |-> IF InRange(cmd, i - 1) THEN 1 ELSE 0]
      BY <1>1 DEF mask_d
    <3>5. mask_d(cmd)[p + 1] = 1
      BY <3>1, <3>4, <3>a
    <3>6. byte = v[1]
      BY <1>5, <1>6, <1>7, <3>3, <3>5
    <3>7. s + b > n - m /\ (s + b) - (n - m) = 1
      BY <1>4, <2>1
    <3>8. v[1] = data[b]
      BY <1>3, <3>7
    <3> QED BY <1>10, <1>11, <2>1, <3>6, <3>8
  <2>2. CASE s + b # p + 1
    <3>1. s + b <= n - m
      BY <1>4, <1>14, <2>2
    <3> QED BY <1>3, <1>10, <1>11, <2>2, <3>1
  <2> QED BY <2>1, <2>2
<1>15. ASSUME NEW b \in 1 .. l, s + b > p + 1
       PROVE  Tail(v)[(s + b) - (p + 1)] = data[b]
  <2>a. s + b <= p + m
    BY <1>a, <1>4
  <2>c. PICK x \in Nat, k \in Int : x = s + b /\ k = x - (p + 1)
    OBVIOUS
  <2>d. x > p + 1 /\ x <= p + m
    BY <1>15, <2>a, <2>c
  <2>e. k \in 1 .. m - 1 /\ k + 1 = x - p
    BY <2>c, <2>d, PlaceBehind
  <2>b. k \in 1 .. m - 1 /\ k + 1 = (s + b) - p
    BY <2>c, <2>e
  <2>1. k = (s + b) - (p + 1) /\ k + 1 = (s + b) - (n - m)
    BY <1>4, <2>b, <2>c
  <2>2. s + b > n - m
    BY <1>4, <1>15
  <2>3. v[k + 1] = data[b]
    BY <1>3, <2>1, <2>2
  <2> QED BY <1>7, <2>1, <2>b, <2>3
<1>16. m - 1 <= n
  BY <1>3
<1>17. n = GRANULARITY * num_req(new)
  BY <1>1, <1>12
<1>18. Len(data) = Len(new.data)
  BY <1>3, <1>10, <1>11
<1>19. n - (m - 1) = p + 1
  BY <1>4
<1>20. PICK t, u, q : t = Tail(mask) /\ u = Tail(v) /\ q = p + 1
  OBVIOUS
<1>21. /\ Len(t) <= GRANULARITY * num_req(new) /\ Len(u) = Len(t)
       /\ GRANULARITY * num_req(new) - Len(t) = q
       /\ \A k \in 1 .. Len(t) : t[k] = mask_d(new)[q + k]
  BY <1>6, <1>7, <1>13, <1>16, <1>17, <1>19, <1>20
<1>22. /\ ~ new.is_write /\ Len(data) = Len(new.data)
       /\ \A b \in 1 .. Len(data) :
            /\ start_ptr(new) + b <= q => new.data[b] = data[b]
            /\ start_ptr(new) + b > q => u[(start_ptr(new) + b) - q] = data[b]
  BY <1>3, <1>11, <1>12, <1>14, <1>15, <1>18, <1>20
<1>23. data \in Seq(Byte) /\ u \in Seq(Byte)
  BY <1>3, <1>7, <1>20
<1>24. Fills(new, t, data, u)
  BY <1>21, <1>22, <1>23, Zenon DEF Fills
<1> QED
  BY <1>1, <1>10, <1>11, <1>20, <1>24

-----------------------------------------------------------------------------
(* The pending reads                                                       *)

\* What the history holds of an unanswered read.
Answer == [req : Requests, data : Seq(Byte)]

\* The entry e of the queue waits for the bytes v of this answer.
Awaits(e, cmds, answer, v) ==
  answer.req = e.req /\ Fills(cmds[e.req], e.mask, answer.data, v)

\* The last a entries of the queue p, those behind the first k, wait for the
\* bytes of s, each for its element of vals; their answers start ar.
Awaited(p, k, cmds, a, ar, s, vals) ==
  /\ a \in Nat /\ k + a = Len(p) /\ a <= Len(ar)
  /\ vals \in Seq(Seq(Byte)) /\ Len(vals) = a
  /\ \E off : Joined(vals, s, off)
  /\ \A c \in 1 .. a : Awaits(p[k + c], cmds, ar[c], vals[c])

\* The pending reads have the same commands and the same answers.
SameReads(p, k, a, ar, br, cmds, new) ==
  \A c \in 1 .. a : br[c] = ar[c] /\ new[p[k + c].req] = cmds[p[k + c].req]

\* Awaited is about these only.
LEMMA AwaitedSame ==
  ASSUME NEW p, NEW k, NEW cmds, NEW a, NEW ar, NEW s, NEW vals,
         Awaited(p, k, cmds, a, ar, s, vals), NEW new, NEW br, a <= Len(br),
         SameReads(p, k, a, ar, br, cmds, new)
  PROVE  Awaited(p, k, new, a, br, s, vals)
  BY DEF Awaited, Awaits, SameReads

\* A read is added.
LEMMA AwaitedMore ==
  ASSUME NEW p \in Seq(Pending), NEW k \in Nat, NEW cmds, NEW a, NEW ar,
         NEW s \in Seq(Byte), NEW vals, Awaited(p, k, cmds, a, ar, s, vals),
         NEW new, NEW br, a + 1 <= Len(br), Len(br) \in Nat,
         SameReads(p, k, a, ar, br, cmds, new),
         NEW e \in Pending, NEW w \in Seq(Byte), Awaits(e, new, br[a + 1], w)
  PROVE  Awaited(Append(p, e), k, new, a + 1, br, s \o w, Append(vals, w))
<1>1. /\ a \in Nat /\ k + a = Len(p) /\ vals \in Seq(Seq(Byte)) /\ Len(vals) = a
      /\ \A c \in 1 .. a : Awaits(p[k + c], cmds, ar[c], vals[c])
  BY DEF Awaited
<1>2. PICK off : Joined(vals, s, off)
  BY DEF Awaited
<1>3. \E off2 : Joined(Append(vals, w), s \o w, off2)
  BY <1>1, <1>2, JoinedMore
<1>4. /\ Len(Append(p, e)) = (k + a) + 1 /\ Append(p, e)[(k + a) + 1] = e
      /\ \A i \in 1 .. k + a : Append(p, e)[i] = p[i]
  BY <1>1, AppendProperties
<1>5. /\ Append(vals, w) \in Seq(Seq(Byte)) /\ Len(Append(vals, w)) = a + 1
      /\ Append(vals, w)[a + 1] = w
      /\ \A c \in 1 .. a : Append(vals, w)[c] = vals[c]
  BY <1>1, AppendProperties
<1>6. ASSUME NEW c \in 1 .. a + 1
      PROVE  Awaits(Append(p, e)[k + c], new, br[c], Append(vals, w)[c])
  <2>1. CASE c = a + 1
    <3>1. k + c = (k + a) + 1
      BY <1>1, <2>1
    <3> QED BY <1>4, <1>5, <2>1, <3>1
  <2>2. CASE c # a + 1
    <3>a. a \in Nat /\ k \in Nat
      BY <1>1
    <3>1. c \in 1 .. a /\ k + c \in 1 .. k + a
      BY <2>2, <3>a
    <3>2. Append(p, e)[k + c] = p[k + c] /\ Append(vals, w)[c] = vals[c]
      BY <1>4, <1>5, <3>1
    <3>3. Awaits(p[k + c], cmds, ar[c], vals[c])
      BY <1>1, <3>1
    <3>4. br[c] = ar[c] /\ new[p[k + c].req] = cmds[p[k + c].req]
      BY <3>1 DEF SameReads
    <3> QED BY <3>2, <3>3, <3>4 DEF Awaits
  <2> QED BY <2>1, <2>2
<1>7. a + 1 \in Nat /\ k + (a + 1) = (k + a) + 1
  BY <1>1
<1> QED BY <1>3, <1>4, <1>5, <1>6, <1>7 DEF Awaited

\* The entry of an answered read leaves the queue.
LEMMA AwaitedPopped ==
  ASSUME NEW p \in Seq(Pending), p # << >>, NEW cmds, NEW a, NEW ar, NEW s, NEW vals,
         Awaited(p, 1, cmds, a, ar, s, vals)
  PROVE  Awaited(Tail(p), 0, cmds, a, ar, s, vals)
<1>1. a \in Nat /\ 1 + a = Len(p)
  BY DEF Awaited
<1>2. Len(Tail(p)) = a /\ \A c \in 1 .. a : Tail(p)[c] = p[1 + c]
  BY <1>1, HeadTailProperties
<1>3. 0 + a = a /\ \A c \in 1 .. a : 0 + c = c
  BY <1>1
<1> QED BY <1>1, <1>2, <1>3 DEF Awaited

\* The queue p becomes q and the commands change when byte b is taken for r.
TakesByte(p, q, r, mask, cmds, new, b) ==
  /\ p \in Seq(Pending) /\ p # << >> /\ r = p[1].req
  /\ mask = p[1].mask /\ mask # << >>
  /\ Len(q) = Len(p) /\ q[1].req = r /\ q[1].mask = Tail(mask)
  /\ \A c \in 2 .. Len(p) : q[c] = p[c] /\ new[p[c].req] = cmds[p[c].req]
  /\ new[r] = WithByte(cmds[r], mask, b)
  /\ GoodCommand(cmds[r]) /\ GoodCommand(new[r])

\* What has become of r, the oldest read, when it took the first byte of s.
ByteTaken(q, r, mask, new, a, ar, s, vals) ==
  /\ a > 0 /\ ar # << >> /\ Head(ar).req = r
  /\ Len(mask) # 1 => \E u : Awaited(q, 0, new, a, ar, Tail(s), u)
  /\ Len(mask) = 1 => /\ new[r].data = Head(ar).data
                      /\ Awaited(q, 1, new, a - 1, Tail(ar), Tail(s), Tail(vals))

\* The oldest read takes a byte, and is answered when it was the last.
LEMMA AwaitedByte ==
  ASSUME NEW p, NEW q, NEW r, NEW mask, NEW cmds, NEW new, NEW s \in Seq(Byte),
         TakesByte(p, q, r, mask, cmds, new, Head(s)),
         NEW a, NEW ar \in Seq(Answer), NEW vals, Awaited(p, 0, cmds, a, ar, s, vals)
  PROVE  ByteTaken(q, r, mask, new, a, ar, s, vals)
<1>0. /\ p \in Seq(Pending) /\ p # << >> /\ r = p[1].req
      /\ mask = p[1].mask /\ mask # << >>
      /\ Len(q) = Len(p) /\ q[1].req = r /\ q[1].mask = Tail(mask)
      /\ \A c \in 2 .. Len(p) : q[c] = p[c] /\ new[p[c].req] = cmds[p[c].req]
      /\ new[r] = WithByte(cmds[r], mask, Head(s))
      /\ GoodCommand(cmds[r]) /\ GoodCommand(new[r])
  BY DEF TakesByte
<1> USE <1>0
<1>1. PICK b \in Nat : b = Len(ar)
  BY LenProperties
<1>2. /\ a \in Nat \ {0} /\ a = Len(p) /\ a <= b /\ Len(vals) = a
      /\ vals \in Seq(Seq(Byte))
      /\ \A c \in 1 .. a : Awaits(p[c], cmds, ar[c], vals[c])
  <2>1. /\ a \in Nat /\ 0 + a = Len(p) /\ a <= b /\ Len(vals) = a
        /\ vals \in Seq(Seq(Byte))
        /\ \A c \in 1 .. a : Awaits(p[0 + c], cmds, ar[c], vals[c])
    BY <1>1 DEF Awaited
  <2>2. Len(p) # 0
    BY EmptySeq
  <2>3. \A c \in 1 .. a : 0 + c = c
    OBVIOUS
  <2> QED BY <2>1, <2>2, <2>3
<1>3. PICK off : Joined(vals, s, off)
  BY DEF Awaited
<1>4. 1 \in 1 .. a
  BY <1>2
<1>5. Awaits(p[1], cmds, ar[1], vals[1])
  BY <1>2, <1>4
<1>6. PICK v : v = vals[1]
  OBVIOUS
<1>7. ar[1].req = r /\ Fills(cmds[r], mask, ar[1].data, v)
  BY <1>5, <1>6 DEF Awaits
<1>8. v \in Seq(Byte) /\ Len(v) = Len(mask)
  BY <1>7 DEF Fills
<1>9. mask \in Seq({0, 1}) /\ Len(mask) \in Nat \ {0}
  <2>1. p[1] \in Pending
    BY <1>2, <1>4, ElementOfSeq
  <2>2. mask \in Seq({0, 1})
    BY <2>1 DEF Pending
  <2> QED BY <2>2, EmptySeq, LenProperties
<1>10. vals # << >> /\ Head(vals) = v /\ ar # << >> /\ Head(ar) = ar[1]
  BY <1>1, <1>2, <1>6, EmptySeq
<1>11. s # << >> /\ Head(s) = Head(v)
  <2>1. Len(v) <= Len(s) /\ \A y \in 1 .. Len(v) : s[y] = v[y]
    BY <1>2, <1>3, <1>10, JoinedTake
  <2>2. 1 \in 1 .. Len(v) /\ Len(v) > 0
    BY <1>8, <1>9
  <2>3. s[1] = v[1] /\ Len(s) # 0
    BY <2>1, <2>2, LenProperties
  <2> QED BY <1>8, <2>2, <2>3, EmptySeq
<1>12. /\ Fills(new[r], Tail(mask), ar[1].data, Tail(v))
       /\ new[r].offset = cmds[r].offset /\ Len(new[r].data) = Len(cmds[r].data)
  BY <1>7, <1>9, <1>11, FillByte
<1>13. Behind(s, 1) = Tail(s)
  BY DEF Behind
<1>14. CASE Len(mask) # 1
  <2>1. PICK S, h : S = Seq(Byte) /\ h = Head(vals) /\ Len(h) > 1
    <3>1. PICK z \in Nat \ {0} : z = Len(mask)
      BY <1>9
    <3>a. z # 1
      BY <1>14, <3>1, Zenon
    <3>2. z > 1
      BY <3>a
    <3> QED BY <1>8, <1>10, <3>1, <3>2, Zenon
  <2>2. PICK u, nof : u = [vals EXCEPT ![1] = Tail(@)] /\ Joined(u, Tail(s), nof)
    <3>1. PICK B : B = Byte
      OBVIOUS
    <3>2. vals \in Seq(Seq(B)) /\ s \in Seq(B) /\ Len(Head(vals)) > 1
      BY <1>2, <2>1, <3>1, Zenon
    <3>3. \E u, o : u = [vals EXCEPT ![1] = Tail(@)] /\ Joined(u, Behind(s, 1), o)
      BY <1>3, <1>10, <3>2, JoinedTakeOne
    <3> QED BY <1>13, <3>3, Zenon
  <2>3. Tail(v) \in Seq(Byte)
    BY <1>8, <1>9, EmptySeq, HeadTailProperties
  <2>4. /\ u \in Seq(Seq(Byte)) /\ Len(u) = a /\ u[1] = Tail(v)
        /\ \A c \in 2 .. a : u[c] = vals[c]
    <3>1. PICK T, x : T = Seq(Byte) /\ x = Tail(v) /\ x \in T
      BY <2>3
    <3>2. u = [vals EXCEPT ![1] = x]
      BY <1>6, <2>2, <3>1
    <3>3. vals \in Seq(T) /\ 1 \in 1 .. Len(vals)
      BY <1>2, <1>4, <3>1
    <3>4. /\ u \in Seq(T) /\ Len(u) = Len(vals)
          /\ \A c \in 1 .. Len(vals) : u[c] = IF c = 1 THEN x ELSE vals[c]
      BY <3>1, <3>2, <3>3, ExceptSeq
    <3>5. \A c \in 2 .. a : c \in 1 .. a /\ c # 1
      OBVIOUS
    <3> QED BY <1>2, <1>4, <3>1, <3>4, <3>5
  <2>5. ASSUME NEW c \in 1 .. a PROVE Awaits(q[0 + c], new, ar[c], u[c])
    <3>1. 0 + c = c /\ (c = 1 \/ c \in 2 .. a)
      OBVIOUS
    <3>2. CASE c = 1
      BY <1>7, <1>12, <2>4, <3>1, <3>2 DEF Awaits
    <3>3. CASE c \in 2 .. a
      BY <1>0, <1>2, <2>4, <3>1, <3>3 DEF Awaits
    <3> QED BY <3>1, <3>2, <3>3
  <2>6. Awaited(q, 0, new, a, ar, Tail(s), u)
    BY <1>1, <1>2, <2>2, <2>4, <2>5 DEF Awaited
  <2> QED BY <1>2, <1>7, <1>10, <1>12, <1>14, <2>6 DEF ByteTaken
<1>15. CASE Len(mask) = 1
  <2>1. Len(Head(vals)) = 1
    BY <1>8, <1>10, <1>15, Zenon
  <2>2. PICK nof : Joined(Tail(vals), Tail(s), nof)
    <3>1. PICK B : B = Byte
      OBVIOUS
    <3>2. vals \in Seq(Seq(B)) /\ s \in Seq(B)
      BY <1>2, <3>1, Zenon
    <3>3. \E o : Joined(Tail(vals), Behind(s, Len(Head(vals))), o)
      BY <1>3, <1>10, <3>2, JoinedTake
    <3> QED BY <1>13, <2>1, <3>3, Zenon
  <2>3. Tail(mask) = << >>
    <3>1. PICK B, x : B = {0, 1} /\ x = mask /\ x \in Seq(B) /\ Len(x) = 1
      BY <1>9, <1>15
    <3>2. x # << >>
      BY <3>1, EmptySeq
    <3>3. Tail(x) \in Seq(B) /\ Len(Tail(x)) = 0
      BY <3>1, <3>2, HeadTailProperties
    <3>4. Tail(x) = << >>
      BY <3>3, EmptySeq
    <3> QED BY <3>1, <3>4, Zenon
  <2>4. GoodCommand(new[r])
    OBVIOUS
  <2>5. new[r].data = ar[1].data
    BY <1>12, <2>3, <2>4, Filled
  <2>6. /\ Tail(vals) \in Seq(Seq(Byte)) /\ Len(Tail(vals)) = a - 1
        /\ \A c \in 1 .. a - 1 : Tail(vals)[c] = vals[c + 1]
    BY <1>2, <1>10, HeadTailProperties
  <2>7. /\ Len(Tail(ar)) = b - 1 /\ \A c \in 1 .. b - 1 : Tail(ar)[c] = ar[c + 1]
    BY <1>1, <1>10, HeadTailProperties
  <2>8. ASSUME NEW c \in 1 .. a - 1
        PROVE  Awaits(q[1 + c], new, Tail(ar)[c], Tail(vals)[c])
    <3>1. c + 1 \in 2 .. a /\ c + 1 \in 1 .. a /\ 1 + c = c + 1 /\ c \in 1 .. b - 1
      BY <1>2
    <3>2. q[1 + c] = p[c + 1] /\ new[p[c + 1].req] = cmds[p[c + 1].req]
      BY <1>2, <3>1
    <3>3. Awaits(p[c + 1], cmds, ar[c + 1], vals[c + 1])
      BY <1>2, <3>1
    <3> QED BY <2>6, <2>7, <3>1, <3>2, <3>3 DEF Awaits
  <2>9. a - 1 \in Nat /\ 1 + (a - 1) = a /\ a - 1 <= b - 1
    BY <1>2
  <2>10. Awaited(q, 1, new, a - 1, Tail(ar), Tail(s), Tail(vals))
    BY <1>2, <2>2, <2>6, <2>7, <2>8, <2>9 DEF Awaited
  <2> QED BY <1>2, <1>7, <1>10, <1>12, <1>15, <2>5, <2>10 DEF ByteTaken
<1> QED BY <1>14, <1>15

-----------------------------------------------------------------------------
(* The denied requests                                                     *)

\* What the call of a command does to the atomic memory m with x answers: it
\* leaves n and y answers, of the list ar.
Replay(r, cmd, m, n, x, y, ar) ==
  /\ cmd.is_write => n = Atomic!Store(m, cmd) /\ y = x
  /\ ~ cmd.is_write => /\ n = m /\ y = x + 1
                       /\ ar[y] = [req |-> r, data |-> Atomic!Load(m, cmd)]

\* The requests of the queue d behind the first k have been called, but not
\* sent: one after the other they turn fin, which the payloads on their way
\* will leave, into am, the atomic memory, and own the answers from a on.
Queued(d, k, cmds, fin, a, ar, am, ds, ix) ==
  /\ k \in 0 .. Len(d) /\ a \in Nat
  /\ \A j \in k .. Len(d) : ds[j] \in Memory /\ ix[j] \in a .. Len(ar)
  /\ ds[k] = fin /\ ix[k] = a /\ ds[Len(d)] = am /\ ix[Len(d)] = Len(ar)
  /\ \A j \in k + 1 .. Len(d) :
       Replay(d[j], cmds[d[j]], ds[j - 1], ds[j], ix[j - 1], ix[j], ar)

\* A command stores bytes.
LEMMA StoreType ==
  ASSUME NEW cmd, GoodCommand(cmd), NEW m \in Memory
  PROVE  Atomic!Store(m, cmd) \in Memory
<1>1. cmd.data \in Seq(Byte) /\ cmd.offset \in Nat /\ m \in [Addrs -> Byte]
  BY DEF GoodCommand, Command, Memory
<1>2. PICK d, l, o : /\ d = cmd.data /\ l = Len(d) /\ o = cmd.offset
                     /\ l \in Nat /\ o \in Nat
  BY <1>1, LenProperties
<1>3. ASSUME NEW x \in Addrs, x >= o /\ x < o + l
      PROVE  d[x - o + 1] \in Byte
  <2>1. x \in Nat
    BY ConvConstants DEF Addrs
  <2>2. x - o + 1 \in 1 .. l
    BY <1>2, <1>3, <2>1
  <2> QED BY <1>1, <1>2, <2>2, ElementOfSeq
<1>4. Atomic!Store(m, cmd) = [x \in Addrs |-> IF x >= o /\ x < o + l
                                              THEN d[x - o + 1] ELSE m[x]]
  BY <1>1, <1>2 DEF Atomic!Store
<1>5. \A x \in Addrs : (IF x >= o /\ x < o + l THEN d[x - o + 1] ELSE m[x]) \in Byte
  BY <1>1, <1>3
<1> QED BY <1>4, <1>5 DEF Memory

\* With nothing denied the two memories are the same.
LEMMA QueuedNone ==
  ASSUME NEW k, NEW cmds, NEW fin, NEW a, NEW ar, NEW am, NEW ds, NEW ix,
         Queued(<< >>, k, cmds, fin, a, ar, am, ds, ix)
  PROVE  k = 0 /\ fin = am /\ fin \in Memory /\ a = Len(ar) /\ a \in Nat
<1>1. Len(<< >>) = 0
  OBVIOUS
<1>2. /\ k \in 0 .. 0 /\ a \in Nat
      /\ \A j \in k .. 0 : ds[j] \in Memory
      /\ ds[k] = fin /\ ix[k] = a /\ ds[0] = am /\ ix[0] = Len(ar)
  BY <1>1 DEF Queued
<1>3. k = 0
  BY <1>2
<1> QED BY <1>2, <1>3

\* With nothing denied the history is the memory's future.
LEMMA NoneQueued ==
  ASSUME NEW cmds, NEW m \in Memory, NEW ar, Len(ar) \in Nat
  PROVE  \E ds, ix : Queued(<< >>, 0, cmds, m, Len(ar), ar, m, ds, ix)
<1>1. PICK ds, ix : ds = [j \in 0 .. 0 |-> m] /\ ix = [j \in 0 .. 0 |-> Len(ar)]
  OBVIOUS
<1>2. Len(<< >>) = 0 /\ 0 + 1 .. 0 = {} /\ \A j \in 0 .. 0 : j = 0
  OBVIOUS
<1>3. ds[0] = m /\ ix[0] = Len(ar) /\ Len(ar) \in Len(ar) .. Len(ar)
  BY <1>1
<1>4. Queued(<< >>, 0, cmds, m, Len(ar), ar, m, ds, ix)
  BY <1>2, <1>3 DEF Queued
<1> QED BY <1>4

\* What Replay says does not depend on other answers.
LEMMA ReplaySame ==
  ASSUME NEW r, NEW cmd, NEW m, NEW n, NEW x, NEW y, NEW ar,
         Replay(r, cmd, m, n, x, y, ar), NEW br, br[y] = ar[y]
  PROVE  Replay(r, cmd, m, n, x, y, br)
  BY DEF Replay

\* Only the commands of the denied requests matter.
LEMMA QueuedSame ==
  ASSUME NEW d, NEW k, NEW cmds, NEW fin, NEW a, NEW ar, NEW am, NEW ds, NEW ix,
         Queued(d, k, cmds, fin, a, ar, am, ds, ix),
         NEW new, \A j \in k + 1 .. Len(d) : new[d[j]] = cmds[d[j]]
  PROVE  Queued(d, k, new, fin, a, ar, am, ds, ix)
  BY DEF Queued

\* Another request is denied.
LEMMA QueuedMore ==
  ASSUME NEW d \in Seq(Requests), NEW k, NEW cmds, NEW fin, NEW a, NEW ar, NEW am,
         NEW ds, NEW ix, Queued(d, k, cmds, fin, a, ar, am, ds, ix), Len(ar) \in Nat,
         NEW r \in Requests, NEW new, \A j \in k + 1 .. Len(d) : new[d[j]] = cmds[d[j]],
         NEW br, Len(br) \in Nat, Len(ar) <= Len(br),
         \A c \in 1 .. Len(ar) : br[c] = ar[c],
         NEW bm \in Memory, Replay(r, new[r], am, bm, Len(ar), Len(br), br)
  PROVE  \E es, jx : Queued(Append(d, r), k, new, fin, a, br, bm, es, jx)
<1>1. PICK n \in Nat, u \in Nat, v \in Nat :
        n = Len(d) /\ u = Len(ar) /\ v = Len(br) /\ u <= v
  BY LenProperties
<1>2. /\ k \in 0 .. n /\ a \in Nat
      /\ \A j \in k .. n : ds[j] \in Memory /\ ix[j] \in a .. u
      /\ ds[k] = fin /\ ix[k] = a /\ ds[n] = am /\ ix[n] = u
      /\ \A j \in k + 1 .. n :
           Replay(d[j], cmds[d[j]], ds[j - 1], ds[j], ix[j - 1], ix[j], ar)
  BY <1>1, Zenon DEF Queued
<1>3. PICK q : q = Append(d, r)
  OBVIOUS
<1>4. /\ Len(q) = n + 1 /\ q[n + 1] = r /\ \A j \in 1 .. n : q[j] = d[j]
  BY <1>1, <1>3, AppendProperties
<1>5. PICK es, jx : /\ es = [j \in 0 .. n + 1 |-> IF j = n + 1 THEN bm ELSE ds[j]]
                    /\ jx = [j \in 0 .. n + 1 |-> IF j = n + 1 THEN v ELSE ix[j]]
  OBVIOUS
<1>6. /\ \A j \in 0 .. n : es[j] = ds[j] /\ jx[j] = ix[j]
      /\ es[n + 1] = bm /\ jx[n + 1] = v
  <2>1. \A j \in 0 .. n : j \in 0 .. n + 1 /\ j # n + 1
    OBVIOUS
  <2>2. n + 1 \in 0 .. n + 1
    OBVIOUS
  <2> QED BY <1>5, <2>1, <2>2
<1>7. ASSUME NEW j \in k .. n + 1 PROVE es[j] \in Memory /\ jx[j] \in a .. v
  <2>1. CASE j = n + 1
    <3>1. a <= u
      BY <1>2
    <3> QED BY <1>1, <1>2, <1>6, <2>1, <3>1
  <2>2. CASE j # n + 1
    <3>1. j \in k .. n /\ j \in 0 .. n
      BY <1>2, <2>2
    <3>2. ix[j] \in a .. u
      BY <1>2, <3>1
    <3>3. ix[j] \in a .. v
      BY <1>1, <1>2, <3>2
    <3> QED BY <1>2, <1>6, <3>1, <3>3
  <2> QED BY <2>1, <2>2
<1>8. ASSUME NEW j \in k + 1 .. n + 1
      PROVE  Replay(q[j], new[q[j]], es[j - 1], es[j], jx[j - 1], jx[j], br)
  <2>1. CASE j = n + 1
    <3>1. j - 1 = n /\ n \in 0 .. n
      BY <2>1
    <3>2. q[j] = r /\ es[j - 1] = am /\ es[j] = bm /\ jx[j - 1] = u /\ jx[j] = v
      BY <1>2, <1>4, <1>6, <2>1, <3>1
    <3> QED BY <1>1, <3>2, Zenon
  <2>2. CASE j # n + 1
    <3>1. j \in k + 1 .. n /\ j \in 0 .. n /\ j - 1 \in 0 .. n /\ j \in 1 .. n
          /\ j \in k .. n /\ j - 1 \in k .. n
      BY <1>2, <2>2
    <3>2. /\ q[j] = d[j] /\ es[j - 1] = ds[j - 1] /\ es[j] = ds[j]
          /\ jx[j - 1] = ix[j - 1] /\ jx[j] = ix[j] /\ new[d[j]] = cmds[d[j]]
      BY <1>1, <1>4, <1>6, <3>1
    <3>3. Replay(d[j], cmds[d[j]], ds[j - 1], ds[j], ix[j - 1], ix[j], ar)
      BY <1>2, <3>1
    <3>4. ix[j] \in 0 .. u /\ ix[j - 1] \in 0 .. u
      BY <1>2, <3>1
    <3>5. CASE cmds[d[j]].is_write
      BY <3>2, <3>3, <3>5 DEF Replay
    <3>6. CASE ~ cmds[d[j]].is_write
      <4>1. ix[j] = ix[j - 1] + 1
        BY <3>3, <3>6 DEF Replay
      <4>2. ix[j] \in 1 .. u
        BY <3>4, <4>1
      <4>3. br[ix[j]] = ar[ix[j]]
        BY <1>1, <4>2
      <4>4. Replay(d[j], cmds[d[j]], ds[j - 1], ds[j], ix[j - 1], ix[j], br)
        BY <3>3, <4>3, ReplaySame
      <4> QED BY <3>2, <4>4, Zenon
    <3> QED BY <3>5, <3>6
  <2> QED BY <2>1, <2>2
<1>9. k \in 0 .. n + 1 /\ es[k] = fin /\ jx[k] = a
  BY <1>2, <1>6
<1>10. Queued(q, k, new, fin, a, br, bm, es, jx)
  BY <1>1, <1>2, <1>4, <1>6, <1>7, <1>8, <1>9, Zenon DEF Queued
<1> QED BY <1>3, <1>10

\* The oldest is sent,
LEMMA QueuedSent ==
  ASSUME NEW d \in Seq(Requests), d # << >>, NEW cmds, NEW fin, NEW a, NEW ar, NEW am,
         NEW ds, NEW ix, Queued(d, 0, cmds, fin, a, ar, am, ds, ix), Len(ar) \in Nat
  PROVE  /\ Replay(d[1], cmds[d[1]], fin, ds[1], a, ix[1], ar)
         /\ Queued(d, 1, cmds, ds[1], ix[1], ar, am, ds, ix)
         /\ fin \in Memory /\ ds[1] \in Memory /\ ix[1] \in a .. Len(ar) /\ a \in Nat
<1>1. PICK n \in Nat \ {0}, u \in Nat : n = Len(d) /\ u = Len(ar)
  BY EmptySeq, LenProperties
<1>2. /\ a \in Nat
      /\ \A j \in 0 .. n : ds[j] \in Memory /\ ix[j] \in a .. u
      /\ ds[0] = fin /\ ix[0] = a /\ ds[n] = am /\ ix[n] = u
      /\ \A j \in 0 + 1 .. n :
           Replay(d[j], cmds[d[j]], ds[j - 1], ds[j], ix[j - 1], ix[j], ar)
  BY <1>1, Zenon DEF Queued
<1>3. Replay(d[1], cmds[d[1]], fin, ds[1], a, ix[1], ar)
  <2>1. 1 \in 0 + 1 .. n /\ 1 - 1 = 0
    OBVIOUS
  <2>2. Replay(d[1], cmds[d[1]], ds[1 - 1], ds[1], ix[1 - 1], ix[1], ar)
    BY <1>2, <2>1, Zenon
  <2> QED BY <1>2, <2>1, <2>2
<1>4. ASSUME NEW j \in 1 .. n PROVE ix[j] \in ix[1] .. u
  <2>1. ix[1] \in a .. u /\ ix[j] \in a .. u
    BY <1>2
  <2>2. ix[1] <= ix[j]
    <3> DEFINE B == {i \in Nat : i \in 1 .. n /\ ix[i] < ix[1]}
    <3>a. SUFFICES ASSUME ix[j] < ix[1] PROVE FALSE
      BY <1>2, <2>1
    <3>1. B # {}
      BY <3>a
    <3>2. PICK i \in B : \A y \in B : i <= y
      BY <3>1, LeastNat
    <3>3. i \in 2 .. n /\ i - 1 \in 1 .. n /\ i \in 0 + 1 .. n /\ ix[i] < ix[1]
      BY <2>1, <3>2
    <3>4. i - 1 \notin B /\ ix[i - 1] \in a .. u /\ ix[i] \in a .. u
      BY <1>2, <3>2, <3>3
    <3>5. ix[i - 1] >= ix[1]
      BY <1>2, <2>1, <3>3, <3>4
    <3>6. ix[i] = ix[i - 1] \/ ix[i] = ix[i - 1] + 1
      <4>1. Replay(d[i], cmds[d[i]], ds[i - 1], ds[i], ix[i - 1], ix[i], ar)
        BY <1>2, <3>3
      <4> QED BY <4>1 DEF Replay
    <3> QED BY <1>2, <2>1, <3>3, <3>4, <3>5, <3>6
  <2> QED BY <1>2, <2>1, <2>2
<1>5. \A j \in 1 .. n : j \in 0 .. n
  OBVIOUS
<1>6. \A j \in 1 + 1 .. n : j \in 0 + 1 .. n
  OBVIOUS
<1>7. 1 \in 0 .. n /\ ix[1] \in Nat
  BY <1>2
<1>8. Queued(d, 1, cmds, ds[1], ix[1], ar, am, ds, ix)
  BY <1>1, <1>2, <1>4, <1>5, <1>6, <1>7, Zenon DEF Queued
<1>9. 0 \in 0 .. n
  OBVIOUS
<1> QED BY <1>1, <1>2, <1>3, <1>7, <1>8, <1>9

\* and leaves the queue.
LEMMA QueuedPopped ==
  ASSUME NEW d \in Seq(Requests), d # << >>, NEW cmds, NEW fin, NEW a, NEW ar, NEW am,
         NEW ds, NEW ix, Queued(d, 1, cmds, fin, a, ar, am, ds, ix)
  PROVE  \E es, jx : Queued(Tail(d), 0, cmds, fin, a, ar, am, es, jx)
<1>1. PICK n \in Nat \ {0} : n = Len(d)
  BY EmptySeq, LenProperties
<1>2. /\ a \in Nat
      /\ \A j \in 1 .. n : ds[j] \in Memory /\ ix[j] \in a .. Len(ar)
      /\ ds[1] = fin /\ ix[1] = a /\ ds[n] = am /\ ix[n] = Len(ar)
      /\ \A j \in 1 + 1 .. n :
           Replay(d[j], cmds[d[j]], ds[j - 1], ds[j], ix[j - 1], ix[j], ar)
  BY <1>1, Zenon DEF Queued
<1>3. PICK t : t = Tail(d)
  OBVIOUS
<1>4. Len(t) = n - 1 /\ \A j \in 1 .. n - 1 : t[j] = d[j + 1]
  BY <1>1, <1>3, HeadTailProperties
<1>5. PICK es, jx : /\ es = [j \in 0 .. n - 1 |-> ds[j + 1]]
                    /\ jx = [j \in 0 .. n - 1 |-> ix[j + 1]]
  OBVIOUS
<1>6. \A j \in 0 .. n - 1 : es[j] = ds[j + 1] /\ jx[j] = ix[j + 1] /\ j + 1 \in 1 .. n
  BY <1>5
<1>7. /\ 0 \in 0 .. n - 1 /\ n - 1 \in 0 .. n - 1 /\ 0 + 1 = 1 /\ (n - 1) + 1 = n
      /\ n - 1 \in Nat
  OBVIOUS
<1>8. ASSUME NEW j \in 0 + 1 .. n - 1
      PROVE  Replay(t[j], cmds[t[j]], es[j - 1], es[j], jx[j - 1], jx[j], ar)
  <2>1. /\ j \in 1 .. n - 1 /\ j \in 0 .. n - 1 /\ j - 1 \in 0 .. n - 1
        /\ j + 1 \in 1 + 1 .. n /\ (j - 1) + 1 = (j + 1) - 1
    OBVIOUS
  <2>2. /\ t[j] = d[j + 1] /\ es[j - 1] = ds[(j + 1) - 1] /\ es[j] = ds[j + 1]
        /\ jx[j - 1] = ix[(j + 1) - 1] /\ jx[j] = ix[j + 1]
    BY <1>4, <1>6, <2>1
  <2>3. Replay(d[j + 1], cmds[d[j + 1]], ds[(j + 1) - 1], ds[j + 1], ix[(j + 1) - 1],
               ix[j + 1], ar)
    BY <1>2, <2>1, Zenon
  <2> QED BY <2>2, <2>3, Zenon
<1>9. /\ \A j \in 0 .. n - 1 : es[j] \in Memory /\ jx[j] \in a .. Len(ar)
      /\ es[0] = fin /\ jx[0] = a /\ es[n - 1] = am /\ jx[n - 1] = Len(ar)
  BY <1>2, <1>6, <1>7
<1>10. Queued(t, 0, cmds, fin, a, ar, am, es, jx)
  BY <1>2, <1>4, <1>7, <1>8, <1>9, Zenon DEF Queued
<1> QED BY <1>3, <1>10

\* The oldest answer is given.
LEMMA QueuedAnswered ==
  ASSUME NEW d \in Seq(Requests), NEW k, NEW cmds, NEW fin, NEW a, NEW ar \in Seq(Answer),
         NEW am, NEW ds, NEW ix, Queued(d, k, cmds, fin, a, ar, am, ds, ix),
         a > 0, ar # << >>
  PROVE  \E jx : Queued(d, k, cmds, fin, a - 1, Tail(ar), am, ds, jx)
<1>1. PICK n \in Nat, u \in Nat \ {0} : n = Len(d) /\ u = Len(ar)
  BY EmptySeq, LenProperties
<1>2. /\ k \in 0 .. n /\ a \in Nat
      /\ \A j \in k .. n : ds[j] \in Memory /\ ix[j] \in a .. u
      /\ ds[k] = fin /\ ix[k] = a /\ ds[n] = am /\ ix[n] = u
      /\ \A j \in k + 1 .. n :
           Replay(d[j], cmds[d[j]], ds[j - 1], ds[j], ix[j - 1], ix[j], ar)
  BY <1>1, Zenon DEF Queued
<1>3. PICK t : t = Tail(ar)
  OBVIOUS
<1>4. Len(t) = u - 1 /\ \A c \in 1 .. u - 1 : t[c] = ar[c + 1]
  BY <1>1, <1>3, HeadTailProperties
<1>5. PICK jx : jx = [j \in k .. n |-> ix[j] - 1]
  OBVIOUS
<1>6. \A j \in k .. n : jx[j] = ix[j] - 1 /\ jx[j] \in a - 1 .. u - 1
  BY <1>2, <1>5
<1>7. k \in k .. n /\ n \in k .. n /\ a - 1 \in Nat
  BY <1>2
<1>8. ASSUME NEW j \in k + 1 .. n
      PROVE  Replay(d[j], cmds[d[j]], ds[j - 1], ds[j], jx[j - 1], jx[j], t)
  <2>1. j \in k .. n /\ j - 1 \in k .. n
    BY <1>2
  <2>2. /\ jx[j] = ix[j] - 1 /\ jx[j - 1] = ix[j - 1] - 1
        /\ ix[j] \in a .. u /\ ix[j - 1] \in a .. u
    BY <1>2, <1>6, <2>1
  <2>3. Replay(d[j], cmds[d[j]], ds[j - 1], ds[j], ix[j - 1], ix[j], ar)
    BY <1>2
  <2>4. CASE cmds[d[j]].is_write
    BY <2>2, <2>3, <2>4 DEF Replay
  <2>5. CASE ~ cmds[d[j]].is_write
    <3>1. /\ ds[j] = ds[j - 1] /\ ix[j] = ix[j - 1] + 1
          /\ ar[ix[j]] = [req |-> d[j], data |-> Atomic!Load(ds[j - 1], cmds[d[j]])]
      BY <2>3, <2>5 DEF Replay
    <3>2. PICK x, y : x = ix[j - 1] /\ y = ix[j] /\ x \in a .. u /\ y \in a .. u
                      /\ y = x + 1
      BY <2>2, <3>1
    <3>a. /\ a \in Nat /\ a > 0 /\ u \in Nat /\ x \in Int /\ y \in Int
          /\ a <= x /\ y <= u /\ y = x + 1
      BY <1>1, <1>2, <3>2
    <3>3. y - 1 \in 1 .. u - 1 /\ (y - 1) + 1 = y /\ y - 1 = (x - 1) + 1
      BY <3>a
    <3>4. t[y - 1] = ar[y]
      BY <1>4, <3>3
    <3>5. jx[j] = y - 1 /\ jx[j - 1] = x - 1
      BY <2>2, <3>2
    <3>6. /\ jx[j] = jx[j - 1] + 1
          /\ t[jx[j]] = [req |-> d[j], data |-> Atomic!Load(ds[j - 1], cmds[d[j]])]
      BY <3>1, <3>2, <3>3, <3>4, <3>5
    <3> QED BY <2>5, <3>1, <3>6, Zenon DEF Replay
  <2> QED BY <2>4, <2>5
<1>9. jx[k] = a - 1 /\ jx[n] = u - 1
  BY <1>2, <1>6, <1>7
<1>10. Queued(d, k, cmds, fin, a - 1, t, am, ds, jx)
  BY <1>1, <1>2, <1>4, <1>6, <1>7, <1>8, <1>9, Zenon DEF Queued
<1> QED BY <1>3, <1>10

-----------------------------------------------------------------------------
(* What the payloads of a command do                                       *)

\* The payloads of a write, served one after the other, store its bytes.
LEMMA PayloadsStore ==
  ASSUME NEW cmd, GoodCommand(cmd), cmd.is_write, NEW m \in Memory
  PROVE  \E es : Trace(Payloads(cmd), m, Atomic!Store(m, cmd), es)
<1>b. PICK s \in Nat, z \in Nat \ {0}, sp \in Nat, t \in Nat \ {0} :
        /\ s = req_start_addr(cmd) /\ z = Len(cmd.data) /\ sp = start_ptr(cmd)
        /\ t = GRANULARITY * num_req(cmd) /\ sp + z <= t /\ end_ptr(cmd) = sp + z
        /\ cmd.offset = s + sp
  BY CommandNumbers
<1>c. PICK c \in Nat \ {0}, G \in Nat \ {0} : c = num_req(cmd) /\ G = GRANULARITY
  BY CommandNumbers
<1>d. PICK o \in Nat : o = s + sp
  OBVIOUS
<1>1. /\ c = num_req(cmd) /\ s = req_start_addr(cmd) /\ G = GRANULARITY
      /\ z = Len(cmd.data) /\ o = cmd.offset /\ sp = start_ptr(cmd)
      /\ o = s + sp /\ t = G * c /\ sp + z <= t /\ end_ptr(cmd) = sp + z
  BY <1>b, <1>c, <1>d, Zenon
<1>a. o = s + sp /\ sp + z <= t
  BY <1>1
<1>2. cmd.is_write = TRUE /\ cmd.data \in Seq(Byte)
  BY DEF GoodCommand, Command
<1>3. PICK n \in Nat \ {0}, l \in Nat \ {0} :
        n = num_subreq(G, TRUE) /\ l = sub_len(G, TRUE) /\ l * n = G
  BY <1>1, SubRange
<1>4. PICK data, strobe : /\ data = data_q(cmd)
                          /\ strobe = [i \in 1 .. t |-> mask_d(cmd)[i] = 1]
  OBVIOUS
<1>5. ASSUME NEW i \in 1 .. t
      PROVE  /\ strobe[i] <=> i - 1 >= sp /\ i - 1 < sp + z
             /\ strobe[i] = (mask_d(cmd)[i] = 1)
             /\ i - 1 >= sp /\ i - 1 < sp + z => data[i] = cmd.data[i - sp]
             /\ data[i] \in Byte
  <2>1. InRange(cmd, i - 1) <=> i - 1 >= sp /\ i - 1 < sp + z
    BY <1>1 DEF InRange
  <2>2. mask_d(cmd)[i] = IF InRange(cmd, i - 1) THEN 1 ELSE 0
    BY <1>1 DEF mask_d
  <2>3. strobe[i] = (mask_d(cmd)[i] = 1)
    BY <1>4
  <2>4. data[i] = IF InRange(cmd, i - 1) THEN cmd.data[i - sp] ELSE 0
    BY <1>1, <1>4 DEF data_q
  <2>5. ASSUME i - 1 >= sp, i - 1 < sp + z PROVE cmd.data[i - sp] \in Byte
    <3>1. i - sp \in 1 .. z
      BY <2>5
    <3> QED BY <1>1, <1>2, <3>1, ElementOfSeq
  <2>6. 0 \in Byte
    BY ConvConstants
  <2>7. (mask_d(cmd)[i] = 1) <=> i - 1 >= sp /\ i - 1 < sp + z
    BY <2>1, <2>2
  <2>8. strobe[i] <=> i - 1 >= sp /\ i - 1 < sp + z
    BY <2>3, <2>7, Zenon
  <2>9. data[i] \in Byte
    BY <2>1, <2>4, <2>5, <2>6
  <2>10. i - 1 >= sp /\ i - 1 < sp + z => data[i] = cmd.data[i - sp]
    BY <2>1, <2>4
  <2> QED BY <2>3, <2>8, <2>9, <2>10, Zenon
<1>6. PICK N \in Nat : N = c * n /\ l * N = t
  <2>1. PICK N \in Nat : N = c * n
    OBVIOUS
  <2>2. l * (c * n) = (l * n) * c
    OBVIOUS
  <2>3. l * N = G * c
    BY <1>3, <2>1, <2>2, Zenon
  <2> QED BY <1>1, <2>1, <2>3, Zenon
<1>7. PICK ps : ps = Payloads(cmd)
  OBVIOUS
<1>8. PICK wb, ws :
        /\ wb = [k \in 0 .. c - 1 |-> [i \in 1 .. G |-> data_q(cmd)[k * G + i]]]
        /\ ws = [k \in 0 .. c - 1 |-> [i \in 1 .. G |-> mask_d(cmd)[k * G + i] = 1]]
  OBVIOUS
<1>9. /\ Len(ps) = N
      /\ \A j \in 1 .. N :
           ps[j] = SubPayload((j - 1) % n, s + ((j - 1) \div n) * G, G, TRUE,
                     [i \in 1 .. G |-> data_q(cmd)[((j - 1) \div n) * G + i]],
                     [i \in 1 .. G |-> mask_d(cmd)[((j - 1) \div n) * G + i] = 1])
  BY <1>1, <1>2, <1>3, <1>6, <1>7 DEF Payloads
<1>10. ASSUME NEW j \in 1 .. N
       PROVE  /\ ps[j].is_write /\ ps[j].addr = s + (j - 1) * l /\ ps[j].len = l
              /\ \A k \in 1 .. l : /\ ps[j].data[k] = data[(j - 1) * l + k]
                                   /\ ps[j].strobe[k] = strobe[(j - 1) * l + k]
  <2>1. PICK k, i : k = (j - 1) \div n /\ i = (j - 1) % n /\ k \in 0 .. c - 1
                    /\ i \in 0 .. n - 1 /\ j - 1 = n * k + i
    <3>1. j - 1 \in Nat /\ j - 1 < N
      OBVIOUS
    <3>2. j - 1 < c * n
      BY <1>6, <3>1, Zenon
    <3>3. PICK a \in Nat : a = j - 1 /\ a < c * n
      BY <3>1, <3>2, Zenon
    <3>4. /\ a \div n \in 0 .. c - 1 /\ a % n \in 0 .. n - 1
          /\ a = n * (a \div n) + (a % n)
      BY <3>3, QuotientBelow, DivMod
    <3> QED BY <3>3, <3>4, Zenon
  <2>2. (j - 1) * l = k * G + i * l
    <3>1. \A kk \in Nat, ii \in Nat : (n * kk + ii) * l = kk * (l * n) + ii * l
      OBVIOUS
    <3>2. k \in Nat /\ i \in Nat
      BY <2>1
    <3>3. (n * k + i) * l = k * (l * n) + i * l
      BY <3>1, <3>2, Zenon
    <3> QED BY <1>3, <2>1, <3>3, Zenon
  <2>3. PICK d \in Nat, e \in Nat, f \in Nat :
               /\ d = k * G /\ e = i * l /\ f = (j - 1) * l
               /\ d + G <= t /\ e + l <= G /\ f = d + e
    <3>1. k * G \in Nat /\ k * G + G <= G * c
      BY <2>1, PieceInside
    <3>2. i * l \in Nat /\ i * l + l <= l * n
      BY <2>1, PieceInside
    <3>3. PICK d \in Nat, e \in Nat : /\ d = k * G /\ e = i * l
                                      /\ d + G <= t /\ e + l <= G
      BY <1>1, <1>3, <3>1, <3>2, Zenon
    <3>4. (j - 1) * l = d + e
      BY <2>2, <3>3, Zenon
    <3>5. d + e \in Nat
      OBVIOUS
    <3> QED BY <3>3, <3>4, <3>5
  <2>a. d + G <= t /\ e + l <= G /\ f = d + e
    BY <2>3
  <2>4. PICK w1, w2 : /\ w1 = [x \in 1 .. G |-> data_q(cmd)[d + x]]
                      /\ w2 = [x \in 1 .. G |-> mask_d(cmd)[d + x] = 1]
    OBVIOUS
  <2>5. ps[j] = SubPayload(i, s + d, G, TRUE, w1, w2)
    BY <1>9, <2>1, <2>3, <2>4
  <2>6. ps[j] = [addr |-> s + d + e, len |-> l, is_write |-> TRUE,
                 data |-> [x \in 1 .. l |-> w1[e + x]],
                 strobe |-> [x \in 1 .. l |-> w2[e + x]]]
    BY <1>3, <2>3, <2>5 DEF SubPayload
  <2>7. /\ ps[j].is_write /\ ps[j].addr = s + d + e /\ ps[j].len = l
        /\ \A x \in 1 .. l : ps[j].data[x] = w1[e + x] /\ ps[j].strobe[x] = w2[e + x]
    BY <2>6
  <2>8. ASSUME NEW x \in 1 .. l
        PROVE  ps[j].data[x] = data[f + x] /\ ps[j].strobe[x] = strobe[f + x]
    <3>1. e + x \in 1 .. G /\ d + (e + x) = f + x /\ f + x \in 1 .. t
      BY <2>a
    <3>2. w1[e + x] = data[f + x]
      BY <1>4, <2>4, <3>1
    <3>3. w2[e + x] = (mask_d(cmd)[f + x] = 1)
      BY <2>4, <3>1
    <3>4. strobe[f + x] = (mask_d(cmd)[f + x] = 1)
      BY <1>5, <3>1
    <3> QED BY <2>7, <3>2, <3>3, <3>4
  <2>9. s + d + e = s + f
    BY <2>a
  <2> QED BY <2>3, <2>7, <2>8, <2>9
<1>11. Pieces(ps, s, N, l, data, strobe)
  BY <1>9, <1>10, Zenon DEF Pieces
<1>12. \A i \in 1 .. l * N : data[i] \in Byte
  BY <1>5, <1>6
<1>13. PICK es : Trace(ps, m, StoreAt(m, s, l * N, data, strobe), es)
  BY <1>1, <1>3, <1>6, <1>11, <1>12, PiecesStore
<1>14. StoreAt(m, s, l * N, data, strobe) = Atomic!Store(m, cmd)
  <2>1. t = l * N
    BY <1>6
  <2>2. m \in [Addrs -> Byte] /\ DOMAIN m = Addrs
    BY DEF Memory
  <2>3. ASSUME NEW x \in Addrs
        PROVE  (IF x >= s /\ x < s + t /\ strobe[x - s + 1] THEN data[x - s + 1] ELSE m[x])
                 = IF x >= o /\ x < o + z THEN cmd.data[x - o + 1] ELSE m[x]
    <3>1. x \in Nat
      BY ConvConstants DEF Addrs
    <3>2. CASE x >= o /\ x < o + z
      <4>1. x - s + 1 \in 1 .. t /\ x >= s /\ x < s + t
        BY <1>a, <3>1, <3>2
      <4>2. /\ (x - s + 1) - 1 >= sp /\ (x - s + 1) - 1 < sp + z
            /\ (x - s + 1) - sp = x - o + 1
        BY <1>a, <3>1, <3>2
      <4>3. strobe[x - s + 1] /\ data[x - s + 1] = cmd.data[x - o + 1]
        BY <1>5, <4>1, <4>2
      <4> QED BY <3>2, <4>1, <4>3
    <3>3. CASE ~ (x >= o /\ x < o + z)
      <4>1. CASE x >= s /\ x < s + t
        <5>1. x - s + 1 \in 1 .. t
          BY <3>1, <4>1
        <5>2. ~ ((x - s + 1) - 1 >= sp /\ (x - s + 1) - 1 < sp + z)
          BY <1>a, <3>1, <3>3
        <5>3. ~ strobe[x - s + 1]
          BY <1>5, <5>1, <5>2
        <5> QED BY <3>3, <5>3
      <4>2. CASE ~ (x >= s /\ x < s + t)
        BY <3>3, <4>2
      <4> QED BY <4>1, <4>2
    <3> QED BY <3>2, <3>3
  <2>4. StoreAt(m, s, t, data, strobe) =
          [x \in Addrs |-> IF x >= o /\ x < o + z THEN cmd.data[x - o + 1] ELSE m[x]]
    BY <2>3, Zenon DEF StoreAt
  <2>5. Atomic!Store(m, cmd) =
          [x \in Addrs |-> IF x >= o /\ x < o + z THEN cmd.data[x - o + 1] ELSE m[x]]
    BY <1>1, <2>2 DEF Atomic!Store
  <2> QED BY <2>1, <2>4, <2>5
<1> QED BY <1>7, <1>13, <1>14

\* more is what the payloads of a read fetch from memory m, and w all of it.
Fetches(more, m, cmd, w) ==
  /\ more \in Seq(Seq(Byte)) /\ Len(more) = num_req(cmd)
  /\ Len(Payloads(cmd)) = num_req(cmd)
  /\ \A j \in 1 .. Len(more) : /\ more[j] = Bits(m, Payloads(cmd)[j])
                               /\ Len(more[j]) = GRANULARITY
  /\ \E off : Joined(more, w, off)

\* The payloads of a read fetch the aligned range, chunk after chunk.
LEMMA PayloadsLoad ==
  ASSUME NEW cmd, GoodCommand(cmd), ~ cmd.is_write, NEW m \in Memory,
         NEW w, w = Aligned(m, cmd)
  PROVE  \E more : Fetches(more, m, cmd, w)
<1>1. PICK c \in Nat \ {0}, s \in Nat, G \in Nat \ {0}, t \in Nat \ {0} :
        c = num_req(cmd) /\ s = req_start_addr(cmd) /\ G = GRANULARITY /\ t = G * c
  BY CommandNumbers
<1>2. cmd.is_write = FALSE
  BY DEF GoodCommand, Command
<1>3. num_subreq(G, FALSE) = 1 /\ sub_len(G, FALSE) = G
  BY DEF num_subreq, sub_len, Splits
<1>4. w \in Seq(Byte) /\ Len(w) = t /\ w = [k \in 1 .. t |-> m[s + k - 1]]
  <2>1. w \in Seq(Byte)
    BY FillsNew
  <2>2. PICK u, v : /\ u = GRANULARITY * num_req(cmd) /\ v = req_start_addr(cmd)
                    /\ w = [k \in 1 .. u |-> m[v + k - 1]]
    BY Zenon DEF Aligned
  <2>3. w = [k \in 1 .. t |-> m[s + k - 1]]
    <3>1. u = t /\ v = s
      BY <1>1, <2>2, Zenon
    <3> QED BY <2>2, <3>1, Zenon
  <2>4. DOMAIN w = 1 .. t
    BY <2>3, Zenon
  <2>5. Len(w) = t
    <3>1. PICK n \in Nat : n = Len(w) /\ 1 .. n = 1 .. t
      BY <2>1, <2>4, LenProperties, Zenon
    <3>2. t \in 1 .. t
      OBVIOUS
    <3>3. t \in 1 .. n
      BY <3>1, <3>2, Zenon
    <3>4. n \in 1 .. n
      BY <3>3
    <3>5. n \in 1 .. t
      BY <3>1, <3>4, Zenon
    <3>6. n = t
      BY <3>3, <3>5
    <3> QED BY <3>1, <3>6, Zenon
  <2> QED BY <2>1, <2>3, <2>5, Zenon
<1>5. PICK ps : ps = Payloads(cmd)
  OBVIOUS
<1>6. ASSUME NEW j \in 1 .. c PROVE ps[j].addr = s + (j - 1) * G /\ ps[j].len = G
  <2>1. /\ c * 1 = c /\ (j - 1) % 1 = 0 /\ (j - 1) \div 1 = j - 1
        /\ 0 * G = 0 /\ (j - 1) * G \in Nat
    <3>1. c * 1 = c /\ (j - 1) % 1 = 0 /\ (j - 1) \div 1 = j - 1
      OBVIOUS
    <3>2. 0 * G = 0
      OBVIOUS
    <3>3. (j - 1) * G \in Nat
      OBVIOUS
    <3> QED BY <3>1, <3>2, <3>3
  <2>2. PICK w1, w2 : ps[j] = SubPayload(0, s + (j - 1) * G, G, FALSE, w1, w2)
    BY <1>1, <1>2, <1>3, <1>5, <2>1 DEF Payloads
  <2>3. PICK d \in Nat : d = (j - 1) * G
    BY <2>1
  <2>a. ps[j] = SubPayload(0, s + d, G, FALSE, w1, w2)
    BY <2>2, <2>3, Zenon
  <2>c. ps[j] = [addr |-> (s + d) + 0 * G, len |-> G, is_write |-> FALSE,
                 data |-> << >>, strobe |-> << >>]
    BY <1>3, <2>a DEF SubPayload
  <2>b. ps[j].addr = (s + d) + 0 * G /\ ps[j].len = G
    BY <2>c
  <2>4. ps[j].addr = (s + d) + 0 /\ ps[j].len = G
    BY <2>1, <2>b, Zenon
  <2>5. (s + d) + 0 = s + d
    OBVIOUS
  <2> QED BY <2>3, <2>4, <2>5, Zenon
<1>7. Len(ps) = c
  <2>1. c * 1 = c /\ c \in Nat
    OBVIOUS
  <2>2. PICK f : ps = [j \in 1 .. c * 1 |-> f[j]]
    <3>1. PICK f : f = ps
      OBVIOUS
    <3>2. ps = [j \in 1 .. c * 1 |-> ps[j]]
      BY <1>1, <1>2, <1>3, <1>5 DEF Payloads
    <3> QED BY <3>1, <3>2
  <2>3. ps = [j \in 1 .. c |-> f[j]]
    BY <2>1, <2>2, Zenon
  <2> QED BY <2>1, <2>3
<1>8. PICK more : more = [j \in 1 .. c |-> Bits(m, ps[j])]
  OBVIOUS
<1>9. ASSUME NEW j \in 1 .. c
      PROVE  /\ more[j] \in Seq(Byte) /\ Len(more[j]) = G
             /\ \A y \in 1 .. G : more[j][y] = w[(j - 1) * G + y]
  <2>1. PICK d \in Nat : d = (j - 1) * G /\ d + G <= t
    <3>1. j - 1 \in 0 .. c - 1
      OBVIOUS
    <3>2. (j - 1) * G \in Nat /\ (j - 1) * G + G <= G * c
      BY <3>1, PieceInside
    <3> QED BY <1>1, <3>2, Zenon
  <2>a. d + G <= t
    BY <2>1
  <2>2. more[j] = [y \in 1 .. G |-> m[(s + d) + y - 1]]
    BY <1>6, <1>8, <2>1 DEF Bits
  <2>3. ASSUME NEW y \in 1 .. G
        PROVE  m[(s + d) + y - 1] = w[d + y] /\ w[d + y] \in Byte
    <3>1. d + y \in 1 .. t /\ (s + d) + y - 1 = s + (d + y) - 1
      BY <2>a
    <3>2. w[d + y] = m[s + (d + y) - 1]
      BY <1>4, <3>1
    <3> QED BY <1>4, <3>1, <3>2, ElementOfSeq
  <2>4. \A y \in 1 .. G : more[j][y] = w[d + y]
    BY <2>2, <2>3
  <2>5. more[j] \in [1 .. G -> Byte]
    BY <2>2, <2>3
  <2>6. more[j] \in Seq(Byte) /\ Len(more[j]) = G
    BY <1>1, <2>5, FunIsSeq
  <2> QED BY <2>1, <2>4, <2>6
<1>10. more \in Seq(Seq(Byte)) /\ Len(more) = c
  <2>1. PICK S : S = Seq(Byte)
    OBVIOUS
  <2>2. more \in [1 .. c -> S]
    BY <1>8, <1>9, <2>1
  <2> QED BY <1>1, <2>1, <2>2, FunIsSeq
<1>11. \E off : Joined(more, w, off)
  <2>3. Len(more) = c /\ Len(w) = G * c
    BY <1>1, <1>4, <1>10, Zenon
  <2>5. \A j \in 1 .. c : /\ Len(more[j]) = G
                          /\ \A y \in 1 .. G : more[j][y] = w[(j - 1) * G + y]
    BY <1>9
  <2>6. EvenPieces(more, w, G, c)
    BY <2>3, <2>5, Zenon DEF EvenPieces
  <2>7. c \in Nat
    OBVIOUS
  <2> QED BY <2>6, <2>7, JoinedEqual
<1>12. \A j \in 1 .. c : more[j] = Bits(m, ps[j])
  BY <1>8
<1>13. Fetches(more, m, cmd, w)
  BY <1>1, <1>5, <1>7, <1>9, <1>10, <1>11, <1>12, Zenon DEF Fetches
<1> QED BY <1>13

-----------------------------------------------------------------------------
(* The bytes on their way                                                  *)

\* t is what want will bring: GRANULARITY bytes for each read on its way.
Owing(want, t) ==
  /\ want \in Seq(Seq(Byte)) /\ t \in Seq(Byte)
  /\ \A c \in 1 .. Len(want) : Len(want[c]) = GRANULARITY
  /\ Len(t) = GRANULARITY * Len(want)
  /\ \E off : Joined(want, t, off)

\* New reads owe their bytes behind the others.
LEMMA OwingMore ==
  ASSUME NEW want, NEW t, Owing(want, t), NEW more \in Seq(Seq(Byte)),
         \A c \in 1 .. Len(more) : Len(more[c]) = GRANULARITY,
         NEW w \in Seq(Byte), Len(w) = GRANULARITY * Len(more), NEW off, Joined(more, w, off)
  PROVE  Owing(want \o more, t \o w)
<1>1. /\ want \in Seq(Seq(Byte)) /\ t \in Seq(Byte)
      /\ \A c \in 1 .. Len(want) : Len(want[c]) = GRANULARITY
      /\ Len(t) = GRANULARITY * Len(want)
  BY DEF Owing
<1>2. PICK o : Joined(want, t, o)
  BY DEF Owing
<1>3. PICK B, S : B = Byte /\ S = Seq(Byte)
  OBVIOUS
<1>4. /\ want \in Seq(Seq(B)) /\ more \in Seq(Seq(B)) /\ t \in Seq(B) /\ w \in Seq(B)
      /\ want \in Seq(S) /\ more \in Seq(S)
  BY <1>1, <1>3, Zenon
<1>5. \E n : Joined(want \o more, t \o w, n)
  BY <1>2, <1>4, JoinedBoth, Zenon
<1>6. PICK m \in Nat, n \in Nat, G \in Nat \ {0} :
        m = Len(want) /\ n = Len(more) /\ G = GRANULARITY
  BY <1>4, LenProperties, DdrConstants
<1>7. /\ want \o more \in Seq(S) /\ Len(want \o more) = m + n
      /\ \A c \in 1 .. m + n : (want \o more)[c] = IF c <= m THEN want[c] ELSE more[c - m]
  BY <1>4, <1>6, ConcatProperties
<1>8. PICK u : u = want \o more
  OBVIOUS
<1>9. ASSUME NEW c \in 1 .. m + n PROVE Len(u[c]) = G
  <2>1. CASE c <= m
    <3>1. c \in 1 .. m /\ u[c] = want[c]
      BY <1>7, <1>8, <2>1
    <3> QED BY <1>1, <1>6, <3>1
  <2>2. CASE c > m
    <3>1. c - m \in 1 .. n /\ u[c] = more[c - m]
      BY <1>7, <1>8, <2>2
    <3> QED BY <1>6, <3>1
  <2> QED BY <2>1, <2>2
<1>10. t \o w \in Seq(Byte) /\ Len(t \o w) = GRANULARITY * (m + n)
  <2>1. PICK x \in Nat, y \in Nat : x = Len(t) /\ y = Len(w)
    BY <1>1, LenProperties
  <2>2. t \o w \in Seq(Byte) /\ Len(t \o w) = x + y
    BY <1>1, <2>1, ConcatProperties
  <2>3. G * (m + n) = G * m + G * n
    OBVIOUS
  <2>4. x = G * m /\ y = G * n
    BY <1>1, <1>6, <2>1, Zenon
  <2>5. Len(t \o w) = G * (m + n)
    BY <2>2, <2>3, <2>4, Zenon
  <2> QED BY <1>6, <2>2, <2>5, Zenon
<1>11. Owing(u, t \o w)
  BY <1>3, <1>5, <1>6, <1>7, <1>8, <1>9, <1>10, Zenon DEF Owing
<1> QED BY <1>8, <1>11

\* The oldest piece that is owed comes first in the stream.
LEMMA OwingTake ==
  ASSUME NEW want, NEW t, Owing(want, t), want # << >>
  PROVE  /\ Head(want) \in Seq(Byte) /\ Len(Head(want)) = GRANULARITY
         /\ \E u : Owing(Tail(want), u) /\ t = Head(want) \o u
<1>1. /\ want \in Seq(Seq(Byte)) /\ t \in Seq(Byte)
      /\ \A c \in 1 .. Len(want) : Len(want[c]) = GRANULARITY
      /\ Len(t) = GRANULARITY * Len(want)
  BY DEF Owing
<1>2. PICK o : Joined(want, t, o)
  BY DEF Owing
<1>3. PICK B, S : B = Byte /\ S = Seq(Byte) /\ want \in Seq(Seq(B)) /\ t \in Seq(B)
                  /\ want \in Seq(S)
  BY <1>1
<1>4. PICK n \in Nat \ {0}, G \in Nat \ {0} : n = Len(want) /\ G = GRANULARITY
  BY <1>1, EmptySeq, LenProperties, DdrConstants
<1>5. /\ Head(want) = want[1] /\ Head(want) \in Seq(Byte)
      /\ Tail(want) \in Seq(S) /\ Len(Tail(want)) = n - 1
      /\ \A c \in 1 .. n - 1 : Tail(want)[c] = want[c + 1]
  BY <1>3, <1>4, HeadTailProperties
<1>6. PICK h : h = Head(want) /\ h \in Seq(Byte) /\ Len(h) = G
  BY <1>1, <1>4, <1>5
<1>7. /\ Len(Head(want)) <= Len(t)
      /\ \A y \in 1 .. Len(Head(want)) : t[y] = Head(want)[y]
      /\ \E new : Joined(Tail(want), Behind(t, Len(Head(want))), new)
  BY <1>2, <1>3, JoinedTake
<1>8. PICK l \in Nat : l = Len(t)
  BY <1>1, LenProperties
<1>9. PICK u : u = Behind(t, G)
  OBVIOUS
<1>10. G \in 0 .. l /\ \A y \in 1 .. G : t[y] = h[y]
  BY <1>6, <1>7, <1>8
<1>11. /\ u \in Seq(Byte) /\ Len(u) = l - G
       /\ \A y \in 1 .. l - G : u[y] = t[G + y]
  BY <1>1, <1>8, <1>9, <1>10, BehindProperties
<1>12. t = h \o u
  <2>a. PICK x \in Nat : x = Len(u) /\ G + x = l /\ l - G = x
    BY <1>10, <1>11
  <2>b. /\ h \o u \in Seq(Byte) /\ Len(h \o u) = G + x
        /\ \A y \in 1 .. G + x : (h \o u)[y] = IF y <= G THEN h[y] ELSE u[y - G]
    <3>1. h \in Seq(Byte) /\ u \in Seq(Byte) /\ Len(h) = G /\ Len(u) = x
      BY <1>6, <1>11, <2>a
    <3> QED BY <3>1, ConcatProperties
  <2>c. PICK v : v = h \o u
    OBVIOUS
  <2>1. /\ v \in Seq(Byte) /\ Len(v) = l
        /\ \A y \in 1 .. l : v[y] = IF y <= G THEN h[y] ELSE u[y - G]
    BY <2>a, <2>b, <2>c, Zenon
  <2>3. ASSUME NEW y \in 1 .. l PROVE v[y] = t[y]
    <3>1. CASE y <= G
      BY <1>10, <2>1, <3>1
    <3>2. CASE y > G
      <4>1. y - G \in 1 .. l - G /\ G + (y - G) = y
        BY <1>10, <3>2
      <4>2. u[y - G] = t[y]
        BY <1>11, <4>1
      <4>3. ~ (y <= G)
        BY <3>2
      <4> QED BY <2>1, <4>2, <4>3
    <3> QED BY <3>1, <3>2
  <2> QED BY <1>1, <1>8, <2>c, <2>1, <2>3, SeqEqual
<1>13. l - G = G * (n - 1)
  <2>1. G * (n - 1) = G * n - G
    OBVIOUS
  <2>2. l = G * n
    BY <1>1, <1>4, <1>8, Zenon
  <2> QED BY <2>1, <2>2
<1>14. \A c \in 1 .. n - 1 : Len(Tail(want)[c]) = G
  <2>1. \A c \in 1 .. n - 1 : c + 1 \in 1 .. n
    OBVIOUS
  <2> QED BY <1>1, <1>4, <1>5, <2>1
<1>15. \E new : Joined(Tail(want), u, new)
  BY <1>6, <1>7, <1>9, Zenon
<1>16. Owing(Tail(want), u)
  BY <1>3, <1>4, <1>5, <1>11, <1>13, <1>14, <1>15, Zenon DEF Owing
<1> QED BY <1>4, <1>6, <1>12, <1>16

-----------------------------------------------------------------------------
(* The invariant that joins the bridge to the atomic memory                *)

\* The commands of the requests.
Cmds == [r \in Requests |-> io[r].cmd]

\* The bytes the pending reads wait for are those in read_rsp_queue and those
\* on their way, as the answers say; the memory that the payloads on their way
\* will leave is the atomic memory but for the denied requests.
Bridged(want, t, fin, vals, a, ds, ix) ==
  /\ Coming(want, fin) /\ Owing(want, t)
  /\ Awaited(pending_read_req_queue, PendingFrom - 1, Cmds, a, areads,
             read_rsp_queue \o t, vals)
  /\ Queued(denied_req_queue, DeniedFrom - 1, Cmds, fin, a, areads, amem, ds, ix)

\* The bridge and the atomic memory agree.
Agrees == \E want, t, fin, vals, a, ds, ix : Bridged(want, t, fin, vals, a, ds, ix)

\* The inductive invariant.
HInv == Inv /\ Owned /\ areads \in Seq(Answer) /\ Agrees

\* The types of what Bridged speaks of.
LEMMA BridgeTypes ==
  ASSUME Inv
  PROVE  /\ pending_read_req_queue \in Seq(Pending) /\ denied_req_queue \in Seq(Requests)
         /\ read_rsp_queue \in Seq(Byte) /\ io \in [Requests -> IoReq]
         /\ \A r \in Requests : Cmds[r] = io[r].cmd /\ GoodCommand(Cmds[r])
         /\ DOMAIN Cmds = Requests
<1>1. /\ pending_read_req_queue \in Seq(Pending) /\ denied_req_queue \in Seq(Requests)
      /\ io \in [Requests -> IoReq] /\ \A r \in Requests : GoodCommand(io[r].cmd)
  BY DEF Inv, ClientInv
<1>2. read_rsp_queue \in Seq(Byte)
  BY DEF Inv, ConvInv, ConvTypeOK
<1> QED BY <1>1, <1>2 DEF Cmds

\* The end of the denied requests is the atomic memory.
LEMMA QueuedEnd ==
  ASSUME NEW d \in Seq(Requests), NEW k, NEW cmds, NEW fin, NEW a, NEW ar, NEW am,
         NEW ds, NEW ix, Queued(d, k, cmds, fin, a, ar, am, ds, ix)
  PROVE  am \in Memory /\ fin \in Memory /\ a \in Nat
<1>1. PICK n \in Nat : n = Len(d)
  BY LenProperties
<1>2. /\ k \in 0 .. n /\ a \in Nat /\ \A j \in k .. n : ds[j] \in Memory
      /\ ds[k] = fin /\ ds[n] = am
  BY <1>1 DEF Queued
<1>3. k \in k .. n /\ n \in k .. n
  BY <1>2
<1> QED BY <1>2, <1>3

\* What the atomic memory answers a read.
LEMMA AnswerType ==
  ASSUME NEW r \in Requests, NEW cmd, GoodCommand(cmd), ~ cmd.is_write, NEW m \in Memory
  PROVE  [req |-> r, data |-> Atomic!Load(m, cmd)] \in Answer
<1>1. PICK w : w = Aligned(m, cmd)
  OBVIOUS
<1>2. Fills(cmd, mask_d(cmd), Atomic!Load(m, cmd), w)
  BY <1>1, FillsNew
<1>3. Atomic!Load(m, cmd) \in Seq(Byte)
  BY <1>2 DEF Fills
<1> QED BY <1>3 DEF Answer

\* Bytes laid behind bytes.
LEMMA BytesBehind ==
  ASSUME NEW x \in Seq(Byte), NEW y \in Seq(Byte), NEW z \in Seq(Byte)
  PROVE  (x \o y) \o z = x \o (y \o z)
  BY ConcatAssociative

\* A request is sent: what it will bring or store is as its call said.
LEMMA SendBridge ==
  ASSUME Inv, NEW r \in Requests, NEW cmd, GoodCommand(cmd), NEW next,
         paraSendRequest(r, cmd, next),
         NEW want, NEW t, NEW fin \in Memory, Coming(want, fin), Owing(want, t),
         NEW k \in {0, 1}, NEW cmds, NEW a, NEW ar, NEW vals,
         Awaited(pending_read_req_queue, k, cmds, a, ar, read_rsp_queue \o t, vals),
         NEW to, NEW b, NEW br, Len(br) \in Nat, b \in 0 .. Len(br),
         Replay(r, cmd, fin, to, a, b, br),
         NEW new, new[r] = cmd,
         SameReads(pending_read_req_queue, k, a, ar, br, cmds, new)
  PROVE  \E u, s, v : /\ Coming(u, to)' /\ Owing(u, s)
                      /\ Awaited(pending_read_req_queue', k, new, b, br,
                                 read_rsp_queue' \o s, v)
<1>1. PICK p, rrq : /\ p = pending_read_req_queue /\ rrq = read_rsp_queue
                    /\ p \in Seq(Pending) /\ rrq \in Seq(Byte)
  BY BridgeTypes
<1>2. cmd.is_write \in BOOLEAN /\ ~ MisalignedStrobe(GRANULARITY, cmd.is_write)
  BY SubRange DEF GoodCommand, Command
<1>3. PICK e : e = [req |-> r, mask |-> mask_d(cmd)]
  OBVIOUS
<1>4. /\ dram_send_req(Payloads(cmd)) /\ read_rsp_queue' = rrq
      /\ pending_read_req_queue' = IF cmd.is_write THEN p ELSE Append(p, e)
  BY <1>1, <1>2, <1>3 DEF paraSendRequest, dram_send_req
<1>5. /\ Payloads(cmd) \in Seq(Payload)
      /\ \A j \in 1 .. Len(Payloads(cmd)) : Payloads(cmd)[j].is_write = cmd.is_write
  BY PayloadsGood
<1>6. ConvInv
  BY DEF Inv
<1>7. a \in Nat
  BY DEF Awaited
<1>8. Awaited(p, k, cmds, a, ar, rrq \o t, vals)
  BY <1>1, Zenon
<1>9. SameReads(p, k, a, ar, br, cmds, new)
  BY <1>1, Zenon
<1>10. CASE cmd.is_write
  <2>1. to = Atomic!Store(fin, cmd) /\ b = a
    BY <1>10 DEF Replay
  <2>2. PICK es : Trace(Payloads(cmd), fin, to, es)
    BY <1>10, <2>1, PayloadsStore
  <2>3. Coming(want, to)'
    BY <1>4, <1>5, <1>6, <1>10, <2>2, ComingWrites
  <2>4. Awaited(p, k, new, b, br, rrq \o t, vals)
    <3>1. a <= Len(br)
      BY <2>1
    <3>2. Awaited(p, k, new, a, br, rrq \o t, vals)
      BY <1>8, <1>9, <3>1, AwaitedSame
    <3> QED BY <2>1, <3>2, Zenon
  <2>5. pending_read_req_queue' = p
    BY <1>4, <1>10
  <2>6. Awaited(pending_read_req_queue', k, new, b, br, read_rsp_queue' \o t, vals)
    BY <1>4, <2>4, <2>5, Zenon
  <2> QED BY <2>3, <2>6
<1>11. CASE ~ cmd.is_write
  <2>1. to = fin /\ b = a + 1 /\ br[b] = [req |-> r, data |-> Atomic!Load(fin, cmd)]
    BY <1>11 DEF Replay
  <2>2. PICK w : w = Aligned(fin, cmd)
    OBVIOUS
  <2>3. Fills(cmd, mask_d(cmd), Atomic!Load(fin, cmd), w) /\ w \in Seq(Byte)
    BY <1>11, <2>2, FillsNew
  <2>4. PICK more : /\ more \in Seq(Seq(Byte)) /\ Len(more) = num_req(cmd)
                    /\ Len(Payloads(cmd)) = num_req(cmd)
                    /\ \A j \in 1 .. Len(more) : /\ more[j] = Bits(fin, Payloads(cmd)[j])
                                                 /\ Len(more[j]) = GRANULARITY
                    /\ \E off : Joined(more, w, off)
    <3>1. PICK more : Fetches(more, fin, cmd, w)
      BY <1>11, <2>2, PayloadsLoad
    <3> QED BY <3>1, Zenon DEF Fetches
  <2>5. Len(w) = GRANULARITY * Len(more)
    <3>1. Len(w) = Len(mask_d(cmd))
      BY <2>3 DEF Fills
    <3>2. Len(mask_d(cmd)) = GRANULARITY * num_req(cmd)
      <4>1. PICK n \in Nat : n = GRANULARITY * num_req(cmd)
        BY CommandNumbers
      <4>2. mask_d(cmd) = [i \in 1 .. n |-> IF InRange(cmd, i - 1) THEN 1 ELSE 0]
        BY <4>1 DEF mask_d
      <4> QED BY <4>1, <4>2
    <3> QED BY <2>4, <3>1, <3>2, Zenon
  <2>6. Coming(want \o more, fin)'
    <3>1. /\ \A j \in 1 .. Len(Payloads(cmd)) : ~ Payloads(cmd)[j].is_write
          /\ Len(more) = Len(Payloads(cmd))
          /\ \A j \in 1 .. Len(Payloads(cmd)) : more[j] = Bits(fin, Payloads(cmd)[j])
      BY <1>5, <1>11, <2>4
    <3> QED BY <1>4, <1>5, <1>6, <2>4, <3>1, ComingReads
  <2>7. Owing(want \o more, t \o w)
    BY <2>3, <2>4, <2>5, OwingMore, Zenon
  <2>8. e \in Pending /\ e.req = r /\ e.mask = mask_d(cmd)
    BY <1>3, MaskGood DEF Pending
  <2>9. Awaits(e, new, br[a + 1], w)
    <3>1. br[a + 1].req = r /\ br[a + 1].data = Atomic!Load(fin, cmd)
      BY <2>1
    <3>2. new[e.req] = cmd
      BY <2>8
    <3> QED BY <2>3, <2>8, <3>1, <3>2, Zenon DEF Awaits
  <2>10. rrq \o t \in Seq(Byte) /\ t \in Seq(Byte)
    <3>1. t \in Seq(Byte)
      BY DEF Owing
    <3> QED BY <1>1, <3>1, ConcatProperties
  <2>11. Awaited(Append(p, e), k, new, a + 1, br, (rrq \o t) \o w, Append(vals, w))
    <3>1. a + 1 <= Len(br) /\ k \in Nat
      BY <2>1
    <3>2. PICK s : s = rrq \o t /\ s \in Seq(Byte) /\ Awaited(p, k, cmds, a, ar, s, vals)
      BY <1>8, <2>10
    <3>3. w \in Seq(Byte) /\ e \in Pending /\ p \in Seq(Pending)
      BY <1>1, <2>3, <2>8
    <3>4. Awaited(Append(p, e), k, new, a + 1, br, s \o w, Append(vals, w))
      BY <1>9, <2>9, <3>1, <3>2, <3>3, AwaitedMore
    <3> QED BY <3>2, <3>4, Zenon
  <2>12. (rrq \o t) \o w = rrq \o (t \o w)
    BY <1>1, <2>3, <2>10, BytesBehind
  <2>13. pending_read_req_queue' = Append(p, e)
    BY <1>4, <1>11
  <2>14. Awaited(pending_read_req_queue', k, new, b, br, read_rsp_queue' \o (t \o w),
                 Append(vals, w))
    BY <1>4, <2>1, <2>11, <2>12, <2>13, Zenon
  <2> QED BY <2>1, <2>6, <2>7, <2>14, Zenon
<1> QED BY <1>10, <1>11

\* What the members of the two queues are doing.
LEMMA QueueMembers ==
  ASSUME Inv, Owned
  PROVE  /\ PendingFrom - 1 \in {0, 1} /\ DeniedFrom - 1 \in {0, 1}
         /\ \A j \in PendingFrom .. Len(pending_read_req_queue) :
              /\ pending_read_req_queue[j].req \in Reads
              /\ \A i \in PendingFrom .. Len(pending_read_req_queue) :
                   pending_read_req_queue[i].req = pending_read_req_queue[j].req => i = j
         /\ \A j \in DeniedFrom .. Len(denied_req_queue) : denied_req_queue[j] \in Denied
         /\ \A r \in Requests : r \in Denied <=> io[r].st = "denied"
         /\ \A r \in Requests : r \in Reads <=> io[r].st = "pending" /\ ~ io[r].cmd.is_write
<1>1. PICK n, p : /\ n = PendingFrom /\ p = pending_read_req_queue
                  /\ n \in {1, 2} /\ Len(p) \in Nat
                  /\ \A i \in 1 .. Len(p) : PendingReqs[i] = p[i].req
  BY QueueTypes, Zenon
<1>2. /\ \A i \in n .. Len(p) : PendingReqs[i] \in Reads
      /\ \A i \in n .. Len(p), j \in n .. Len(p) : PendingReqs[i] = PendingReqs[j] => i = j
  BY <1>1 DEF Owned, Each
<1>3. \A i \in n .. Len(p) : i \in 1 .. Len(p)
  BY <1>1
<1>4. \A j \in n .. Len(p) : /\ p[j].req \in Reads
                             /\ \A i \in n .. Len(p) : p[i].req = p[j].req => i = j
  <2>1. \A i \in n .. Len(p) : PendingReqs[i] = p[i].req
    BY <1>1, <1>3, Zenon
  <2> QED BY <1>2, <2>1
<1>5. /\ PendingFrom - 1 \in {0, 1} /\ DeniedFrom - 1 \in {0, 1}
  BY QueueTypes
<1>6. \A j \in DeniedFrom .. Len(denied_req_queue) : denied_req_queue[j] \in Denied
  BY DEF Owned, Each
<1> QED BY <1>1, <1>4, <1>5, <1>6 DEF Denied, Reads

\* The parts of the agreement after a step make it whole.
LEMMA Rebuilt ==
  ASSUME NEW want, NEW t, NEW fin, NEW vals, NEW a, NEW ds, NEW ix,
         Coming(want, fin)', Owing(want, t),
         Awaited(pending_read_req_queue', PendingFrom' - 1, Cmds', a, areads',
                 read_rsp_queue' \o t, vals),
         Queued(denied_req_queue', DeniedFrom' - 1, Cmds', fin, a, areads', amem', ds, ix)
  PROVE  Agrees'
  BY DEF Agrees, Bridged

\* What the history gains with a call.
LEMMA Observed ==
  ASSUME Inv, areads \in Seq(Answer), NEW r \in Requests, NEW cmd, GoodCommand(cmd),
         amem \in Memory, Observe(r, cmd)
  PROVE  /\ areads' \in Seq(Answer) /\ Len(areads) \in Nat /\ Len(areads') \in Nat
         /\ Len(areads) <= Len(areads') /\ amem' \in Memory
         /\ \A c \in 1 .. Len(areads) : areads'[c] = areads[c]
         /\ Replay(r, cmd, amem, amem', Len(areads), Len(areads'), areads')
<1>1. Len(areads) \in Nat
  BY LenProperties
<1>2. CASE cmd.is_write
  <2>1. amem' = Atomic!Store(amem, cmd) /\ areads' = areads
    BY <1>2 DEF Observe
  <2>2. amem' \in Memory
    BY <2>1, StoreType
  <2>3. Replay(r, cmd, amem, amem', Len(areads), Len(areads'), areads')
    BY <1>2, <2>1, Zenon DEF Replay
  <2> QED BY <1>1, <2>1, <2>2, <2>3
<1>3. CASE ~ cmd.is_write
  <2>1. PICK e : e = [req |-> r, data |-> Atomic!Load(amem, cmd)]
    OBVIOUS
  <2>2. areads' = Append(areads, e) /\ amem' = amem
    BY <1>3, <2>1 DEF Observe
  <2>3. e \in Answer
    BY <1>3, <2>1, AnswerType, Zenon
  <2>4. /\ areads' \in Seq(Answer) /\ Len(areads') = Len(areads) + 1
        /\ areads'[Len(areads) + 1] = e
        /\ \A c \in 1 .. Len(areads) : areads'[c] = areads[c]
    BY <2>2, <2>3, AppendProperties
  <2>5. areads'[Len(areads')] = [req |-> r, data |-> Atomic!Load(amem, cmd)]
    BY <2>1, <2>4, Zenon
  <2>6. Replay(r, cmd, amem, amem', Len(areads), Len(areads'), areads')
    BY <1>3, <2>2, <2>4, <2>5, Zenon DEF Replay
  <2> QED BY <1>1, <2>2, <2>4, <2>6
<1> QED BY <1>2, <1>3

\* An idle request is in neither queue: its new command changes nothing there.
LEMMA IdleApart ==
  ASSUME Inv, Owned, NEW r \in Requests, io[r].st = "idle", NEW e,
         io' = [io EXCEPT ![r] = e]
  PROVE  /\ Cmds'[r] = e.cmd
         /\ \A j \in PendingFrom .. Len(pending_read_req_queue) :
              Cmds'[pending_read_req_queue[j].req] = Cmds[pending_read_req_queue[j].req]
         /\ \A j \in DeniedFrom .. Len(denied_req_queue) :
              Cmds'[denied_req_queue[j]] = Cmds[denied_req_queue[j]]
<1>1. /\ io \in [Requests -> IoReq] /\ Cmds' = [x \in Requests |-> io'[x].cmd]
      /\ Cmds = [x \in Requests |-> io[x].cmd]
  BY BridgeTypes DEF Cmds
<1>2. /\ Cmds'[r] = e.cmd /\ \A x \in Requests : x # r => Cmds'[x] = Cmds[x]
  BY <1>1
<1>3. \A x \in Reads \cup Denied : x \in Requests /\ x # r
  BY DEF Reads, Denied
<1>4. \A x \in Reads \cup Denied : Cmds'[x] = Cmds[x]
  BY <1>2, <1>3, Zenon
<1> QED BY <1>2, <1>4, QueueMembers

\* A call that is taken: nothing is denied, so its chunks follow every call.
LEMMA TakenAgrees ==
  ASSUME HInv, NEW r \in Requests, NEW cmd \in Commands, pc \in Reentrant,
         io[r].st = "idle", ReqTaken(r, cmd), Observe(r, cmd)
  PROVE  Agrees'
<1>1. Inv /\ Owned /\ areads \in Seq(Answer) /\ GoodCommand(cmd)
  BY CommandsGood DEF HInv
<1>2. PICK want, t, fin, vals, a, ds, ix : Bridged(want, t, fin, vals, a, ds, ix)
  BY DEF HInv, Agrees
<1>3. /\ Coming(want, fin) /\ Owing(want, t)
      /\ Awaited(pending_read_req_queue, PendingFrom - 1, Cmds, a, areads,
                 read_rsp_queue \o t, vals)
      /\ Queued(denied_req_queue, DeniedFrom - 1, Cmds, fin, a, areads, amem, ds, ix)
  BY <1>2, Zenon DEF Bridged
<1>4. denied_req_queue = << >>
  <2>1. all_req_list = << >>
    <3>1. Len(all_req_list) < 1
      BY DEF ReqTaken, dram_can_accept_req, max_pending_req
    <3>2. all_req_list \in Seq(ReqT)
      BY <1>1 DEF Inv, ConvInv, ConvTypeOK
    <3> QED BY <3>1, <3>2, EmptySeq, LenProperties
  <2>2. pc # "req_cb"
    BY DEF Reentrant
  <2> QED BY <1>1, <2>1, <2>2 DEF Inv, ClientInv
<1>5. DeniedFrom - 1 = 0 /\ fin = amem /\ fin \in Memory /\ a = Len(areads)
  BY <1>3, <1>4, QueuedNone
<1>6. /\ areads' \in Seq(Answer) /\ Len(areads) \in Nat /\ Len(areads') \in Nat
      /\ Len(areads) <= Len(areads') /\ amem' \in Memory
      /\ \A c \in 1 .. Len(areads) : areads'[c] = areads[c]
      /\ Replay(r, cmd, amem, amem', Len(areads), Len(areads'), areads')
  BY <1>1, <1>5, Observed
<1>7. PICK br, to, new : br = areads' /\ to = amem' /\ new = Cmds'
  OBVIOUS
<1>8. Replay(r, cmd, fin, to, a, Len(br), br) /\ Len(br) \in Nat /\ Len(br) \in 0 .. Len(br)
  BY <1>5, <1>6, <1>7
<1>9. PICK k \in {0, 1} : k = PendingFrom - 1
  BY <1>1, QueueMembers
<1>10. /\ new[r] = cmd
       /\ \A j \in k + 1 .. Len(pending_read_req_queue) :
            new[pending_read_req_queue[j].req] = Cmds[pending_read_req_queue[j].req]
  <2>1. PICK e : /\ io' = [io EXCEPT ![r] = e] /\ e.cmd = cmd
    <3>1. PICK e : e = [st |-> IF cmd.is_write THEN "idle" ELSE "pending", cmd |-> cmd]
      OBVIOUS
    <3>2. io' = [io EXCEPT ![r] = e]
      BY <3>1, Zenon DEF ReqTaken
    <3>3. e.cmd = cmd
      BY <3>1
    <3> QED BY <3>2, <3>3
  <2>2. PendingFrom = k + 1
    BY <1>9, QueueTypes, <1>1
  <2> QED BY <1>1, <1>7, <2>1, <2>2, IdleApart
<1>11. SameReads(pending_read_req_queue, k, a, areads, br, Cmds, new)
  <2>1. k + a = Len(pending_read_req_queue) /\ a \in Nat
    BY <1>3, <1>9 DEF Awaited
  <2>2. \A c \in 1 .. a : k + c \in k + 1 .. Len(pending_read_req_queue)
    BY <2>1
  <2>3. \A c \in 1 .. a :
          new[pending_read_req_queue[k + c].req] = Cmds[pending_read_req_queue[k + c].req]
    BY <1>10, <2>2
  <2>4. \A c \in 1 .. a : br[c] = areads[c]
    BY <1>5, <1>6, <1>7
  <2> QED BY <2>3, <2>4, Zenon DEF SameReads
<1>12. paraSendRequest(r, cmd, pc) /\ denied_req_queue' = denied_req_queue
  BY DEF ReqTaken
<1>13. PICK u, s, v : /\ Coming(u, to)' /\ Owing(u, s)
                      /\ Awaited(pending_read_req_queue', k, new, Len(br), br,
                                 read_rsp_queue' \o s, v)
  <2>1. Awaited(pending_read_req_queue, k, Cmds, a, areads, read_rsp_queue \o t, vals)
    BY <1>3, <1>9, Zenon
  <2> QED BY <1>1, <1>3, <1>5, <1>8, <1>10, <1>11, <1>12, <2>1, SendBridge
<1>14. PendingFrom' = PendingFrom /\ DeniedFrom' = DeniedFrom
  <2>1. pc' = pc
    BY <1>1, <1>12, SendStep
  <2> QED BY <2>1 DEF PendingFrom, DeniedFrom
<1>15. PICK es, jx : Queued(<< >>, 0, new, to, Len(br), br, to, es, jx)
  BY <1>6, <1>7, NoneQueued
<1>16. Queued(denied_req_queue', DeniedFrom' - 1, Cmds', to, Len(br), areads', amem', es, jx)
  BY <1>4, <1>5, <1>7, <1>12, <1>14, <1>15, Zenon
<1>17. Awaited(pending_read_req_queue', PendingFrom' - 1, Cmds', Len(br), areads',
               read_rsp_queue' \o s, v)
  BY <1>7, <1>9, <1>13, <1>14, Zenon
<1> QED BY <1>13, <1>16, <1>17, Rebuilt

\* A call that is denied waits behind the others.
LEMMA DeniedAgrees ==
  ASSUME HInv, NEW r \in Requests, NEW cmd \in Commands, pc \in Reentrant,
         io[r].st = "idle", ReqDenied(r, cmd), Observe(r, cmd)
  PROVE  Agrees'
<1>1. Inv /\ Owned /\ areads \in Seq(Answer) /\ GoodCommand(cmd)
  BY CommandsGood DEF HInv
<1>2. PICK want, t, fin, vals, a, ds, ix : Bridged(want, t, fin, vals, a, ds, ix)
  BY DEF HInv, Agrees
<1>3. /\ Coming(want, fin) /\ Owing(want, t)
      /\ Awaited(pending_read_req_queue, PendingFrom - 1, Cmds, a, areads,
                 read_rsp_queue \o t, vals)
      /\ Queued(denied_req_queue, DeniedFrom - 1, Cmds, fin, a, areads, amem, ds, ix)
  BY <1>2, Zenon DEF Bridged
<1>4. PICK d \in Seq(Requests) : d = denied_req_queue
  BY <1>1, BridgeTypes
<1>5. amem \in Memory
  BY <1>3, <1>4, QueuedEnd
<1>6. /\ areads' \in Seq(Answer) /\ Len(areads) \in Nat /\ Len(areads') \in Nat
      /\ Len(areads) <= Len(areads') /\ amem' \in Memory
      /\ \A c \in 1 .. Len(areads) : areads'[c] = areads[c]
      /\ Replay(r, cmd, amem, amem', Len(areads), Len(areads'), areads')
  BY <1>1, <1>5, Observed
<1>7. PICK br, to, new : br = areads' /\ to = amem' /\ new = Cmds'
  OBVIOUS
<1>8. PICK k \in {0, 1}, l \in {0, 1} : k = PendingFrom - 1 /\ l = DeniedFrom - 1
  BY <1>1, QueueMembers
<1>9. PendingFrom = k + 1 /\ DeniedFrom = l + 1
  BY <1>1, <1>8, QueueTypes
<1>10. /\ new[r] = cmd
       /\ \A j \in k + 1 .. Len(pending_read_req_queue) :
            new[pending_read_req_queue[j].req] = Cmds[pending_read_req_queue[j].req]
       /\ \A j \in l + 1 .. Len(d) : new[d[j]] = Cmds[d[j]]
  <2>1. PICK e : e = [st |-> "denied", cmd |-> cmd]
    OBVIOUS
  <2>2. io' = [io EXCEPT ![r] = e]
    BY <2>1, Zenon DEF ReqDenied
  <2>3. e.cmd = cmd
    BY <2>1
  <2> QED BY <1>1, <1>4, <1>7, <1>9, <2>2, <2>3, IdleApart
<1>11. SameReads(pending_read_req_queue, k, a, areads, br, Cmds, new) /\ a <= Len(br)
  <2>1. k + a = Len(pending_read_req_queue) /\ a \in Nat /\ a <= Len(areads)
    BY <1>3, <1>8 DEF Awaited
  <2>2. \A c \in 1 .. a : k + c \in k + 1 .. Len(pending_read_req_queue)
    BY <2>1
  <2>3. \A c \in 1 .. a :
          new[pending_read_req_queue[k + c].req] = Cmds[pending_read_req_queue[k + c].req]
    BY <1>10, <2>2
  <2>4. \A c \in 1 .. a : br[c] = areads[c]
    BY <1>6, <1>7, <2>1
  <2>5. a <= Len(br)
    BY <1>6, <1>7, <2>1
  <2> QED BY <2>3, <2>4, <2>5, Zenon DEF SameReads
<1>12. /\ denied_req_queue' = Append(d, r) /\ pc' = pc
       /\ pending_read_req_queue' = pending_read_req_queue
       /\ read_rsp_queue' = read_rsp_queue
  BY <1>4 DEF ReqDenied, convVars
<1>13. PendingFrom' = PendingFrom /\ DeniedFrom' = DeniedFrom
  BY <1>12 DEF PendingFrom, DeniedFrom
<1>14. Coming(want, fin)'
  <2>1. UNCHANGED <<read_req_list, out_order_rsp_list, active, beginq, mem>>
    BY DEF ReqDenied, convVars, dramVars
  <2> QED BY <1>3, <2>1, ComingSame
<1>15. Awaited(pending_read_req_queue', PendingFrom' - 1, Cmds', a, areads',
               read_rsp_queue' \o t, vals)
  <2>1. Awaited(pending_read_req_queue, k, Cmds, a, areads, read_rsp_queue \o t, vals)
    BY <1>3, <1>8, Zenon
  <2>2. Awaited(pending_read_req_queue, k, new, a, br, read_rsp_queue \o t, vals)
    BY <1>11, <2>1, AwaitedSame
  <2> QED BY <1>7, <1>8, <1>12, <1>13, <2>2, Zenon
<1>16. PICK es, jx : Queued(denied_req_queue', DeniedFrom' - 1, Cmds', fin, a, areads',
                            amem', es, jx)
  <2>1. Queued(d, l, Cmds, fin, a, areads, amem, ds, ix)
    BY <1>3, <1>4, <1>8, Zenon
  <2>2. /\ Len(br) \in Nat /\ Len(areads) <= Len(br) /\ to \in Memory
        /\ \A c \in 1 .. Len(areads) : br[c] = areads[c]
        /\ Replay(r, new[r], amem, to, Len(areads), Len(br), br)
    BY <1>6, <1>7, <1>10
  <2>3. PICK es, jx : Queued(Append(d, r), l, new, fin, a, br, to, es, jx)
    BY <1>4, <1>6, <1>10, <2>1, <2>2, QueuedMore
  <2> QED BY <1>7, <1>8, <1>12, <1>13, <2>3, Zenon
<1> QED BY <1>3, <1>14, <1>15, <1>16, Rebuilt

\* A denied call that is sent follows exactly the calls made before it.
LEMMA SendAgrees ==
  ASSUME HInv, ReqCbSend, amem' = amem, areads' = areads
  PROVE  Agrees'
<1>1. Inv /\ Owned /\ areads \in Seq(Answer) /\ Len(areads) \in Nat
  BY LenProperties DEF HInv
<1>2. PICK want, t, fin, vals, a, ds, ix : Bridged(want, t, fin, vals, a, ds, ix)
  BY DEF HInv, Agrees
<1>3. /\ Coming(want, fin) /\ Owing(want, t)
      /\ Awaited(pending_read_req_queue, PendingFrom - 1, Cmds, a, areads,
                 read_rsp_queue \o t, vals)
      /\ Queued(denied_req_queue, DeniedFrom - 1, Cmds, fin, a, areads, amem, ds, ix)
  BY <1>2, Zenon DEF Bridged
<1>4. PICK d \in Seq(Requests) : d = denied_req_queue /\ d # << >>
  BY <1>1, BridgeTypes DEF ReqCbSend
<1>5. PICK r, cmd : /\ r = d[1] /\ cmd = io[r].cmd /\ r \in Requests
  <2>1. 1 \in 1 .. Len(d)
    BY <1>4, EmptySeq, LenProperties
  <2>2. d[1] \in Requests
    BY <1>4, <2>1, ElementOfSeq
  <2> QED BY <2>2
<1>6. /\ paraSendRequest(r, cmd, "granted") /\ denied_req_queue' = d
      /\ io' = [io EXCEPT ![r].st = "pending"] /\ pc = "req_cb"
  <2>1. Head(d) = r
    BY <1>4, <1>5, HeadTailProperties
  <2> QED BY <1>4, <1>5, <2>1 DEF ReqCbSend
<1>7. GoodCommand(cmd) /\ cmd = Cmds[r] /\ Cmds' = Cmds
  <2>1. GoodCommand(cmd) /\ cmd = Cmds[r] /\ io \in [Requests -> IoReq]
    BY <1>1, <1>5, BridgeTypes
  <2>2. \A x \in Requests : io'[x].cmd = io[x].cmd
    BY <1>6, <2>1 DEF IoReq
  <2> QED BY <2>1, <2>2 DEF Cmds
<1>8. pc' = "granted"
  BY <1>1, <1>5, <1>6, <1>7, SendStep
<1>9. /\ PendingFrom = 1 /\ PendingFrom' = 1 /\ DeniedFrom = 1 /\ DeniedFrom' = 2
  BY <1>6, <1>8 DEF PendingFrom, DeniedFrom
<1>10. /\ Replay(d[1], Cmds[d[1]], fin, ds[1], a, ix[1], areads)
       /\ Queued(d, 1, Cmds, ds[1], ix[1], areads, amem, ds, ix)
       /\ fin \in Memory /\ ds[1] \in Memory /\ ix[1] \in a .. Len(areads) /\ a \in Nat
  <2>1. Queued(d, 0, Cmds, fin, a, areads, amem, ds, ix)
    <3>1. DeniedFrom - 1 = 0
      BY <1>9
    <3> QED BY <1>3, <1>4, <3>1, Zenon
  <2> QED BY <1>1, <1>4, <2>1, QueuedSent
<1>11. PICK to, b : to = ds[1] /\ b = ix[1] /\ b \in 0 .. Len(areads)
  BY <1>1, <1>10
<1>12. Replay(r, cmd, fin, to, a, b, areads)
  BY <1>5, <1>7, <1>10, <1>11, Zenon
<1>13. PICK br, new : br = areads /\ new = Cmds
  OBVIOUS
<1>14. /\ SameReads(pending_read_req_queue, 0, a, br, br, new, new)
  BY DEF SameReads
<1>15. Awaited(pending_read_req_queue, 0, new, a, br, read_rsp_queue \o t, vals)
  <2>1. PendingFrom - 1 = 0
    BY <1>9
  <2> QED BY <1>3, <1>13, <2>1, Zenon
<1>16. PICK u, s, v : /\ Coming(u, to)' /\ Owing(u, s)
                      /\ Awaited(pending_read_req_queue', 0, new, b, br,
                                 read_rsp_queue' \o s, v)
  <2>1. new[r] = cmd /\ Len(br) \in Nat /\ b \in 0 .. Len(br)
    BY <1>1, <1>7, <1>11, <1>13
  <2>2. Replay(r, cmd, fin, to, a, b, br)
    BY <1>12, <1>13, Zenon
  <2> QED BY <1>1, <1>3, <1>5, <1>6, <1>7, <1>10, <1>14, <1>15, <2>1, <2>2, SendBridge
<1>17. Awaited(pending_read_req_queue', PendingFrom' - 1, Cmds', b, areads',
               read_rsp_queue' \o s, v)
  <2>1. PendingFrom' - 1 = 0
    BY <1>9
  <2> QED BY <1>7, <1>13, <1>16, <2>1, Zenon
<1>18. Queued(denied_req_queue', DeniedFrom' - 1, Cmds', to, b, areads', amem', ds, ix)
  <2>1. DeniedFrom' - 1 = 1
    BY <1>9
  <2> QED BY <1>6, <1>7, <1>10, <1>11, <2>1, Zenon
<1> QED BY <1>16, <1>17, <1>18, Rebuilt

\* Steps that move nothing between the two queues and the history.
LEMMA QuietAgrees ==
  ASSUME HInv, amem' = amem, areads' = areads, read_rsp_queue' = read_rsp_queue,
         pending_read_req_queue' = pending_read_req_queue,
         denied_req_queue' = denied_req_queue, Cmds' = Cmds,
         PendingFrom' = PendingFrom, DeniedFrom' = DeniedFrom,
         \A want, fin : Coming(want, fin) => Coming(want, fin)'
  PROVE  Agrees'
<1>1. PICK want, t, fin, vals, a, ds, ix : Bridged(want, t, fin, vals, a, ds, ix)
  BY DEF HInv, Agrees
<1>2. /\ Coming(want, fin) /\ Owing(want, t)
      /\ Awaited(pending_read_req_queue, PendingFrom - 1, Cmds, a, areads,
                 read_rsp_queue \o t, vals)
      /\ Queued(denied_req_queue, DeniedFrom - 1, Cmds, fin, a, areads, amem, ds, ix)
  BY <1>1, Zenon DEF Bridged
<1>3. Awaited(pending_read_req_queue', PendingFrom' - 1, Cmds', a, areads',
              read_rsp_queue' \o t, vals)
  BY <1>2, Zenon
<1>4. Queued(denied_req_queue', DeniedFrom' - 1, Cmds', fin, a, areads', amem', ds, ix)
  BY <1>2, Zenon
<1> QED BY <1>2, <1>3, <1>4, Rebuilt

\* Steps of the memory system and of the callbacks' control.
LEMMA ControlAgrees ==
  ASSUME HInv, amem' = amem, areads' = areads,
         \/ PeqEndReq \/ GrantReturnWrite \/ ReqCbExit \/ RspCbExit \/ RspCbWrite
         \/ (\E i : BeginResp(i)) \/ (pc = "match" /\ MatchExit /\ UNCHANGED ddrVars)
  PROVE  Agrees'
<1>1. Inv /\ ConvInv /\ io \in [Requests -> IoReq]
  BY BridgeTypes DEF HInv, Inv
<1>2. CASE PeqEndReq
  <2>1. EndReq("req_cb") /\ UNCHANGED ddrVars /\ pc = "idle"
    BY <1>2 DEF PeqEndReq
  <2>2. ~ EndReqMismatch /\ pc' = "req_cb"
    BY <1>1, <2>1, EndReqKeeps
  <2>3. read_rsp_queue' = read_rsp_queue
    BY <2>1, <2>2 DEF EndReq
  <2>4. /\ pending_read_req_queue' = pending_read_req_queue
        /\ denied_req_queue' = denied_req_queue /\ Cmds' = Cmds
        /\ PendingFrom' = PendingFrom /\ DeniedFrom' = DeniedFrom
    BY <2>1, <2>2 DEF ddrVars, Cmds, PendingFrom, DeniedFrom
  <2>5. \A want, fin : Coming(want, fin) => Coming(want, fin)'
    BY <1>1, <2>1, ComingEndReq
  <2> QED BY <2>3, <2>4, <2>5, QuietAgrees
<1>3. CASE \E i : BeginResp(i)
  <2>1. PICK i : PeqBeginRespRead(i) \/ PeqBeginRespWrite(i)
    BY <1>3 DEF BeginResp
  <2>2. CASE PeqBeginRespRead(i)
    <3>1. BeginRespRead(i) /\ UNCHANGED ddrVars /\ pc = "idle"
      BY <2>2 DEF PeqBeginRespRead
    <3>2. pc' = "match"
      BY <1>1, <3>1, BeginRespReadKeeps
    <3>3. read_rsp_queue' = read_rsp_queue
      BY <3>1, <3>2 DEF BeginRespRead, convVars
    <3>4. /\ pending_read_req_queue' = pending_read_req_queue
          /\ denied_req_queue' = denied_req_queue /\ Cmds' = Cmds
          /\ PendingFrom' = PendingFrom /\ DeniedFrom' = DeniedFrom
      BY <3>1, <3>2 DEF ddrVars, Cmds, PendingFrom, DeniedFrom
    <3>5. \A want, fin : Coming(want, fin) => Coming(want, fin)'
      BY <1>1, <3>1, ComingRead
    <3> QED BY <3>3, <3>4, <3>5, QuietAgrees
  <2>3. CASE PeqBeginRespWrite(i)
    <3>1. BeginRespWrite(i, "wrsp_cb") /\ UNCHANGED ddrVars /\ pc = "idle"
      BY <2>3 DEF PeqBeginRespWrite
    <3>2. pc' = "wrsp_cb" /\ read_rsp_queue' = read_rsp_queue
      BY <3>1 DEF BeginRespWrite
    <3>4. /\ pending_read_req_queue' = pending_read_req_queue
          /\ denied_req_queue' = denied_req_queue /\ Cmds' = Cmds
          /\ PendingFrom' = PendingFrom /\ DeniedFrom' = DeniedFrom
      BY <3>1, <3>2 DEF ddrVars, Cmds, PendingFrom, DeniedFrom
    <3>5. \A want, fin : Coming(want, fin) => Coming(want, fin)'
      BY <1>1, <3>1, ComingWrite
    <3> QED BY <3>2, <3>4, <3>5, QuietAgrees
  <2> QED BY <2>1, <2>2, <2>3
<1>4. CASE \/ GrantReturnWrite \/ ReqCbExit \/ RspCbExit \/ RspCbWrite
           \/ (pc = "match" /\ MatchExit /\ UNCHANGED ddrVars)
  <2>1. /\ UNCHANGED <<read_req_list, out_order_rsp_list, active, beginq, mem>>
        /\ read_rsp_queue' = read_rsp_queue
        /\ pending_read_req_queue' = pending_read_req_queue
        /\ denied_req_queue' = denied_req_queue
        /\ PendingFrom' = PendingFrom /\ DeniedFrom' = DeniedFrom
    BY <1>4 DEF GrantReturnWrite, ReqCbExit, RspCbExit, RspCbWrite, MatchExit,
         convVars, dramVars, ddrVars, PendingFrom, DeniedFrom
  <2>2. Cmds' = Cmds
    <3>1. CASE GrantReturnWrite
      <4>1. PICK r : io' = [io EXCEPT ![r].st = "idle"]
        BY <3>1 DEF GrantReturnWrite
      <4>2. \A x \in Requests : io'[x].cmd = io[x].cmd
        BY <1>1, <4>1 DEF IoReq
      <4> QED BY <4>2 DEF Cmds
    <3>2. CASE io' = io
      BY <3>2 DEF Cmds
    <3> QED BY <1>4, <3>1, <3>2 DEF ReqCbExit, RspCbExit, RspCbWrite, ddrVars
  <2>3. \A want, fin : Coming(want, fin) => Coming(want, fin)'
    BY <2>1, ComingSame
  <2> QED BY <2>1, <2>2, <2>3, QuietAgrees
<1> QED BY <1>2, <1>3, <1>4

\* The entry of a granted read, or of a write that was answered, leaves.
LEMMA PoppedAgrees ==
  ASSUME HInv, GrantReturnRead \/ WriteRespReturn, amem' = amem, areads' = areads
  PROVE  Agrees'
<1>1. Inv /\ Owned
  BY DEF HInv
<1>2. PICK want, t, fin, vals, a, ds, ix : Bridged(want, t, fin, vals, a, ds, ix)
  BY DEF HInv, Agrees
<1>3. /\ Coming(want, fin) /\ Owing(want, t)
      /\ Awaited(pending_read_req_queue, PendingFrom - 1, Cmds, a, areads,
                 read_rsp_queue \o t, vals)
      /\ Queued(denied_req_queue, DeniedFrom - 1, Cmds, fin, a, areads, amem, ds, ix)
  BY <1>2, Zenon DEF Bridged
<1>4. /\ pc \in {"granted", "wresp"} /\ pc' = "req_cb"
      /\ denied_req_queue' = Tail(denied_req_queue)
      /\ UNCHANGED <<read_req_list, out_order_rsp_list, active, beginq, mem>>
      /\ read_rsp_queue' = read_rsp_queue /\ io' = io
      /\ pending_read_req_queue' = pending_read_req_queue
  BY DEF GrantReturnRead, WriteRespReturn, convVars, dramVars
<1>5. /\ PendingFrom' = PendingFrom /\ DeniedFrom = 2 /\ DeniedFrom' = 1 /\ Cmds' = Cmds
  BY <1>4 DEF PendingFrom, DeniedFrom, Cmds
<1>6. PICK d \in Seq(Requests) : d = denied_req_queue /\ d # << >>
  BY <1>1, <1>4, BridgeTypes DEF Inv, ClientInv
<1>7. Queued(d, 1, Cmds, fin, a, areads, amem, ds, ix)
  <2>1. DeniedFrom - 1 = 1
    BY <1>5
  <2> QED BY <1>3, <1>6, <2>1, Zenon
<1>8. PICK es, jx : Queued(Tail(d), 0, Cmds, fin, a, areads, amem, es, jx)
  BY <1>6, <1>7, QueuedPopped
<1>9. Queued(denied_req_queue', DeniedFrom' - 1, Cmds', fin, a, areads', amem', es, jx)
  <2>1. DeniedFrom' - 1 = 0
    BY <1>5
  <2> QED BY <1>4, <1>5, <1>6, <1>8, <2>1, Zenon
<1>10. Awaited(pending_read_req_queue', PendingFrom' - 1, Cmds', a, areads',
               read_rsp_queue' \o t, vals)
  BY <1>3, <1>4, <1>5, Zenon
<1>11. Coming(want, fin)'
  BY <1>3, <1>4, ComingSame
<1> QED BY <1>3, <1>9, <1>10, <1>11, Rebuilt

\* resp() of a read returns.
LEMMA AnsweredAgrees ==
  ASSUME HInv, ReadRespReturn, amem' = amem, areads' = areads
  PROVE  Agrees'
<1>1. Inv /\ Owned
  BY DEF HInv
<1>2. PICK want, t, fin, vals, a, ds, ix : Bridged(want, t, fin, vals, a, ds, ix)
  BY DEF HInv, Agrees
<1>3. /\ Coming(want, fin) /\ Owing(want, t)
      /\ Awaited(pending_read_req_queue, PendingFrom - 1, Cmds, a, areads,
                 read_rsp_queue \o t, vals)
      /\ Queued(denied_req_queue, DeniedFrom - 1, Cmds, fin, a, areads, amem, ds, ix)
  BY <1>2, Zenon DEF Bridged
<1>4. /\ pc = "rresp" /\ pc' = "rsp_cb"
      /\ pending_read_req_queue' = Tail(pending_read_req_queue)
      /\ UNCHANGED <<read_req_list, out_order_rsp_list, active, beginq, mem>>
      /\ read_rsp_queue' = read_rsp_queue /\ io' = io
      /\ denied_req_queue' = denied_req_queue
  BY DEF ReadRespReturn, convVars, dramVars
<1>5. /\ DeniedFrom' = DeniedFrom /\ PendingFrom = 2 /\ PendingFrom' = 1 /\ Cmds' = Cmds
  BY <1>4 DEF PendingFrom, DeniedFrom, Cmds
<1>6. PICK p \in Seq(Pending) : p = pending_read_req_queue /\ p # << >>
  BY <1>1, <1>4, BridgeTypes DEF Inv, ClientInv
<1>7. Awaited(p, 1, Cmds, a, areads, read_rsp_queue \o t, vals)
  <2>1. PendingFrom - 1 = 1
    BY <1>5
  <2> QED BY <1>3, <1>6, <2>1, Zenon
<1>8. Awaited(Tail(p), 0, Cmds, a, areads, read_rsp_queue \o t, vals)
  BY <1>6, <1>7, AwaitedPopped
<1>9. Awaited(pending_read_req_queue', PendingFrom' - 1, Cmds', a, areads',
              read_rsp_queue' \o t, vals)
  <2>1. PendingFrom' - 1 = 0
    BY <1>5
  <2> QED BY <1>4, <1>5, <1>6, <1>8, <2>1, Zenon
<1>10. Queued(denied_req_queue', DeniedFrom' - 1, Cmds', fin, a, areads', amem', ds, ix)
  BY <1>3, <1>4, <1>5, Zenon
<1>11. Coming(want, fin)'
  BY <1>3, <1>4, ComingSame
<1> QED BY <1>3, <1>9, <1>10, <1>11, Rebuilt

\* The bytes of the oldest outstanding read move into read_rsp_queue.
LEMMA MatchAgrees ==
  ASSUME HInv, pc = "match", MatchStep("rsp_cb"), UNCHANGED ddrVars,
         amem' = amem, areads' = areads
  PROVE  Agrees'
<1>1. Inv /\ ConvInv /\ read_rsp_queue \in Seq(Byte)
  BY BridgeTypes DEF HInv, Inv
<1>2. PICK want, t, fin, vals, a, ds, ix : Bridged(want, t, fin, vals, a, ds, ix)
  BY DEF HInv, Agrees
<1>3. /\ Coming(want, fin) /\ Owing(want, t)
      /\ Awaited(pending_read_req_queue, PendingFrom - 1, Cmds, a, areads,
                 read_rsp_queue \o t, vals)
      /\ Queued(denied_req_queue, DeniedFrom - 1, Cmds, fin, a, areads, amem, ds, ix)
  BY <1>2, Zenon DEF Bridged
<1>4. /\ pc' = "rsp_cb" /\ io' = io /\ denied_req_queue' = denied_req_queue
      /\ pending_read_req_queue' = pending_read_req_queue
  BY DEF MatchStep, ddrVars
<1>5. /\ PendingFrom' = PendingFrom /\ DeniedFrom' = DeniedFrom /\ Cmds' = Cmds
  BY <1>4 DEF PendingFrom, DeniedFrom, Cmds
<1>6. /\ want # << >> /\ read_rsp_queue' = read_rsp_queue \o Head(want)
      /\ Coming(Tail(want), fin)'
  BY <1>1, <1>3, ComingMatch
<1>7. /\ Head(want) \in Seq(Byte)
      /\ \E u : Owing(Tail(want), u) /\ t = Head(want) \o u
  BY <1>3, <1>6, OwingTake
<1>8. PICK u : Owing(Tail(want), u) /\ t = Head(want) \o u
  BY <1>7
<1>9. PICK x, h \in Seq(Byte) : x = read_rsp_queue /\ h = Head(want)
  BY <1>1, <1>7
<1>10. (x \o h) \o u = x \o (h \o u)
  <2>1. u \in Seq(Byte) /\ x \in Seq(Byte) /\ h \in Seq(Byte)
    BY <1>1, <1>8, <1>9 DEF Owing
  <2> QED BY <2>1, BytesBehind
<1>11. read_rsp_queue' \o u = read_rsp_queue \o t
  BY <1>6, <1>8, <1>9, <1>10, Zenon
<1>12. Awaited(pending_read_req_queue', PendingFrom' - 1, Cmds', a, areads',
               read_rsp_queue' \o u, vals)
  BY <1>3, <1>4, <1>5, <1>11, Zenon
<1>13. Queued(denied_req_queue', DeniedFrom' - 1, Cmds', fin, a, areads', amem', ds, ix)
  BY <1>3, <1>4, <1>5, Zenon
<1> QED BY <1>6, <1>8, <1>12, <1>13, Rebuilt

\* What the loop of rspCallback does with a byte.
LEMMA ByteStep ==
  ASSUME Inv, Owned, RspCbByte
  PROVE  \E p, r, mask, e, x :
           /\ p \in Seq(Pending) /\ r \in Requests /\ p = pending_read_req_queue /\ p # << >> /\ r = p[1].req
           /\ mask = p[1].mask /\ mask # << >>
           /\ x = [p[1] EXCEPT !.mask = Tail(mask)]
           /\ e = [st |-> IF Len(mask) = 1 THEN "idle" ELSE io[r].st,
                   cmd |-> WithByte(io[r].cmd, mask, Head(read_rsp_queue))]
           /\ io' = [io EXCEPT ![r] = e]
           /\ pending_read_req_queue' = [p EXCEPT ![1] = x]
           /\ pc = "rsp_cb" /\ pc' = (IF Len(mask) = 1 THEN "rresp" ELSE "rsp_cb")
           /\ read_rsp_queue # << >> /\ read_rsp_queue' = Tail(read_rsp_queue)
           /\ denied_req_queue' = denied_req_queue
           /\ UNCHANGED <<read_req_list, out_order_rsp_list, active, beginq, mem>>
<1>1. PICK p \in Seq(Pending) : p = pending_read_req_queue /\ p # << >>
  BY BridgeTypes DEF RspCbByte
<1>2. /\ Head(p) = p[1] /\ p[1] \in Pending /\ 1 \in 1 .. Len(p)
  <2>1. 1 \in 1 .. Len(p) /\ Head(p) = p[1]
    BY <1>1, EmptySeq, LenProperties, HeadTailProperties
  <2> QED BY <2>1, ElementOfSeq
<1>3. PICK r, mask : r \in Requests /\ r = p[1].req /\ mask = p[1].mask
  BY <1>2 DEF Pending
<1>4. mask # << >>
  BY <1>1, <1>2, <1>3 DEF Inv, ClientInv, RspCbByte
<1>5. PICK e, x : /\ e = [st |-> IF Len(mask) = 1 THEN "idle" ELSE io[r].st,
                          cmd |-> WithByte(io[r].cmd, mask, Head(read_rsp_queue))]
                  /\ x = [p[1] EXCEPT !.mask = Tail(mask)]
  OBVIOUS
<1>6. /\ Head(pending_read_req_queue).req = r /\ Head(pending_read_req_queue).mask = mask
  BY <1>1, <1>2, <1>3, Zenon
<1>7. io' = [io EXCEPT ![r] = e]
  <2>1. WithByte(io[r].cmd, mask, Head(read_rsp_queue)) = e.cmd
    BY <1>5
  <2>2. io' = [io EXCEPT ![r] = [st |-> IF Len(mask) = 1 THEN "idle" ELSE io[r].st,
                          cmd |-> WithByte(io[r].cmd, mask, Head(read_rsp_queue))]]
    BY <1>6 DEF RspCbByte, WithByte
  <2> QED BY <1>5, <2>2, Zenon
<1>8. pending_read_req_queue' = [p EXCEPT ![1] = x]
  <2>1. pending_read_req_queue' = [p EXCEPT ![1].mask = Tail(mask)]
    BY <1>1, <1>6 DEF RspCbByte
  <2> QED BY <1>5, <2>1
<1>9. /\ pc = "rsp_cb" /\ pc' = (IF Len(mask) = 1 THEN "rresp" ELSE "rsp_cb")
      /\ read_rsp_queue # << >> /\ read_rsp_queue' = Tail(read_rsp_queue)
      /\ denied_req_queue' = denied_req_queue
      /\ UNCHANGED <<read_req_list, out_order_rsp_list, active, beginq, mem>>
  BY <1>6 DEF RspCbByte, dramVars
<1> QED BY <1>1, <1>3, <1>4, <1>5, <1>7, <1>8, <1>9, Zenon

\* The head of a joined sequence is the head of its first part.
LEMMA HeadTailConcat ==
  ASSUME NEW S, NEW z \in Seq(S), z # << >>, NEW t \in Seq(S)
  PROVE  z \o t \in Seq(S) /\ Head(z \o t) = Head(z) /\ Tail(z \o t) = Tail(z) \o t
<1>1. /\ Len(z) \in Nat \ {0} /\ Len(t) \in Nat /\ Head(z) = z[1] /\ Tail(z) \in Seq(S)
      /\ Len(Tail(z)) = Len(z) - 1
      /\ \A i \in 1 .. Len(Tail(z)) : Tail(z)[i] = z[i + 1]
  BY EmptySeq, LenProperties, HeadTailProperties
<1>2. PICK w : /\ w = z \o t /\ w \in Seq(S) /\ Len(w) = Len(z) + Len(t)
               /\ \A i \in 1 .. Len(z) + Len(t) :
                    w[i] = IF i <= Len(z) THEN z[i] ELSE t[i - Len(z)]
  <2>1. PICK w : w = z \o t
    OBVIOUS
  <2>2. /\ w \in Seq(S) /\ Len(w) = Len(z) + Len(t)
        /\ \A i \in 1 .. Len(z) + Len(t) :
             w[i] = IF i <= Len(z) THEN z[i] ELSE t[i - Len(z)]
    BY <2>1, ConcatProperties
  <2> QED BY <2>1, <2>2
<1>3. w # << >> /\ w[1] = z[1]
  BY <1>1, <1>2, EmptySeq
<1>4. /\ Head(w) = w[1] /\ Tail(w) \in Seq(S) /\ Len(Tail(w)) = Len(w) - 1
      /\ \A i \in 1 .. Len(Tail(w)) : Tail(w)[i] = w[i + 1]
  BY <1>2, <1>3, HeadTailProperties
<1>5. PICK y, v : /\ y = Tail(z) /\ v = y \o t /\ v \in Seq(S)
                  /\ Len(v) = Len(y) + Len(t)
                  /\ \A i \in 1 .. Len(y) + Len(t) :
                       v[i] = IF i <= Len(y) THEN y[i] ELSE t[i - Len(y)]
  <2>1. PICK y, v : y = Tail(z) /\ v = y \o t
    OBVIOUS
  <2>2. y \in Seq(S)
    BY <1>1, <2>1
  <2>3. /\ v \in Seq(S) /\ Len(v) = Len(y) + Len(t)
        /\ \A i \in 1 .. Len(y) + Len(t) :
             v[i] = IF i <= Len(y) THEN y[i] ELSE t[i - Len(y)]
    BY <2>1, <2>2, ConcatProperties
  <2> QED BY <2>1, <2>3
<1>6. Len(v) = Len(Tail(w))
  BY <1>1, <1>2, <1>4, <1>5
<1>7. \A i \in 1 .. Len(v) : v[i] = Tail(w)[i]
  <2>1. SUFFICES ASSUME NEW i \in 1 .. Len(v) PROVE v[i] = Tail(w)[i]
    OBVIOUS
  <2>2. Tail(w)[i] = w[i + 1] /\ i + 1 \in 1 .. Len(w)
    BY <1>1, <1>2, <1>4, <1>6, <2>1
  <2>3. CASE i <= Len(y)
    <3>1. v[i] = z[i + 1] /\ i + 1 <= Len(z)
      BY <1>1, <1>5, <2>1, <2>3
    <3> QED BY <1>2, <2>2, <3>1
  <2>4. CASE i > Len(y)
    <3>1. v[i] = t[i - Len(y)] /\ i - Len(y) = (i + 1) - Len(z) /\ ~ (i + 1 <= Len(z))
      BY <1>1, <1>5, <2>1, <2>4
    <3> QED BY <1>2, <2>2, <3>1
  <2>5. i \in Nat /\ Len(y) \in Nat
    BY <1>1, <1>5, <2>1
  <2>6. i <= Len(y) \/ i > Len(y)
    BY <2>5
  <2> QED BY <2>3, <2>4, <2>6
<1>8. v = Tail(w)
  BY <1>4, <1>5, <1>6, <1>7, SeqEqual
<1> QED BY <1>1, <1>2, <1>3, <1>4, <1>5, <1>8, Zenon

\* A byte is the one its read awaits next.  With the last one the read is
\* answered, and it is the oldest answer of the history that is given.
LEMMA ByteAgrees ==
  ASSUME HInv, RspCbByte, amem' = amem,
         areads' = IF pc' = "rresp" THEN Tail(areads) ELSE areads
  PROVE  /\ Agrees'
         /\ pc' = "rresp" =>
              /\ areads # << >>
              /\ \E r \in Requests : \E cmd :
                   /\ r = Head(areads).req /\ r \in Reads
                   /\ io' = [io EXCEPT ![r] = [st |-> "idle", cmd |-> cmd]]
                   /\ ~ cmd.is_write /\ cmd.data = Head(areads).data
         /\ pc' # "rresp" =>
              \E r \in Reads : \E cmd :
                 /\ ~ cmd.is_write
                 /\ io' = [io EXCEPT ![r] = [st |-> "pending", cmd |-> cmd]]
<1>1. Inv /\ Owned /\ areads \in Seq(Answer) /\ read_rsp_queue \in Seq(Byte)
  BY BridgeTypes DEF HInv
<1>2. PICK want, t, fin, vals, a, ds, ix : Bridged(want, t, fin, vals, a, ds, ix)
  BY DEF HInv, Agrees
<1>3. /\ Coming(want, fin) /\ Owing(want, t)
      /\ Awaited(pending_read_req_queue, PendingFrom - 1, Cmds, a, areads,
                 read_rsp_queue \o t, vals)
      /\ Queued(denied_req_queue, DeniedFrom - 1, Cmds, fin, a, areads, amem, ds, ix)
  BY <1>2, Zenon DEF Bridged
<1>4. PICK p, r, mask, e, x :
        /\ p \in Seq(Pending) /\ r \in Requests /\ p = pending_read_req_queue /\ p # << >> /\ r = p[1].req
        /\ mask = p[1].mask /\ mask # << >>
        /\ x = [p[1] EXCEPT !.mask = Tail(mask)]
        /\ e = [st |-> IF Len(mask) = 1 THEN "idle" ELSE io[r].st,
                cmd |-> WithByte(io[r].cmd, mask, Head(read_rsp_queue))]
        /\ io' = [io EXCEPT ![r] = e]
        /\ pending_read_req_queue' = [p EXCEPT ![1] = x]
        /\ pc = "rsp_cb" /\ pc' = (IF Len(mask) = 1 THEN "rresp" ELSE "rsp_cb")
        /\ read_rsp_queue # << >> /\ read_rsp_queue' = Tail(read_rsp_queue)
        /\ denied_req_queue' = denied_req_queue
        /\ UNCHANGED <<read_req_list, out_order_rsp_list, active, beginq, mem>>
  BY <1>1, ByteStep
<1>5. /\ PendingFrom = 1 /\ DeniedFrom = 1 /\ DeniedFrom' = 1
      /\ PendingFrom' = IF Len(mask) = 1 THEN 2 ELSE 1
  BY <1>4 DEF PendingFrom, DeniedFrom
<1>6. PICK q, new, b, d : /\ q = pending_read_req_queue' /\ new = Cmds'
                          /\ b = Head(read_rsp_queue) /\ d = denied_req_queue
  OBVIOUS
<1>7. /\ p[1] \in Pending /\ Len(p) \in Nat /\ 1 \in 1 .. Len(p) /\ DOMAIN p = 1 .. Len(p)
  <2>1. 1 \in 1 .. Len(p) /\ Len(p) \in Nat /\ DOMAIN p = 1 .. Len(p)
    BY <1>4, EmptySeq, LenProperties
  <2>2. p \in Seq(Pending)
    BY <1>4
  <2> QED BY <2>1, <2>2, ElementOfSeq
<1>8. /\ Len(q) = Len(p) /\ q[1] = x /\ \A c \in 2 .. Len(p) : q[c] = p[c]
  <2>1. q = [p EXCEPT ![1] = x]
    BY <1>4, <1>6
  <2>2. x \in Pending
    <3>1. mask \in Seq({0, 1})
      BY <1>4, <1>7 DEF Pending
    <3>2. Tail(mask) \in Seq({0, 1})
      BY <1>4, <3>1, HeadTailProperties
    <3> QED BY <1>4, <1>7, <3>2 DEF Pending
  <2>3. Len(q) = Len(p)
    BY <1>7, <2>1, <2>2, ExceptSeq
  <2> QED BY <1>7, <2>1, <2>3
<1>9. q[1].req = r /\ q[1].mask = Tail(mask)
  BY <1>4, <1>7, <1>8 DEF Pending
<1>10. /\ r \in Reads /\ \A c \in 2 .. Len(p) : p[c].req # r /\ p[c].req \in Requests
       /\ \A j \in 1 .. Len(d) : d[j] # r /\ d[j] \in Requests
  <2>1. /\ \A j \in 1 .. Len(p) :
             /\ p[j].req \in Reads
             /\ \A i \in 1 .. Len(p) : p[i].req = p[j].req => i = j
        /\ \A j \in 1 .. Len(d) : d[j] \in Denied
    BY <1>1, <1>4, <1>5, <1>6, QueueMembers
  <2>2. r \in Reads
    BY <1>4, <1>7, <2>1
  <2>3. \A c \in 2 .. Len(p) : c \in 1 .. Len(p) /\ c # 1
    BY <1>7
  <2>4. \A c \in 2 .. Len(p) : p[c].req # r /\ p[c].req \in Requests
    BY <1>4, <1>7, <2>1, <2>3 DEF Reads
  <2> QED BY <2>1, <2>2, <2>4 DEF Reads, Denied
<1>11. /\ new[r] = e.cmd /\ \A y \in Requests : y # r => new[y] = Cmds[y]
       /\ GoodCommand(new[r]) /\ GoodCommand(Cmds[r]) /\ Cmds[r] = io[r].cmd
  <2>0. r \in Requests
    BY <1>4
  <2>1. /\ io \in [Requests -> IoReq] /\ GoodCommand(Cmds[r]) /\ Cmds[r] = io[r].cmd
    BY <1>1, <2>0, BridgeTypes
  <2>2. /\ new[r] = e.cmd /\ \A y \in Requests : y # r => new[y] = Cmds[y]
    BY <1>4, <1>6, <2>1 DEF Cmds
  <2>3. Inv'
    BY <1>1, RspCbByteKeeps
  <2>4. new[r] = io'[r].cmd /\ GoodCommand(io'[r].cmd)
    BY <1>6, <2>0, <2>3 DEF Cmds, Inv, ClientInv
  <2> QED BY <2>1, <2>2, <2>4
<1>12. PICK s \in Seq(Byte) : s = read_rsp_queue \o t /\ Head(s) = b
                             /\ Tail(s) = read_rsp_queue' \o t
  <2>1. PICK z : z = read_rsp_queue /\ z # << >> /\ z \in Seq(Byte)
    BY <1>1, <1>4
  <2>2. t \in Seq(Byte)
    BY <1>3 DEF Owing
  <2>4. /\ z \o t \in Seq(Byte) /\ Head(z \o t) = Head(z) /\ Tail(z \o t) = Tail(z) \o t
    BY <2>1, <2>2, HeadTailConcat
  <2> QED BY <1>4, <1>6, <2>1, <2>4
<1>13. new[r] = WithByte(Cmds[r], mask, Head(s))
  <2>1. e.cmd = WithByte(io[r].cmd, mask, b)
    BY <1>4, <1>6
  <2> QED BY <1>11, <1>12, <2>1, Zenon
<1>14. Awaited(p, 0, Cmds, a, areads, s, vals)
  <2>1. PendingFrom - 1 = 0
    BY <1>5
  <2> QED BY <1>3, <1>4, <1>12, <2>1, Zenon
<1>15. \A c \in 2 .. Len(p) : new[p[c].req] = Cmds[p[c].req]
  BY <1>10, <1>11
<1>16. /\ a > 0 /\ areads # << >> /\ Head(areads).req = r
       /\ Len(mask) # 1 => \E u : Awaited(q, 0, new, a, areads, Tail(s), u)
       /\ Len(mask) = 1 => /\ new[r].data = Head(areads).data
                           /\ Awaited(q, 1, new, a - 1, Tail(areads), Tail(s), Tail(vals))
  <2>1. /\ p \in Seq(Pending) /\ p # << >> /\ r = p[1].req /\ mask = p[1].mask
        /\ mask # << >>
    BY <1>4
  <2>2. /\ Len(q) = Len(p) /\ \A c \in 2 .. Len(p) : q[c] = p[c]
    BY <1>8
  <2>3. areads \in Seq(Answer) /\ GoodCommand(Cmds[r]) /\ GoodCommand(new[r])
    BY <1>1, <1>11
  <2>4. PICK ar, cm : ar = areads /\ cm = Cmds
    OBVIOUS
  <2>5. TakesByte(p, q, r, mask, cm, new, Head(s))
    BY <1>9, <1>13, <1>15, <2>1, <2>2, <2>3, <2>4, Zenon DEF TakesByte
  <2>a. ar \in Seq(Answer) /\ Awaited(p, 0, cm, a, ar, s, vals)
    BY <1>14, <2>3, <2>4, Zenon
  <2>6. ByteTaken(q, r, mask, new, a, ar, s, vals)
    BY <1>12, <2>5, <2>a, AwaitedByte, Zenon
  <2> QED BY <2>4, <2>6, Zenon DEF ByteTaken
<1>17. Coming(want, fin)'
  BY <1>3, <1>4, ComingSame
<1>18. d \in Seq(Requests) /\ Queued(d, 0, new, fin, a, areads, amem, ds, ix)
  <2>1. DeniedFrom - 1 = 0
    BY <1>5
  <2>2. Queued(d, 0, Cmds, fin, a, areads, amem, ds, ix)
    BY <1>3, <1>6, <2>1, Zenon
  <2>3. \A j \in 0 + 1 .. Len(d) : new[d[j]] = Cmds[d[j]]
    BY <1>10, <1>11
  <2>4. d \in Seq(Requests)
    BY <1>1, <1>6, BridgeTypes
  <2> QED BY <2>2, <2>3, <2>4, QueuedSame
<1>19. DeniedFrom' - 1 = 0
  BY <1>5
<1>20. e.cmd = new[r] /\ ~ new[r].is_write
  <2>1. ~ Cmds[r].is_write /\ Cmds[r] \in Command
    BY <1>10, <1>11 DEF Reads, GoodCommand
  <2>2. PICK y : new[r] = [Cmds[r] EXCEPT !.data = y]
    BY <1>13, Zenon DEF WithByte
  <2> QED BY <1>11, <2>1, <2>2 DEF Command
<1>21. CASE Len(mask) = 1
  <2>1. pc' = "rresp" /\ areads' = Tail(areads) /\ PendingFrom' - 1 = 1
    BY <1>4, <1>5, <1>21
  <2>2. Awaited(pending_read_req_queue', PendingFrom' - 1, Cmds', a - 1, areads',
                read_rsp_queue' \o t, Tail(vals))
    BY <1>6, <1>12, <1>16, <1>21, <2>1, Zenon
  <2>3. PICK jx : Queued(d, 0, new, fin, a - 1, Tail(areads), amem, ds, jx)
    BY <1>1, <1>16, <1>18, QueuedAnswered
  <2>4. Queued(denied_req_queue', DeniedFrom' - 1, Cmds', fin, a - 1, areads', amem', ds, jx)
    BY <1>4, <1>6, <1>19, <2>1, <2>3, Zenon
  <2>5. Agrees'
    BY <1>3, <1>17, <2>2, <2>4, Rebuilt
  <2>6. e = [st |-> "idle", cmd |-> new[r]]
    BY <1>4, <1>11, <1>21
  <2>7. \E y \in Requests : \E cmd :
           /\ y = Head(areads).req /\ y \in Reads
           /\ io' = [io EXCEPT ![y] = [st |-> "idle", cmd |-> cmd]]
           /\ ~ cmd.is_write /\ cmd.data = Head(areads).data
    BY <1>4, <1>10, <1>16, <1>20, <1>21, <2>6
  <2> QED BY <1>16, <2>1, <2>5, <2>7
<1>22. CASE Len(mask) # 1
  <2>1. pc' # "rresp" /\ areads' = areads /\ PendingFrom' - 1 = 0
    BY <1>4, <1>5, <1>22
  <2>2. PICK u : Awaited(q, 0, new, a, areads, Tail(s), u)
    BY <1>16, <1>22
  <2>3. Awaited(pending_read_req_queue', PendingFrom' - 1, Cmds', a, areads',
                read_rsp_queue' \o t, u)
    BY <1>6, <1>12, <2>1, <2>2, Zenon
  <2>4. Queued(denied_req_queue', DeniedFrom' - 1, Cmds', fin, a, areads', amem', ds, ix)
    BY <1>4, <1>6, <1>18, <1>19, <2>1, Zenon
  <2>5. Agrees'
    BY <1>3, <1>17, <2>3, <2>4, Rebuilt
  <2>6. e = [st |-> "pending", cmd |-> new[r]]
    BY <1>4, <1>10, <1>11, <1>22 DEF Reads
  <2>7. \E y \in Reads : \E cmd :
           /\ ~ cmd.is_write
           /\ io' = [io EXCEPT ![y] = [st |-> "pending", cmd |-> cmd]]
    BY <1>4, <1>10, <1>20, <2>6
  <2> QED BY <2>1, <2>5, <2>7
<1> QED BY <1>21, <1>22

\* The agreement holds before the first call.
LEMMA HistoryInit == ASSUME HInit PROVE HInv
<1>1. Init /\ amem = mem /\ areads = << >>
  BY DEF HInit
<1>2. Inv /\ Owned
  BY <1>1, InitInv, InitOwned
<1>3. areads \in Seq(Answer) /\ Len(areads) = 0
  BY <1>1, EmptySeq
<1>4. /\ read_rsp_queue = << >> /\ denied_req_queue = << >>
      /\ pending_read_req_queue = << >> /\ pc = "idle" /\ ConvInit
  BY <1>1 DEF Init, ConvInit
<1>5. mem \in Memory
  BY <1>1, DdrConstants DEF Init, Memory
<1>6. Coming(<< >>, mem)
  BY <1>4, <1>5, ComingInit
<1>7. PICK e, off : /\ e = << >> /\ e \in Seq(Byte) /\ e \in Seq(Seq(Byte))
                    /\ Len(e) = 0 /\ Joined(e, e, off)
  <2>1. << >> \in Seq(Byte) /\ << >> \in Seq(Seq(Byte)) /\ Len(<< >>) = 0
    BY EmptySeq
  <2>2. \E off : Joined(<< >>, << >>, off)
    BY <2>1, JoinedNone, Zenon
  <2> QED BY <2>1, <2>2, Zenon
<1>8. GRANULARITY * 0 = 0
  BY DdrConstants
<1>9. Owing(e, e)
  BY <1>7, <1>8 DEF Owing
<1>10. e \o e = e
  BY <1>7, ConcatEmptySeq
<1>11. Awaited(e, 0, Cmds, 0, areads, e, e)
  <2>1. \A c \in 1 .. 0 : Awaits(e[0 + c], Cmds, areads[c], e[c])
    OBVIOUS
  <2> QED BY <1>3, <1>7, <2>1 DEF Awaited
<1>12. PICK ds, ix : Queued(<< >>, 0, Cmds, mem, Len(areads), areads, mem, ds, ix)
  <2>1. PICK ar : ar = areads /\ Len(ar) \in Nat
    BY <1>3
  <2>2. \E ds, ix : Queued(<< >>, 0, Cmds, mem, Len(ar), ar, mem, ds, ix)
    BY <1>5, <2>1, NoneQueued, Zenon
  <2> QED BY <2>1, <2>2, Zenon
<1>13. Queued(denied_req_queue, DeniedFrom - 1, Cmds, mem, 0, areads, amem, ds, ix)
  <2>1. DeniedFrom - 1 = 0
    BY <1>4 DEF DeniedFrom
  <2> QED BY <1>1, <1>3, <1>4, <1>12, <2>1, Zenon
<1>14. Awaited(pending_read_req_queue, PendingFrom - 1, Cmds, 0, areads,
               read_rsp_queue \o e, e)
  <2>1. PendingFrom - 1 = 0
    BY <1>4 DEF PendingFrom
  <2> QED BY <1>4, <1>7, <1>10, <1>11, <2>1, Zenon
<1>15. Coming(e, mem)
  BY <1>6, <1>7, Zenon
<1>16. Agrees
  BY <1>9, <1>13, <1>14, <1>15 DEF Agrees, Bridged
<1> QED BY <1>2, <1>3, <1>16 DEF HInv

\* A step of the history is one of the bridge.
LEMMA HistoryStep ==
  ASSUME HInv, [HNext]_hvars
  PROVE  [Next]_vars /\ Inv' /\ Owned'
<1>1. [Next]_vars
  <2>1. CASE \E r \in Requests, cmd \in Commands : req(r, cmd) /\ Observe(r, cmd)
    BY <2>1, Zenon DEF Next
  <2>2. CASE PeqEndReq \/ (\E i \in DOMAIN active : BeginResp(i)) \/ Handler
    BY <2>2, Zenon DEF Next
  <2>3. CASE UNCHANGED hvars
    BY <2>3 DEF hvars
  <2> QED BY <2>1, <2>2, <2>3 DEF HNext
<1> QED BY <1>1, NextInv, NextOwned DEF HInv

(* The steps that have nothing to do with the history. *)

\* The steps that change no request.
Inside ==
  \/ PeqEndReq \/ ReqCbExit \/ RspCbExit \/ RspCbWrite
  \/ (\E i : BeginResp(i)) \/ PeqMatch
  \/ GrantReturnRead \/ WriteRespReturn \/ ReadRespReturn

\* A step inside the bridge touches no request and answers none.
LEMMA InsideKeeps ==
  ASSUME Inv, Inside
  PROVE  io' = io /\ ~ (pc = "rsp_cb" /\ pc' = "rresp")
<1>1. ConvInv
  BY DEF Inv
<1>2. CASE PeqEndReq
  BY <1>2 DEF PeqEndReq, ddrVars
<1>3. CASE \E i : BeginResp(i)
  BY <1>3 DEF BeginResp, PeqBeginRespRead, PeqBeginRespWrite, ddrVars
<1>4. CASE PeqMatch
  BY <1>4 DEF PeqMatch, ddrVars
<1>5. CASE ReqCbExit \/ RspCbExit \/ RspCbWrite \/ GrantReturnRead \/ WriteRespReturn
           \/ ReadRespReturn
  BY <1>5 DEF ReqCbExit, RspCbExit, RspCbWrite, GrantReturnRead, WriteRespReturn,
       ReadRespReturn, ddrVars
<1> QED BY <1>2, <1>3, <1>4, <1>5 DEF Inside

\* The five kinds of steps.
LEMMA HistoryCases ==
  ASSUME HInv, HNext
  PROVE  \/ \E r \in Requests, cmd \in Commands :
              req(r, cmd) /\ Observe(r, cmd)
         \/ ReqCbSend /\ amem' = amem /\ areads' = areads
         \/ GrantReturnWrite /\ amem' = amem /\ areads' = areads
         \/ /\ RspCbByte /\ amem' = amem
            /\ areads' = IF pc' = "rresp" THEN Tail(areads) ELSE areads
         \/ Inside /\ amem' = amem /\ areads' = areads
<1>1. Inv
  BY DEF HInv
<1>2. SUFFICES ASSUME PeqEndReq \/ (\E i \in DOMAIN active : BeginResp(i)) \/ Handler,
                      amem' = amem,
                      areads' = IF pc = "rsp_cb" /\ pc' = "rresp" THEN Tail(areads)
                                ELSE areads
               PROVE  \/ ReqCbSend /\ areads' = areads
                      \/ GrantReturnWrite /\ areads' = areads
                      \/ /\ RspCbByte
                         /\ areads' = IF pc' = "rresp" THEN Tail(areads) ELSE areads
                      \/ Inside /\ areads' = areads
  BY DEF HNext
<1>3. CASE ReqCbSend
  <2>1. pc = "req_cb"
    BY <1>3 DEF ReqCbSend
  <2> QED BY <1>2, <1>3, <2>1
<1>4. CASE GrantReturnWrite
  <2>1. pc = "granted"
    BY <1>4 DEF GrantReturnWrite
  <2> QED BY <1>2, <1>4, <2>1
<1>5. CASE RspCbByte
  <2>1. pc = "rsp_cb"
    BY <1>5 DEF RspCbByte
  <2> QED BY <1>2, <1>5, <2>1
<1>6. CASE Inside
  BY <1>1, <1>2, <1>6, InsideKeeps
<1>7. ReqCbSend \/ GrantReturnWrite \/ RspCbByte \/ Inside
  BY <1>2 DEF Handler, Inside
<1> QED BY <1>3, <1>4, <1>5, <1>6, <1>7

\* A step inside the bridge keeps the agreement.
LEMMA InsideAgrees ==
  ASSUME HInv, Inside, amem' = amem, areads' = areads
  PROVE  Agrees'
<1>1. CASE PeqMatch
  <2>1. /\ pc = "match" /\ UNCHANGED ddrVars
        /\ MatchStep("rsp_cb") \/ MatchExit
    BY <1>1 DEF PeqMatch
  <2>2. CASE MatchStep("rsp_cb")
    BY <2>1, <2>2, MatchAgrees
  <2>3. CASE MatchExit
    BY <2>1, <2>3, ControlAgrees
  <2> QED BY <2>1, <2>2, <2>3
<1>2. CASE GrantReturnRead \/ WriteRespReturn
  BY <1>2, PoppedAgrees
<1>3. CASE ReadRespReturn
  BY <1>3, AnsweredAgrees
<1>4. CASE PeqEndReq \/ ReqCbExit \/ RspCbExit \/ RspCbWrite \/ (\E i : BeginResp(i))
  BY <1>4, ControlAgrees
<1> QED BY <1>1, <1>2, <1>3, <1>4 DEF Inside

\* Every step keeps the agreement: the invariant is inductive.
LEMMA HistoryKept == ASSUME HInv, [HNext]_hvars PROVE HInv'
<1>1. Inv /\ Owned /\ Inv' /\ Owned' /\ areads \in Seq(Answer)
  BY HistoryStep DEF HInv
<1>2. SUFFICES areads' \in Seq(Answer) /\ Agrees'
  BY <1>1 DEF HInv
<1>3. CASE UNCHANGED hvars
  <2>1. /\ amem' = amem /\ areads' = areads /\ read_rsp_queue' = read_rsp_queue
        /\ pending_read_req_queue' = pending_read_req_queue
        /\ denied_req_queue' = denied_req_queue /\ io' = io /\ pc' = pc
        /\ UNCHANGED <<read_req_list, out_order_rsp_list, active, beginq, mem>>
    BY <1>3 DEF hvars, vars, convVars, dramVars, ddrVars
  <2>2. Cmds' = Cmds /\ PendingFrom' = PendingFrom /\ DeniedFrom' = DeniedFrom
    BY <2>1 DEF Cmds, PendingFrom, DeniedFrom
  <2>3. \A want, fin : Coming(want, fin) => Coming(want, fin)'
    BY <2>1, ComingSame
  <2> QED BY <1>1, <2>1, <2>2, <2>3, QuietAgrees
<1>4. CASE HNext
  <2>1. ASSUME NEW r \in Requests, NEW cmd \in Commands, req(r, cmd), Observe(r, cmd)
        PROVE  areads' \in Seq(Answer) /\ Agrees'
    <3>1. pc \in Reentrant /\ io[r].st = "idle" /\ (ReqTaken(r, cmd) \/ ReqDenied(r, cmd))
      BY <2>1 DEF req
    <3>2. Agrees'
      BY <2>1, <3>1, TakenAgrees, DeniedAgrees
    <3>3. amem \in Memory
      <4>1. PICK want, t, fin, vals, a, ds, ix : Bridged(want, t, fin, vals, a, ds, ix)
        BY DEF HInv, Agrees
      <4>2. Queued(denied_req_queue, DeniedFrom - 1, Cmds, fin, a, areads, amem, ds, ix)
        BY <4>1, Zenon DEF Bridged
      <4>3. denied_req_queue \in Seq(Requests)
        BY <1>1, BridgeTypes
      <4> QED BY <4>2, <4>3, QueuedEnd
    <3>4. GoodCommand(cmd)
      BY CommandsGood
    <3>5. areads' \in Seq(Answer)
      BY <1>1, <2>1, <3>3, <3>4, Observed
    <3> QED BY <3>2, <3>5
  <2>2. CASE ReqCbSend /\ amem' = amem /\ areads' = areads
    BY <1>1, <2>2, SendAgrees
  <2>3. CASE GrantReturnWrite /\ amem' = amem /\ areads' = areads
    BY <1>1, <2>3, ControlAgrees
  <2>4. CASE /\ RspCbByte /\ amem' = amem
             /\ areads' = IF pc' = "rresp" THEN Tail(areads) ELSE areads
    <3>1. Agrees' /\ (pc' = "rresp" => areads # << >>)
      BY <2>4, ByteAgrees
    <3>2. areads # << >> => Tail(areads) \in Seq(Answer)
      BY <1>1, HeadTailProperties
    <3> QED BY <1>1, <2>4, <3>1, <3>2
  <2>5. CASE Inside /\ amem' = amem /\ areads' = areads
    BY <1>1, <2>5, InsideAgrees
  <2> QED BY <1>4, <2>1, <2>2, <2>3, <2>4, <2>5, HistoryCases
<1> QED BY <1>3, <1>4

-----------------------------------------------------------------------------
(* The mapped steps.                                                       *)

\* What the atomic memory sees of a request.
StOf(e) ==
  IF e.st = "idle" THEN "idle" ELSE IF e.cmd.is_write THEN "write" ELSE "read"
ResultOf(e) == IF e.st = "idle" /\ ~ e.cmd.is_write THEN e.cmd.data ELSE << >>

Sts == [r \in Requests |-> StOf(io[r])]
Results == [r \in Requests |-> ResultOf(io[r])]

\* A step that changes one request changes its image only.
LEMMA Mapped ==
  ASSUME io \in [Requests -> IoReq], NEW r \in Requests, NEW e,
         io' = [io EXCEPT ![r] = e]
  PROVE  /\ Sts' = [Sts EXCEPT ![r] = StOf(e)]
         /\ Results' = [Results EXCEPT ![r] = ResultOf(e)]
         /\ StOf(e) = StOf(io[r]) => Sts' = Sts
         /\ ResultOf(e) = ResultOf(io[r]) => Results' = Results
<1>1. io'[r] = e /\ \A x \in Requests : x # r => io'[x] = io[x]
  OBVIOUS
<1>2. /\ Sts' = [x \in Requests |-> StOf(io'[x])]
      /\ Results' = [x \in Requests |-> ResultOf(io'[x])]
  BY DEF Sts, Results, StOf, ResultOf
<1>3. Sts' = [Sts EXCEPT ![r] = StOf(e)]
  BY <1>1, <1>2 DEF Sts
<1>4. Results' = [Results EXCEPT ![r] = ResultOf(e)]
  BY <1>1, <1>2 DEF Results
<1>5. ASSUME StOf(e) = StOf(io[r]) PROVE Sts' = Sts
  <2>1. \A x \in Requests : StOf(io'[x]) = StOf(io[x])
    BY <1>1, <1>5
  <2> QED BY <1>2, <2>1 DEF Sts
<1>6. ASSUME ResultOf(e) = ResultOf(io[r]) PROVE Results' = Results
  <2>1. \A x \in Requests : ResultOf(io'[x]) = ResultOf(io[x])
    BY <1>1, <1>6
  <2> QED BY <1>2, <2>1 DEF Results
<1> QED BY <1>3, <1>4, <1>5, <1>6

\* A call.
LEMMA CallMapped ==
  ASSUME HInv, NEW r \in Requests, NEW cmd \in Commands, req(r, cmd), Observe(r, cmd)
  PROVE  Atomic!Write(r, cmd) \/ Atomic!Read(r, cmd)
<1>1. io \in [Requests -> IoReq] /\ cmd.is_write \in BOOLEAN
  BY BridgeTypes, CommandsGood DEF HInv, GoodCommand, Command
<1>2. io[r].st = "idle" /\ (ReqTaken(r, cmd) \/ ReqDenied(r, cmd))
  BY DEF req
<1>3. PICK st : /\ io' = [io EXCEPT ![r] = [st |-> st, cmd |-> cmd]]
                /\ st = (IF cmd.is_write THEN "idle" ELSE "pending") \/ st = "denied"
  BY <1>2 DEF ReqTaken, ReqDenied
<1>4. PICK e : e = [st |-> st, cmd |-> cmd]
  OBVIOUS
<1>5. /\ Sts' = [Sts EXCEPT ![r] = StOf(e)]
      /\ Results' = [Results EXCEPT ![r] = ResultOf(e)]
  BY <1>1, <1>3, <1>4, Mapped
<1>6. Sts[r] = "idle"
  BY <1>2 DEF Sts, StOf, req
<1>7. CASE cmd.is_write
  <2>1. StOf(e) \in {"idle", "write"} /\ ResultOf(e) = << >>
    BY <1>3, <1>4, <1>7 DEF StOf, ResultOf
  <2>2. amem' = Atomic!Store(amem, cmd) /\ areads' = areads
    BY <1>7 DEF Observe
  <2> QED BY <1>5, <1>6, <1>7, <2>1, <2>2 DEF Atomic!Write, Sts, Results, StOf, ResultOf
<1>8. CASE ~ cmd.is_write
  <2>1. StOf(e) = "read" /\ ResultOf(e) = << >>
    BY <1>3, <1>4, <1>8 DEF StOf, ResultOf
  <2>2. /\ areads' = Append(areads, [req |-> r, data |-> Atomic!Load(amem, cmd)])
        /\ amem' = amem
    BY <1>8 DEF Observe
  <2> QED BY <1>5, <1>6, <1>8, <2>1, <2>2 DEF Atomic!Read, Sts, Results, StOf, ResultOf
<1> QED BY <1>1, <1>7, <1>8

\* The other steps: two kinds of answers, and steps nobody sees.
LEMMA StepMapped ==
  ASSUME HInv, [HNext]_hvars
  PROVE  [Atomic!Next]_(Atomic!vars)
<1>1. Inv /\ Owned /\ io \in [Requests -> IoReq]
  BY BridgeTypes DEF HInv
<1>2. ASSUME Sts' = Sts, Results' = Results, amem' = amem, areads' = areads
      PROVE  UNCHANGED Atomic!vars
  BY <1>2 DEF Atomic!vars, Sts, Results, StOf, ResultOf
<1>3. ASSUME io' = io, amem' = amem, areads' = areads
      PROVE  UNCHANGED Atomic!vars
  <2>1. Sts' = Sts /\ Results' = Results
    BY <1>3 DEF Sts, Results, StOf, ResultOf
  <2> QED BY <1>2, <1>3, <2>1
<1>4. CASE UNCHANGED hvars
  BY <1>3, <1>4 DEF hvars, vars, ddrVars
<1>5. CASE HNext
  <2>1. ASSUME NEW r \in Requests, NEW cmd \in Commands, req(r, cmd), Observe(r, cmd)
        PROVE  Atomic!Next
    BY <2>1, CallMapped, Zenon DEF Atomic!Next
  <2>2. CASE ReqCbSend /\ amem' = amem /\ areads' = areads
    <3>1. PICK r : r = Head(denied_req_queue)
      OBVIOUS
    <3>2. io' = [io EXCEPT ![r].st = "pending"] /\ pc = "req_cb" /\ denied_req_queue # << >>
      BY <2>2, <3>1 DEF ReqCbSend
    <3>3. r \in Denied
      <4>1. denied_req_queue \in Seq(Requests)
        BY <1>1, BridgeTypes
      <4>2. r = denied_req_queue[1] /\ 1 \in 1 .. Len(denied_req_queue)
        BY <3>1, <3>2, <4>1, EmptySeq, LenProperties, HeadTailProperties
      <4>3. DeniedFrom = 1
        BY <3>2 DEF DeniedFrom
      <4> QED BY <1>1, <4>2, <4>3, QueueMembers
    <3>4. r \in Requests /\ io[r].st = "denied"
      BY <3>3 DEF Denied
    <3>5. PICK e : e = [io[r] EXCEPT !.st = "pending"] /\ io' = [io EXCEPT ![r] = e]
      BY <3>2
    <3>6. e.st = "pending" /\ e.cmd = io[r].cmd
      BY <1>1, <3>4, <3>5 DEF IoReq
    <3>7. StOf(e) = StOf(io[r]) /\ ResultOf(e) = ResultOf(io[r])
      BY <3>4, <3>6 DEF StOf, ResultOf
    <3> QED BY <1>1, <1>2, <2>2, <3>4, <3>5, <3>7, Mapped
  <2>3. CASE GrantReturnWrite /\ amem' = amem /\ areads' = areads
    <3>1. PICK r : r = Head(denied_req_queue)
      OBVIOUS
    <3>2. io' = [io EXCEPT ![r].st = "idle"] /\ io[r].cmd.is_write /\ pc = "granted"
      BY <2>3, <3>1 DEF GrantReturnWrite
    <3>3. r \in Requests /\ io[r].st = "pending"
      <4>1. denied_req_queue \in Seq(Requests) /\ denied_req_queue # << >>
        BY <1>1, <3>2, BridgeTypes DEF Inv, ClientInv
      <4>2. r = denied_req_queue[1] /\ 1 \in 1 .. Len(denied_req_queue)
        BY <3>1, <4>1, EmptySeq, LenProperties, HeadTailProperties
      <4>3. r \in Requests
        BY <4>1, <4>2, ElementOfSeq
      <4> QED BY <1>1, <3>2, <4>2, <4>3 DEF Owned
    <3>4. PICK e : e = [io[r] EXCEPT !.st = "idle"] /\ io' = [io EXCEPT ![r] = e]
      BY <3>2
    <3>5. e.st = "idle" /\ e.cmd = io[r].cmd
      BY <1>1, <3>3, <3>4 DEF IoReq
    <3>6. StOf(e) = "idle" /\ StOf(io[r]) = "write" /\ ResultOf(e) = ResultOf(io[r])
      BY <3>2, <3>3, <3>5 DEF StOf, ResultOf
    <3>7. Sts' = [Sts EXCEPT ![r] = "idle"] /\ Results' = Results /\ Sts[r] = "write"
      BY <1>1, <3>3, <3>4, <3>6, Mapped DEF Sts
    <3>8. Atomic!AnswerWrite(r)
      BY <2>3, <3>7 DEF Atomic!AnswerWrite, Sts, Results, StOf, ResultOf
    <3> QED BY <3>3, <3>8, Zenon DEF Atomic!Next
  <2>4. CASE /\ RspCbByte /\ amem' = amem
             /\ areads' = IF pc' = "rresp" THEN Tail(areads) ELSE areads
    <3>1. CASE pc' = "rresp"
      <4>1. areads # << >> /\ areads' = Tail(areads)
        BY <2>4, <3>1, ByteAgrees
      <4>2. \E r \in Requests : \E cmd :
              /\ r = Head(areads).req /\ r \in Reads
              /\ io' = [io EXCEPT ![r] = [st |-> "idle", cmd |-> cmd]]
              /\ ~ cmd.is_write /\ cmd.data = Head(areads).data
        BY <2>4, <3>1, ByteAgrees
      <4>3. PICK r \in Requests : \E cmd :
              /\ r = Head(areads).req /\ r \in Reads
              /\ io' = [io EXCEPT ![r] = [st |-> "idle", cmd |-> cmd]]
              /\ ~ cmd.is_write /\ cmd.data = Head(areads).data
        BY <4>2, Zenon
      <4>4. PICK cmd, e :
              /\ r = Head(areads).req /\ e = [st |-> "idle", cmd |-> cmd]
              /\ io' = [io EXCEPT ![r] = e]
              /\ ~ cmd.is_write /\ cmd.data = Head(areads).data
        BY <4>3, Zenon
      <4>5. StOf(e) = "idle" /\ ResultOf(e) = Head(areads).data
        BY <4>4 DEF StOf, ResultOf
      <4>6. /\ Sts' = [Sts EXCEPT ![r] = "idle"]
            /\ Results' = [Results EXCEPT ![r] = Head(areads).data]
        <5>1. /\ Sts' = [Sts EXCEPT ![r] = StOf(e)]
              /\ Results' = [Results EXCEPT ![r] = ResultOf(e)]
          BY <1>1, <4>4, Mapped
        <5> QED BY <4>5, <5>1, Zenon
      <4>7. Atomic!AnswerRead
        BY <2>4, <4>1, <4>4, <4>6 DEF Atomic!AnswerRead, Sts, Results, StOf, ResultOf
      <4> QED BY <4>7, Zenon DEF Atomic!Next
    <3>2. CASE pc' # "rresp"
      <4>1. \E r \in Reads : \E cmd :
              /\ ~ cmd.is_write
              /\ io' = [io EXCEPT ![r] = [st |-> "pending", cmd |-> cmd]]
        BY <2>4, <3>2, ByteAgrees
      <4>2. PICK r, cmd, e : /\ r \in Reads /\ e = [st |-> "pending", cmd |-> cmd]
                             /\ ~ cmd.is_write /\ io' = [io EXCEPT ![r] = e]
        BY <4>1, Zenon
      <4>3. r \in Requests /\ io[r].st = "pending" /\ ~ io[r].cmd.is_write
        BY <4>2 DEF Reads
      <4>4. StOf(e) = StOf(io[r]) /\ ResultOf(e) = ResultOf(io[r])
        BY <4>2, <4>3 DEF StOf, ResultOf
      <4> QED BY <1>1, <1>2, <2>4, <3>2, <4>2, <4>3, <4>4, Mapped
    <3> QED BY <3>1, <3>2
  <2>5. CASE Inside /\ amem' = amem /\ areads' = areads
    BY <1>1, <1>3, <2>5, InsideKeeps
  <2> QED BY <1>5, <2>1, <2>2, <2>3, <2>4, <2>5, HistoryCases
<1> QED BY <1>4, <1>5

\* The initial states map to initial states.
LEMMA InitMapped == ASSUME HInit PROVE Atomic!Init
<1>1. /\ Init /\ amem = mem /\ areads = << >> /\ mem \in Preloads
  BY DEF HInit, Init
<1>2. Inv
  BY <1>1, InitInv
<1>3. \A r \in Requests : io[r].st = "idle" /\ io[r].cmd.data \in Seq(Byte)
  <2>1. \A r \in Requests : GoodCommand(io[r].cmd)
    BY <1>2 DEF Inv, ClientInv
  <2>2. \A r \in Requests : io[r].st = "idle"
    BY <1>1 DEF Init
  <2> QED BY <2>1, <2>2 DEF GoodCommand, Command
<1>4. Sts = [r \in Requests |-> "idle"]
  BY <1>3 DEF Sts, StOf
<1>5. Results \in [Requests -> Seq(Byte)]
  <2>1. \A r \in Requests : ResultOf(io[r]) \in Seq(Byte)
    BY <1>3, EmptySeq DEF ResultOf
  <2> QED BY <2>1 DEF Results
<1> QED BY <1>1, <1>4, <1>5 DEF Atomic!Init, Sts, Results, StOf, ResultOf

\* The bridge implements the atomic memory: for every command, every memory
\* contents and every number of requests, a read returns the bytes of the
\* writes called before it and of no other, and each request is answered as
\* the atomic memory would.
THEOREM Refinement == HSpec => ImplementsAtomicDram
<1>1. HInit => HInv /\ Atomic!Init
  BY HistoryInit, InitMapped
<1>2. HInv /\ [HNext]_hvars => HInv'
  BY HistoryKept
<1>3. HInv /\ [HNext]_hvars => [Atomic!Next]_(Atomic!vars)
  BY StepMapped
<1> QED BY <1>1, <1>2, <1>3, PTL DEF HSpec, ImplementsAtomicDram, Atomic!Spec
=============================================================================
