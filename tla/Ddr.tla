-------------------------------- MODULE Ddr --------------------------------
(***************************************************************************)
(* The ddr component of the GVSoC model: an I/O slave that serves the      *)
(* requests of its initiators from the DRAMSys library.  It cuts a request *)
(* into aligned chunks of GRANULARITY bytes, queues what the library       *)
(* cannot take yet (denied_req_queue), and collects the bytes of reads     *)
(* (pending_read_req_queue).                                               *)
(*                                                                         *)
(* Everything runs in one simulation thread.  The points where another     *)
(* part of the simulator may call ddr::req are the ones where the thread   *)
(* is outside the bridge ("idle") and inside a callback of an initiator:   *)
(* grant() ("granted"), resp() of a denied write ("wresp") and resp() of a *)
(* read ("rresp").                                                         *)
(***************************************************************************)
EXTENDS DramsysConv

CONSTANTS
  GRANULARITY,     \* bytes per chunk
  Requests,        \* the vp::IoReq objects of the initiators
  Commands,        \* what an initiator may put in a request
  Preloads         \* what the memory may hold when the simulation starts

\* A command: is_write, the offset from BASE_ADDR and the bytes (to write,
\* or the contents of the buffer a read will overwrite).
Command == [is_write : BOOLEAN, offset : Nat, data : Seq(Byte)]

ASSUME DdrConstants ==
  /\ GRANULARITY \in Nat \ {0}
  /\ Commands \subseteq Command
  /\ \A c \in Commands : c.data # << >> /\ c.offset + Len(c.data) <= MemSize
  /\ MemSize % GRANULARITY = 0
  /\ GRANULARITY > DRAMburst => GRANULARITY % DRAMburst = 0
  /\ Preloads \subseteq [Addrs -> Byte]

VARIABLES
  io,                       \* the requests: state and command
  denied_req_queue,
  pending_read_req_queue    \* reads sent, with the mask bytes still due

ddrVars == <<io, denied_req_queue, pending_read_req_queue>>
vars == <<convVars, dramVars, pc, ddrVars>>

\* A request belongs to its initiator ("idle"), waits for a grant ("denied"),
\* or has been taken and waits for a response ("pending").
IoState == {"idle", "denied", "pending"}
IoReq == [st : IoState, cmd : Command]

Pcs == {"idle", "req_cb", "granted", "wresp", "match", "rsp_cb", "rresp",
        "wrsp_cb", "fatal"}

\* Where an initiator can run and call ddr::req.
Reentrant == {"idle", "granted", "wresp", "rresp"}

TypeOK ==
  /\ ConvTypeOK
  /\ pc \in Pcs
  /\ io \in [Requests -> IoReq]
  /\ denied_req_queue \in Seq(Requests)
  /\ pending_read_req_queue \in Seq([req : Requests, mask : Seq({0, 1})])

\* No request has been made.
Init ==
  /\ ConvInit
  /\ mem \in Preloads
  /\ pc = "idle"
  /\ \E cmd \in Commands : io = [r \in Requests |-> [st |-> "idle", cmd |-> cmd]]
  /\ denied_req_queue = << >>
  /\ pending_read_req_queue = << >>

-----------------------------------------------------------------------------
(* ddr::paraSendRequest                                                    *)

size(cmd) == Len(cmd.data)
req_start_addr(cmd) == (cmd.offset \div GRANULARITY) * GRANULARITY
num_req(cmd) ==
  1 + ((cmd.offset + size(cmd) - 1) - req_start_addr(cmd)) \div GRANULARITY

start_ptr(cmd) == cmd.offset - req_start_addr(cmd)
end_ptr(cmd) == cmd.offset - req_start_addr(cmd) + size(cmd)

\* Is byte i (from 0) of the aligned range one of the request's bytes?
InRange(cmd, i) == i >= start_ptr(cmd) /\ i < end_ptr(cmd)

\* Mutant: the mask counts the chunks instead of marking the bytes.
mask_dCount(cmd) == [i \in 1 .. GRANULARITY * num_req(cmd) |->
                       IF InRange(cmd, i - 1) THEN num_req(cmd) ELSE 0]

\* mask_d and data_q over the whole aligned range.
mask_d(cmd) == [i \in 1 .. GRANULARITY * num_req(cmd) |->
                  IF InRange(cmd, i - 1) THEN 1 ELSE 0]
data_q(cmd) == [i \in 1 .. GRANULARITY * num_req(cmd) |->
                  IF InRange(cmd, i - 1) THEN cmd.data[i - start_ptr(cmd)] ELSE 0]

\* The payloads of a request: its chunks in order, each as the sub-requests
\* the library makes of it.
Payloads(cmd) ==
  LET w == cmd.is_write
      n == num_subreq(GRANULARITY, w)
      wbuffer(k) == [i \in 1 .. GRANULARITY |-> data_q(cmd)[k * GRANULARITY + i]]
      wstrobe(k) == [i \in 1 .. GRANULARITY |-> mask_d(cmd)[k * GRANULARITY + i] = 1]
  IN [j \in 1 .. num_req(cmd) * n |->
        LET k == (j - 1) \div n
        IN SubPayload((j - 1) % n, req_start_addr(cmd) + k * GRANULARITY,
                      GRANULARITY, w, wbuffer(k), wstrobe(k))]

\* Send the payloads and queue a read until its bytes are there; next is
\* where the thread is afterwards.
paraSendRequest(r, cmd, next) ==
  IF MisalignedStrobe(GRANULARITY, cmd.is_write)
  THEN /\ pc' = "fatal"
       /\ UNCHANGED <<convVars, dramVars, pending_read_req_queue>>
  ELSE /\ pc' = next
       /\ dram_send_req(Payloads(cmd))
       /\ pending_read_req_queue' =
            IF cmd.is_write THEN pending_read_req_queue
            ELSE Append(pending_read_req_queue, [req |-> r, mask |-> mask_d(cmd)])

-----------------------------------------------------------------------------
(* ddr::req, called by an initiator                                        *)

\* A write that is taken is finished at once (IO_REQ_OK); a read that is
\* taken is answered later (IO_REQ_PENDING).
ReqTaken(r, cmd) ==
  /\ dram_can_accept_req
  /\ paraSendRequest(r, cmd, pc)
  /\ io' = [io EXCEPT ![r] = [st |-> IF cmd.is_write THEN "idle" ELSE "pending",
                              cmd |-> cmd]]
  /\ UNCHANGED denied_req_queue

ReqDenied(r, cmd) ==
  /\ ~ dram_can_accept_req
  /\ denied_req_queue' = Append(denied_req_queue, r)
  /\ io' = [io EXCEPT ![r] = [st |-> "denied", cmd |-> cmd]]
  /\ UNCHANGED <<convVars, dramVars, pc, pending_read_req_queue>>

req(r, cmd) ==
  /\ pc \in Reentrant
  /\ io[r].st = "idle"
  /\ ReqTaken(r, cmd) \/ ReqDenied(r, cmd)

-----------------------------------------------------------------------------
(* ddr::reqCallback, called by the converter after an END_REQ              *)

\* Mutant: the client is called back for writes only.
PeqEndReqWritesOnly ==
  /\ pc = "idle"
  /\ EndReq(IF beginq # << >> /\ Head(beginq).is_write THEN "req_cb" ELSE "idle")
  /\ UNCHANGED ddrVars

PeqEndReq ==
  /\ pc = "idle"
  /\ EndReq("req_cb")
  /\ UNCHANGED ddrVars

\* A turn of the loop: send the oldest denied request and call grant().
ReqCbSend ==
  /\ pc = "req_cb"
  /\ dram_can_accept_req
  /\ denied_req_queue # << >>
  /\ LET r == Head(denied_req_queue)
     IN /\ paraSendRequest(r, io[r].cmd, "granted")
        /\ io' = [io EXCEPT ![r].st = "pending"]
  /\ UNCHANGED denied_req_queue

\* grant() returns: a write is answered with resp(), a read leaves the queue.
GrantReturnWrite ==
  /\ pc = "granted"
  /\ LET r == Head(denied_req_queue)
     IN io[r].cmd.is_write /\ io' = [io EXCEPT ![r].st = "idle"]
  /\ pc' = "wresp"
  /\ UNCHANGED <<convVars, dramVars, denied_req_queue, pending_read_req_queue>>

GrantReturnRead ==
  /\ pc = "granted"
  /\ ~ io[Head(denied_req_queue)].cmd.is_write
  /\ denied_req_queue' = Tail(denied_req_queue)
  /\ pc' = "req_cb"
  /\ UNCHANGED <<convVars, dramVars, io, pending_read_req_queue>>

\* Mutant: the answered write stays in the queue.
WriteRespReturnNoPop ==
  /\ pc = "wresp"
  /\ pc' = "req_cb"
  /\ UNCHANGED <<convVars, dramVars, ddrVars>>

\* resp() returns.
WriteRespReturn ==
  /\ pc = "wresp"
  /\ denied_req_queue' = Tail(denied_req_queue)
  /\ pc' = "req_cb"
  /\ UNCHANGED <<convVars, dramVars, io, pending_read_req_queue>>

ReqCbExit ==
  /\ pc = "req_cb"
  /\ ~ (dram_can_accept_req /\ denied_req_queue # << >>)
  /\ pc' = "idle"
  /\ UNCHANGED <<convVars, dramVars, ddrVars>>

-----------------------------------------------------------------------------
(* ddr::rspCallback, called by the converter for a response                *)

PeqBeginRespRead(i) ==
  /\ pc = "idle"
  /\ BeginRespRead(i)
  /\ UNCHANGED ddrVars

PeqMatch ==
  /\ pc = "match"
  /\ MatchStep("rsp_cb") \/ MatchExit
  /\ UNCHANGED ddrVars

\* A turn of the loop: take one byte, store it if it is one of the
\* request's, and answer the request when it was the last one.
RspCbByte ==
  /\ pc = "rsp_cb"
  /\ read_rsp_queue # << >>
  /\ pending_read_req_queue # << >>
  /\ LET r == Head(pending_read_req_queue).req
         mask == Head(pending_read_req_queue).mask
         cmd == io[r].cmd
         read_ptr == num_req(cmd) * GRANULARITY - Len(mask)
         byte == IF Head(mask) = 1 THEN Head(read_rsp_queue) ELSE 0
         filled == IF InRange(cmd, read_ptr)
                   THEN [cmd.data EXCEPT ![read_ptr - start_ptr(cmd) + 1] = byte]
                   ELSE cmd.data
         last == Len(mask) = 1
     IN /\ io' = [io EXCEPT ![r] = [st |-> IF last THEN "idle" ELSE @.st,
                                    cmd |-> [cmd EXCEPT !.data = filled]]]
        /\ pending_read_req_queue' =
             [pending_read_req_queue EXCEPT ![1].mask = Tail(mask)]
        /\ pc' = IF last THEN "rresp" ELSE "rsp_cb"
  /\ read_rsp_queue' = Tail(read_rsp_queue)
  /\ UNCHANGED <<all_req_list, read_req_list, write_req_list,
                 out_order_rsp_list, write_rsp_queue, inflight_read_cnt,
                 dramVars, denied_req_queue>>

\* resp() returns and the request leaves the queue.
ReadRespReturn ==
  /\ pc = "rresp"
  /\ pending_read_req_queue' = Tail(pending_read_req_queue)
  /\ pc' = "rsp_cb"
  /\ UNCHANGED <<convVars, dramVars, io, denied_req_queue>>

RspCbExit ==
  /\ pc = "rsp_cb"
  /\ read_rsp_queue = << >> \/ pending_read_req_queue = << >>
  /\ pc' = "match"
  /\ UNCHANGED <<convVars, dramVars, ddrVars>>

PeqBeginRespWrite(i) ==
  /\ pc = "idle"
  /\ BeginRespWrite(i, "wrsp_cb")
  /\ UNCHANGED ddrVars

\* The callback drains the acknowledgements of writes.
RspCbWrite ==
  /\ pc = "wrsp_cb"
  /\ write_rsp_queue' = << >>
  /\ pc' = "idle"
  /\ UNCHANGED <<all_req_list, read_req_list, write_req_list,
                 out_order_rsp_list, read_rsp_queue, inflight_read_cnt,
                 dramVars, ddrVars>>

-----------------------------------------------------------------------------

\* The steps of a handler that is running: the thread is never idle in them.
Handler ==
  \/ ReqCbSend \/ GrantReturnWrite \/ GrantReturnRead \/ WriteRespReturn
  \/ ReqCbExit \/ PeqMatch \/ RspCbByte \/ ReadRespReturn \/ RspCbExit
  \/ RspCbWrite

BeginResp(i) == PeqBeginRespRead(i) \/ PeqBeginRespWrite(i)

Next ==
  \/ \E r \in Requests, cmd \in Commands : req(r, cmd)
  \/ PeqEndReq
  \/ \E i \in DOMAIN active : BeginResp(i)
  \/ Handler

Spec == Init /\ [][Next]_vars

\* The thread does not stop inside a handler; the memory system accepts
\* while it has room and answers its oldest transaction.
Fairness ==
  /\ WF_vars(Handler)
  /\ SF_vars(PeqEndReq)
  /\ SF_vars(1 \in DOMAIN active /\ BeginResp(1))

LiveSpec == Spec /\ Fairness
-----------------------------------------------------------------------------
(* Correctness                                                             *)

\* None of the SC_REPORT_FATALs of the converter and the library is reached:
\* an END_REQ always finds a request of its own direction at the head of
\* all_req_list, and a read response always finds its request in
\* read_req_list, however many payloads one call sent before the first
\* END_REQ came back.
NoFatal == pc # "fatal"

\* A denied request is never overtaken.  Wherever an initiator can call
\* ddr::req, a non-empty denied_req_queue means that the call is denied too,
\* so it queues behind; the loop of ddr::reqCallback may stop for want of
\* room only.
NeverOvertaken ==
  pc \in Reentrant /\ denied_req_queue # << >> => ~ dram_can_accept_req

\* The entries of a sequence of requests or payloads that read, and that write.
ReadsIn(q) == {i \in DOMAIN q : ~ q[i].is_write}
WritesIn(q) == {i \in DOMAIN q : q[i].is_write}

\* Bookkeeping of the converter: inflight_read_cnt, which
\* dram_get_inflight_read reports, counts the reads accepted and not yet
\* delivered, each of which is in the memory or waits out of order; and
\* write_req_list, popped without looking, has one entry per accepted write.
Bookkeeping ==
  /\ inflight_read_cnt = Len(read_req_list)
  /\ Len(read_req_list) = Cardinality(ReadsIn(active)) + Len(out_order_rsp_list)
  /\ Len(write_req_list) = Cardinality(WritesIn(active))

\* No byte of a read is lost, duplicated or given to the wrong request's
\* neighbour: the bytes the pending reads still expect are exactly the ones
\* on their way, and none is left over when the callback returns.
MaskLens(q) == [i \in DOMAIN q |-> Len(q[i].mask)]
MaskDue ==
  LET due[i \in 0 .. Len(pending_read_req_queue)] ==
        IF i = 0 THEN 0 ELSE due[i - 1] + MaskLens(pending_read_req_queue)[i]
  IN due[Len(pending_read_req_queue)]

ByteConservation ==
  /\ MaskDue = Len(read_rsp_queue)
       + GRANULARITY * (Len(read_req_list)
                        + Cardinality(ReadsIn(beginq)))
  /\ pc \in {"idle", "match"} => read_rsp_queue = << >>

\* The requests the bridge owes an answer are the ones in its queues, each
\* once: none is forgotten, none is answered or granted twice, also when an
\* initiator re-uses a request inside resp(), before the bridge has popped it.
Occurrences(q, r) == Cardinality({i \in DOMAIN q : q[i] = r})
PendingReqs == [i \in DOMAIN pending_read_req_queue |-> pending_read_req_queue[i].req]

QueueOwnership ==
  LET deniedQ == IF pc \in {"granted", "wresp"} THEN Tail(denied_req_queue)
                 ELSE denied_req_queue
      pendingQ == IF pc = "rresp" THEN Tail(PendingReqs) ELSE PendingReqs
  IN \A r \in Requests :
       /\ Occurrences(deniedQ, r) = IF io[r].st = "denied" THEN 1 ELSE 0
       /\ Occurrences(pendingQ, r) =
            IF io[r].st = "pending" /\ ~ io[r].cmd.is_write THEN 1 ELSE 0
       /\ io[r].st = "pending" /\ io[r].cmd.is_write =>
            pc = "granted" /\ r = Head(denied_req_queue)

\* Every request is answered: a denied one is granted and answered, a read
\* that was taken gets all its bytes, even while initiators keep calling.
EveryRequestAnswered ==
  \A r \in Requests : io[r].st # "idle" ~> io[r].st = "idle"
=============================================================================
