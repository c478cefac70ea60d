---------------------------- MODULE PollingClient ----------------------------
(***************************************************************************)
(* A client of the DRAMSys library that registers no callbacks, like the   *)
(* demonstration program of dynamic_load: it asks dram_can_accept_req      *)
(* before it sends a transfer, lets the simulation run (run_ns) and polls  *)
(* for what came back.  The converter's own steps are the ones of          *)
(* DramsysConv; with no callback registered control stays in peqCallback.  *)
(*                                                                         *)
(* The client runs between two calls of run_ns, when the thread is "idle". *)
(* It may send any number of transfers between two polls, up to MaxSends   *)
(* in all (the bound of the model).  Writes are strobed, as in the demo.   *)
(***************************************************************************)
EXTENDS DramsysConv, FiniteSets

CONSTANTS
  Transfers,   \* what the client may send: is_write, addr, data, strobe
  MaxSends

\* A transfer: the bytes a write stores, under their strobe, or the buffer
\* whose length is what a read asks for.
Transfer == [is_write : BOOLEAN, addr : Nat, data : Seq(Byte), strobe : Seq(BOOLEAN)]

ASSUME ClientConstants ==
  /\ MaxSends \in Nat
  /\ Transfers \subseteq Transfer
  /\ \A t \in Transfers :
       /\ Len(t.data) > 0 /\ t.addr + Len(t.data) <= MemSize
       /\ t.is_write => Len(t.strobe) = Len(t.data)
       /\ ~ MisalignedStrobe(Len(t.data), t.is_write)

VARIABLES
  rec,        \* the client's receive buffer
  sends,      \* transfers sent
  acks,       \* write acknowledgements the client took
  amem,       \* history: the memory with every transfer sent so far applied
  due,        \* history: bytes each read sent must still return
  wanted,     \* history: what rec should hold
  owed        \* history: bursts of all writes sent

history == <<amem, due, wanted, owed>>
clientVars == <<rec, sends, acks>>
vars == <<convVars, dramVars, pc, clientVars, history>>

Init ==
  /\ ConvInit
  /\ mem = [a \in Addrs |-> 0]
  /\ pc = "idle"
  /\ rec = << >> /\ sends = 0 /\ acks = 0
  /\ amem = mem /\ due = << >> /\ wanted = << >> /\ owed = 0

-----------------------------------------------------------------------------
(* The client                                                              *)

\* dram_send_req of the library: one payload, or one per burst of a write.
Bursts(t) ==
  LET n == Len(t.data)
  IN [j \in 1 .. num_subreq(n, t.is_write) |->
        SubPayload(j - 1, t.addr, n, t.is_write, t.data, t.strobe)]

Load(m, t) == [i \in DOMAIN t.data |-> m[t.addr + i - 1]]

Store(m, t) == Written(m, [addr |-> t.addr, len |-> Len(t.data),
                           data |-> t.data, strobe |-> t.strobe])

CanSend == pc = "idle" /\ sends < MaxSends /\ dram_can_accept_req

Send(t) ==
  /\ CanSend
  /\ dram_send_req(Bursts(t))
  /\ sends' = sends + 1
  /\ amem' = IF t.is_write THEN Store(amem, t) ELSE amem
  /\ due' = IF t.is_write THEN due ELSE Append(due, Load(amem, t))
  /\ owed' = owed + IF t.is_write THEN Len(Bursts(t)) ELSE 0
  /\ UNCHANGED <<pc, rec, acks, wanted>>

dram_has_read_rsp == read_rsp_queue # << >>

Drop(q, n) == SubSeq(q, n + 1, Len(q))

\* dram_get_read_rsp: what is missing of length bytes is filled with zeros.
GetReadRsp(length) ==
  /\ rec' = [i \in 1 .. length |-> IF i <= Len(read_rsp_queue) THEN read_rsp_queue[i] ELSE 0]
  /\ read_rsp_queue' = Drop(read_rsp_queue, length)
  /\ UNCHANGED <<all_req_list, read_req_list, write_req_list, out_order_rsp_list,
                 write_rsp_queue, inflight_read_cnt, dramVars>>

\* A poll that found something takes all of the oldest read, or one byte of
\* it (dram_get_read_rsp_byte).
PollRead ==
  /\ pc = "idle" /\ dram_has_read_rsp
  /\ GetReadRsp(Len(Head(due)))
  /\ wanted' = Head(due)
  /\ due' = Tail(due)
  /\ UNCHANGED <<pc, sends, acks, amem, owed>>

PollReadByte ==
  /\ pc = "idle" /\ dram_has_read_rsp
  /\ GetReadRsp(1)
  /\ wanted' = <<Head(Head(due))>>
  /\ due' = IF Len(Head(due)) = 1 THEN Tail(due) ELSE [due EXCEPT ![1] = Tail(@)]
  /\ UNCHANGED <<pc, sends, acks, amem, owed>>

PollWrite ==
  /\ pc = "idle" /\ write_rsp_queue # << >>
  /\ write_rsp_queue' = Tail(write_rsp_queue)
  /\ acks' = acks + 1
  /\ UNCHANGED <<all_req_list, read_req_list, write_req_list, out_order_rsp_list,
                 read_rsp_queue, inflight_read_cnt, dramVars, pc, rec, sends, history>>

-----------------------------------------------------------------------------
(* run_ns: the converter's handlers, without callbacks                     *)

PeqEndReq == pc = "idle" /\ EndReq("idle") /\ UNCHANGED <<clientVars, history>>

PeqBeginRespRead(i) == pc = "idle" /\ BeginRespRead(i) /\ UNCHANGED <<clientVars, history>>

\* Mutant: one response is delivered per BEGIN_RESP, the loop does not repeat.
PeqMatchOnce ==
  pc = "match" /\ (MatchStep("idle") \/ MatchExit) /\ UNCHANGED <<clientVars, history>>

PeqMatch ==
  pc = "match" /\ (MatchStep("match") \/ MatchExit) /\ UNCHANGED <<clientVars, history>>

PeqBeginRespWrite(i) ==
  pc = "idle" /\ BeginRespWrite(i, "idle") /\ UNCHANGED <<clientVars, history>>

BeginResp(i) == PeqBeginRespRead(i) \/ PeqBeginRespWrite(i)

Next ==
  \/ \E t \in Transfers : Send(t)
  \/ PollRead \/ PollReadByte \/ PollWrite
  \/ PeqEndReq \/ PeqMatch
  \/ \E i \in DOMAIN active : BeginResp(i)

Spec == Init /\ [][Next]_vars

\* run_ns is called again and again, and the client polls what has come.
Fairness ==
  /\ WF_vars(PeqMatch) /\ WF_vars(PeqEndReq)
  /\ WF_vars(1 \in DOMAIN active /\ BeginResp(1))
  /\ WF_vars(PollRead) /\ WF_vars(PollWrite)

LiveSpec == Spec /\ Fairness
-----------------------------------------------------------------------------
(* Properties                                                              *)

\* The client's variables have the types of the program, and the converter
\* never ends in one of its fatal reports.
TypeOK ==
  /\ ConvTypeOK /\ pc \in {"idle", "match"}
  /\ rec \in Seq(Byte) /\ wanted \in Seq(Byte) /\ due \in Seq(Seq(Byte))
  /\ sends \in 0 .. MaxSends /\ acks \in Nat /\ owed \in Nat
  /\ amem \in [Addrs -> Byte]

\* dram_has_read_rsp tells that a whole read is there: what has been
\* delivered is, read by read and in the order they were sent, what the
\* writes sent before each of them left in memory, although the memory system
\* answers out of order.
PollsMatch ==
  pc = "idle" => \E k \in 0 .. Len(due) : read_rsp_queue = FlattenSeq(SubSeq(due, 1, k))

\* The buffer of the client holds what it asked for: nothing was filled with
\* zeros, and no byte of another read is in it.
ReceivedWanted == rec = wanted

\* A write is acknowledged once per burst it was split in: what the client
\* took, may take and has still to expect is what it sent.
WritesIn(q) == Cardinality({i \in DOMAIN q : q[i].is_write})
AckPerBurst ==
  acks + Len(write_rsp_queue) + Len(write_req_list) + WritesIn(all_req_list) = owed

\* Polling misses nothing: once the client stops sending it gets all bytes of
\* all its reads, and the memory ends as the transfers, in order, say.
EverythingArrives ==
  sends = MaxSends ~> due = << >> /\ acks = owed /\ mem = amem
=============================================================================
