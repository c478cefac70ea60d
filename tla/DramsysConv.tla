---------------------------- MODULE DramsysConv ----------------------------
(***************************************************************************)
(* dramsys_conv: the SystemC module that turns the C interface of the      *)
(* DRAMSys library (dram_send_req, dram_has_read_rsp, ...) into TLM        *)
(* transactions and back.  It keeps the requests the memory system has not *)
(* accepted yet (all_req_list), re-orders read responses into request      *)
(* order (read_req_list, out_order_rsp_list) and calls its client back.    *)
(*                                                                         *)
(* The DRAMSys memory system behind the socket is external: the payloads   *)
(* it has not accepted (beginq), the accepted ones (active) and its bytes  *)
(* (mem).  It accepts in arrival order (arbiter "Simple", one channel) and *)
(* answers in any order that keeps the order of overlapping accesses.      *)
(*                                                                         *)
(* The handlers call the client back in the middle of their work, so their *)
(* steps take the place control goes to (after) as a parameter: a client   *)
(* module fills it in.                                                     *)
(***************************************************************************)
EXTENDS Integers, Sequences, SequencesExt

CONSTANTS
  MemSize,                \* bytes of memory modelled
  Byte,                   \* values of a byte
  DRAMburst,              \* bytes per burst of the memory
  MaxActiveTransactions   \* transactions the memory system accepts

ASSUME ConvConstants ==
  /\ MemSize \in Nat
  /\ 0 \in Byte
  /\ DRAMburst \in Nat \ {0}
  /\ MaxActiveTransactions \in Nat \ {0}

VARIABLES
  all_req_list,           \* sent, END_REQ not seen
  read_req_list,          \* reads accepted by the memory, in order
  write_req_list,         \* writes accepted by the memory, in order
  out_order_rsp_list,     \* read responses not delivered yet
  read_rsp_queue,         \* bytes delivered, in request order
  write_rsp_queue,        \* write acknowledgements
  inflight_read_cnt,
  beginq, active, mem,    \* the external memory system
  pc                      \* where the one simulation thread is

convVars == <<all_req_list, read_req_list, write_req_list, out_order_rsp_list,
              read_rsp_queue, write_rsp_queue, inflight_read_cnt>>
dramVars == <<beginq, active, mem>>

Addrs == 0 .. MemSize - 1

-----------------------------------------------------------------------------
(* Data types                                                              *)

ReqT == [addr : Nat, len : Nat, is_write : BOOLEAN]
Payload == [addr : Nat, len : Nat, is_write : BOOLEAN,
            data : Seq(Byte), strobe : Seq(BOOLEAN)]
Response == [addr : Nat, len : Nat, data : Seq(Byte)]

\* The req_t the converter remembers of a payload it sends.
ReqOf(p) == [addr |-> p.addr, len |-> p.len, is_write |-> p.is_write]

ConvTypeOK ==
  /\ all_req_list \in Seq(ReqT)
  /\ read_req_list \in Seq(ReqT)
  /\ write_req_list \in Seq(ReqT)
  /\ out_order_rsp_list \in Seq(Response)
  /\ read_rsp_queue \in Seq(Byte)
  /\ write_rsp_queue \in Seq({1})
  /\ inflight_read_cnt \in Int
  /\ beginq \in Seq(Payload)
  /\ active \in Seq(Payload)
  /\ mem \in [Addrs -> Byte]

ConvInit ==
  /\ all_req_list = << >>
  /\ read_req_list = << >>
  /\ write_req_list = << >>
  /\ out_order_rsp_list = << >>
  /\ read_rsp_queue = << >>
  /\ write_rsp_queue = << >>
  /\ inflight_read_cnt = 0
  /\ beginq = << >>
  /\ active = << >>

-----------------------------------------------------------------------------
(* Sending                                                                 *)

\* Set by the constructor and nowhere else.
max_pending_req == 1

dram_can_accept_req == Len(all_req_list) < max_pending_req

\* A strobed write longer than a burst is sent as one payload per burst.
Splits(length, is_write) == is_write /\ length > DRAMburst

\* SC_REPORT_FATAL of the library: the bursts do not fill the write.
MisalignedStrobe(length, is_write) ==
  Splits(length, is_write) /\ length % DRAMburst # 0

num_subreq(length, is_write) ==
  IF Splits(length, is_write) THEN length \div DRAMburst ELSE 1

sub_len(length, is_write) ==
  IF Splits(length, is_write) THEN DRAMburst ELSE length

\* The payload of sub-request i (from 0): the bytes of the write buffer and
\* of the strobe buffer from i * sub_len on; a read carries neither.
SubPayload(i, addr, length, is_write, wbuffer, wstrobe) ==
  LET l == sub_len(length, is_write)
  IN [addr |-> addr + i * l, len |-> l, is_write |-> is_write,
      data |-> IF is_write THEN [k \in 1 .. l |-> wbuffer[i * l + k]] ELSE << >>,
      strobe |-> IF is_write THEN [k \in 1 .. l |-> wstrobe[i * l + k]] ELSE << >>]

\* dram_send_req of the converter for a sequence of payloads: each goes to
\* the memory system with BEGIN_REQ and is remembered until its END_REQ.
dram_send_req(ps) ==
  /\ beginq' = beginq \o ps
  /\ all_req_list' = all_req_list \o [i \in 1 .. Len(ps) |-> ReqOf(ps[i])]
  /\ UNCHANGED <<read_req_list, write_req_list, out_order_rsp_list,
                 read_rsp_queue, write_rsp_queue, inflight_read_cnt,
                 active, mem>>

-----------------------------------------------------------------------------
(* peqCallback, phase END_REQ: the memory system accepted a payload        *)

\* Mutant: takes the newest request.
EndedReqNewest == Last(all_req_list)

\* The request taken to be the accepted one: the oldest.
EndedReq == Head(all_req_list)

EndReqMismatch == Head(beginq).is_write # EndedReq.is_write

EndReq(after) ==
  /\ beginq # << >>
  /\ Len(active) < MaxActiveTransactions
  /\ IF EndReqMismatch
     THEN pc' = "fatal" /\ UNCHANGED <<convVars, dramVars>>
     ELSE LET req == EndedReq
          IN /\ read_req_list' = IF req.is_write THEN read_req_list
                                 ELSE Append(read_req_list, req)
             /\ write_req_list' = IF req.is_write THEN Append(write_req_list, req)
                                  ELSE write_req_list
             /\ inflight_read_cnt' = IF req.is_write THEN inflight_read_cnt
                                     ELSE inflight_read_cnt + 1
             /\ all_req_list' = Tail(all_req_list)
             /\ beginq' = Tail(beginq)
             /\ active' = Append(active, Head(beginq))
             /\ pc' = after
             /\ UNCHANGED <<out_order_rsp_list, read_rsp_queue,
                            write_rsp_queue, mem>>

-----------------------------------------------------------------------------
(* peqCallback, phase BEGIN_RESP                                           *)

Bytes(p) == p.addr .. p.addr + p.len - 1
Overlaps(p, q) == Bytes(p) \cap Bytes(q) # {}

\* The external memory answers any accepted payload that no older accepted
\* payload overlaps, and serves it at that point.
Answerable(i) ==
  /\ i \in DOMAIN active
  /\ \A j \in 1 .. i - 1 : ~ Overlaps(active[j], active[i])

Written(m, p) ==
  [a \in DOMAIN m |-> IF a \in Bytes(p) /\ p.strobe[a - p.addr + 1]
                      THEN p.data[a - p.addr + 1] ELSE m[a]]

\* Mutant: the copy loop stops one byte early.
FetchedShort(p) == [k \in 1 .. p.len - 1 |-> mem[p.addr + k - 1]]

\* The bytes of a read, copied out of its payload.
Fetched(p) == [k \in 1 .. p.len |-> mem[p.addr + k - 1]]

\* Mutant: the last such entry instead of the first.
FirstLikeLast(list, x) ==
  SelectLastInSeq(list, LAMBDA e : e.addr = x.addr /\ e.len = x.len)

\* The first entry of a list with the address and the length of x, or 0.
FirstLike(list, x) ==
  SelectInSeq(list, LAMBDA e : e.addr = x.addr /\ e.len = x.len)

\* A read response is kept in out_order_rsp_list; the loop that follows
\* (MatchStep, MatchExit) delivers what is in order.
BeginRespRead(i) ==
  /\ Answerable(i)
  /\ ~ active[i].is_write
  /\ IF FirstLike(read_req_list, active[i]) = 0
     THEN pc' = "fatal" /\ UNCHANGED <<convVars, dramVars>>
     ELSE /\ out_order_rsp_list' =
               Append(out_order_rsp_list, [addr |-> active[i].addr,
                                           len |-> active[i].len,
                                           data |-> Fetched(active[i])])
          /\ active' = RemoveAt(active, i)
          /\ pc' = "match"
          /\ UNCHANGED <<all_req_list, read_req_list, write_req_list,
                         read_rsp_queue, write_rsp_queue, inflight_read_cnt,
                         beginq, mem>>

\* Mutant: whichever response came first.
MatchedAny == IF read_req_list = << >> \/ out_order_rsp_list = << >> THEN 0 ELSE 1

\* The response the oldest outstanding read can be answered with, or 0.
Matched ==
  IF read_req_list = << >> THEN 0
  ELSE FirstLike(out_order_rsp_list, Head(read_req_list))

\* Mutant: inflight_read_cnt is not decremented.
MatchStepNoCount(after) ==
  /\ Matched # 0
  /\ read_rsp_queue' = read_rsp_queue \o out_order_rsp_list[Matched].data
  /\ out_order_rsp_list' = RemoveAt(out_order_rsp_list, Matched)
  /\ read_req_list' = Tail(read_req_list)
  /\ pc' = after
  /\ UNCHANGED <<all_req_list, write_req_list, write_rsp_queue,
                 inflight_read_cnt, dramVars>>

\* One turn of the loop: deliver the bytes of the oldest read, then call the
\* client back.
MatchStep(after) ==
  /\ Matched # 0
  /\ read_rsp_queue' = read_rsp_queue \o out_order_rsp_list[Matched].data
  /\ out_order_rsp_list' = RemoveAt(out_order_rsp_list, Matched)
  /\ read_req_list' = Tail(read_req_list)
  /\ inflight_read_cnt' = inflight_read_cnt - 1
  /\ pc' = after
  /\ UNCHANGED <<all_req_list, write_req_list, write_rsp_queue, dramVars>>

\* The loop ends; the payload is released and END_RESP is sent.
MatchExit ==
  /\ Matched = 0
  /\ pc' = "idle"
  /\ UNCHANGED <<convVars, dramVars>>

\* Mutant: the acknowledgement is queued twice.
BeginRespWriteTwice(i, after) ==
  /\ Answerable(i)
  /\ active[i].is_write
  /\ mem' = Written(mem, active[i])
  /\ active' = RemoveAt(active, i)
  /\ write_req_list' = Tail(write_req_list)
  /\ write_rsp_queue' = write_rsp_queue \o <<1, 1>>
  /\ pc' = after
  /\ UNCHANGED <<all_req_list, read_req_list, out_order_rsp_list,
                 read_rsp_queue, inflight_read_cnt, beginq>>

\* A write response drops the oldest entry of write_req_list, whichever
\* write it answers.
BeginRespWrite(i, after) ==
  /\ Answerable(i)
  /\ active[i].is_write
  /\ mem' = Written(mem, active[i])
  /\ active' = RemoveAt(active, i)
  /\ write_req_list' = Tail(write_req_list)
  /\ write_rsp_queue' = Append(write_rsp_queue, 1)
  /\ pc' = after
  /\ UNCHANGED <<all_req_list, read_req_list, out_order_rsp_list,
                 read_rsp_queue, inflight_read_cnt, beginq>>
=============================================================================
