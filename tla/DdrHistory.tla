----------------------------- MODULE DdrHistory -----------------------------
(***************************************************************************)
(* Ddr with two history variables, and the claim that it implements        *)
(* AtomicDram.  amem applies every call of ddr::req as it is made; areads  *)
(* holds what each unanswered read must return.                            *)
(***************************************************************************)
EXTENDS Ddr

VARIABLES amem, areads

hvars == <<vars, amem, areads>>

Atomic == INSTANCE AtomicDram WITH
  mem <- amem,
  st <- [r \in Requests |-> IF io[r].st = "idle" THEN "idle"
                            ELSE IF io[r].cmd.is_write THEN "write" ELSE "read"],
  reads <- areads,
  result <- [r \in Requests |-> IF io[r].st = "idle" /\ ~ io[r].cmd.is_write
                                THEN io[r].cmd.data ELSE << >>]

HInit == Init /\ amem = mem /\ areads = << >>

\* What a call means for the history.
Observe(r, cmd) ==
  IF cmd.is_write
  THEN amem' = Atomic!Store(amem, cmd) /\ UNCHANGED areads
  ELSE /\ areads' = Append(areads, [req |-> r, data |-> Atomic!Load(amem, cmd)])
       /\ UNCHANGED amem

HNext ==
  \/ \E r \in Requests, cmd \in Commands : req(r, cmd) /\ Observe(r, cmd)
  \/ /\ PeqEndReq \/ (\E i \in DOMAIN active : BeginResp(i)) \/ Handler
     /\ amem' = amem
     /\ areads' = IF pc = "rsp_cb" /\ pc' = "rresp" THEN Tail(areads) ELSE areads

HSpec == HInit /\ [][HNext]_hvars

\* Every behaviour of the bridge is one of the atomic memory: a read returns
\* the bytes of the writes called before it and of no other, however the
\* memory system re-orders, splits and delays them and however the calls
\* interleave with the callbacks of ddr::reqCallback and ddr::rspCallback.
ImplementsAtomicDram == Atomic!Spec
=============================================================================
