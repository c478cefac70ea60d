----------------------------- MODULE AtomicDram -----------------------------
(***************************************************************************)
(* What the ddr component promises its initiators: a memory in which every *)
(* request takes effect at the moment ddr::req is called, whole and in the *)
(* order of the calls, although it may be answered much later; and in      *)
(* which reads are answered in the order of their calls.                   *)
(***************************************************************************)
EXTENDS Naturals, Sequences

CONSTANTS Requests, Commands, Byte, Preloads

VARIABLES
  mem,       \* the bytes, with every call so far applied
  st,        \* per request: idle, or a read or a write not answered yet
  reads,     \* reads not answered, in call order, with their result
  result     \* per idle request: the bytes its last read returned

vars == <<mem, st, reads, result>>

Init ==
  /\ mem \in Preloads
  /\ st = [r \in Requests |-> "idle"]
  /\ reads = << >>
  /\ result \in [Requests -> Seq(Byte)]

\* The bytes of a memory that a command touches.
Load(m, cmd) == [i \in 1 .. Len(cmd.data) |-> m[cmd.offset + i - 1]]
Store(m, cmd) ==
  [a \in DOMAIN m |-> IF a >= cmd.offset /\ a < cmd.offset + Len(cmd.data)
                      THEN cmd.data[a - cmd.offset + 1] ELSE m[a]]

\* A write is stored at once; the caller may have to wait for its answer.
Write(r, cmd) ==
  /\ st[r] = "idle" /\ cmd.is_write
  /\ mem' = Store(mem, cmd)
  /\ \E s \in {"idle", "write"} : st' = [st EXCEPT ![r] = s]
  /\ result' = [result EXCEPT ![r] = << >>]
  /\ UNCHANGED reads

\* What a read will return is settled when it is called.
Read(r, cmd) ==
  /\ st[r] = "idle" /\ ~ cmd.is_write
  /\ st' = [st EXCEPT ![r] = "read"]
  /\ reads' = Append(reads, [req |-> r, data |-> Load(mem, cmd)])
  /\ result' = [result EXCEPT ![r] = << >>]
  /\ UNCHANGED mem

AnswerWrite(r) ==
  /\ st[r] = "write"
  /\ st' = [st EXCEPT ![r] = "idle"]
  /\ UNCHANGED <<mem, reads, result>>

AnswerRead ==
  /\ reads # << >>
  /\ st' = [st EXCEPT ![Head(reads).req] = "idle"]
  /\ result' = [result EXCEPT ![Head(reads).req] = Head(reads).data]
  /\ reads' = Tail(reads)
  /\ UNCHANGED mem

Next ==
  \/ \E r \in Requests, cmd \in Commands : Write(r, cmd) \/ Read(r, cmd)
  \/ \E r \in Requests : AnswerWrite(r)
  \/ AnswerRead

Spec == Init /\ [][Next]_vars
=============================================================================
