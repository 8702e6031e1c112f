----------------------------- MODULE ByteStream -----------------------------
(***************************************************************************)
(* What a channel of the driver promises to the program that reads it: the *)
(* bytes a peer sends arrive in order, every call takes the next ones, and *)
(* an answer is given only when the rules of its operation allow it.  There *)
(* is no chip, no packet and no buffer here.  A byte is its position in the *)
(* peer's stream, so out = <<0, 1, 2, ...>> is the whole of correctness.    *)
(***************************************************************************)
EXTENDS Integers, Sequences

CONSTANT LineFeeds      \* the stream positions that hold the byte CHR_LF

VARIABLES
    arrived,            \* how many bytes of the stream have arrived
    closed,             \* the connection no longer exists
    out,                \* the bytes handed to the program, in order
    call,               \* the call in progress
    result              \* the answer of the last call

vars == <<arrived, closed, out, call, result>>

NoCall == [op |-> "none", len |-> 0, n |-> 0, lf |-> FALSE]

Init ==
    /\ arrived = 0
    /\ closed = FALSE
    /\ out = <<>>
    /\ call = NoCall
    /\ result = [op |-> "none", err |-> "OK", n |-> 0]

Arrive ==
    /\ ~closed
    /\ arrived' \in Nat /\ arrived' > arrived
    /\ UNCHANGED <<closed, out, call, result>>

Close ==
    /\ ~closed
    /\ closed' = TRUE
    /\ UNCHANGED <<arrived, out, call, result>>

Invoke ==
    /\ call = NoCall
    /\ call'.op \in {"pend", "fbyte", "fline", "ip_recv"}
    /\ call' = [op |-> call'.op, len |-> call'.len, n |-> 0, lf |-> FALSE]
    /\ UNCHANGED <<arrived, closed, out, result>>

\* The next byte of the stream goes to the caller; a line stops at a line feed.
Deliver ==
    /\ call.op \in {"fbyte", "fline", "ip_recv"}
    /\ call.n < call.len
    /\ call.op = "fline" => ~call.lf
    /\ Len(out) < arrived
    /\ out' = Append(out, Len(out))
    /\ call' = [op |-> call.op, len |-> call.len, n |-> call.n + 1,
                 lf |-> Len(out) \in LineFeeds]
    /\ UNCHANGED <<arrived, closed, result>>

\* A call that took all it asked for has nothing left to wait for.
Satisfied ==
    \/ call.op \in {"fbyte", "ip_recv"} /\ call.n = call.len
    \/ call.op = "fline" /\ call.lf

Answer(err) ==
    CASE err = "OK" -> \/ call.op = "pend" /\ Len(out) < arrived
                       \/ call.op = "ip_recv"
                       \/ Satisfied
      [] err = "BO" -> call.op = "fline" /\ call.n = call.len /\ ~call.lf
      [] err = "EF" -> closed /\ call.op # "pend" /\ ~Satisfied
      [] err = "NC" -> call.op # "ip_recv" /\ ~Satisfied
      [] OTHER -> FALSE

Reply ==
    /\ call # NoCall
    /\ Answer(result'.err)
    /\ result' = [op |-> call.op, err |-> result'.err,
                  n |-> IF call.op = "ip_recv" /\ call.n = 0 /\ call.len # 0
                        THEN -1 ELSE call.n]
    /\ call' = NoCall
    /\ UNCHANGED <<arrived, closed, out>>

Next == Arrive \/ Close \/ Invoke \/ Deliver \/ Reply

Spec == Init /\ [][Next]_vars
=============================================================================
