------------------------------ MODULE ByteStore ------------------------------
(***************************************************************************)
(* What DiskConnectHandle promises to the goroutines that share it, with   *)
(* no sectors, buffers or locks: a store of bytes in which a call touches  *)
(* the bytes of its own range and no other, a few at a time, and in which  *)
(* at most one of the Exclusive calls is under way.  A call may end early. *)
(***************************************************************************)
EXTENDS Integers

CONSTANTS Thread, Size, Request, NoRequest, Exclusive, Zero

VARIABLES
    content,  \* the bytes of the store
    op,       \* the call each goroutine has under way
    got       \* the bytes its read has returned to each goroutine so far

Extent(r) == r.off .. (IF r.off + r.len > Size THEN Size ELSE r.off + r.len) - 1
Nothing == [i \in {} |-> Zero]

Init ==
    /\ content = [b \in 0 .. Size - 1 |-> Zero]
    /\ op = [t \in Thread |-> NoRequest]
    /\ got = [t \in Thread |-> Nothing]

Start(t, r) ==
    /\ op[t] = NoRequest
    /\ r \in Exclusive => \A u \in Thread : op[u] \notin Exclusive
    /\ op' = [op EXCEPT ![t] = r]
    /\ UNCHANGED <<content, got>>

Read(t, bytes) ==
    /\ op[t].kind = "read"
    /\ got' = [got EXCEPT ![t] =
                  [i \in DOMAIN got[t] \cup {b - op[t].off : b \in bytes} |->
                      IF op[t].off + i \in bytes THEN content[op[t].off + i]
                                                 ELSE got[t][i]]]
    /\ UNCHANGED <<content, op>>

Write(t, bytes) ==
    /\ op[t].kind = "write"
    /\ content' = [b \in 0 .. Size - 1 |->
                      IF b \in bytes THEN [req |-> op[t], idx |-> b - op[t].off]
                                     ELSE content[b]]
    /\ UNCHANGED <<op, got>>

Finish(t) ==
    /\ op[t] # NoRequest
    /\ op' = [op EXCEPT ![t] = NoRequest]
    /\ got' = [got EXCEPT ![t] = Nothing]
    /\ UNCHANGED content

Next ==
    \E t \in Thread :
        \/ \E r \in Request : Start(t, r)
        \/ op[t] # NoRequest /\ \E bytes \in SUBSET Extent(op[t]) :
                                    Read(t, bytes) \/ Write(t, bytes)
        \/ Finish(t)

Spec == Init /\ [][Next]_<<content, op, got>>
=============================================================================
