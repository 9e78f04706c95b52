----------------------------- MODULE AnswerOnce -----------------------------
(***************************************************************************)
(* What an Idempotency-Key promises a client, without leases, claims or    *)
(* rows: a key is given one response, once, and every attempt that gets an *)
(* answer for the key gets that response, and only if it sent the payload  *)
(* the response was made for.                                              *)
(***************************************************************************)
CONSTANTS Attempts, Keys, KeyOf, HashOf, None

VARIABLES response,   \* response[k]: the attempt that produced k's response
          served      \* served[a]: the response attempt a was answered with

vars == <<response, served>>

Init ==
    /\ response = [k \in Keys |-> None]
    /\ served = [a \in Attempts |-> None]

Commit(a) ==
    /\ response[KeyOf[a]] = None
    /\ response' = [response EXCEPT ![KeyOf[a]] = a]
    /\ UNCHANGED served

Serve(a) ==
    /\ response[KeyOf[a]] # None
    /\ HashOf[response[KeyOf[a]]] = HashOf[a]
    /\ served' = [served EXCEPT ![a] = response[KeyOf[a]]]
    /\ UNCHANGED response

Next == \E a \in Attempts : Commit(a) \/ Serve(a)

Spec == Init /\ [][Next]_vars
=============================================================================
