--------------------------- MODULE MCIdempotency ---------------------------
(***************************************************************************)
(* Attempts under one key of an external endpoint and one key of a         *)
(* transactional endpoint; some attempts send another payload.             *)
(***************************************************************************)
EXTENDS Idempotency

CONSTANTS pay, cmd,          \* the two keys
          first, second,     \* the two payload hashes
          CmdAttempts,       \* attempts under the transactional key
          SecondAttempts     \* attempts that send the second payload

MCKeyOf  == [a \in Attempts |-> IF a \in CmdAttempts THEN cmd ELSE pay]
MCHashOf == [a \in Attempts |-> IF a \in SecondAttempts THEN second ELSE first]
=============================================================================
