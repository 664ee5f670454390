------------------------------ MODULE Requests ------------------------------
(***************************************************************************)
(* What the handlers of the API have in common.  A handler runs from await *)
(* to await; most of them read a row through a repository, check and       *)
(* change their copy of it, and save the copy.  TypeORM's save writes      *)
(* every column in which the copy differs from the row, so that a column   *)
(* another handler has changed in between gets its old value back, the     *)
(* deleted_at of a row removed in between included.                        *)
(***************************************************************************)
EXTENDS Integers

CONSTANTS Workers,   \* bound: the requests that are handled at a time
          MaxCalls   \* bound: the requests made altogether

ASSUME RequestsAssumption == MaxCalls \in Nat

VARIABLES calls,     \* where the handler of each request stands, and its locals
          started    \* how many requests were made

Idle == [at |-> "idle"]

At(w, where) == calls[w].at = where

Goto(w, call) == calls' = [calls EXCEPT ![w] = call]

\* A request arrives, passes what can be checked at once, and reads.
Begin(w, call) ==
    /\ calls[w] = Idle
    /\ started < MaxCalls
    /\ started' = started + 1
    /\ Goto(w, call)

\* A later step of the handler; the last one goes to Idle.
Proceed(w, call) == Goto(w, call) /\ UNCHANGED started

\* repository.save(Object.assign(copy, changes)).
Merge(copy, changes) ==
    [f \in DOMAIN copy |-> IF f \in DOMAIN changes THEN changes[f] ELSE copy[f]]

\* The process dies and is started again.
Forget == calls' = [w \in Workers |-> Idle] /\ UNCHANGED started
=============================================================================
