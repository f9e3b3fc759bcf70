----------------------------- MODULE ApiServer -----------------------------
(***************************************************************************)
(* The API server of a node (api/server) as far as its handlers share it:  *)
(* net/http runs every request in a goroutine of its own, so the calls     *)
(* that the handlers make interleave.  A handler that panics is ended by   *)
(* net/http, and the process goes on.                                      *)
(*                                                                         *)
(* A call is one request; they are numbered as they come in.  What a call  *)
(* does is in Lifecycle and Discovery.                                     *)
(***************************************************************************)
EXTENDS Naturals, FiniteSets

CONSTANTS
    MaxCalls,   \* bounds the requests
    MaxActive   \* bounds the requests in progress at a time

ASSUME ApiAssumption == MaxCalls \in Nat /\ MaxActive \in Nat \ {0}

Calls == 1..MaxCalls
NoCall == 0

VARIABLES
    op,         \* op[c]: what the call is, "none" before it is made
    pc,         \* pc[c]: where the call is
    result,     \* result[c]: how the call ended
    met         \* met[c]: history, the calls that were in progress beside it

callVars == <<op, pc, result, met>>

ApiInit ==
    /\ op = [c \in Calls |-> "none"]
    /\ pc = [c \in Calls |-> "idle"]
    /\ result = [c \in Calls |-> "none"]
    /\ met = [c \in Calls |-> {}]

Active == {c \in Calls : pc[c] \notin {"idle", "done"}}

Quiet == Active = {}

Arrives(c) ==
    /\ pc[c] = "idle"
    /\ \A d \in 1..(c - 1) : pc[d] # "idle"
    /\ Cardinality(Active) < MaxActive

\* A request comes in: its first step leads to `at`.
Begin(c, o, at) ==
    /\ Arrives(c)
    /\ op' = [op EXCEPT ![c] = o]
    /\ pc' = [pc EXCEPT ![c] = at]
    /\ met' = [d \in Calls |-> IF d = c THEN Active
                               ELSE IF d \in Active THEN met[d] \cup {c} ELSE met[d]]
    /\ UNCHANGED result

\* A request that its first step answers.
BeginAndEnd(c, o, res) ==
    /\ Arrives(c)
    /\ op' = [op EXCEPT ![c] = o]
    /\ pc' = [pc EXCEPT ![c] = "done"]
    /\ result' = [result EXCEPT ![c] = res]
    /\ UNCHANGED met

Goto(c, at) ==
    /\ pc' = [pc EXCEPT ![c] = at]
    /\ UNCHANGED <<op, result, met>>

End(c, res) ==
    /\ pc' = [pc EXCEPT ![c] = "done"]
    /\ result' = [result EXCEPT ![c] = res]
    /\ UNCHANGED <<op, met>>

\* Two calls of the given sets of operations overlapped.
Overlapped(ops1, ops2) ==
    \E c \in Calls : op[c] \in ops1 /\ \E d \in met[c] : op[d] \in ops2
=============================================================================
