---------------------------- MODULE MessageStack ----------------------------
(***************************************************************************)
(* What the list of cond_test1.c promises to the threads around it: an     *)
(* atomic stack.  One producer makes fresh messages and pushes them, the   *)
(* pool threads pop, and a message that is fresh, stacked or held by a     *)
(* thread is not made again before it is disposed of.                      *)
(***************************************************************************)
EXTENDS Sequences

CONSTANTS Pool, Blocks, Null

VARIABLES stack,   \* the messages pushed and not popped, the last one first
          fresh,   \* the message made and not pushed, or Null
          held,    \* the message each pool thread is processing, or Null
          open     \* the process is running

vars == <<stack, fresh, held, open>>

Live == {stack[i] : i \in DOMAIN stack} \cup {fresh} \cup {held[c] : c \in Pool}

Init == /\ stack = <<>>
        /\ fresh = Null
        /\ held = [c \in Pool |-> Null]
        /\ open = TRUE

Make == /\ fresh = Null
        /\ fresh' \in Blocks \ Live
        /\ UNCHANGED <<stack, held, open>>

Push == /\ fresh # Null
        /\ stack' = <<fresh>> \o stack
        /\ fresh' = Null
        /\ UNCHANGED <<held, open>>

Pop(c) == /\ stack # <<>>
          /\ held[c] = Null
          /\ held' = [held EXCEPT ![c] = Head(stack)]
          /\ stack' = Tail(stack)
          /\ UNCHANGED <<fresh, open>>

Dispose(c) == /\ held[c] # Null
              /\ held' = [held EXCEPT ![c] = Null]
              /\ UNCHANGED <<stack, fresh, open>>

Stop == open' = FALSE /\ UNCHANGED <<stack, fresh, held>>

Next == /\ open
        /\ Make \/ Push \/ Stop \/ \E c \in Pool : Pop(c) \/ Dispose(c)

Spec == Init /\ [][Next]_vars

=============================================================================
