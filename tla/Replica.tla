-------------------------------- MODULE Replica --------------------------------
(***************************************************************************)
(* What the shared server promises the game servers, without packets: who  *)
(* has been given the original holds, from then on, the values it had, one *)
(* after the other and none left out, until the connection ends.           *)
(***************************************************************************)
EXTENDS Naturals, Sequences

CONSTANTS Servers, Unknown

VARIABLES original, \* the value of the shared server
          due,      \* the values a server is still to take, the first of them next
          copy      \* the value of a server, Unknown before it was given one

vars == <<original, due, copy>>

Follows(s) == due[s] # <<>> \/ copy[s] # Unknown

Init ==
    /\ due = [s \in Servers |-> <<>>]
    /\ copy = [s \in Servers |-> Unknown]

\* The original changes, perhaps through one value in between, which is then
\* the same for every server.
Change ==
    /\ \A s \in Servers : ~Follows(s) => due'[s] = due[s]
    /\ \/ \A s \in Servers : Follows(s) => due'[s] = Append(due[s], original')
       \/ \A s \in Servers : Follows(s) =>
              /\ Len(due'[s]) = Len(due[s]) + 2
              /\ due'[s] = Append(Append(due[s], due'[s][Len(due[s]) + 1]), original')
              /\ \A t \in Servers : Follows(t) =>
                     due'[t][Len(due[t]) + 1] = due'[s][Len(due[s]) + 1]
    /\ UNCHANGED copy

\* A server that asks is given the value of this moment.
Give(s) ==
    /\ ~Follows(s)
    /\ due' = [due EXCEPT ![s] = <<original>>]
    /\ UNCHANGED <<original, copy>>

Take(s) ==
    /\ due[s] # <<>>
    /\ copy' = [copy EXCEPT ![s] = Head(due[s])]
    /\ due' = [due EXCEPT ![s] = Tail(due[s])]
    /\ UNCHANGED original

\* A connection ends.
Lose(s) ==
    /\ copy' = [copy EXCEPT ![s] = Unknown]
    /\ due' = [due EXCEPT ![s] = <<>>]
    /\ UNCHANGED original

\* The shared server ends or starts, and no server follows it.
Reset ==
    /\ copy' = [s \in Servers |-> Unknown]
    /\ due' = [s \in Servers |-> <<>>]

Next ==
    \/ \E s \in Servers : Give(s) \/ Take(s) \/ Lose(s)
    \/ Change
    \/ Reset

Spec == Init /\ [][Next]_vars
=============================================================================
